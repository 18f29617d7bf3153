------------------------------- MODULE Process -------------------------------
(***************************************************************************)
(* Processes: fork, exit, wait, sleep, kill, signals, process groups and   *)
(* the round-robin scheduler of kernel/task.c, with the retry loops of     *)
(* user/lib/syscall.c.  The machine has one core and the kernel runs with  *)
(* interrupts masked, so a trap is one step, except where the kernel loops *)
(* over tasks: the group kill, the delivery of signals to the task that is *)
(* about to run, and the wait for a sleeper.                               *)
(***************************************************************************)
EXTENDS ProcOps

\* What programs may do is bounded by repertoires of calls: pids is the bound on
\* next_pid, waits the [pid, opts] of wait (opts holds "NOHANG", "UNTRACED",
\* "CONTINUED"), sleeps the ticks asked of sleep, kills the [pid, sig] of kill,
\* groups the [pid, pgid] of setpgid, actions the [sig, act] of sigaction, masks
\* the masks of sigprocmask, and exec whether tasks exec.
CONSTANT Repertoires

Options == {"NOHANG", "UNTRACED", "CONTINUED"}

Repertoire ==
    [pids : Nat \ {0}, waits : SUBSET [pid : Int, opts : SUBSET Options],
     sleeps : SUBSET Nat, kills : SUBSET [pid : Int, sig : Signals],
     groups : SUBSET [pid : Int, pgid : Int],
     actions : SUBSET [sig : Signals, act : Action],
     masks : SUBSET SUBSET Signals, exec : BOOLEAN]

ASSUME RepertoireAssumption == Repertoires \subseteq Repertoire

VARIABLES
    task,       \* the task table
    cur,        \* the slot of current_task_ptr
    pc,         \* "user", "kill", "deliver", "idle" or "idle_late"
    nxt,        \* in "deliver": the task about to run
    killing,    \* in "kill": the arguments, the next slot, and who was meant
    next_pid,
    calls       \* the repertoire of the programs that run

vars == <<task, cur, pc, nxt, killing, next_pid, calls>>

NotKilling == [pid |-> 0, sig |-> 0, i |-> 0, targets |-> {}]

self == task[cur]

Init ==
    /\ task = [i \in Slots |->
                 IF i = 1 THEN [Unused EXCEPT !.state = "RUNNING", !.pid = InitPid,
                                              !.pgid = InitPid]
                 ELSE Unused]
    /\ cur = 1 /\ pc = "user" /\ nxt = 0 /\ killing = NotKilling
    /\ next_pid = InitPid + 1
    /\ calls \in Repertoires

-----------------------------------------------------------------------------
\* Mutant: the search always starts at the first slot.
task_next_runnable_first(T, from) ==
    LET ready == {i \in Slots : T[i].state = "RUNNABLE"}
    IN IF ready # {} THEN Least(ready) ELSE 0

\* The runnable slot after from, round robin; 0 if none.
task_next_runnable(T, from) ==
    LET ready == {i \in Slots : T[i].state = "RUNNABLE"}
        after == {i \in ready : i > from}
    IN IF after # {} THEN Least(after) ELSE IF ready # {} THEN Least(ready) ELSE 0

\* task_schedule_from_trap up to the choice of the next task.
Reschedule(T, force) ==
    LET preempted == IF T[cur].state = "RUNNING"
                     THEN [T EXCEPT ![cur].state = "RUNNABLE"] ELSE T
        kept == task_reap_orphan_zombies(preempted, cur)
        n == IF ~force /\ kept[cur].state = "RUNNABLE" THEN cur
             ELSE task_next_runnable(kept, cur)
    IN /\ task' = kept
       /\ nxt' = n
       /\ pc' = IF n = 0 THEN "idle" ELSE "deliver"
       /\ killing' = NotKilling
       /\ UNCHANGED cur

\* The tail of task_schedule_from_trap: task n runs, with table T.
SwitchTo(T, n) == /\ task' = [T EXCEPT ![n].state = "RUNNING"]
                  /\ cur' = n /\ nxt' = 0 /\ pc' = "user"

\* The delivery loop goes on with the next candidate after n.
TryAfter(T, n) == /\ task' = T
                  /\ nxt' = task_next_runnable(T, n)
                  /\ pc' = IF task_next_runnable(T, n) = 0 THEN "idle_late" ELSE "deliver"
                  /\ UNCHANGED cur

\* The current task is in user mode, not about to retry a call.
InUser == pc = "user" /\ self.tf.op = "none"

-----------------------------------------------------------------------------
\* The budget and the memory of fork are in ForkMemory; the child inherits the
\* signal dispositions and mask and has nothing pending.
Fork ==
    /\ InUser /\ next_pid <= calls.pids
    /\ \E i \in Slots \ Used(task) :
         /\ i = Least(Slots \ Used(task))
         /\ Reschedule([task EXCEPT ![i] =
                          [Unused EXCEPT !.state = "RUNNABLE", !.pid = next_pid,
                                         !.ppid = self.pid, !.pgid = self.pgid,
                                         !.mask = self.mask \ Unblockable,
                                         !.act = self.act]], FALSE)
    /\ next_pid' = next_pid + 1
    /\ UNCHANGED calls

\* sys_exit, and the exit of a task whose fault is not handled.
Exit == /\ InUser
        /\ Reschedule(task_force_exit(task, cur), TRUE)
        /\ UNCHANGED <<next_pid, calls>>

\* Mutant: reaping one child forgets SIGCHLD for the others.
AfterCollect_clear(T, p) == [T EXCEPT ![p] = task_signal_clear_pending(T[p], SIGCHLD)]

\* task_wait takes the event of child c.
Collect(T, c) ==
    CASE Event(T, c) = "EXIT" -> task_reap_slot(T, c)
      [] Event(T, c) = "STOP" -> [T EXCEPT ![c].stop_report = FALSE]
      [] OTHER -> [T EXCEPT ![c].cont_report = FALSE]

AfterCollect(T, p) == DropStaleSigchld(T, p)

\* The children of the current task that a wait names, and those of them that it
\* may report with its options.
Children(call) == {c \in Used(task) : task_wait_matches_filter(task, cur, c, call.pid)}

Waitable(call) ==
    {c \in Children(call) : \/ Event(task, c) = "EXIT"
                            \/ Event(task, c) = "STOP" /\ "UNTRACED" \in call.opts
                            \/ Event(task, c) = "CONT" /\ "CONTINUED" \in call.opts}

\* Blocking in a call, which returns -2.
Block(kind, call) ==
    [task EXCEPT ![cur] =
       [self EXCEPT !.state = "WAITING", !.wait_kind = kind, !.tf = call,
                    !.wait_pid = IF kind = "CHILD" THEN call.pid ELSE @,
                    !.wake = call.left]]

Returned(T) == [T EXCEPT ![cur].tf = NoCall]

task_wait(call) ==
    IF Waitable(call) # {}
    THEN Reschedule(Returned(AfterCollect(Collect(task, Least(Waitable(call))), cur)), FALSE)
    ELSE IF Children(call) = {}
    THEN Reschedule(Returned([task EXCEPT ![cur] =
                                task_signal_clear_pending(self, SIGCHLD)]), FALSE)
    ELSE IF "NOHANG" \in call.opts THEN Reschedule(Returned(task), FALSE)
    ELSE Reschedule(Block("CHILD", call), TRUE)

Wait == /\ InUser
        /\ \E w \in calls.waits :
             task_wait([op |-> "wait", pid |-> w.pid, opts |-> w.opts, left |-> 0])
        /\ UNCHANGED <<next_pid, calls>>

Sleep == /\ InUser
         /\ \E n \in calls.sleeps :
              Reschedule(Block("SLEEP", [NoCall EXCEPT !.op = "sleep", !.left = n]), TRUE)
         /\ UNCHANGED <<next_pid, calls>>

\* The wrapper issues the call that returned -2 again: wait with the same
\* arguments, sleep with 0 ticks, which returns 0.
Retry == /\ pc = "user" /\ self.tf.op # "none"
         /\ IF self.tf.op = "wait" THEN task_wait(self.tf)
            ELSE Reschedule(Returned(task), FALSE)
         /\ UNCHANGED <<next_pid, calls>>

-----------------------------------------------------------------------------
\* kill of one process.
Kill == /\ InUser
        /\ \E k \in calls.kills :
             /\ k.pid > 0
             /\ Reschedule(IF task_by_pid(task, k.pid) = 0 THEN task
                           ELSE task_signal_one(task, cur, task_by_pid(task, k.pid), k.sig),
                           TRUE)
        /\ UNCHANGED <<next_pid, calls>>

\* The slots a kill of a group or of everybody names, in table T.
Targets(T, pid) ==
    {v \in Used(T) : CASE pid = 0  -> T[v].pgid = T[cur].pgid
                       [] pid = -1 -> T[v].pid # InitPid
                       [] OTHER    -> T[v].pgid = -pid}

KillGroup == /\ InUser
             /\ \E k \in calls.kills :
                  /\ k.pid <= 0
                  /\ killing' = [pid |-> k.pid, sig |-> k.sig, i |-> 1,
                                 targets |-> {task[v].pid : v \in Targets(task, k.pid)}]
             /\ pc' = "kill"
             /\ UNCHANGED <<task, cur, nxt, next_pid, calls>>

\* One round of the loop of task_kill, which looks at each slot when it gets
\* to it; the rounds that skip a slot change nothing.
KillStep ==
    /\ pc = "kill"
    /\ LET rest == {v \in Targets(task, killing.pid) : v >= killing.i}
       IN IF rest = {} THEN Reschedule(task, TRUE)
          ELSE /\ task' = task_signal_one(task, cur, Least(rest), killing.sig)
               /\ killing' = [killing EXCEPT !.i = Least(rest) + 1]
               /\ UNCHANGED <<cur, pc, nxt>>
    /\ UNCHANGED <<next_pid, calls>>

\* setpgid of the caller or of a child of the caller, into its own group or one
\* that exists.
Setpgid ==
    /\ InUser
    /\ \E g \in calls.groups :
         LET v == IF g.pid = 0 THEN cur ELSE task_by_pid(task, g.pid)
             pgid == IF g.pgid = 0 THEN task[v].pid ELSE g.pgid
         IN /\ v \in Live(task)
            /\ v = cur \/ task[v].ppid = self.pid
            /\ pgid = task[v].pid \/ \E i \in Used(task) : task[i].pgid = pgid
            /\ Reschedule([task EXCEPT ![v].pgid = pgid], FALSE)
    /\ UNCHANGED <<next_pid, calls>>

Sigaction ==
    /\ InUser
    /\ \E a \in calls.actions :
         LET set == [task EXCEPT ![cur].act[a.sig] = a.act]
         IN /\ a.sig \notin Unblockable
            /\ Reschedule(IF a.sig = SIGCHLD
                          THEN DropStaleSigchld(task_reap_sigchld_zombies(set, cur), cur)
                          ELSE set, FALSE)
    /\ UNCHANGED <<next_pid, calls>>

Sigprocmask == /\ InUser
               /\ \E m \in calls.masks : Reschedule([task EXCEPT ![cur].mask = m \ Unblockable], FALSE)
               /\ UNCHANGED <<next_pid, calls>>

Sigreturn ==
    /\ InUser /\ self.active
    /\ Reschedule([task EXCEPT ![cur] =
                     [self EXCEPT !.tf = self.saved_tf, !.mask = self.saved_mask,
                                  !.active = FALSE, !.saved_tf = NoCall,
                                  !.saved_mask = {}]], FALSE)
    /\ UNCHANGED <<next_pid, calls>>

Exec == /\ InUser /\ calls.exec
        /\ Reschedule([task EXCEPT ![cur] =
                         [task_reset_signal_state_for_exec(self) EXCEPT !.saved_tf = NoCall]],
                      FALSE)
        /\ UNCHANGED <<next_pid, calls>>

Yield == InUser /\ Reschedule(task, TRUE) /\ UNCHANGED <<next_pid, calls>>

-----------------------------------------------------------------------------
Less(n) == IF n = 0 THEN 0 ELSE n - 1

\* A timer tick passes for every sleeper and every sleep call.
Tick(T) ==
    [i \in Slots |-> [T[i] EXCEPT !.wake = Less(T[i].wake), !.tf.left = Less(T[i].tf.left),
                                  !.saved_tf.left = Less(T[i].saved_tf.left)]]

task_wake_sleepers(T) ==
    [i \in Slots |-> IF T[i].state = "WAITING" /\ T[i].wait_kind = "SLEEP" /\ T[i].wake = 0
                     THEN Woken(T[i]) ELSE T[i]]

\* The timer interrupt of user mode.
Timer == /\ pc = "user"
         /\ Reschedule(task_wake_sleepers(Tick(task)), TRUE)
         /\ UNCHANGED <<next_pid, calls>>

\* Nothing can run: the kernel polls the clock until a sleeper is due.
Idle ==
    /\ pc \in {"idle", "idle_late"}
    /\ LET T == task_wake_sleepers(Tick(task))
           n == task_next_runnable(T, cur)
       IN IF n = 0 THEN task' = T /\ UNCHANGED <<cur, pc, nxt>>
          ELSE IF pc = "idle_late" THEN SwitchTo(T, n)
          ELSE task' = T /\ nxt' = n /\ pc' = "deliver" /\ UNCHANGED cur
    /\ UNCHANGED <<killing, next_pid, calls>>

-----------------------------------------------------------------------------
\* Delivery to task nxt, one signal per step.
PickedTask == task_signal_clear_pending(task[nxt], PickSignal(task[nxt]))

Picked == [task EXCEPT ![nxt] = PickedTask]

\* The handler runs on return to user mode; the interrupted call is saved, to
\* be retried after sigreturn only with SA_RESTART.
EnterHandler(t, sig) ==
    LET a == t.act[sig]
    IN [t EXCEPT !.saved_tf = IF "SA_RESTART" \in a.flags THEN t.tf ELSE NoCall,
                 !.tf = NoCall, !.saved_mask = t.mask, !.active = TRUE,
                 !.act[sig] = IF "SA_RESETHAND" \in a.flags THEN DefaultAction ELSE a,
                 !.mask = (t.mask \union a.mask
                           \union (IF "SA_NODEFER" \in a.flags THEN {} ELSE {sig}))
                          \ Unblockable]

\* Mutant: a second handler may run on top of the first.
Nested_allowed(t) == FALSE

Nested(t) == t.active

task_deliver_pending_signal(sig) ==
    LET a == PickedTask.act[sig]
        dfl == task_signal_default_action(sig)
    IN IF \/ a.handler = "SIG_IGN"
          \/ a.handler = "SIG_DFL" /\ dfl \in {"IGNORE", "CONT"}
       THEN task' = (IF a.handler = "SIG_DFL" /\ dfl = "CONT" THEN ContTask(Picked, nxt)
                     ELSE Picked)
            /\ UNCHANGED <<cur, pc, nxt>>
       ELSE IF a.handler = "SIG_DFL" /\ dfl = "STOP" THEN TryAfter(StopTask(Picked, nxt), nxt)
       ELSE IF a.handler = "SIG_DFL" THEN TryAfter(task_force_exit(Picked, nxt), nxt)
       ELSE IF Nested(PickedTask)
       THEN SwitchTo([task EXCEPT ![nxt] = task_signal_enqueue(PickedTask, sig)], nxt)
       ELSE IF a.handler = "bad" THEN TryAfter(task_force_exit(Picked, nxt), nxt)
       ELSE SwitchTo([task EXCEPT ![nxt] = EnterHandler(PickedTask, sig)], nxt)

Deliver ==
    /\ pc = "deliver"
    /\ IF PickSignal(task[nxt]) = 0 THEN SwitchTo(task, nxt)
       ELSE task_deliver_pending_signal(PickSignal(task[nxt]))
    /\ UNCHANGED <<killing, next_pid, calls>>

Next == \/ Fork \/ Exit \/ Wait \/ Sleep \/ Retry \/ Kill \/ KillGroup \/ KillStep
        \/ Setpgid \/ Sigaction \/ Sigprocmask \/ Sigreturn \/ Exec \/ Yield
        \/ Timer \/ Idle \/ Deliver

Spec == Init /\ [][Next]_vars

\* The kernel finishes its loops, the idle loop sees the clock advance while there
\* is a sleeper, and the timer interrupts user mode again and again.  The last
\* three are WF of Deliver and Idle and SF of Timer with ENABLED written out: each
\* is enabled exactly when pc has its value.
Sleeper == \E i \in Slots : task[i].state = "WAITING" /\ task[i].wait_kind = "SLEEP"

FairSpec ==
    /\ Spec
    /\ WF_vars(KillStep)
    /\ []<>(pc # "deliver") \/ []<><<Deliver>>_vars
    /\ []<>(~(pc \in {"idle", "idle_late"} /\ Sleeper)) \/ []<><<Idle>>_vars
    /\ <>[](pc # "user") \/ []<><<Timer>>_vars

-----------------------------------------------------------------------------
TypeOK ==
    /\ \A i \in Slots :
         /\ task[i].state \in {"UNUSED", "RUNNABLE", "RUNNING", "WAITING", "STOPPED", "ZOMBIE"}
         /\ task[i].pid \in 0 .. calls.pids /\ task[i].ppid \in -1 .. calls.pids
         /\ task[i].wait_kind \in {"NONE", "CHILD", "SLEEP"}
         /\ task[i].act \in [Signals -> Action]
         /\ task[i].pending \subseteq Signals /\ task[i].mask \subseteq Signals
    /\ cur \in Slots /\ next_pid \in 2 .. calls.pids + 1
    /\ pc \in {"user", "kill", "deliver", "idle", "idle_late"}
    /\ (pc = "deliver") = (nxt # 0) /\ nxt \in 0 .. NSlots

\* No two tasks have a pid, only current_task_ptr is RUNNING, it is when user code
\* runs, the task chosen to run next is runnable, whatever delivery, exits and
\* reaping did between the choice and the switch, and a task names what it waits
\* for exactly while it waits, in a call that it will repeat.
OneRunner ==
    /\ TypeOK
    /\ \A i \in Slots :
         /\ (task[i].wait_kind # "NONE") = (task[i].state = "WAITING")
         /\ task[i].state = "WAITING" => task[i].tf.op # "none"
    /\ \A i, j \in Used(task) : task[i].pid = task[j].pid => i = j
    /\ \A i \in Slots : task[i].state = "RUNNING" => i = cur /\ pc \in {"user", "kill"}
    /\ pc = "user" => self.state = "RUNNING"
    /\ pc = "deliver" => task[nxt].state = "RUNNABLE"

\* A task whose ppid names a process has that process alive, to wait for it: the
\* exit of a parent hands over every child, zombies included, before its pid goes.
ChildHasLiveParent ==
    /\ OneRunner
    /\ \A c \in Used(task) : task[c].ppid > 0 => task_parent_of(task, c) \in Live(task)

\* A task blocked in wait for any child, or for one pid, has such a child, and no
\* event its options ask for is already there: exit, stop, continue and adoption by
\* init all wake the right waiter.
WaiterNotStuck ==
    \A p \in Slots :
       task[p].state = "WAITING" /\ task[p].wait_kind = "CHILD"
         /\ (task[p].wait_pid = -1 \/ task[p].wait_pid > 0) =>
       LET kids == {c \in Used(task) :
                      task_wait_matches_filter(task, p, c, task[p].wait_pid)}
       IN /\ kids # {}
          /\ \A c \in kids :
               /\ Event(task, c) # "EXIT"
               /\ Event(task, c) = "STOP" => "UNTRACED" \notin task[p].tf.opts
               /\ Event(task, c) = "CONT" => "CONTINUED" \notin task[p].tf.opts

\* The pending bit mask and the ordered queue agree in every task, hold at most one
\* of SIGSTOP and SIGCONT, and never SIGKILL.  A SIGSTOP that has taken effect does
\* not linger: it is pending only while the task is stopped, so a continued task
\* cannot be stopped again by an old SIGSTOP.
PendingSound ==
    \A i \in Slots : /\ QueueMatchesMask(task[i])
                     /\ SIGSTOP \in task[i].pending => task[i].state = "STOPPED"

Asleep(t) == t.state = "WAITING" /\ t.wait_kind = "SLEEP"

\* A sleeping task wakes up, whether other tasks keep the processor or none does,
\* and a task that still lives and leaves its sleep does so in one of three ways: its
\* ticks have passed, and the call returns 0; a signal is there for it, and the call
\* returns EINTR, with SA_RESTART or without; or it is stopped.  A stop forgets the
\* wake-up time but not that the call is to be issued again, so a sleeper that is
\* stopped and continued returns 0 early: SleepNotEarly.
SleepsRight ==
    /\ [][\A i \in Slots :
            Asleep(task[i]) /\ ~Asleep(task'[i]) /\ i \in Live(task') =>
              \/ task'[i].tf.op = "sleep" /\ task'[i].tf.left = 0
              \/ task'[i].tf.op = "none" /\ PickSignal(task'[i]) # 0
              \/ task'[i].state = "STOPPED"]_vars
    /\ \A i \in Slots : Asleep(task[i]) ~> ~Asleep(task[i])

\* A sleep that returns 0 has slept its ticks; interruption gives EINTR.
SleepNotEarly == pc = "user" /\ self.tf.op = "sleep" => self.tf.left = 0

\* A wait of the current task that names none of its children.
WaitForNoChild ==
    /\ pc = "user"
    /\ \E call \in {self.tf} \union
                   {[op |-> "wait", pid |-> w.pid, opts |-> w.opts, left |-> 0] : w \in calls.waits} :
         /\ call.op = "wait" /\ Children(call) = {}
         /\ task_wait(call)

\* SIGCHLD stays pending while a child still has something to report: collecting one
\* child or changing the action does not lose the notice of another.  Only delivery
\* and the end of the task take it; exec, which drops all that is pending; and a wait
\* that names no child of the caller, which clears it whatever other children have
\* to report.
SigchldKept ==
    [][\A i \in Slots :
         SIGCHLD \in task[i].pending /\ SIGCHLD \notin task'[i].pending =>
           \/ pc = "deliver" /\ nxt = i
           \/ i = cur /\ (Exec \/ WaitForNoChild)
           \/ i \notin Live(task')
           \/ ~task_parent_has_child_sigchld_event(task', i)]_vars

\* The one saved trap frame of a task is not overwritten while a handler runs: it is
\* the frame sigreturn goes back to.
SavedFrameKept ==
    [][\A i \in Slots :
         task[i].active /\ task'[i].active =>
           task'[i].saved_tf \in {task[i].saved_tf, Tick(task)[i].saved_tf}
           /\ task'[i].saved_mask = task[i].saved_mask]_vars

\* A SIGKILL for a group, or for everybody but init, leaves none of them alive when
\* the loop of task_kill is done.
KillReachesGroup ==
    pc = "kill" /\ killing.sig = SIGKILL
      /\ (\A v \in Targets(task, killing.pid) : v < killing.i) =>
    \A v \in Live(task) : task[v].pid \in killing.targets => task[v].pid = InitPid

\* A runnable task gets the processor: round robin starves nobody.
RunnableRuns == \A i \in Slots : task[i].state = "RUNNABLE" ~> task[i].state # "RUNNABLE"

\* A pending SIGTERM that is neither caught nor blocked ends the task, also one that
\* is blocked in wait or asleep; a stopped task ends once it is continued.
FatalSignalActs ==
    \A i \in Slots :
       (/\ SIGTERM \in task[i].pending /\ task[i].act[SIGTERM].handler = "SIG_DFL"
        /\ task[i].state # "STOPPED")
         ~> (SIGTERM \notin task[i].pending \/ task[i].state = "STOPPED")

\* While programs run, a zombie that no live parent can wait for (init is gone)
\* loses its slot.
OrphansReaped ==
    []<>(pc = "user") =>
    \A i \in Slots :
       (task[i].state = "ZOMBIE" /\ task[i].ppid <= 0) ~> task[i].state # "ZOMBIE"
=============================================================================
