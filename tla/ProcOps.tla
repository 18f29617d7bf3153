------------------------------- MODULE ProcOps -------------------------------
(***************************************************************************)
(* The task table of kernel/task.c and the functions that change several   *)
(* of its entries: notification, waking, reparenting, exit, reaping and    *)
(* signalling.  A table T maps slots to task_t records; the functions take *)
(* a table and return the table after the call.  Files and memory, which   *)
(* exit also gives up, are the subject of PipeTasks and ForkMemory.        *)
(***************************************************************************)
EXTENDS SignalOps

CONSTANT NSlots   \* MAX_TASKS

ASSUME SlotsAssumption == NSlots \in Nat \ {0}

Slots == 1 .. NSlots

\* init_pid: the first task.  task_reap_slot sets init_pid to -1 with the slot
\* of init, which the uses below see as no slot having this pid.
InitPid == 1

\* The system call a task returns to: none, or one that gave -2 and that the
\* wrapper in user/lib/syscall.c will issue again.  left is what remains of the
\* ticks asked of sleep.
NoCall == [op |-> "none", pid |-> 0, opts |-> {}, left |-> 0]

Unused ==
    [state |-> "UNUSED", pid |-> 0, ppid |-> 0, pgid |-> 0,
     wait_kind |-> "NONE", wait_pid |-> -1, wake |-> 0, tf |-> NoCall,
     pending |-> {}, queue |-> << >>, mask |-> {},
     act |-> [s \in Signals |-> DefaultAction],
     active |-> FALSE, saved_tf |-> NoCall, saved_mask |-> {},
     stop_report |-> FALSE, cont_report |-> FALSE]

Used(T) == {i \in Slots : T[i].state # "UNUSED"}
Live(T) == {i \in Used(T) : T[i].state # "ZOMBIE"}

\* task_by_pid, task_parent_of: a slot, 0 if there is none.
task_by_pid(T, pid) ==
    IF \E i \in Used(T) : T[i].pid = pid
    THEN CHOOSE i \in Used(T) : T[i].pid = pid ELSE 0

task_parent_of(T, i) == IF T[i].ppid <= 0 THEN 0 ELSE task_by_pid(T, T[i].ppid)

task_find_live_init(T) ==
    LET i == task_by_pid(T, InitPid) IN IF i \in Live(T) THEN i ELSE 0

task_wait_matches_filter(T, p, c, filter) ==
    /\ T[c].ppid = T[p].pid
    /\ CASE filter > 0  -> T[c].pid = filter
         [] filter = -1 -> TRUE
         [] filter = 0  -> T[c].pgid = T[p].pgid
         [] OTHER       -> T[c].pgid = -filter

\* The fields every wake-up clears, in task_t t.
Woken(t) == [t EXCEPT !.state = "RUNNABLE", !.wait_pid = -1, !.wait_kind = "NONE",
                      !.wake = 0]

task_notify_sigchld(T, c, ev) ==
    LET p == task_parent_of(T, c)
    IN IF p \notin Live(T)
          \/ (ev # "EXIT" /\ "SA_NOCLDSTOP" \in T[p].act[SIGCHLD].flags)
       THEN T ELSE [T EXCEPT ![p] = task_signal_enqueue(T[p], SIGCHLD)]

\* Mutant: only a parent that waits for any child is woken.
WakeWaitersOf_any(T, cs) ==
    [i \in Slots |->
       IF /\ T[i].state = "WAITING" /\ T[i].wait_kind = "CHILD" /\ T[i].wait_pid = -1
          /\ \E c \in cs : task_wait_matches_filter(T, i, c, T[i].wait_pid)
       THEN Woken(T[i]) ELSE T[i]]

\* task_wake_waiters for each child of cs.
WakeWaitersOf(T, cs) ==
    [i \in Slots |->
       IF /\ T[i].state = "WAITING" /\ T[i].wait_kind = "CHILD"
          /\ \E c \in cs : task_wait_matches_filter(T, i, c, T[i].wait_pid)
       THEN Woken(T[i]) ELSE T[i]]

task_wake_waiters(T, c) == WakeWaitersOf(T, {c})

task_sigchld_auto_reap(T, p) ==
    /\ p \in Live(T)
    /\ \/ T[p].act[SIGCHLD].handler = "SIG_IGN"
       \/ "SA_NOCLDWAIT" \in T[p].act[SIGCHLD].flags

task_reap_slot(T, i) == [T EXCEPT ![i] = Unused]

task_reap_sigchld_zombies(T, p) ==
    IF ~task_sigchld_auto_reap(T, p) THEN T
    ELSE [i \in Slots |-> IF T[i].state = "ZOMBIE" /\ T[i].ppid = T[p].pid
                          THEN Unused ELSE T[i]]

\* The event of child c that its parent has not waited for yet.
Event(T, c) == IF T[c].state = "ZOMBIE" THEN "EXIT"
               ELSE IF T[c].state = "STOPPED" /\ T[c].stop_report THEN "STOP"
               ELSE IF T[c].cont_report THEN "CONT" ELSE "NONE"

\* Mutant: children that are already zombies keep their dead parent.
task_reparent_children_live(T, old) ==
    [i \in Slots |-> IF i \in Live(T) /\ T[i].ppid = old
                     THEN [T[i] EXCEPT !.ppid = InitPid] ELSE T[i]]

\* The adopted children that init is told about.
Reported(T, kids) == {c \in kids : Event(T, c) # "NONE"}

\* The loop over the children of pid old: each gets init as its parent (-1 when
\* init is gone), and init hears of what it has not been told.
task_reparent_children(T, old) ==
    LET init == task_find_live_init(T)
        kids == {i \in Used(T) : T[i].ppid = old}
        adopted == [i \in Slots |->
                      IF i \in kids
                      THEN [T[i] EXCEPT !.ppid = IF init = 0 THEN -1 ELSE InitPid]
                      ELSE T[i]]
        reaped == {i \in kids : /\ T[i].state = "ZOMBIE"
                                /\ task_sigchld_auto_reap(T, init)}
        told == Reported(T, kids \ reaped)
        signalled == \E c \in told : \/ Event(T, c) = "EXIT"
                                     \/ "SA_NOCLDSTOP" \notin T[init].act[SIGCHLD].flags
        notified == IF signalled
                    THEN [adopted EXCEPT ![init] = task_signal_enqueue(T[init], SIGCHLD)]
                    ELSE adopted
        woken == WakeWaitersOf(notified, told)
    IN IF init = 0 THEN adopted
       ELSE [i \in Slots |-> IF i \in reaped THEN Unused ELSE woken[i]]

\* Exit of slot v, for whatever reason.
task_force_exit(T, v) ==
    LET zombie == [T EXCEPT ![v] =
                     [T[v] EXCEPT !.state = "ZOMBIE", !.wait_pid = -1, !.wait_kind = "NONE",
                                  !.wake = 0, !.pending = {}, !.queue = << >>, !.mask = {},
                                  !.active = FALSE, !.saved_mask = {},
                                  !.stop_report = FALSE, !.cont_report = FALSE]]
        told == task_notify_sigchld(zombie, v, "EXIT")
        done == task_wake_waiters(task_reparent_children(told, T[v].pid), v)
    IN IF v \notin Live(T) THEN T
       ELSE IF task_sigchld_auto_reap(T, task_parent_of(T, v))
       THEN task_reap_slot(done, v) ELSE done

\* Mutant: a task without a parent counts as one whose parent is alive.
task_reap_orphan_zombies_keep(T, exclude) ==
    IF task_find_live_init(T) # 0 THEN T
    ELSE [i \in Slots |->
            IF /\ i # exclude /\ T[i].state = "ZOMBIE" /\ T[i].ppid > 0
               /\ task_parent_of(T, i) \notin Live(T)
            THEN Unused ELSE T[i]]

\* The fallback for zombies nobody can wait for, run on every switch.
task_reap_orphan_zombies(T, exclude) ==
    IF task_find_live_init(T) # 0 THEN T
    ELSE [i \in Slots |->
            IF /\ i # exclude /\ T[i].state = "ZOMBIE"
               /\ task_parent_of(T, i) \notin Live(T)
            THEN Unused ELSE T[i]]

task_parent_has_child_sigchld_event(T, p) ==
    \E c \in Used(T) :
       /\ T[c].ppid = T[p].pid
       /\ \/ Event(T, c) = "EXIT"
          \/ /\ "SA_NOCLDSTOP" \notin T[p].act[SIGCHLD].flags
             /\ Event(T, c) # "NONE"

\* What wait and sigaction end with: no child event left, no SIGCHLD left.
DropStaleSigchld(T, p) ==
    IF task_parent_has_child_sigchld_event(T, p) THEN T
    ELSE [T EXCEPT ![p] = task_signal_clear_pending(T[p], SIGCHLD)]

-----------------------------------------------------------------------------
\* Mutant: only a sleeping call is interrupted.
task_signal_wake_waiter_sleep(t, restart) ==
    IF t.state # "WAITING" \/ t.wait_kind # "SLEEP" THEN t
    ELSE [Woken(t) EXCEPT !.tf = NoCall]

\* Mutant: every kind of wait restarts, sleep included.
task_signal_wake_waiter_restart(t, restart) ==
    IF t.state # "WAITING" THEN t
    ELSE [Woken(t) EXCEPT !.tf = IF restart THEN t.tf ELSE NoCall]

\* A blocked task made runnable by a signal: its call is retried only if it is
\* one that restarts and the handler asks for it, else it returns EINTR.
task_signal_wake_waiter(t, restart) ==
    IF t.state # "WAITING" THEN t
    ELSE [Woken(t) EXCEPT !.tf = IF restart /\ t.wait_kind # "SLEEP" THEN t.tf ELSE NoCall]

\* Stop and continue as task_signal_one and delivery do them.
StopTask(T, v) ==
    IF T[v].state = "STOPPED" THEN T
    ELSE LET s == [T EXCEPT ![v] =
                     [T[v] EXCEPT !.state = "STOPPED", !.wait_pid = -1, !.wait_kind = "NONE",
                                  !.wake = 0, !.cont_report = FALSE, !.stop_report = TRUE]]
         IN task_wake_waiters(task_notify_sigchld(s, v, "STOP"), v)

ContTask(T, v) ==
    IF T[v].state # "STOPPED" THEN T
    ELSE LET s == [T EXCEPT ![v] =
                     [T[v] EXCEPT !.state = "RUNNABLE", !.cont_report = TRUE,
                                  !.stop_report = FALSE]]
         IN task_wake_waiters(task_notify_sigchld(s, v, "CONT"), v)

\* Only init signals init.
InitPolicy(T, from, v) == T[v].pid = InitPid /\ T[from].pid # InitPid

\* Signal sig from slot from to slot v.
task_signal_one(T, from, v, sig) ==
    LET queued == [T EXCEPT ![v] = task_signal_enqueue(T[v], sig)]
        act == T[v].act[sig]
        Wake(U, restart) == [U EXCEPT ![v] = task_signal_wake_waiter(U[v], restart)]
    IN IF v \notin Live(T) \/ InitPolicy(T, from, v) THEN T
       ELSE IF sig = SIGKILL THEN task_force_exit(T, v)
       ELSE IF act.handler = "SIG_IGN" /\ sig # SIGSTOP THEN T
       ELSE IF task_signal_blocked(T[v], sig) THEN queued
       ELSE IF sig = SIGCONT THEN Wake(ContTask(queued, v), TRUE)
       ELSE IF sig = SIGSTOP THEN StopTask(queued, v)
       ELSE Wake(queued, act.handler # "SIG_DFL" /\ "SA_RESTART" \in act.flags)
=============================================================================
