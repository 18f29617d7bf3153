------------------------------ MODULE PipeTasks ------------------------------
(***************************************************************************)
(* Tasks that share pipes through file descriptors: pipe, dup2, close,     *)
(* fork and exit keep the end counts of kernel/pipe.c, and read and write  *)
(* block on an empty or full pipe until task_wake_pipe (kernel/task.c,     *)
(* kernel/syscall.c).                                                      *)
(*                                                                         *)
(* A system call runs with interrupts masked, so a call is one step and    *)
(* the 128-byte chunks of one read or write add up to one transfer.  A     *)
(* blocked call returns -2 and the wrapper in user/lib/syscall.c issues it *)
(* again: "call" is the call a task still has to retry.  The order in      *)
(* which runnable tasks run is left open; Process models the scheduler.    *)
(***************************************************************************)
EXTENDS PipeOps, FiniteSetsExt

CONSTANTS
    Proc,         \* task slots
    PipeId,       \* slots of pipe.c's table: 1 .. MAX_PIPES
    MAX_FDS,      \* descriptors of a task: 0 .. MAX_FDS - 1
    FirstFd,      \* where task_fd_alloc starts looking
    CHUNK,        \* the bounce buffer of sys_read
    Lengths,      \* transfer lengths tried
    BadBuffer     \* whether a call may pass a buffer outside user space

ASSUME TasksAssumption ==
    /\ IsFiniteSet(Proc)
    /\ PipeId \subseteq Nat \ {0}
    /\ MAX_FDS \in Nat /\ FirstFd \in 0 .. MAX_FDS
    /\ CHUNK \in Nat \ {0} /\ Lengths \subseteq Nat \ {0}
    /\ BadBuffer \subseteq BOOLEAN

VARIABLES
    pipes,        \* pipe.c's table
    fds,          \* the descriptor table of each task
    task          \* the state of each task, what it waits on and retries

vars == <<pipes, fds, task>>

Fd == 0 .. MAX_FDS - 1

Closed == [kind |-> "UNUSED", pipe |-> 0]

Console == [kind |-> "NONE", pipe |-> 0]

Ends == [kind : {"PIPE_R", "PIPE_W"}, pipe : PipeId]

NoCall == [fd |-> -1, len |-> 0, nonblock |-> FALSE, bad |-> FALSE]

Calls == [fd : Fd, len : Lengths, nonblock : BOOLEAN, bad : BadBuffer]

Dead == [state |-> "UNUSED", obj |-> 0, call |-> NoCall]

Fresh == [state |-> "RUNNABLE", obj |-> 0, call |-> NoCall]

TypeOK ==
    /\ pipes \in [PipeId -> PipeRecord]
    /\ fds \in [Proc -> [Fd -> Ends \cup {Closed, Console}]]
    /\ task \in [Proc -> [state : {"UNUSED", "RUNNABLE", "WAITING", "STOPPED"},
                          obj : PipeId \cup {0}, call : Calls \cup {NoCall}]]

-----------------------------------------------------------------------------
\* The functions of task.c on the state S = [pipes, fds, task].

Now == [pipes |-> pipes, fds |-> fds, task |-> task]

Becomes(S) == pipes' = S.pipes /\ fds' = S.fds /\ task' = S.task

\* Mutant: only readers are woken.
task_wake_pipe_half(S, k) ==
    [S EXCEPT !.task = [q \in Proc |->
        IF /\ S.task[q].state = "WAITING" /\ S.task[q].obj = k
           /\ S.fds[q][S.task[q].call.fd].kind = "PIPE_R"
        THEN [S.task[q] EXCEPT !.state = "RUNNABLE", !.obj = 0] ELSE S.task[q]]]

task_wake_pipe(S, k) ==
    [S EXCEPT !.task = [q \in Proc |->
        IF S.task[q].state = "WAITING" /\ S.task[q].obj = k
        THEN [S.task[q] EXCEPT !.state = "RUNNABLE", !.obj = 0] ELSE S.task[q]]]

task_fd_ref(P, f) ==
    CASE f.kind = "PIPE_R" -> [P EXCEPT ![f.pipe] = pipe_ref_read(@)]
      [] f.kind = "PIPE_W" -> [P EXCEPT ![f.pipe] = pipe_ref_write(@)]
      [] OTHER -> P

task_fd_drop(P, f) ==
    CASE f.kind = "PIPE_R" -> [P EXCEPT ![f.pipe] = pipe_close_read(@)]
      [] f.kind = "PIPE_W" -> [P EXCEPT ![f.pipe] = pipe_close_write(@)]
      [] OTHER -> P

\* Mutant: the peers of a closed end are not woken.
task_fd_close_silent(S, p, fd) ==
    [S EXCEPT !.pipes = task_fd_drop(S.pipes, S.fds[p][fd]),
              !.fds[p][fd] = Closed]

task_fd_close(S, p, fd) ==
    LET f == S.fds[p][fd]
        R == [S EXCEPT !.pipes = task_fd_drop(S.pipes, f), !.fds[p][fd] = Closed]
    IN IF f \in Ends THEN task_wake_pipe(R, f.pipe) ELSE R

\* The loops of fork and exit over a descriptor table, in order: a copied table
\* is counted, the table of task p is closed.
RefAll(P, table) ==
    LET after[n \in 0 .. MAX_FDS] ==
          IF n = 0 THEN P ELSE task_fd_ref(after[n - 1], table[n - 1])
    IN after[MAX_FDS]

CloseAll(S, p) ==
    LET after[n \in 0 .. MAX_FDS] ==
          IF n = 0 THEN S ELSE task_fd_close(after[n - 1], p, n - 1)
    IN after[MAX_FDS]

\* The descriptors task_fd_alloc may hand out; it takes the least.
FreeFds(p) == {fd \in FirstFd .. MAX_FDS - 1 : fds[p][fd] = Closed}

FreePipes == {k \in PipeId : ~pipes[k].used}

Runs(p) == task[p].state = "RUNNABLE"

Idle(p) == Runs(p) /\ task[p].call = NoCall

-----------------------------------------------------------------------------
Init ==
    /\ pipes = [k \in PipeId |-> FreePipe]
    /\ \E p \in Proc :
          /\ task = [q \in Proc |-> IF q = p THEN Fresh ELSE Dead]
          /\ fds = [q \in Proc |-> [fd \in Fd |->
                      IF q = p /\ fd < FirstFd THEN Console ELSE Closed]]

\* sys_pipe: both ends go to the two least free descriptors.  With fewer than
\* two left, the new pipe is closed again; with a bad array, so are both
\* descriptors.
PipeCall(p, bad) ==
    /\ Idle(p)
    /\ FreePipes # {}
    /\ LET k == Min(FreePipes)
           born == [Now EXCEPT !.pipes[k] = NewPipe]
           free == FreeFds(p)
           r == Min(free)
           w == Min(free \ {r})
           open == [born EXCEPT !.fds[p][r] = [kind |-> "PIPE_R", pipe |-> k],
                                !.fds[p][w] = [kind |-> "PIPE_W", pipe |-> k]]
       IN IF Cardinality(free) < 2
          THEN Becomes([born EXCEPT !.pipes[k] = pipe_close_write(pipe_close_read(@))])
          ELSE Becomes(IF bad THEN task_fd_close(task_fd_close(open, p, r), p, w)
                       ELSE open)

CloseCall(p, fd) ==
    /\ Idle(p)
    /\ fds[p][fd] # Closed
    /\ Becomes(task_fd_close(Now, p, fd))

\* Mutant: the copied descriptor is counted before the old one is closed.
Dup2_early(p, old, new) ==
    /\ Idle(p)
    /\ fds[p][old] # Closed /\ old # new
    /\ Becomes([Now EXCEPT !.pipes = task_fd_ref(pipes, fds[p][old]),
                           !.fds[p][new] = fds[p][old]])

\* task_fd_dup2: what newfd held is closed first, whatever it was.
Dup2(p, old, new) ==
    /\ Idle(p)
    /\ fds[p][old] # Closed /\ old # new
    /\ LET S == IF fds[p][new] = Closed THEN Now ELSE task_fd_close(Now, p, new)
       IN Becomes([S EXCEPT !.fds[p][new] = S.fds[p][old],
                            !.pipes = task_fd_ref(S.pipes, S.fds[p][old])])

\* task_fork_current's copy of the descriptor table.
Fork(p, q) ==
    /\ Idle(p)
    /\ task[q].state = "UNUSED"
    /\ Becomes([pipes |-> RefAll(pipes, fds[p]),
                fds |-> [fds EXCEPT ![q] = fds[p]],
                task |-> [task EXCEPT ![q] = Fresh]])

\* task_force_exit, of the running task or, by a signal, of any other: every
\* descriptor is closed first, in order.
Exit(p) ==
    /\ task[p].state # "UNUSED"
    /\ Becomes([CloseAll(Now, p) EXCEPT !.task[p] = Dead])

-----------------------------------------------------------------------------
\* The task gives up the processor in a call it retries once it is woken.
Block(p, k, call) ==
    Becomes([Now EXCEPT !.task[p] = [state |-> "WAITING", obj |-> k, call |-> call]])

\* The call returns to the program.
Done(S, p) == [S EXCEPT !.task[p].call = NoCall]

\* sys_read on a read end.  A buffer outside user space is noticed after
\* the first chunk has left the ring, and that path returns without a wake-up.
sys_read(p, call) ==
    LET k == fds[p][call.fd].pipe
        n == ReadCount(pipes[k], call.len)
        m == ReadCount(pipes[k], Lesser(call.len, CHUNK))
    IN CASE n > 0 /\ ~call.bad ->
              Becomes(Done(task_wake_pipe([Now EXCEPT !.pipes[k] = pipe_read(@, n)], k), p))
         [] n > 0 /\ call.bad -> Becomes(Done([Now EXCEPT !.pipes[k] = pipe_read(@, m)], p))
         [] n = 0 /\ (~pipe_has_writers(pipes[k]) \/ call.nonblock) -> Becomes(Done(Now, p))
         [] OTHER -> Block(p, k, call)

\* sys_write on a write end: -1 for a bad buffer, SIGPIPE and EPIPE without
\* readers, else what fits, and a block only when nothing does.
sys_write(p, call) ==
    LET k == fds[p][call.fd].pipe
        n == WriteCount(pipes[k], call.len)
        src == [i \in 1 .. n |-> Zero]
    IN CASE call.bad \/ ~pipe_has_readers(pipes[k]) -> Becomes(Done(Now, p))
         [] ~call.bad /\ pipe_has_readers(pipes[k]) /\ n > 0 ->
              Becomes(Done(task_wake_pipe([Now EXCEPT !.pipes[k] = pipe_write(@, src)], k), p))
         [] ~call.bad /\ pipe_has_readers(pipes[k]) /\ n = 0 /\ call.nonblock ->
              Becomes(Done(Now, p))
         [] OTHER -> Block(p, k, call)

Transfer(p, call) ==
    \/ fds[p][call.fd].kind = "PIPE_R" /\ sys_read(p, call)
    \/ fds[p][call.fd].kind = "PIPE_W" /\ sys_write(p, call)

Begin(p, call) == Idle(p) /\ Transfer(p, call)

\* A woken task still has its call to issue again.
Owes(p) == Runs(p) /\ task[p].call # NoCall

Retry(p) == Owes(p) /\ Transfer(p, task[p].call)

\* task_signal_wake_waiter: a signal makes a blocked call return EINTR or,
\* under SA_RESTART, leaves it to be retried.
Interrupt(p, restart) ==
    /\ task[p].state = "WAITING"
    /\ Becomes([Now EXCEPT !.task[p] = [state |-> "RUNNABLE", obj |-> 0,
                  call |-> IF restart THEN task[p].call ELSE NoCall]])

\* SIGSTOP ends the wait; the call is retried after SIGCONT.
Stop(p) ==
    /\ task[p].state \in {"RUNNABLE", "WAITING"}
    /\ Becomes([Now EXCEPT !.task[p].state = "STOPPED", !.task[p].obj = 0])

Continue(p) ==
    /\ task[p].state = "STOPPED"
    /\ Becomes([Now EXCEPT !.task[p].state = "RUNNABLE"])

Next ==
    \E p \in Proc :
       \/ \E bad \in BadBuffer : PipeCall(p, bad)
       \/ \E fd \in Fd : CloseCall(p, fd)
       \/ \E old, new \in Fd : Dup2(p, old, new)
       \/ \E q \in Proc : Fork(p, q)
       \/ Exit(p)
       \/ \E call \in Calls : Begin(p, call)
       \/ Retry(p)
       \/ \E restart \in BOOLEAN : Interrupt(p, restart)
       \/ Stop(p)
       \/ Continue(p)

Spec == Init /\ [][Next]_vars

\* Weak fairness of every Retry(p), whose enabling condition is Owes(p): a runnable
\* task is run again, as Process shows of the scheduler.
FairSpec == Spec /\ \A p \in Proc : []<>~Owes(p) \/ []<><<Retry(p)>>_vars

-----------------------------------------------------------------------------
\* poll_fd_revents on a pipe end.
PollIn(f) == pipes[f.pipe].count > 0 \/ ~pipe_has_writers(pipes[f.pipe])

PollOut(f) == ~pipe_has_readers(pipes[f.pipe])
              \/ WriteCount(pipes[f.pipe], PIPE_CAPACITY) > 0

\* The open descriptors of one kind on pipe k.
Holders(kind, k) == {h \in Proc \X Fd : fds[h[1]][h[2]] = [kind |-> kind, pipe |-> k]}

\* The end counts of every pipe are the numbers of descriptors that name its
\* ends, across pipe, dup2, fork, close and exit, and a pipe that no descriptor
\* names is free: none is leaked and none is reused under a live descriptor
\* (task_fd_ref and task_fd_drop).
CountsAreDescriptors ==
    \A k \in PipeId :
       /\ pipes[k].readers = Cardinality(Holders("PIPE_R", k))
       /\ pipes[k].writers = Cardinality(Holders("PIPE_W", k))
       /\ pipes[k].used <=> Holders("PIPE_R", k) \cup Holders("PIPE_W", k) # {}

\* A task sleeps on a pipe only while its call would block again: the pipe is
\* empty and has a writer, or full and has a reader.  task_wake_pipe is called
\* wherever that could change, and poll (poll_fd_revents) calls no such end ready.
NoLostWakeup ==
    /\ TypeOK
    /\ \A p \in Proc : task[p].state = "WAITING" =>
          LET f == fds[p][task[p].call.fd]
              pipe == pipes[task[p].obj]
          IN \/ /\ f = [kind |-> "PIPE_R", pipe |-> task[p].obj] /\ ~PollIn(f)
                /\ pipe.count = 0 /\ pipe_has_writers(pipe)
             \/ /\ f = [kind |-> "PIPE_W", pipe |-> task[p].obj] /\ ~PollOut(f)
                /\ pipe.count = PIPE_CAPACITY /\ pipe_has_readers(pipe)

\* End of file and a broken pipe are final: until the pipe is released, an end
\* whose last descriptor is closed never gets one again, and no byte appears in a
\* pipe that nobody can write (pipe_ref_read, pipe_ref_write, task_fd_dup2, fork).
HangupIsFinal ==
    [][\A k \in PipeId : pipes[k].used /\ pipes'[k].used =>
          /\ pipes[k].writers = 0 => pipes'[k].writers = 0 /\ pipes'[k].count <= pipes[k].count
          /\ pipes[k].readers = 0 => pipes'[k].readers = 0]_vars

\* The end of the pipe a task has a call outstanding on has lost its peers.
HungUp(p) ==
    /\ task[p].call # NoCall
    /\ LET f == fds[p][task[p].call.fd]
       IN \/ f.kind = "PIPE_R" /\ ~pipe_has_writers(pipes[f.pipe])
          \/ f.kind = "PIPE_W" /\ ~pipe_has_readers(pipes[f.pipe])

\* A read or write whose peers have all gone, by close or by exit, returns (with
\* the rest of the data, end of file or EPIPE) unless a signal stops the task, and
\* what it saw is final.
HangupSeen ==
    /\ HangupIsFinal
    /\ \A p \in Proc : HungUp(p) ~> task[p].call = NoCall \/ task[p].state = "STOPPED"
=============================================================================
