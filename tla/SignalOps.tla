------------------------------ MODULE SignalOps ------------------------------
(***************************************************************************)
(* The signal state of one task (kernel/task.c): the pending bit mask, the *)
(* ordered queue beside it, the blocked mask and the dispositions.         *)
(* SIGHUP, SIGINT, SIGQUIT and SIGPIPE have the behaviour of SIGTERM and   *)
(* are represented by it.                                                  *)
(***************************************************************************)
EXTENDS Integers, Sequences, FiniteSets

SIGKILL == 9
SIGTERM == 15
SIGCHLD == 17
SIGCONT == 18
SIGSTOP == 19

Signals == {SIGKILL, SIGTERM, SIGCHLD, SIGCONT, SIGSTOP}
Unblockable == {SIGKILL, SIGSTOP}

\* sigaction: the handler kind, the flags and the extra mask of one signal.
\* "bad" is a handler whose address or restorer delivery refuses.
Handlers == {"SIG_DFL", "SIG_IGN", "fn", "bad"}
Flags == {"SA_RESTART", "SA_NODEFER", "SA_RESETHAND", "SA_NOCLDSTOP", "SA_NOCLDWAIT"}
Action == [handler : Handlers, flags : SUBSET Flags, mask : SUBSET Signals]
DefaultAction == [handler |-> "SIG_DFL", flags |-> {}, mask |-> {}]

\* The fields of task_t below are: pending (bit mask), queue, mask, act.

\* The queue q without the signals of S, in order: the loop over the queue, each
\* pass of which removes an entry or goes on to the next one.
Without(q, S) ==
    LET kept[n \in 0 .. Len(q)] ==
          IF n = 0 THEN << >>
          ELSE IF q[n] \in S THEN kept[n - 1] ELSE Append(kept[n - 1], q[n])
    IN kept[Len(q)]

Cleared(t, S) == [t EXCEPT !.pending = t.pending \ S, !.queue = Without(t.queue, S)]

task_signal_clear_pending(t, sig) == Cleared(t, {sig})

\* Mutant: a continue leaves an old stop pending.
Opposite_stop(sig) == IF sig = SIGSTOP THEN {SIGCONT} ELSE {}

\* The signal that a new sig cancels.
Opposite(sig) == CASE sig = SIGCONT -> {SIGSTOP}
                   [] sig = SIGSTOP -> {SIGCONT}
                   [] OTHER -> {}

\* Queues sig once, after dropping the signal it cancels.
task_signal_enqueue(t, sig) ==
    LET u == Cleared(t, Opposite(sig))
    IN IF sig \in u.pending THEN u
       ELSE [u EXCEPT !.pending = u.pending \union {sig}, !.queue = Append(u.queue, sig)]

task_signal_blocked(t, sig) == sig \notin Unblockable /\ sig \in t.mask

Least(S) == CHOOSE x \in S : \A y \in S : x <= y

\* task_pick_pending_unblocked: the first unblocked signal of the queue, else the
\* lowest unblocked one of the bit mask, 0 if none.
PickSignal(t) ==
    LET ready == {i \in 1 .. Len(t.queue) :
                    t.queue[i] \in t.pending /\ ~task_signal_blocked(t, t.queue[i])}
        rest == {s \in t.pending : ~task_signal_blocked(t, s)}
    IN CASE ready # {} -> t.queue[Least(ready)]
         [] ready = {} /\ rest # {} -> Least(rest)
         [] OTHER -> 0

\* The default action that neither stops, continues nor ignores is to terminate.
task_signal_default_action(sig) ==
    CASE sig = SIGCHLD -> "IGNORE" [] sig = SIGSTOP -> "STOP"
      [] sig = SIGCONT -> "CONT"   [] OTHER -> "TERM"

\* exec: nothing pending, caught handlers back to default, ignored ones kept.
task_reset_signal_state_for_exec(t) ==
    [t EXCEPT !.pending = {}, !.queue = << >>, !.active = FALSE, !.saved_mask = {},
              !.act = [s \in Signals |->
                         IF t.act[s].handler = "SIG_IGN"
                         THEN [DefaultAction EXCEPT !.handler = "SIG_IGN"]
                         ELSE DefaultAction],
              !.mask = t.mask \ Unblockable]

\* The pending bit mask and the queue say the same, and no queued signal is one
\* that task_signal_enqueue cancels or that is never queued.
QueueMatchesMask(t) ==
    /\ t.pending = {t.queue[i] : i \in 1 .. Len(t.queue)}
    /\ Cardinality(t.pending) = Len(t.queue)
    /\ ~({SIGSTOP, SIGCONT} \subseteq t.pending)
    /\ SIGKILL \notin t.pending
    /\ t.mask \intersect Unblockable = {}
=============================================================================
