------------------------------ MODULE MCProcess ------------------------------
(* Repertoires of system calls for the model-checking runs of Process.     *)
EXTENDS Process

Any(opts) == [pid |-> -1, opts |-> opts]
One(p, opts) == [pid |-> p, opts |-> opts]
To(p, s) == [pid |-> p, sig |-> s]
On(s, h, flags) == [sig |-> s, act |-> [handler |-> h, flags |-> flags, mask |-> {}]]
OwnGroup == [pid |-> 0, pgid |-> 0]

Quiet == [pids |-> 2, waits |-> {}, sleeps |-> {}, kills |-> {}, groups |-> {},
          actions |-> {}, masks |-> {}, exec |-> FALSE]

\* Lifecycle: exits, kills, waits for any and for one child, auto-reaping.
Life == [Quiet EXCEPT
    !.pids = 4, !.waits = {Any({}), One(3, {}), Any({"NOHANG"})}, !.sleeps = {2},
    !.kills = {To(2, SIGKILL), To(3, SIGTERM), To(-1, SIGKILL), To(0, SIGKILL)},
    !.actions = {On(SIGCHLD, "SIG_IGN", {}), On(SIGCHLD, "SIG_DFL", {})}]

\* Job control: stop and continue of a job and its child, by pid and by group,
\* with and without SA_NOCLDSTOP, and waits for a pid that is nobody's.
Jobs == [Quiet EXCEPT
    !.pids = 3, !.waits = {Any({"UNTRACED", "CONTINUED"}), One(4, {})},
    !.kills = {To(2, SIGSTOP), To(2, SIGCONT), To(3, SIGSTOP), To(0, SIGCONT), To(-2, SIGKILL)},
    !.groups = {OwnGroup}, !.masks = {{SIGCHLD}},
    !.actions = {On(SIGCHLD, "SIG_DFL", {"SA_NOCLDSTOP"})}]

\* Handlers: caught, restarting, one-shot, nested and refused handlers, masks.
Caught == [Quiet EXCEPT
    !.waits = {Any({})}, !.masks = {{}, Signals}, !.exec = TRUE,
    !.kills = {To(2, SIGTERM), To(2, SIGCONT), To(2, SIGSTOP)},
    !.actions = {On(SIGTERM, "fn", {"SA_RESTART"}),
                 On(SIGCHLD, "fn", {"SA_NODEFER", "SA_RESETHAND"}), On(SIGCHLD, "bad", {})}]

\* Handlers that interrupt or restart a sleep.
Naps == [Quiet EXCEPT
    !.sleeps = {1}, !.kills = {To(2, SIGTERM), To(2, SIGCONT)},
    !.actions = {On(SIGTERM, "fn", {"SA_RESTART"}), On(SIGCONT, "fn", {})}]

AllCalls == {Life, Jobs, Caught, Naps}

\* Scheduling: exits, kills and sleeps, with init going first or last.
Plain == [Quiet EXCEPT !.pids = 4, !.waits = {Any({})}, !.sleeps = {1},
                       !.kills = {To(2, SIGKILL), To(3, SIGTERM)}]

\* Sleeps that signals with and without a handler interrupt, and stops.
Interrupted == [Quiet EXCEPT !.sleeps = {2},
    !.kills = {To(2, SIGTERM), To(2, SIGSTOP), To(2, SIGCONT)},
    !.actions = {On(SIGTERM, "fn", {"SA_RESTART"})}]

Sched == {Plain, Interrupted}

\* A group kill by a member whose parent ignores SIGCHLD, and a stopped sleeper.
Refuted == {Interrupted, [Quiet EXCEPT !.pids = 4, !.kills = {To(0, SIGKILL)},
                          !.groups = {OwnGroup},
                          !.actions = {On(SIGCHLD, "SIG_IGN", {})}]}
=============================================================================
