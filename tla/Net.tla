-------------------------------- MODULE Net --------------------------------
(***************************************************************************)
(* Hosts that talk over TCP and UDP: programs make socket calls, the       *)
(* network delivers, loses, repeats and reorders packets, time-outs fire   *)
(* and an interface goes down and up.                                      *)
(*                                                                         *)
(* n is the state of TcpOps.  fd holds each host's descriptors: i the slot *)
(* (0: closed), id the socket it was opened on, and aged, whether the slot *)
(* was taken away by the end of TIME_WAIT.  eof marks sockets whose reader *)
(* was told the stream is over.  The system calls and the handler of a     *)
(* packet run with interrupts masked: each is one step.  A call that would *)
(* block is made again, so it is the same call at a later time; only a     *)
(* blocking read, and a send that has to ask for a hardware address, look  *)
(* at the network in the middle (of the latter, at one packet or time-out).*)
(***************************************************************************)
EXTENDS TcpOps

CONSTANTS Fds, Port, Ports,  \* descriptors, the server's port, ephemeral ports
          Starts,            \* initial values of n, fd and left
          Lens,              \* lengths written and read
          MaxPut             \* bytes written to a stream

\* left bounds a run: the calls its programs make (may), how many more of them,
\* and how often the network or an interface still fails.
VARIABLES n, fd, eof, left
vars == <<n, fd, eof, left>>

Closed == [i |-> 0, id |-> 0, aged |-> FALSE]

Init == /\ \E s \in Starts : n = s.n /\ fd = s.fd /\ left = s.left
        /\ eof = {}

-----------------------------------------------------------------------------
S(h, f) == n.s[h][fd[h][f].i]
Names(h, f, proto) == fd[h][f].i # 0 /\ S(h, f).proto = proto
May(h, call) == ~n.hung[h] /\ left.calls > 0 /\ call \in left.may[h] /\ left' = [left EXCEPT !.calls = @ - 1]
Fault == left.faults > 0 /\ left' = [left EXCEPT !.faults = @ - 1]
FreeFd(h) == FirstIn({f \in Fds : fd[h][f].i = 0})

\* When the timer has something to do for socket i, which is when Tick(h, i) is
\* enabled: a retransmission needs a way to the peer, and a device that takes it.
Due(h, i) ==
  LET s == n.s[h][i]
      out == s.peer = h \/ (n.up[h] /\ (n.tx[h] \/ s.peer \notin n.arp[h]))
  IN  /\ ~n.hung[h] /\ s.proto = "tcp"
      /\ \/ s.det /\ (s.st = "CLOSED" \/ s.err)
         \/ s.st = "TIME_WAIT"
         \/ s.tx.v /\ (s.tx.tries >= MaxRetries \/ out)

\* n with what may come up while h waits for a hardware address.
Begin(h) ==
  LET with(e, w) == [n EXCEPT !.ring = <<e>>, !.wire = w]
  IN  IF Host \subseteq n.arp[h] \cup {h} THEN {n}
      ELSE {n} \cup {with(<<"in", p>>, n.wire \ {p}) : p \in {q \in n.wire : q.dst = h}}
               \cup {with(<<"due", i>>, n.wire) : i \in {j \in Slot : Due(h, j)}}

\* A step of h ends in m, its descriptors being d; TIME_WAIT may have ended in the
\* middle.  Of a step that never ends, only that is kept.
Ends(h, m, d) ==
  LET gone(f) == d[f].i # 0 /\ n.s[h][d[f].i].st = "TIME_WAIT" /\ ~m.s[h][d[f].i].used
      lost == [n EXCEPT !.hung[h] = TRUE, !.wire = {p \in @ : p.dst # h}]
  IN  IF m.hung[h] THEN n' = lost /\ UNCHANGED fd
      ELSE /\ m.ring = <<>>
           /\ n' = m
           /\ fd' = [fd EXCEPT ![h] = [f \in Fds |-> IF gone(f) THEN [d[f] EXCEPT !.aged = TRUE] ELSE d[f]]]

\* A call on a socket with result r; calls that change nothing are not steps.
Call(h, r) == Ends(h, r.n, fd[h]) /\ n' # n /\ UNCHANGED eof

\* socket(): the slot is given back when there is no descriptor for it.
Socket(h, proto) ==
  LET a == socket_alloc_internal(n, h, proto)
      f == FreeFd(h)
  IN  /\ May(h, "socket")
      /\ a.i # 0 /\ f # 0
      /\ n' = a.n
      /\ fd' = [fd EXCEPT ![h][f] = [Closed EXCEPT !.i = a.i, !.id = a.n.id]]
      /\ UNCHANGED eof

\* Programs bind before they connect: net_socket_bind would also move the port
\* of a connection, after which two ends may answer each other without end.
Bind(h, f, port) ==
  /\ May(h, "bind")
  /\ fd[h][f].i # 0 /\ S(h, f).used /\ S(h, f).pport = 0
  /\ Call(h, net_socket_bind(n, h, fd[h][f].i, port, Ports))
Listen(h, f) == May(h, "listen") /\ Names(h, f, "tcp") /\ Call(h, net_socket_listen(n, h, fd[h][f].i, 1, Ports))
Connect(h, f, dst) ==
  /\ May(h, "connect") /\ Names(h, f, "tcp")
  /\ \E m \in Begin(h) : Call(h, net_socket_connect(m, h, fd[h][f].i, dst, Port, Ports))
Shutdown(h, f, rd, wr) ==
  /\ May(h, "shutdown") /\ Names(h, f, "tcp") /\ (rd \/ wr)
  /\ \E m \in Begin(h) : Call(h, net_socket_shutdown(m, h, fd[h][f].i, rd, wr))
Reuse(h, f) == May(h, "reuse") /\ fd[h][f].i # 0 /\ S(h, f).used /\ Call(h, Rc("ok", [n EXCEPT !.s[h][fd[h][f].i].reuse = TRUE]))
SoError(h, f) == May(h, "soerror") /\ Names(h, f, "tcp") /\ Call(h, Rc("ok", socket_take_error(n, h, fd[h][f].i)))
SendTo(h, f, dst) ==
  /\ May(h, "sendto") /\ Names(h, f, "udp")
  /\ \E m \in Begin(h) : Call(h, net_socket_sendto(m, h, fd[h][f].i, dst, Port, Ports))
RecvFrom(h, f) == May(h, "recvfrom") /\ Names(h, f, "udp") /\ Call(h, net_socket_recvfrom(n, h, fd[h][f].i))

\* accept(): the connection is closed again when there is no descriptor for it.
Accept(h, f) ==
  /\ Names(h, f, "tcp")
  /\ May(h, "accept")
  /\ \E r \in {net_socket_accept(m, h, fd[h][f].i) : m \in Begin(h)} :
       /\ r.rc = "ok"
       /\ IF FreeFd(h) = 0
            THEN Ends(h, net_socket_close(r.n, h, r.c), fd[h])
            ELSE Ends(h, r.n, [fd[h] EXCEPT ![FreeFd(h)] = [Closed EXCEPT !.i = r.c, !.id = r.n.s[h][r.c].id]])
  /\ UNCHANGED eof

Write(h, f, len) ==
  /\ May(h, "write")
  /\ Names(h, f, "tcp")
  /\ S(h, f).put + len <= MaxPut
  /\ \E m \in Begin(h) : Call(h, net_socket_write(m, h, fd[h][f].i, len))

\* Packets for h that are processed inside one call, in any order.
Pumped(h) ==
  LET here == {p \in n.wire : p.dst = h}
      In(m, p) == OnEvent([m EXCEPT !.wire = @ \ {p}], h, <<"in", p>>)
  IN  {n} \cup {In(n, p) : p \in here}
          \cup {In(In(n, p), q) : <<p, q>> \in {z \in here \X here : z[1] # z[2]}}

Read(h, f, len) ==
  /\ May(h, "read")
  /\ Names(h, f, "tcp")
  /\ \E m \in (IF S(h, f).rx = <<>> THEN Pumped(h) ELSE {n}) :
       LET r == net_socket_read(n, m, h, fd[h][f].i, len)
       IN  /\ r.rc \in {"ok", "eof"}
           /\ n' = r.n
           \* (a reader that blocked may be told so with bytes left in the buffer)
           /\ eof' = IF r.rc = "eof" /\ m = n THEN eof \cup {fd[h][f].id} ELSE eof
  /\ UNCHANGED fd

Dup(h, f) ==
  /\ fd[h][f].i # 0 /\ FreeFd(h) # 0
  /\ May(h, "dup")
  /\ n' = net_socket_ref(n, h, fd[h][f].i)
  /\ fd' = [fd EXCEPT ![h][FreeFd(h)] = fd[h][f]]
  /\ UNCHANGED eof

Close(h, f) ==
  /\ fd[h][f].i # 0
  /\ May(h, "close")
  /\ \E m \in Begin(h) : Ends(h, net_socket_close(m, h, fd[h][f].i), [fd[h] EXCEPT ![f] = Closed])
  /\ UNCHANGED eof

-----------------------------------------------------------------------------
Deliver(p) ==
  /\ ~n.hung[p.dst]
  /\ n' = OnEvent([n EXCEPT !.wire = @ \ {p}], p.dst, <<"in", p>>)
  /\ UNCHANGED <<fd, eof, left>>

\* The network repeats a packet, and loses one.
Repeat(p) ==
  /\ Fault /\ ~n.hung[p.dst]
  /\ n' = OnEvent(n, p.dst, <<"in", p>>)
  /\ UNCHANGED <<fd, eof>>

Lose(p) ==
  /\ Fault
  /\ n' = [n EXCEPT !.wire = @ \ {p}]
  /\ UNCHANGED <<fd, eof>>

\* A time-out of socket i.
Tick(h, i) ==
  /\ ~n.hung[h]
  /\ \E m \in Begin(h) : Ends(h, OnEvent(m, h, <<"due", i>>), fd[h])
  /\ n' # n
  /\ UNCHANGED <<eof, left>>

\* ifconfig down and up.
Flip(h) ==
  /\ Fault /\ ~n.hung[h]
  /\ n' = [n EXCEPT !.up[h] = ~@]
  /\ UNCHANGED <<fd, eof>>

\* The device's ring is full, and empties again in its own time.
Jam(h) ==
  /\ n' = [n EXCEPT !.tx[h] = ~@]
  /\ IF n.tx[h] THEN Fault ELSE UNCHANGED left
  /\ UNCHANGED <<fd, eof>>

\* What is known of the other hosts is flushed, or too old.
Age(h) ==
  /\ Fault /\ ~n.hung[h] /\ n.arp[h] # {}
  /\ n' = [n EXCEPT !.arp[h] = {}]
  /\ UNCHANGED <<fd, eof>>

Next ==
  \/ \E h \in Host :
       \/ \E proto \in {"tcp", "udp"} : Socket(h, proto)
       \/ \E i \in Slot : Tick(h, i)
       \/ Flip(h)
       \/ Jam(h)
       \/ Age(h)
       \/ \E f \in Fds :
            \/ \E port \in {0, Port} : Bind(h, f, port)
            \/ Listen(h, f)
            \/ \E dst \in Host : Connect(h, f, dst)
            \/ \E dst \in Host : SendTo(h, f, dst)
            \/ \E rd, wr \in BOOLEAN : Shutdown(h, f, rd, wr)
            \/ Reuse(h, f)
            \/ SoError(h, f)
            \/ RecvFrom(h, f)
            \/ Accept(h, f)
            \/ \E len \in Lens : Write(h, f, len)
            \/ \E len \in Lens : Read(h, f, len)
            \/ Dup(h, f)
            \/ Close(h, f)
  \/ \E p \in n.wire : Deliver(p) \/ Repeat(p) \/ Lose(p)

Spec == Init /\ [][Next]_vars

\* The timer interrupt comes again and again, and each visits every socket: WF of
\* each Tick(h, i), with ENABLED written out.
FairSpec == Spec /\ \A h \in Host, i \in Slot : []<>~Due(h, i) \/ []<><<Tick(h, i)>>_vars

-----------------------------------------------------------------------------
(* Properties *)

Streams == {z \in Host \X Slot : n.s[z[1]][z[2]].proto = "tcp"}
At(z) == n.s[z[1]][z[2]]
Running(s) == s.st \notin {"CLOSED", "LISTEN", "SYN_SENT"}
\* The sockets at the other end of a connection.
Peers(z) ==
  {y \in Streams : /\ y # z
                   /\ At(y).peer = z[1] /\ At(y).pport = At(z).port
                   /\ At(z).peer = y[1] /\ At(z).pport = At(y).port}

\* Whatever is lost, repeated or comes out of order, the bytes a reader has
\* been given and those waiting for it are the writer's, each once and in
\* order (trimming and the one-number check of process_tcp_established); and a
\* reader that was told the stream is over has had all of it.
StreamIntact ==
  \A z \in Streams :
    LET s == At(z)
    IN  ~s.shr => /\ s.rx = [k \in 1 .. Len(s.rx) |-> s.got + k]
                  /\ s.id \in eof => /\ s.rx = <<>>
                                     /\ \A y \in Peers(z) : At(y).put = s.got

\* What is sent and not acknowledged is always the segment kept for sending it
\* again, and what the other end waits for next lies inside it or at its end:
\* tcp_ack_advance never releases too much, and neither shutdown, close nor a
\* deferred FIN sends a second segment over the first.  (In SYN_RECV less is
\* claimed: an answer to a SYN that could not be sent is forgotten, net.c:1595, and
\* a repeated SYN can make an end that never leaves that state.)
EndsAgree ==
  \A z \in Streams :
    LET s == At(z)
    IN  Running(s) =>
          /\ s.una # s.nxt /\ ~ (s.st = "SYN_RECV" /\ ~s.tx.v) => s.tx.v /\ tcp_tx_seg_end_seq(s.tx) = s.nxt /\ ~tcp_seq_lt(s.una, s.tx.seq)
          /\ \A y \in Peers(z) : Running(At(y)) /\ "SYN_RECV" \notin {s.st, At(y).st} =>
               ~tcp_seq_lt(At(y).rcv, s.una) /\ ~tcp_seq_gt(At(y).rcv, s.nxt)

\* Every descriptor names the socket it was opened on, which counts its
\* descriptors; every queued connection is alive, points back at its listener,
\* stands in the queue once and has no descriptor yet.  (Where a slot went at
\* the end of TIME_WAIT under an open descriptor, nothing is claimed.)
SocketsHeld ==
  \A h \in Host :
    LET mine(i) == {f \in Fds : fd[h][f].i = i}
    IN  (\A f \in Fds : ~fd[h][f].aged) =>
          /\ \A f \in Fds : fd[h][f].i # 0 => S(h, f).used /\ S(h, f).id = fd[h][f].id
          /\ \A i \in Slot : mine(i) # {} => n.s[h][i].refs = Cardinality(mine(i))
          /\ \A l \in Slot : LET q == n.s[h][l].pend
                             IN  /\ IsInjective(q)
                                 /\ \A c \in ToSet(q) : n.s[h][c].used /\ n.s[h][c].lis = l /\ mine(c) = {}
          /\ \A c \in Slot : n.s[h][c].lis # 0 => c \in ToSet(n.s[h][n.s[h][c].lis].pend)

\* A segment is for one socket: no two share both ends' addresses and ports, and
\* no two listen on one port, while connections close in the background and
\* ephemeral ports come round again (SO_REUSEADDR on both lifts it).
OneEndEach ==
  \A h \in Host, i, j \in Slot :
    LET s == n.s[h][i]
        t == n.s[h][j]
    IN  /\ i # j /\ s.proto = "tcp" /\ t.proto = "tcp" /\ s.port # 0
        /\ (s.st = "LISTEN") = (t.st = "LISTEN")
        /\ <<s.port, s.peer, s.pport>> = <<t.port, t.peer, t.pport>>
        => s.reuse /\ t.reuse

\* poll never calls ready what would make the caller wait, and calls ready every
\* call on a stream that would not (asking for a hardware address aside), but for
\* calls that fail at once: it leaves out reads after SHUT_RD, which return 0, and
\* writes after SHUT_WR, on a stream that is not open or whose error was collected.
PollTellsTruth ==
  \A z \in Streams :
    LET h == z[1]
        i == z[2]
        s == At(z)
        ev == net_socket_poll_revents(n, h, i)
        get == net_socket_read(n, n, h, i, 1).rc
        put == net_socket_write(n, h, i, 1).rc
    IN  IF s.st = "LISTEN"
          THEN ("IN" \in ev) = (net_socket_accept(n, h, i).rc = "ok")
          ELSE /\ (get # "again") = ("IN" \in ev \/ s.shr)
               /\ (put # "again") = ("OUT" \in ev \/ s.shw \/ s.err \/ s.st \notin Open2)

\* A connection whose last descriptor was closed is given up or comes to its
\* end, so that its slot is free again: every segment is either acknowledged or
\* retransmitted until the limit.  Four things keep the slot for ever: the other
\* side never sends its FIN (FIN_WAIT2 has no time-out), the own FIN could not be
\* sent when its turn came and is not tried again, an interface that is down or a
\* device that takes no frame (a failed retransmission is not counted), and a
\* host lost in the wait for a hardware address.
CloseEnds ==
  <>[](\A h \in Host : n.up[h] /\ n.tx[h] /\ ~n.hung[h] =>
         \A i \in Slot : LET s == n.s[h][i]
                         IN  s.det => s.st = "FIN_WAIT2" \/ (s.finp /\ ~s.tx.v /\ s.st \in Open2))

\* The same without exceptions, as progress.md:177 has it.
CloseAlwaysEnds == <>[](\A h \in Host, i \in Slot : ~n.s[h][i].det)

\* No send leaves a host waiting for ever: resolve_arp gives up after two seconds.
NobodyHangs == \A h \in Host : ~n.hung[h]
=============================================================================
