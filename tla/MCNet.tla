------------------------------- MODULE MCNet --------------------------------
(* Two hosts, a server on B or on A itself; the starts are made by calls.    *)
EXTENDS Net

MCHost == {"A", "B"}

Boot == [s |-> [h \in Host |-> [i \in Slot |-> Unused]], wire |-> {},
         up |-> [h \in Host |-> TRUE], tx |-> [h \in Host |-> TRUE], arp |-> [h \in Host |-> {}],
         ring |-> <<>>, hung |-> [h \in Host |-> FALSE],
         eph |-> [h \in Host |-> Min(Ports)], id |-> 0]

\* Everything on the wire is delivered, up to three times over.
Settle(m) ==
  LET Arrive(a, p) == OnEvent([a EXCEPT !.wire = @ \ {p}], p.dst, <<"in", p>>)
      Round(a, k) == FoldLeft(Arrive, a, SetToSeq(a.wire))
  IN  FoldLeft(Round, m, <<1, 2, 3>>)

Serve(h) ==
  LET a == socket_alloc_internal(Boot, h, "tcp").n
      b == net_socket_bind(a, h, 1, Port, Ports).n
  IN  net_socket_listen(b, h, 1, 1, Ports).n

Dial(m, h, i, dst) == Settle(net_socket_connect(m, h, i, dst, Port, Ports).n)

\* A server on B or on A, and a program with a socket of its own on A.
Remote == socket_alloc_internal(Serve("B"), "A", "tcp").n
Local == socket_alloc_internal(Serve("A"), "A", "tcp").n
Dialled == Dial(Remote, "A", 1, "B")
Accepted == net_socket_accept(Dialled, "B", 1).n
Looped == net_socket_accept(Dial(Local, "A", 2, "A"), "A", 1).n
Datagram ==
  LET a == socket_alloc_internal(Boot, "B", "udp").n
      b == net_socket_bind(a, "B", 1, Port, Ports).n
  IN  socket_alloc_internal(b, "A", "udp").n

\* A start from m: open[h][f] is the slot descriptor f of h names.
Start(m, open, may, calls, faults) ==
  [n |-> m,
   fd |-> [h \in Host |-> [f \in Fds |->
             IF open[h][f] = 0 THEN Closed
             ELSE [i |-> open[h][f], id |-> m.s[h][open[h][f]].id, aged |-> FALSE]]],
   left |-> [may |-> may, calls |-> calls, faults |-> faults]]

Both(calls) == [h \in Host |-> calls]

MCStarts ==
  {Start(Remote, [A |-> <<1, 0>>, B |-> <<1, 0>>], Both({"connect", "accept", "close", "soerror"}), 3, 1),
   Start(Remote, [A |-> <<1, 0>>, B |-> <<1, 0>>], Both({"socket", "bind", "reuse", "listen", "close"}), 3, 0),
   Start(Dialled, [A |-> <<1, 0>>, B |-> <<1, 0>>], Both({"accept", "dup", "close"}), 3, 1),
   Start(Accepted, [A |-> <<1, 0>>, B |-> <<0, 2>>], [A |-> {"write", "shutdown"}, B |-> {"read"}], 4, 1),
   Start(Accepted, [A |-> <<1, 0>>, B |-> <<0, 2>>], [A |-> {"write", "close"}, B |-> {"read", "close"}], 3, 1),
   Start([Accepted EXCEPT !.eph["A"] = Min(Ports)], [A |-> <<1, 0>>, B |-> <<1, 2>>],
         [A |-> {"socket", "connect", "close"}, B |-> {"close"}], 3, 0),
   Start(Looped, [A |-> <<2, 3>>, B |-> <<0, 0>>], Both({"write", "read", "shutdown", "close"}), 4, 0),
   Start(Datagram, [A |-> <<1, 0>>, B |-> <<1, 0>>], Both({"sendto", "recvfrom", "close"}), 4, 1)}
=============================================================================
