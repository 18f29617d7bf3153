------------------------------- MODULE TcpOps -------------------------------
(***************************************************************************)
(* TCP of kernel/net.c as operators on a record n of all hosts:            *)
(*   n.s[h][i]  slot i of host h's socket table                            *)
(*   n.wire     the packets between hosts                                  *)
(*   n.up[h]    whether the host's interface is up                         *)
(*   n.tx[h]    whether its device takes a frame (its ring may be full)    *)
(*   n.arp[h]   the hosts whose hardware address it knows                  *)
(*   n.ring     what the host at work has to do while it waits for an      *)
(*              address: packets that come in, slots whose time-out is due *)
(*   n.hung[h]  whether the host is lost in such a wait                    *)
(*   n.eph[h]   the next ephemeral port to try                             *)
(*   n.id       sockets allocated so far, which names each of them         *)
(*                                                                         *)
(* An address is a host; a packet a host sends to itself is processed      *)
(* inside the call that sends it, before the sender has updated its state, *)
(* as inject_local_ipv4 does.  Sequence numbers count modulo SeqSpace in     *)
(* place of 2^32.  A byte of a stream is its position, so that order, loss *)
(* and repetition show.  Timers are not in the state: when a time-out is   *)
(* due is left open (Net).                                                 *)
(***************************************************************************)
EXTENDS Integers, Sequences, FiniteSets, SequencesExt, FiniteSetsExt

CONSTANTS Host,
          NS,          \* NET_SOCK_MAX
          SeqSpace,      \* stands for 2^32
          BufMax,      \* NET_TCP_BUF_MAX
          Mss,         \* NET_MTU less the header
          AcceptQ,     \* NET_TCP_ACCEPTQ
          MaxRetries,  \* NET_TCP_MAX_RETRIES
          MaxWire      \* packets on the wire at a time

Slot == 1 .. NS

\* The random initial sequence number of the k-th socket: no two connections
\* come near each other, and numbers wrap while data is sent.
net_rand32(k) == (SeqSpace - 3 + 8 * k) % SeqSpace

tcp_seq_lt(a, b) == (a - b) % SeqSpace >= SeqSpace \div 2
tcp_seq_gt(a, b) == (a - b) % SeqSpace \in 1 .. (SeqSpace \div 2) - 1
Outside(ack, s) == tcp_seq_lt(ack, s.una) \/ tcp_seq_gt(ack, s.nxt)

\* Numbers a segment takes up: its bytes, and one each for SYN and FIN.
Span(fl, data) == Len(data) + Cardinality(fl \cap {"SYN", "FIN"})

NoTx == [v |-> FALSE, fl |-> {}, seq |-> 0, data |-> <<>>, tries |-> 0]
tcp_tx_seg_end_seq(tx) == (tx.seq + Span(tx.fl, tx.data)) % SeqSpace

Unused ==
  [used |-> FALSE, refs |-> 0, proto |-> "none", reuse |-> FALSE, port |-> 0, peer |-> "none",
   pport |-> 0, lerr |-> "none", st |-> "CLOSED", backlog |-> 0, pend |-> <<>>, lis |-> 0,
   una |-> 0, nxt |-> 0, rcv |-> 0, wnd |-> 0, rx |-> <<>>, rxc |-> FALSE, shr |-> FALSE,
   shw |-> FALSE, finp |-> FALSE, det |-> FALSE, err |-> FALSE, tx |-> NoTx,
   id |-> 0, got |-> 0, put |-> 0]

Open2 == {"ESTABLISHED", "CLOSE_WAIT"}
Half == {"SYN_SENT", "SYN_RECV"}
FirstIn(S) == IF S = {} THEN 0 ELSE Min(S)

socket_set_error(s, e) == IF s.lerr # "none" THEN s ELSE [s EXCEPT !.lerr = e]

\* A slot for a socket of the given protocol: [i |-> slot or 0, n |-> ...].
socket_alloc_internal(n, h, proto) ==
  LET i == FirstIn({j \in Slot : ~n.s[h][j].used})
      k == n.id + 1
      new == [Unused EXCEPT !.used = TRUE, !.refs = 1, !.proto = proto, !.id = k,
                            !.wnd = IF proto = "tcp" THEN BufMax ELSE 0]
  IN  [i |-> i, n |-> IF i = 0 THEN n ELSE [n EXCEPT !.s[h][i] = new, !.id = k]]

-----------------------------------------------------------------------------
(* The queue of connections a listener has not handed out yet *)

listener_queue_prune(n, h, l) ==
  LET t == n.s[h]
      pend == t[l].pend
      dead == {c \in ToSet(pend) : ~t[c].used \/ t[c].lis # l \/ t[c].st = "CLOSED" \/ t[c].err}
      live(c) == c \notin dead
  IN  [n EXCEPT !.s[h] = [i \in Slot |->
         IF i = l THEN [t[i] EXCEPT !.pend = SelectSeq(pend, live)]
         ELSE IF i \in dead THEN Unused
         ELSE t[i]]]

listener_queue_add(n, h, l, c) ==
  LET m == listener_queue_prune(n, h, l)
      room == Len(m.s[h][l].pend) < AcceptQ
  IN  [ok |-> room,
       n |-> IF room THEN [m EXCEPT !.s[h][l].pend = Append(@, c), !.s[h][c].lis = l] ELSE m]

\* Mutant: the connection handed out stays in its listener's queue.
listener_queue_remove_kept(n, h, l, c) == [n EXCEPT !.s[h][c].lis = IF @ = 0 THEN 0 ELSE l]

listener_queue_remove(n, h, l, c) ==
  LET at == {k \in DOMAIN n.s[h][l].pend : n.s[h][l].pend[k] = c}
  IN  IF at = {} THEN n
      ELSE [n EXCEPT !.s[h][l].pend = RemoveAt(@, Min(at)), !.s[h][c].lis = 0]

Ready(n, h, l) ==
  LET t == listener_queue_prune(n, h, l).s[h]
      done(c) == t[c].st \in Open2
  IN  SelectSeq(t[l].pend, done)

\* The first finished connection of the queue, taken out of it (0: none).
listener_queue_take_established(n, h, l) ==
  LET take(m, q) == IF q = <<>> THEN [c |-> 0, n |-> m]
                    ELSE [c |-> q[1], n |-> listener_queue_remove(m, h, l, q[1])]
  IN  take(listener_queue_prune(n, h, l), Ready(n, h, l))

socket_reset(n, h, i) ==
  LET s == n.s[h][i]
      m == IF s.proto = "tcp" /\ s.lis # 0 THEN listener_queue_remove(n, h, s.lis, i) ELSE n
      drop == IF s.proto = "tcp" /\ s.st = "LISTEN" THEN ToSet(s.pend) ELSE {}
  IN  [m EXCEPT !.s[h] = [j \in Slot |-> IF j \in drop \cup {i} THEN Unused ELSE @[j]]]

tcp_on_rst(n, h, i) ==
  LET s == n.s[h][i]
      gone == [socket_set_error(s, IF s.st \in Half THEN "refused" ELSE "reset")
                 EXCEPT !.err = TRUE, !.rxc = TRUE, !.st = "CLOSED", !.tx = NoTx]
      m == [n EXCEPT !.s[h][i] = gone]
  IN  IF s.lis # 0 /\ s.refs <= 1 THEN socket_reset(m, h, i) ELSE m

-----------------------------------------------------------------------------
(* Sending.  Results are [ok |-> ..., n |-> ...]. *)

RECURSIVE OnEvent(_, _, _)

net_pump(n, h) ==
  IF n.ring = <<>> THEN n ELSE OnEvent([n EXCEPT !.ring = Tail(@)], h, Head(n.ring))

\* A hardware address that is not known is asked for, and the network's work
\* done meanwhile.  A host answers as long as both devices take frames, its
\* interface up or down.  When no answer comes, a segment of ours for that host
\* falls due in the wait: its retransmission waits for the address in turn, finds
\* the same segment still due, and so on without end.
resolve_arp(n, h, g) ==
  LET answers(m) == m.tx[h] /\ m.tx[g] /\ ~m.hung[g]
      due(s) == s.tx.v /\ s.peer = g
      asked(m) ==
        IF g \in m.arp[h] THEN [ok |-> TRUE, n |-> m]
        ELSE IF answers(m) THEN [ok |-> TRUE, n |-> [m EXCEPT !.arp[h] = @ \cup {g}, !.arp[g] = @ \cup {h}]]
        ELSE [ok |-> FALSE, n |-> [m EXCEPT !.hung[h] = @ \/ \E i \in Slot : due(m.s[h][i])]]
  IN  IF g \in n.arp[h] THEN [ok |-> TRUE, n |-> n] ELSE asked(net_pump(n, h))

\* To the own address by delivery on the spot, else onto the wire: if there is a
\* route, over an interface that is up, the peer's address is found and the device
\* takes the frame; the wire loses what it has no room for.
send_ipv4_l4(n, h, p) ==
  LET onto(m) == IF Cardinality(m.wire) = MaxWire THEN m ELSE [m EXCEPT !.wire = @ \cup {p}]
      out(r) == IF r.ok /\ r.n.tx[h] THEN [ok |-> TRUE, n |-> onto(r.n)] ELSE [ok |-> FALSE, n |-> r.n]
  IN  IF p.dst = h THEN [ok |-> TRUE, n |-> OnEvent(n, h, <<"in", p>>)]
      ELSE IF ~n.up[h] THEN [ok |-> FALSE, n |-> n]
      ELSE out(resolve_arp(n, h, p.dst))

\* A segment of socket i.  One that takes up numbers is remembered, before it
\* is sent, for retransmission.
tcp_send_segment(n, h, i, fl, seq, ack, data, retransmit) ==
  LET s == n.s[h][i]
      track == ~retransmit /\ Span(fl, data) > 0
      m == IF track
             THEN [n EXCEPT !.s[h][i].tx =
                     [v |-> TRUE, fl |-> fl, seq |-> seq, data |-> data, tries |-> 0]]
             ELSE n
      sent(r) == IF track /\ ~r.ok THEN [r EXCEPT !.n.s[h][i].tx = NoTx] ELSE r
  IN  sent(send_ipv4_l4(m, h, [proto |-> "tcp", src |-> h, sp |-> s.port, dst |-> s.peer,
                               dp |-> s.pport, fl |-> fl, seq |-> seq, ack |-> ack,
                               wnd |-> BufMax - Len(s.rx), data |-> data]))

tcp_send_ack(n, h, i) ==
  tcp_send_segment(n, h, i, {"ACK"}, n.s[h][i].nxt, n.s[h][i].rcv, <<>>, TRUE).n

tcp_send_fin_now(n, h, i) ==
  LET seq == n.s[h][i].nxt
      After(st) == CASE st = "ESTABLISHED" -> "FIN_WAIT1"
                     [] st = "CLOSE_WAIT" -> "LAST_ACK"
                     [] OTHER -> st
      sent(r) == IF ~r.ok THEN r
                 ELSE [r EXCEPT !.n.s[h][i].nxt = (seq + 1) % SeqSpace, !.n.s[h][i].st = After(@)]
  IN  sent(tcp_send_segment(n, h, i, {"ACK", "FIN"}, seq, n.s[h][i].rcv, <<>>, FALSE))

\* The answer to a segment no socket takes.
tcp_send_rst_for_segment(n, h, p, len) ==
  LET r == [p EXCEPT !.src = h, !.sp = p.dp, !.dst = p.src, !.dp = p.sp, !.wnd = BufMax,
                     !.data = <<>>]
      acked == [r EXCEPT !.fl = {"RST"}, !.seq = p.ack, !.ack = 0]
      other == [r EXCEPT !.fl = {"RST", "ACK"}, !.seq = 0,
                         !.ack = (p.seq + len + Span(p.fl, <<>>)) % SeqSpace]
  IN  IF "RST" \in p.fl THEN n
      ELSE send_ipv4_l4(n, h, IF "ACK" \in p.fl THEN acked ELSE other).n

-----------------------------------------------------------------------------
(* Receiving *)

tcp_find_listener(n, h, p) ==
  FirstIn({i \in Slot : LET s == n.s[h][i]
                        IN  s.proto = "tcp" /\ s.st = "LISTEN" /\ s.port = p.dp})

tcp_find_socket(n, h, p) ==
  LET match == {i \in Slot : LET s == n.s[h][i]
                             IN  /\ s.proto = "tcp" /\ s.port = p.dp /\ s.st # "LISTEN"
                                 /\ s.peer = p.src /\ s.pport = p.sp}
  IN  IF match # {} THEN Min(match) ELSE tcp_find_listener(n, h, p)

\* Mutant: any acknowledgement releases the segment.
tcp_ack_advance_partial(n, h, i, ack) ==
  LET s == n.s[h][i]
      adv == ack # s.una /\ ~Outside(ack, s)
  IN  [adv |-> adv,
       n |-> IF adv THEN [n EXCEPT !.s[h][i].una = ack, !.s[h][i].tx = NoTx] ELSE n]

\* An acknowledgement inside the window moves snd_una; one that covers the
\* remembered segment releases it, and a FIN that waited for that is sent.
tcp_ack_advance(n, h, i, ack) ==
  LET s == n.s[h][i]
      adv == ack # s.una /\ ~Outside(ack, s)
      all == s.tx.v /\ ~tcp_seq_lt(ack, tcp_tx_seg_end_seq(s.tx))
      m == [n EXCEPT !.s[h][i].una = ack, !.s[h][i].tx = IF all THEN NoTx ELSE @]
      fin(r) == IF r.ok THEN [r.n EXCEPT !.s[h][i].finp = FALSE] ELSE r.n
  IN  IF ~adv THEN [adv |-> FALSE, n |-> n]
      ELSE IF ~ (all /\ s.finp /\ s.st \in Open2) THEN [adv |-> TRUE, n |-> m]
      ELSE [adv |-> TRUE, n |-> fin(tcp_send_fin_now(m, h, i))]

process_tcp_listener(n, h, l, p) ==
  LET ls == n.s[h][l]
      iss == net_rand32(n.id + 1)
      rcv == (p.seq + 1) % SeqSpace
      child(m, c) == [m EXCEPT !.s[h][c] = [@ EXCEPT
                        !.port = ls.port, !.peer = p.src, !.pport = p.sp, !.st = "SYN_RECV",
                        !.una = iss, !.nxt = (iss + 1) % SeqSpace, !.rcv = rcv]]
      answer(q, c) == IF ~q.ok THEN socket_reset(q.n, h, c)
                      ELSE tcp_send_segment(q.n, h, c, {"SYN", "ACK"}, iss, rcv, <<>>, FALSE).n
      take(a) == IF a.i = 0 THEN n
                 ELSE answer(listener_queue_add(child(a.n, a.i), h, l, a.i), a.i)
  IN  IF "SYN" \notin p.fl THEN n
      ELSE IF Len(ls.pend) >= ls.backlog THEN tcp_send_rst_for_segment(n, h, p, 0)
      ELSE take(socket_alloc_internal(n, h, "tcp"))

tcp_enter_time_wait(n, h, i) == [n EXCEPT !.s[h][i].st = "TIME_WAIT"]

\* What an acknowledgement of everything sent means to the connection.
AllAcked(n, h, i) ==
  LET s == n.s[h][i]
  IN  CASE s.st \in Half -> [n EXCEPT !.s[h][i].st = "ESTABLISHED"]
        [] s.st = "FIN_WAIT1" /\ s.rxc -> tcp_enter_time_wait(n, h, i)
        [] s.st = "FIN_WAIT1" /\ ~s.rxc -> [n EXCEPT !.s[h][i].st = "FIN_WAIT2"]
        [] s.st = "CLOSING" -> tcp_enter_time_wait(n, h, i)
        [] s.st = "LAST_ACK" -> [n EXCEPT !.s[h][i].st = "CLOSED", !.s[h][i].rxc = TRUE]
        [] OTHER -> n

\* The acknowledgement in a segment; go is FALSE when the rest is not looked at.
OnAck(n, h, i, p) ==
  LET acked(r) == IF r.adv /\ p.ack = r.n.s[h][i].nxt THEN AllAcked(r.n, h, i) ELSE r.n
  IN  IF "ACK" \notin p.fl THEN [go |-> TRUE, n |-> n]
      ELSE IF Outside(p.ack, n.s[h][i]) THEN [go |-> FALSE, n |-> tcp_send_ack(n, h, i)]
      ELSE [go |-> TRUE, n |-> acked(tcp_ack_advance(n, h, i, p.ack))]

\* Mutant: bytes that came before are stored once more.
OnPayload_again(n, h, i, p) ==
  LET s == n.s[h][i]
      w == SubSeq(p.data, 1, Min({Len(p.data), BufMax - Len(s.rx)}))
      m == [n EXCEPT !.s[h][i].rx = @ \o w, !.s[h][i].rcv = (@ + Len(w)) % SeqSpace]
      next == ~s.rxc /\ ~tcp_seq_gt(p.seq, s.rcv)
  IN  IF p.data = <<>> THEN [go |-> TRUE, n |-> n, end |-> p.seq]
      ELSE [go |-> next, n |-> tcp_send_ack(IF next THEN m ELSE n, h, i),
            end |-> (p.seq + Len(p.data)) % SeqSpace]

\* The bytes of a segment: those not seen before, if they come next, go to the
\* buffer as far as it has room; end is where a FIN would stand.
OnPayload(n, h, i, p) ==
  LET s == n.s[h][i]
      old == IF tcp_seq_lt(p.seq, s.rcv) THEN (s.rcv - p.seq) % SeqSpace ELSE 0
      new == SubSeq(p.data, old + 1, Len(p.data))
      at == IF old > 0 THEN s.rcv ELSE p.seq
      w == SubSeq(new, 1, Min({Len(new), BufMax - Len(s.rx)}))
      m == [n EXCEPT !.s[h][i].rx = @ \o w, !.s[h][i].rcv = (@ + Len(w)) % SeqSpace]
      repeat == ~s.rxc /\ old >= Len(p.data)
      next == ~s.rxc /\ ~repeat /\ at = s.rcv
  IN  IF p.data = <<>> THEN [go |-> TRUE, n |-> n, end |-> p.seq]
      ELSE [go |-> repeat \/ next,
            n |-> tcp_send_ack(IF next THEN m ELSE n, h, i),
            end |-> IF next THEN (at + Len(new)) % SeqSpace ELSE p.seq]

\* A FIN that stands at end.
OnFin(n, h, i, end) ==
  LET s == n.s[h][i]
      m == [n EXCEPT !.s[h][i].rcv = (@ + 1) % SeqSpace, !.s[h][i].rxc = TRUE]
      seen(k, t) == CASE t.st = "ESTABLISHED" -> [k EXCEPT !.s[h][i].st = "CLOSE_WAIT"]
                      [] t.st = "FIN_WAIT1" /\ t.una # t.nxt -> [k EXCEPT !.s[h][i].st = "CLOSING"]
                      [] t.st = "FIN_WAIT1" /\ t.una = t.nxt -> tcp_enter_time_wait(k, h, i)
                      [] t.st \in {"FIN_WAIT2", "TIME_WAIT"} -> tcp_enter_time_wait(k, h, i)
                      [] OTHER -> k
      acked(k) == seen(k, k.s[h][i])
  IN  IF end # s.rcv THEN tcp_send_ack(n, h, i) ELSE acked(tcp_send_ack(m, h, i))

process_tcp_established(n, h, i, p) ==
  LET m == [n EXCEPT !.s[h][i].wnd = p.wnd]
      fin(d) == IF ~d.go \/ "FIN" \notin p.fl THEN d.n ELSE OnFin(d.n, h, i, d.end)
      rest(a) == IF ~a.go THEN a.n ELSE fin(OnPayload(a.n, h, i, p))
  IN  IF "RST" \in p.fl THEN tcp_on_rst(m, h, i) ELSE rest(OnAck(m, h, i, p))

\* A segment for a socket that waits for the answer to its SYN.
OnSynSent(n, h, i, p) ==
  LET s == n.s[h][i]
      m == [n EXCEPT !.s[h][i].rcv = (p.seq + 1) % SeqSpace, !.s[h][i].wnd = p.wnd]
      up(a) == tcp_send_ack([a EXCEPT !.s[h][i].st = "ESTABLISHED"], h, i)
  IN  IF "ACK" \in p.fl /\ Outside(p.ack, s) THEN tcp_send_rst_for_segment(n, h, p, Len(p.data))
      ELSE IF {"SYN", "ACK"} \subseteq p.fl /\ p.ack = s.nxt
        THEN up(tcp_ack_advance(m, h, i, p.ack).n)
      ELSE IF "RST" \in p.fl THEN tcp_on_rst(n, h, i)
      ELSE n

process_tcp(n, h, p) ==
  LET i == tcp_find_socket(n, h, p)
  IN  IF i = 0 THEN tcp_send_rst_for_segment(n, h, p, Len(p.data))
      ELSE CASE n.s[h][i].st = "LISTEN" -> process_tcp_listener(n, h, i, p)
             [] n.s[h][i].st = "SYN_SENT" -> OnSynSent(n, h, i, p)
             [] OTHER -> process_tcp_established(n, h, i, p)

\* A datagram goes to every socket bound to the port that has room for it.
process_udp(n, h, p) ==
  [n EXCEPT !.s[h] = [i \in Slot |->
     LET s == @[i]
     IN  IF s.proto = "udp" /\ s.port = p.dp /\ Len(s.rx) < BufMax
           THEN [s EXCEPT !.rx = Append(@, p.data)] ELSE s]]

\* A packet for an address of an interface that is up, or sent to oneself; the
\* sender's hardware address is learned from it.
process_ipv4(n, h, p) ==
  LET m == IF p.src = h THEN n ELSE [n EXCEPT !.arp[h] = @ \cup {p.src}]
  IN  IF p.src # h /\ ~n.up[h] THEN n
      ELSE IF p.proto = "udp" THEN process_udp(m, h, p)
      ELSE process_tcp(m, h, p)

-----------------------------------------------------------------------------
(* Time *)

\* Mutant: a segment is sent again without end.
tcp_tick_forever(n, h, i) ==
  LET s == n.s[h][i]
      r == tcp_send_segment(n, h, i, s.tx.fl \cup {"ACK"}, s.tx.seq, s.rcv, s.tx.data, TRUE)
  IN  IF (s.det /\ (s.st = "CLOSED" \/ s.err)) \/ s.st = "TIME_WAIT" THEN socket_reset(n, h, i)
      ELSE IF s.tx.v THEN r.n
      ELSE n

\* What tcp_tick does with socket i when its time-outs are due.
tcp_tick(n, h, i) ==
  LET s == n.s[h][i]
      again(r) == IF r.ok THEN [r.n EXCEPT !.s[h][i].tx.tries = @ + 1] ELSE r.n
      late == [n EXCEPT !.s[h][i] = socket_set_error(@, "timedout")]
  IN  IF s.proto # "tcp" THEN n
      ELSE IF (s.det /\ (s.st = "CLOSED" \/ s.err)) \/ s.st = "TIME_WAIT" THEN socket_reset(n, h, i)
      ELSE IF ~s.tx.v THEN n
      ELSE IF s.tx.tries >= MaxRetries THEN tcp_on_rst(late, h, i)
      ELSE again(tcp_send_segment(n, h, i, s.tx.fl \cup {"ACK"}, s.tx.seq, s.rcv, s.tx.data, TRUE))

\* What host h has to do: a packet that came in, or a time-out of a socket.
OnEvent(n, h, e) == IF e[1] = "due" THEN tcp_tick(n, h, e[2]) ELSE process_ipv4(n, h, e[2])

-----------------------------------------------------------------------------
(* Socket calls.  Results are [rc |-> ..., n |-> ...], rc being "ok", "again" *)
(* (would block), "eof", or an error.                                         *)

Rc(rc, n) == [rc |-> rc, n |-> n]

\* Mutant: a socket without descriptors no longer holds its port.
socket_port_conflict_closing(n, h, port, proto, i) ==
  \E j \in Slot \ {i} :
    /\ n.s[h][j].proto = proto /\ n.s[h][j].port = port /\ ~n.s[h][j].det
    /\ ~ (n.s[h][j].reuse /\ n.s[h][i].reuse)

socket_port_conflict(n, h, port, proto, i) ==
  \E j \in Slot \ {i} :
    /\ n.s[h][j].proto = proto /\ n.s[h][j].port = port
    /\ ~ (n.s[h][j].reuse /\ n.s[h][i].reuse)

\* The first port from the last one given out on that no other socket has.
socket_alloc_ephemeral(n, h, i, Ports) ==
  LET free == {q \in Ports : ~socket_port_conflict(n, h, q, n.s[h][i].proto, i)}
      ahead == {q \in free : q >= n.eph[h]}
      q == FirstIn(IF ahead # {} THEN ahead ELSE free)
  IN  [q |-> q,
       n |-> IF q = 0 THEN n
             ELSE [n EXCEPT !.eph[h] = IF q = Max(Ports) THEN Min(Ports) ELSE q + 1]]

net_socket_bind(n, h, i, port, Ports) ==
  LET a == socket_alloc_ephemeral(n, h, i, Ports)
      q == IF port = 0 THEN a.q ELSE port
      m == IF port = 0 THEN a.n ELSE n
  IN  IF q = 0 \/ (port # 0 /\ socket_port_conflict(n, h, port, n.s[h][i].proto, i))
        THEN Rc("error", n)
        ELSE Rc("ok", [m EXCEPT !.s[h][i].port = q])

net_socket_listen(n, h, i, backlog, Ports) ==
  LET s == n.s[h][i]
      b == IF s.port = 0 THEN net_socket_bind(n, h, i, 0, Ports) ELSE Rc("ok", n)
  IN  IF s.proto # "tcp" \/ b.rc # "ok" THEN Rc("error", n)
      ELSE Rc("ok", [b.n EXCEPT !.s[h][i].st = "LISTEN",
                                !.s[h][i].backlog = Min({Max({backlog, 1}), AcceptQ})])

net_socket_connect(n, h, i, dst, port, Ports) ==
  LET s == n.s[h][i]
      b == IF s.port = 0 THEN net_socket_bind(n, h, i, 0, Ports) ELSE Rc("ok", n)
      iss == net_rand32(s.id)
      m == [b.n EXCEPT !.s[h][i] =
              [@ EXCEPT !.lerr = "none", !.err = FALSE, !.rxc = FALSE, !.peer = dst, !.pport = port,
                        !.st = "SYN_SENT", !.una = iss, !.nxt = (iss + 1) % SeqSpace, !.rcv = 0,
                        !.wnd = BufMax]]
      lost(a) == [a EXCEPT !.s[h][i] = socket_set_error(@, "unreachable")]
      sent(r) == IF r.ok THEN Rc("again", r.n) ELSE Rc("unreachable", tcp_on_rst(lost(r.n), h, i))
  IN  IF dst # h /\ ~n.up[h] THEN Rc("unreachable", n)
      ELSE IF s.st \in Open2 THEN Rc("ok", n)
      ELSE IF s.err \/ (s.st = "CLOSED" /\ s.pport # 0)
        THEN Rc(IF s.lerr = "none" THEN "refused" ELSE s.lerr, n)
      ELSE IF s.st \in Half THEN Rc("again", n)
      ELSE IF s.st # "CLOSED" \/ b.rc # "ok" THEN Rc("error", n)
      ELSE sent(tcp_send_segment(m, h, i, {"SYN"}, iss, 0, <<>>, FALSE))

net_socket_accept(n, h, i) ==
  LET taken(t) == [rc |-> IF t.c = 0 THEN "again" ELSE "ok", n |-> t.n, c |-> t.c]
  IN  IF n.s[h][i].st # "LISTEN" THEN [rc |-> "error", n |-> n, c |-> 0]
      ELSE taken(listener_queue_take_established(n, h, i))

net_socket_shutdown(n, h, i, rd, wr) ==
  LET s == n.s[h][i]
      m == IF rd THEN [n EXCEPT !.s[h][i].shr = TRUE, !.s[h][i].rx = <<>>] ELSE n
      w == [m EXCEPT !.s[h][i].shw = TRUE, !.s[h][i].finp = IF s.tx.v THEN TRUE ELSE @]
  IN  IF s.st = "LISTEN" \/ (s.st = "CLOSED" /\ ~s.err /\ s.pport = 0) THEN Rc("error", n)
      ELSE IF ~wr THEN Rc("ok", m)
      ELSE IF ~s.tx.v /\ s.st \in Open2 THEN Rc("ok", tcp_send_fin_now(w, h, i).n)
      ELSE Rc("ok", w)

tcp_rx_read(n, h, i, len) ==
  LET k == Min({len, Len(n.s[h][i].rx)})
  IN  Rc("ok", [n EXCEPT !.s[h][i].rx = SubSeq(@, k + 1, Len(@)), !.s[h][i].got = @ + k])

\* With nothing to read, a blocking call first has the network work done: m is
\* the state after that, n itself for a call that does not block.
net_socket_read(n, m, h, i, len) ==
  LET s == m.s[h][i]
  IN  IF n.s[h][i].shr THEN Rc("eof", n)
      ELSE IF n.s[h][i].rx # <<>> THEN tcp_rx_read(n, h, i, len)
      ELSE IF s.err THEN Rc("error", m)
      ELSE IF s.rxc \/ s.st = "CLOSED" THEN Rc("eof", m)
      ELSE IF s.rx # <<>> THEN tcp_rx_read(m, h, i, len)
      ELSE Rc("again", m)

net_socket_write(n, h, i, len) ==
  LET s == n.s[h][i]
      k == Min({len, Mss, s.wnd})
      sent(r) == IF ~r.ok THEN Rc("unreachable", r.n)
                 ELSE Rc("ok", [r.n EXCEPT !.s[h][i].nxt = (@ + k) % SeqSpace, !.s[h][i].put = @ + k])
  IN  IF s.err THEN Rc("error", n)
      ELSE IF s.shw THEN Rc("epipe", n)
      ELSE IF s.st \notin Open2 THEN Rc("error", n)
      ELSE IF s.tx.v \/ s.wnd = 0 THEN Rc("again", n)
      ELSE sent(tcp_send_segment(n, h, i, {"ACK", "PSH"}, s.nxt, s.rcv, [b \in 1 .. k |-> s.put + b], FALSE))

net_socket_sendto(n, h, i, dst, port, Ports) ==
  LET s == n.s[h][i]
      sent(r) == Rc(IF r.ok THEN "ok" ELSE "unreachable", r.n)
      bound(b) ==
        IF b.rc # "ok" THEN Rc("error", n)
        ELSE sent(send_ipv4_l4(b.n, h,
               [proto |-> "udp", src |-> h, sp |-> b.n.s[h][i].port, dst |-> dst, dp |-> port, fl |-> {},
                seq |-> 0, ack |-> 0, wnd |-> 0, data |-> <<s.id>>]))
  IN  bound(IF s.port = 0 THEN net_socket_bind(n, h, i, 0, Ports) ELSE Rc("ok", n))

net_socket_recvfrom(n, h, i) ==
  IF n.s[h][i].rx = <<>> THEN Rc("again", n)
  ELSE Rc("ok", [n EXCEPT !.s[h][i].rx = Tail(@)])

net_socket_ref(n, h, i) == IF n.s[h][i].used THEN [n EXCEPT !.s[h][i].refs = @ + 1] ELSE n

\* The last descriptor goes: the connection is closed in the background.
net_socket_close(n, h, i) ==
  LET s == n.s[h][i]
      d == [n EXCEPT !.s[h][i].refs = 0, !.s[h][i].det = TRUE, !.s[h][i].shr = TRUE, !.s[h][i].shw = TRUE]
      sent(f) == IF f.ok THEN f.n ELSE socket_reset(tcp_on_rst(f.n, h, i), h, i)
  IN  IF ~s.used THEN n
      ELSE IF s.refs > 1 THEN [n EXCEPT !.s[h][i].refs = @ - 1]
      ELSE IF s.proto # "tcp" \/ s.st \in {"LISTEN", "CLOSED", "TIME_WAIT"} \/ s.err
        THEN socket_reset(n, h, i)
      ELSE IF s.st \in Half THEN socket_reset(tcp_on_rst(d, h, i), h, i)
      ELSE IF s.tx.v THEN [d EXCEPT !.s[h][i].finp = TRUE]
      ELSE IF s.st \notin Open2 THEN d
      ELSE sent(tcp_send_fin_now(d, h, i))

\* SO_ERROR hands the error out once.
socket_take_error(n, h, i) == [n EXCEPT !.s[h][i].lerr = "none"]

\* Mutant: the peer's window is not looked at.
net_socket_poll_revents_window(n, h, i) ==
  LET s == n.s[h][i]
      fail == s.lerr # "none"
      end == s.rxc \/ s.st = "CLOSED"
      pin == IF s.st = "LISTEN" THEN Ready(n, h, i) # <<>> ELSE Len(s.rx) > 0 \/ end
      pout == fail \/ (s.st \in Open2 /\ ~s.tx.v /\ ~s.shw)
  IN  {e \in {"IN", "OUT"} : (e = "IN" /\ pin) \/ (e = "OUT" /\ pout)}

net_socket_poll_revents(n, h, i) ==
  LET s == n.s[h][i]
      fail == s.lerr # "none"
      end == s.rxc \/ s.st = "CLOSED"
      hup == s.err \/ (s.st # "LISTEN" /\ end)
      pin == IF s.st = "LISTEN" THEN Ready(n, h, i) # <<>> ELSE Len(s.rx) > 0 \/ end
      pout == fail \/ (s.st \in Open2 /\ ~s.tx.v /\ ~s.shw /\ s.wnd # 0)
  IN  IF ~s.used THEN {"ERR"}
      ELSE IF s.proto = "udp" THEN {"OUT"} \cup (IF s.rx # <<>> THEN {"IN"} ELSE {})
      ELSE UNION {IF fail THEN {"ERR"} ELSE {}, IF hup THEN {"HUP"} ELSE {},
                  IF pin THEN {"IN"} ELSE {}, IF pout THEN {"OUT"} ELSE {}}
=============================================================================
