------------------------------ MODULE MCQrtrNs ------------------------------
(***************************************************************************)
(* Two nodes with two ports each, in tables of three slots.  The homes of  *)
(* the ports collide on the last slot, so that probes wrap around the end  *)
(* of the table.                                                           *)
(***************************************************************************)
EXTENDS QrtrNs

MCNodes == {1, 2}
MCPorts == {1, 2}
MCHomeCollide == [p \in MCPorts |-> 2]

Ctl(n, p) == Addr(n, IF n = 1 THEN p ELSE Ctrl)

Pkt(from, cmd, s, inst, n, p) ==
  [from |-> from, cmd |-> cmd, service |-> s, instance |-> inst, node |-> n, port |-> p]

\* Each port offers one service; the ports of a node differ in the instance.
Offer(n, p) == Pkt(Ctl(n, p), "NEW_SERVER", n, p, n, p)

Filters == {<<0, 0>>, <<1, 0>>, <<0, 2>>}

MCPackets ==
  {Offer(n, p) : n \in MCNodes, p \in MCPorts}
  \cup {Pkt(Ctl(n, p), cmd, 0, 0, n, p) :
          cmd \in {"DEL_SERVER", "DEL_CLIENT"}, n \in MCNodes, p \in MCPorts}
  \cup {Pkt(Addr(1, 2), cmd, f[1], f[2], 0, 0) :
          cmd \in {"NEW_LOOKUP", "DEL_LOOKUP"}, f \in Filters}
  \cup {Pkt(Ctl(n, 1), cmd, 0, 0, 0, 0) : cmd \in {"HELLO", "BYE"}, n \in MCNodes}
  \* refused: spoofed, without a service or port, remote observer, ignored
  \cup {Pkt(Addr(2, Ctrl), "NEW_SERVER", 1, 1, 1, 1),
        Pkt(Addr(2, Ctrl), "DEL_SERVER", 1, 1, 1, 1),
        Pkt(Addr(2, Ctrl), "DEL_SERVER", 1, 1, 2, 0),
        Pkt(Addr(2, Ctrl), "DEL_CLIENT", 0, 0, 1, 1),
        Pkt(Addr(1, 2), "DEL_CLIENT", 0, 0, 1, 1),
        Pkt(Addr(1, 1), "NEW_SERVER", 0, 1, 1, 1),
        Pkt(Addr(2, Ctrl), "NEW_SERVER", 1, 1, 2, 0),
        Pkt(Addr(2, Ctrl), "NEW_LOOKUP", 1, 0, 0, 0),
        Pkt(Addr(2, Ctrl), "PING", 0, 0, 0, 0)}

\* The same ports may also offer another service.
MCAnyPackets ==
  MCPackets \cup {Pkt(Ctl(n, 1), "NEW_SERVER", 3 - n, 1, n, 1) : n \in MCNodes}

View == <<services, lookups, bye, running>>
=============================================================================
