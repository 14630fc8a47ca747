---------------------------- MODULE MCQrtrSystem ----------------------------
(***************************************************************************)
(* A local publisher (port 1), a local observer (port 2) and a remote node *)
(* with services on the same port numbers, which collide.                  *)
(***************************************************************************)
EXTENDS QrtrSystem

MCNodes == {1, 2}
MCPorts == {1, 2}
MCHome  == [p \in MCPorts |-> 0]

MCOffered == [p \in {1} |-> [service |-> 1, instance |-> 1]]
MCWanted  == [o \in {2} |-> [service |-> 1, instance |-> 0]]

RemoteServer(s, p) == [service |-> s, instance |-> 2, node |-> 2, port |-> p]

\* One that the observer wants; when what the observers read is not looked at,
\* another beside it.
MCRemoteSome == [b \in BOOLEAN |-> {RemoteServer(1, 1)} \cup IF b THEN {RemoteServer(2, 2)} ELSE {}]
MCRemoteNone == [b \in BOOLEAN |-> {}]

\* When ports are reused at once, what the observers read is not looked at,
\* and the bound on their inboxes is out of reach.
MCMaxInbox     == [b \in BOOLEAN |-> IF b THEN 1000 ELSE 3]
MCMaxInboxLive == [b \in BOOLEAN |-> 2]

\* All but rx and tx, and what is not looked at.
View == <<services, lookups, bye, running, ctrlq, sock, reset, remote, past,
          IF reuse THEN <<>> ELSE <<inbox, known>>>>
=============================================================================
