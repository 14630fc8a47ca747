----------------------------- MODULE MCQrtrLib -------------------------------
(***************************************************************************)
(* The two sequential pieces of qrtr that the daemons are built on: the    *)
(* hash table and the QMI codec with its services.  They share no state,   *)
(* so a behaviour is one of the table or one of a service.                 *)
(*                                                                         *)
(* The services' instance has two domains for one service, names that are  *)
(* prefixes of each other, numbers of one and of three bytes, and buffers  *)
(* around the size of every kind of response.                              *)
(***************************************************************************)
EXTENDS MCQrtrMap

CONSTANTS Numbers, MaxIovec, BufLens, MaxTxn

VARIABLES part, buflen, up, pkt, reply

MCPdMaps == <<[service |-> <<1, 2>>, domain |-> <<3, 4, 5>>, instance |-> 1],
              [service |-> <<1>>, domain |-> <<6>>, instance |-> 2],
              [service |-> <<1, 2>>, domain |-> <<3>>, instance |-> 2]>>

MCNames     == {<<>>, <<1>>, <<1, 2>>, <<1, 2, 1>>}
MCLaterTlvs == {[type |-> 32, bytes |-> <<9, 9>>]}

Q == INSTANCE QmiService WITH PdMaps <- MCPdMaps, Names <- MCNames, LaterTlvs <- MCLaterTlvs

service == <<buflen, up, pkt, reply>>

LibInit ==
  /\ Init /\ Q!Init
  /\ part \in {"map", "qmi"} /\ (part = "map" => buflen = 256)

LibNext ==
  \/ part = "map" /\ Next   /\ UNCHANGED <<part, service>>
  \/ part = "qmi" /\ Q!Next /\ UNCHANGED <<part, vars>>

LibSpec == LibInit /\ [][LibNext]_<<part, vars, service>>

\* Of the QMI services: see QmiService.
RequestUnderstood == Q!RequestUnderstood
\* Of the QMI services: see QmiService.
EncodedExactly    == Q!EncodedExactly
\* Of the QMI services: see QmiService.
DomainsAnswered   == Q!DomainsAnswered
=============================================================================
