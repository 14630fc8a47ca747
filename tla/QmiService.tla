----------------------------- MODULE QmiService ------------------------------
(***************************************************************************)
(* The QMI services: pd-mapper/pd-mapper.c, its loop and its one handler,  *)
(* and the frame that the handlers of rmtfs/rmtfs.c put around the storage *)
(* operations of RmtfsStorage: decode the request, fill in the response,   *)
(* encode it into a buffer, send it.                                       *)
(*                                                                         *)
(* The client is external.  It writes requests as the wire format has      *)
(* them, TLV by TLV in any order and with optional TLVs of a later version *)
(* of the service, and reads the TLVs of the response.                     *)
(***************************************************************************)
EXTENDS QmiCodec, FiniteSets

LOCAL INSTANCE SequencesExt

CONSTANTS
  PdMaps,     \* pd_maps: a sequence of [service, domain, instance]
  Names,      \* the names clients ask for
  Numbers,    \* the numbers in requests and responses
  MaxIovec,   \* entries of an iovec
  LaterTlvs,  \* TLVs of a later version: [type, bytes]
  BufLens,    \* sizes of the response buffer (256 in the code)
  MaxTxn      \* bounds the transaction ids

VARIABLES
  buflen,     \* the size of the response buffer
  up,         \* whether the service runs
  pkt,        \* the packet at its socket, or None
  reply       \* its answer: the packet it is for, what was decoded, the response
              \* filled in, and the message sent, or None; NoReply once it is read

vars == <<buflen, up, pkt, reply>>

None    == [type |-> "none"]
NoReply == [msg |-> None]

QMI_REQUEST    == 0
QMI_RESPONSE   == 2
QMI_INDICATION == 4
HEADER         == 7      \* sizeof(struct qmi_header)

SUCCESS   == <<0, 0>>
INTERNAL  == <<1, 1>>
MALFORMED == <<1, 2>>

-----------------------------------------------------------------------------
(* The messages: the tables of each message id.                            *)

GET_DOMAIN_LIST == "servreg 33"
PFR             == "servreg 36"

Tables ==
  [id \in {GET_DOMAIN_LIST, "open", "close", "iovec", "alloc_buf", "dev_error"} |->
     CASE id = GET_DOMAIN_LIST -> [req  |-> servreg_loc_get_domain_list_req_ei,
                                   resp |-> servreg_loc_get_domain_list_resp_ei]
       [] id = "open"      -> [req |-> rmtfs_open_req_ei, resp |-> rmtfs_open_resp_ei]
       [] id = "close"     -> [req |-> rmtfs_close_req_ei, resp |-> rmtfs_close_resp_ei]
       [] id = "iovec"     -> [req |-> rmtfs_iovec_req_ei, resp |-> rmtfs_iovec_resp_ei]
       [] id = "alloc_buf" -> [req |-> rmtfs_alloc_buf_req_ei, resp |-> rmtfs_alloc_buf_resp_ei]
       [] id = "dev_error" -> [req |-> rmtfs_dev_error_req_ei, resp |-> rmtfs_dev_error_resp_ei]]

Ids == DOMAIN Tables

-----------------------------------------------------------------------------
(* The wire format, as a client has it: a structure is a set of TLVs, each *)
(* the bytes of its elements one after the other; an optional one is there *)
(* when its flag is set.                                                   *)

Concat(s) == FoldLeft(LAMBDA a, b : a \o b, <<>>, s)

RECURSIVE ElemBytes(_, _, _)
ElemBytes(e, v, nested) ==
  CASE e.type = "flag"   -> <<>>
    [] e.type = "string" -> IF nested THEN Bytes(Len(v), 1) \o v ELSE v
    [] e.type = "struct" ->
         Concat([i \in DOMAIN v |->
                   Concat([k \in DOMAIN e.ei |-> ElemBytes(e.ei[k], v[i][k], TRUE)])])
    [] OTHER -> Bytes(v, e.size)

Present(ei, c, type) == \A k \in DOMAIN ei : ei[k].tlv = type /\ ei[k].type = "flag" => c[k] = 1

TlvOf(ei, c, type) ==
  [type  |-> type,
   bytes |-> Concat([k \in DOMAIN ei |-> IF ei[k].tlv = type THEN ElemBytes(ei[k], c[k], FALSE)
                                                             ELSE <<>>])]

TlvsOf(ei, c) ==
  {TlvOf(ei, c, t) : t \in {u \in {ei[k].tlv : k \in DOMAIN ei} : Present(ei, c, u)}}

Wire(tlvs) ==
  Concat([i \in DOMAIN tlvs |-> <<tlvs[i].type>> \o Bytes(Len(tlvs[i].bytes), 2) \o tlvs[i].bytes])

\* The TLVs of a message, in the order they come.
RECURSIVE Tlvs(_)
Tlvs(wire) ==
  IF wire = <<>> THEN <<>>
  ELSE LET len == Number(SubSeq(wire, 2, 3))
       IN  <<[type |-> wire[1], bytes |-> SubSeq(wire, 4, 3 + len)]>>
             \o Tlvs(SubSeq(wire, 4 + len, Len(wire)))

\* The requests a client can mean.
Iovecs == UNION {[1 .. n -> {<<a, 2, 3>> : a \in Numbers}] : n \in 0 .. MaxIovec}

Requests ==
  [id \in Ids |->
     CASE id = GET_DOMAIN_LIST -> {<<n, 0, 0>> : n \in Names} \union {<<n, 1, a>> : n \in Names, a \in Numbers}
       [] id = "open"      -> {<<n>> : n \in Names}
       [] id = "iovec"     -> {<<a, d, Len(v), v, 0>> : a \in Numbers, d \in {0, 1}, v \in Iovecs}
       [] id = "alloc_buf" -> {<<a, b>> : a, b \in Numbers}
       [] OTHER            -> {<<a>> : a \in Numbers}]

-----------------------------------------------------------------------------
(* The client.                                                             *)

\* It sends a request.
Ask(id, req, txn) ==
  /\ up /\ pkt = None /\ reply = NoReply
  /\ \E later \in SUBSET LaterTlvs :
       \E order \in SetToSeqs(TlvsOf(Tables[id].req, req) \union later) :
         pkt' = [type |-> QMI_REQUEST, txn |-> txn, id |-> id, sound |-> TRUE,
                 meant |-> req, body |-> Wire(order)]
  /\ UNCHANGED <<buflen, up, reply>>

\* Something else comes: an indication with the id of a request, a message
\* whose header has the wrong length, a PFR request, or one nobody knows.
Tell(id, type, sound, txn) ==
  /\ up /\ pkt = None /\ reply = NoReply
  /\ id \in Ids => type # QMI_REQUEST \/ ~sound
  /\ pkt' = [type |-> type, txn |-> txn, id |-> id, sound |-> sound, meant |-> <<>>, body |-> <<>>]
  /\ UNCHANGED <<buflen, up, reply>>

\* The answer is read, or the service is done without one.
Read ==
  /\ reply # NoReply
  /\ reply' = NoReply
  /\ UNCHANGED <<buflen, up, pkt>>

-----------------------------------------------------------------------------
(* The service.                                                            *)

\* qmi_decode_message: the transaction is set, and the body decoded, only for
\* a request.
qmi_decode_message == IF pkt.type # QMI_REQUEST THEN Error ELSE qmi_decode(Tables[pkt.id].req, pkt.body)

\* `txn' as the handler uses it: uninitialised when nothing was decoded.
Txns == IF pkt.type = QMI_REQUEST THEN {pkt.txn} ELSE 0 .. MaxTxn

\* qmi_encode_message: a buffer too small for the header, or for the body.
qmi_encode_message(txn, resp) ==
  LET body == qmi_encode(Tables[pkt.id].resp, resp, buflen - HEADER, 1)
  IN  IF buflen < HEADER \/ ~body.ok THEN None
      ELSE [type |-> QMI_RESPONSE, txn |-> txn, id |-> pkt.id, body |-> body.val]

\* A response with a result and nothing else.
Failure(error) == [Zero(Tables[pkt.id].resp) EXCEPT ![1] = <<error>>]

\* Fault: the list is not marked as valid.
DomainListUnmarked(name) ==
  LET found == SelectSeq(PdMaps, LAMBDA m : m.service = name)
      list  == [i \in DOMAIN found |-> <<found[i].domain, found[i].instance, 0, 0>>]
  IN  <<<<SUCCESS>>, 1, Len(list), 1, 1, 0, Len(list), list>>

\* handle_get_domain_list, of a request that was decoded.
DomainList(name) ==
  LET found == SelectSeq(PdMaps, LAMBDA m : m.service = name)
      list  == [i \in DOMAIN found |-> <<found[i].domain, found[i].instance, 0, 0>>]
  IN  <<<<SUCCESS>>, 1, Len(list), 1, 1, IF list # <<>> THEN 1 ELSE 0, Len(list), list>>

\* The responses rmtfs makes: see RmtfsStorage for which and when.
RmtfsResponses ==
  {Failure(INTERNAL)} \union
    CASE pkt.id \in {"close", "iovec"}    -> {<<<<SUCCESS>>>>}
      [] pkt.id \in {"open", "alloc_buf"} -> {<<<<SUCCESS>>, 1, a>> : a \in Numbers}
      [] pkt.id = "dev_error"             -> {}

Responses(got) ==
  IF ~got.ok THEN {Failure(MALFORMED)}
  ELSE IF pkt.id = GET_DOMAIN_LIST THEN {DomainList(got.val.c[1])} ELSE RmtfsResponses

\* A message for a handler, which passes its answer to sendto.
Handle ==
  /\ up /\ pkt # None /\ pkt.sound /\ pkt.id \in Ids
  /\ LET got == qmi_decode_message IN
       \E resp \in Responses(got), txn \in Txns :
         reply' = [to |-> pkt, got |-> got, resp |-> resp, msg |-> qmi_encode_message(txn, resp)]
  /\ pkt' = None
  /\ UNCHANGED <<buflen, up>>

\* qmi_decode_header refuses the message, or nobody handles it.
Ignore ==
  /\ up /\ pkt # None /\ (~pkt.sound \/ pkt.id \notin Ids)
  /\ pkt' = None
  /\ UNCHANGED <<buflen, up, reply>>

\* recvfrom or poll fails, as when the name server goes: main returns, and
\* init starts the service again.
Fail ==
  /\ up
  /\ up' = FALSE /\ pkt' = None /\ reply' = NoReply
  /\ UNCHANGED buflen

Restart ==
  /\ ~up
  /\ up' = TRUE
  /\ UNCHANGED <<buflen, pkt, reply>>

-----------------------------------------------------------------------------
Init == buflen \in BufLens /\ up = TRUE /\ pkt = None /\ reply = NoReply

Next ==
  \/ \E txn \in 1 .. MaxTxn :
       \/ \E id \in Ids : \E req \in Requests[id] : Ask(id, req, txn)
       \/ \E id \in Ids \union {PFR}, type \in {QMI_REQUEST, QMI_INDICATION}, sound \in BOOLEAN :
            Tell(id, type, sound, txn)
  \/ Read \/ Handle \/ Ignore \/ Fail \/ Restart

Spec == Init /\ [][Next]_vars

-----------------------------------------------------------------------------
(* Properties.                                                             *)

Answered == "to" \in DOMAIN reply
ToRequest == Answered /\ reply.to.type = QMI_REQUEST

\* Every handler is given exactly what the client meant, whatever the order
\* of the TLVs and whatever optional TLVs of a later version are among them.
RequestUnderstood == ToRequest => reply.got.ok /\ reply.got.val.c = reply.to.meant

\* qmi_encode fills the buffer exactly when it has room for the whole message,
\* to the byte, and what it writes is the response in the wire format: an
\* optional element whose flag is not set leaves no trace, and a response
\* that does not fit is never sent in part.
EncodedExactly ==
  Answered =>
    LET ei   == Tables[reply.to.id].resp
        tlvs == TlvsOf(ei, reply.resp)
        size == HEADER + Len(Wire(SetToSeq(tlvs)))
    IN  IF reply.msg = None THEN size > buflen
        ELSE size <= buflen /\ ToSet(Tlvs(reply.msg.body)) = tlvs
               /\ HEADER + Len(reply.msg.body) = size

\* What a client reads off the answer to GET_DOMAIN_LIST: it carries the
\* transaction of the request, the number of domains of the service asked for
\* and, if there are any, the list of them.  A message that is no request is
\* told that it is malformed.
DomainsAnswered ==
  Answered /\ reply.msg # None /\ reply.to.id = GET_DOMAIN_LIST =>
    LET tlvs == ToSet(Tlvs(reply.msg.body))
        Tlv(t, b) == [type |-> t, bytes |-> b]
        maps == SelectSeq(PdMaps, LAMBDA m : m.service = reply.to.meant[1])
        n    == Len(maps)
        Entry(m) == <<Len(m.domain)>> \o m.domain \o <<m.instance, 0, 0, 0, 0, 0, 0, 0, 0>>
    IN  IF ToRequest
        THEN /\ reply.msg.txn = reply.to.txn
             /\ tlvs = {Tlv(2, <<0, 0, 0, 0>>), Tlv(16, <<n, 0>>), Tlv(17, <<1, 0>>)}
                         \union IF n = 0 THEN {}
                                ELSE {Tlv(18, <<n>> \o Concat([i \in 1 .. n |-> Entry(maps[i])]))}
        ELSE tlvs = {Tlv(2, <<1, 0, 2, 0>>)}
=============================================================================
