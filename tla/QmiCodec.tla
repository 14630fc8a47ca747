------------------------------ MODULE QmiCodec -------------------------------
(***************************************************************************)
(* The QMI codec, qrtr/lib/qmi.c: C structures to and from the wire, driven*)
(* by a table of elements, and the tables of pd-mapper and rmtfs.          *)
(*                                                                         *)
(* A structure is a sequence with a value for each element of its table: a *)
(* number, a string (a sequence of characters), or the sequence of the     *)
(* structures an element holds.  The wire is a sequence of bytes.  Loops   *)
(* over a table are recursive in the position; what a loop keeps is its    *)
(* arguments.  A string is shorter than the array it is decoded into, and  *)
(* tables with arrays of numbers (rmtfs_force_sync_ei, which nobody uses)  *)
(* are left out.                                                           *)
(***************************************************************************)
EXTENDS Integers, Sequences

LOCAL INSTANCE SequencesExt

TLV_HEADER == 3          \* TLV_TYPE_SIZE + TLV_LEN_SIZE
OPTIONAL_TLV_TYPE_START == 16

\* A number in size bytes, little endian, and back.
RECURSIVE Bytes(_, _)
Bytes(v, size) == IF size = 0 THEN <<>> ELSE <<v % 256>> \o Bytes(v \div 256, size - 1)

Number(bytes) == FoldRight(LAMBDA b, v : b + 256 * v, bytes, 0)

Error   == [ok |-> FALSE]
Done(x) == [ok |-> TRUE, val |-> x]

-----------------------------------------------------------------------------
(* struct qmi_elem_info.                                                   *)

Elem(type, len, size, array, tlv, ei) ==
  [type |-> type, len |-> len, size |-> size, array |-> array, tlv |-> tlv, ei |-> ei]

Unsigned(size, tlv)        == Elem("number", 1, size, "none", tlv, <<>>)
OptFlag(tlv)               == Elem("flag", 1, 1, "none", tlv, <<>>)
DataLen(tlv)               == Elem("length", 1, 1, "none", tlv, <<>>)
String(array, tlv)         == Elem("string", 256, 1, array, tlv, <<>>)
Struct(tlv, ei)            == Elem("struct", 1, 0, "none", tlv, ei)
StructArray(max, tlv, ei)  == Elem("struct", max, 0, "var", tlv, ei)

\* A structure set to zero.
RECURSIVE Zero(_)
Zero(ei) ==
  [k \in DOMAIN ei |->
     CASE ei[k].type = "string" -> <<>>
       [] ei[k].type = "struct" -> IF ei[k].array = "none" THEN <<Zero(ei[k].ei)>> ELSE <<>>
       [] OTHER -> 0]

\* The tables.
servreg_loc_qmi_result_ei == <<Unsigned(2, 0), Unsigned(2, 0)>>

servreg_loc_domain_list_entry_ei ==
  <<String("none", 0), Unsigned(4, 0), Unsigned(1, 0), Unsigned(4, 0)>>

servreg_loc_get_domain_list_req_ei == <<String("var", 1), OptFlag(16), Unsigned(4, 16)>>

servreg_loc_get_domain_list_resp_ei ==
  <<Struct(2, servreg_loc_qmi_result_ei),
    OptFlag(16), Unsigned(2, 16),
    OptFlag(17), Unsigned(2, 17),
    OptFlag(18), DataLen(18), StructArray(255, 18, servreg_loc_domain_list_entry_ei)>>

rmtfs_qmi_result_ei    == <<Unsigned(2, 0), Unsigned(2, 0)>>
rmtfs_iovec_entry_ei   == <<Unsigned(4, 0), Unsigned(4, 0), Unsigned(4, 0)>>
rmtfs_open_req_ei      == <<String("var", 1)>>
rmtfs_open_resp_ei     == <<Struct(2, rmtfs_qmi_result_ei), OptFlag(16), Unsigned(4, 16)>>
rmtfs_close_req_ei     == <<Unsigned(4, 1)>>
rmtfs_close_resp_ei    == <<Struct(2, rmtfs_qmi_result_ei)>>
rmtfs_iovec_req_ei     == <<Unsigned(4, 1), Unsigned(1, 2), DataLen(3),
                            StructArray(255, 3, rmtfs_iovec_entry_ei), Unsigned(1, 4)>>
rmtfs_iovec_resp_ei    == <<Struct(2, rmtfs_qmi_result_ei)>>
rmtfs_alloc_buf_req_ei == <<Unsigned(4, 1), Unsigned(4, 2)>>
rmtfs_alloc_buf_resp_ei == <<Struct(2, rmtfs_qmi_result_ei), OptFlag(16), Unsigned(8, 16)>>
rmtfs_dev_error_req_ei  == <<Unsigned(4, 1)>>
rmtfs_dev_error_resp_ei == <<Struct(2, rmtfs_qmi_result_ei), OptFlag(16), Unsigned(1, 16)>>

-----------------------------------------------------------------------------
(* Encoding.                                                               *)

\* skip_to_next_elem: at the top level, over all elements of the same TLV.
RECURSIVE skip_to_next_elem(_, _, _)
skip_to_next_elem(ei, k, level) ==
  IF level = 1 /\ k < Len(ei) /\ ei[k + 1].tlv = ei[k].tlv
  THEN skip_to_next_elem(ei, k + 1, level)
  ELSE k + 1

\* Fault: the header of the TLV is not counted.
HasRoomBare(n, room) == n <= room

\* The checks for buffer space: the element and a TLV header.
HasRoom(n, room) == n + TLV_HEADER <= room

string_len_sz(e) == IF e.len <= 256 THEN 1 ELSE 2

\* qmi_encode_string_elem: a nested string carries its length.
qmi_encode_string_elem(e, s, room, level) ==
  IF Len(s) > e.len THEN Error
  ELSE IF level = 1
  THEN IF HasRoom(Len(s), room) THEN Done(s) ELSE Error
  ELSE IF Len(s) + string_len_sz(e) <= room THEN Done(Bytes(Len(s), string_len_sz(e)) \o s)
  ELSE Error

RECURSIVE qmi_encode(_, _, _, _), EncodeFrom(_, _, _, _, _, _), EncodeStructs(_, _, _, _, _)

\* qmi_encode_struct_elem, with n structures to go.
EncodeStructs(ei, structs, n, room, level) ==
  IF n = 0 THEN Done(<<>>)
  ELSE LET one  == qmi_encode(ei, Head(structs), room, level)
           rest == EncodeStructs(ei, Tail(structs), n - 1, room - Len(one.val), level)
       IN  IF one.ok /\ rest.ok THEN Done(one.val \o rest.val) ELSE Error

EncodeElem(e, v, n, room, level) ==
  CASE e.type = "number" -> IF HasRoom(n * e.size, room) THEN Done(Bytes(v, e.size)) ELSE Error
    [] e.type = "string" -> qmi_encode_string_elem(e, v, room, level)
    [] e.type = "struct" -> EncodeStructs(e.ei, v, n, room, level + 1)

\* The TLV is complete: at the top level its header goes before it.
Flushed(tlv, at, level) ==
  IF level = 1 THEN [at EXCEPT !.out = @ \o <<tlv>> \o Bytes(Len(at.tlv), 2) \o at.tlv, !.tlv = <<>>]
  ELSE at

\* qmi_encode's loop from element k: `out' is complete, `tlv' is not, and `n'
\* is data_len_value.
EncodeFrom(ei, c, cap, level, k, at) ==
  IF k > Len(ei) THEN Done(at.out \o at.tlv)
  ELSE
    LET e    == ei[k]
        n    == IF e.array = "none" THEN 1 ELSE at.n
        room == cap - Len(at.out) - Len(at.tlv)
        Go(j, next) == EncodeFrom(ei, c, cap, level, j, next)
        With(bytes, m) == [at EXCEPT !.tlv = @ \o bytes, !.n = m]
    IN  CASE e.array = "var" /\ ~(n \in 1 .. e.len) -> Error
          [] e.type = "flag" ->
               Go(IF c[k] = 1 THEN k + 1 ELSE skip_to_next_elem(ei, k, level), [at EXCEPT !.n = n])
          [] e.type = "length" ->
               IF ~HasRoom(e.size, room) THEN Error
               ELSE IF c[k] # 0 THEN Go(k + 1, With(Bytes(c[k], e.size), c[k]))
               ELSE Go(skip_to_next_elem(ei, k + 1, level),
                       Flushed(e.tlv, With(Bytes(0, e.size), 0), level))
          [] OTHER ->
               LET r == EncodeElem(e, c[k], n, room, level)
               IN  IF r.ok THEN Go(k + 1, Flushed(e.tlv, With(r.val, n), level)) ELSE Error

qmi_encode(ei, c, cap, level) ==
  EncodeFrom(ei, c, cap, level, 1, [out |-> <<>>, tlv |-> <<>>, n |-> 0])

-----------------------------------------------------------------------------
(* Decoding.                                                               *)

\* Fault: the last element of a TLV is taken for the first.
find_ei_last(ei, type) ==
  LET s == {k \in DOMAIN ei : ei[k].tlv = type}
  IN  IF s = {} THEN 0 ELSE CHOOSE k \in s : \A j \in s : j <= k

\* find_ei: the first element of a TLV, or 0.
find_ei(ei, type) ==
  LET s == {k \in DOMAIN ei : ei[k].tlv = type}
  IN  IF s = {} THEN 0 ELSE CHOOSE k \in s : \A j \in s : k <= j

At(buf, pos, n) == SubSeq(buf, pos + 1, pos + n)

\* qmi_decode_string_elem: the string at pos and where it ends.
qmi_decode_string_elem(e, buf, pos, tlv_len, level) ==
  LET sz  == IF level = 1 THEN 0 ELSE string_len_sz(e)
      len == IF level = 1 THEN tlv_len ELSE Number(At(buf, pos, sz))
  IN  IF len > e.len \/ len > tlv_len THEN Error
      ELSE Done([v |-> At(buf, pos + sz, len), pos |-> pos + sz + len])

RECURSIVE DecodeFrom(_, _, _, _, _, _, _), DecodeStructs(_, _, _, _, _, _)

\* qmi_decode_struct_elem, with n structures and tlv_len bytes to go.
DecodeStructs(ei, buf, pos, n, tlv_len, level) ==
  IF n = 0 \/ tlv_len <= 0
  THEN IF (level <= 2 /\ tlv_len # 0) \/ (level > 2 /\ (n > 0 \/ tlv_len < 0)) THEN Error
       ELSE Done([v |-> <<>>, pos |-> pos])
  ELSE LET one == DecodeFrom(ei, Zero(ei), At(buf, pos, tlv_len), 0, 1, 0, level)
       IN  IF ~one.ok THEN Error
           ELSE LET rest == DecodeStructs(ei, buf, pos + one.val.pos, n - 1,
                                          tlv_len - one.val.pos, level)
                IN  IF rest.ok THEN Done([v |-> <<one.val.c>> \o rest.val.v, pos |-> rest.val.pos])
                    ELSE Error

DecodeElem(e, buf, pos, n, tlv_len, level) ==
  CASE e.type = "number" -> Done([v |-> Number(At(buf, pos, e.size)), pos |-> pos + e.size])
    [] e.type = "string" -> qmi_decode_string_elem(e, buf, pos, tlv_len, level)
    [] e.type = "struct" -> DecodeStructs(e.ei, buf, pos, n, tlv_len, level + 1)

\* The element at k once its TLV's flag and length are behind: `n' is
\* data_len_value.
DecodeValue(ei, c, buf, pos, k, n, tlv_len, level) ==
  LET e == ei[k]
      m == IF e.array = "none" THEN 1 ELSE n
      r == DecodeElem(e, buf, pos, m, tlv_len, level)
  IN  IF (e.array = "var" /\ m > e.len) \/ ~r.ok THEN Error
      ELSE DecodeFrom(ei, [c EXCEPT ![k] = r.val.v], buf, r.val.pos, k + 1, m, level)

\* The flag is set and the length, its lower byte, is read.
DecodeTlv(ei, c, buf, pos, k, n, tlv_len, level) ==
  LET f  == IF ei[k].type = "flag" THEN k + 1 ELSE k
      c1 == IF f = k THEN c ELSE [c EXCEPT ![k] = 1]
      m  == (n - (n % 256)) + Number(At(buf, pos, ei[f].size))
  IN  IF ei[f].type = "length"
      THEN DecodeValue(ei, [c1 EXCEPT ![f] = m], buf, pos + ei[f].size, f + 1, m,
                       tlv_len - ei[f].size, level)
      ELSE DecodeValue(ei, c1, buf, pos, f, n, tlv_len, level)

\* qmi_decode's loop from byte pos: at the top level TLVs in any order, of
\* which unknown optional ones are skipped; below it the elements in turn.
DecodeFrom(ei, c, buf, pos, k, n, level) ==
  IF pos >= Len(buf) \/ (level >= 2 /\ k > Len(ei)) THEN Done([c |-> c, pos |-> pos])
  ELSE IF level >= 2 THEN DecodeTlv(ei, c, buf, pos, k, n, Len(buf) - pos, level)
  ELSE LET type == buf[pos + 1]
           len  == Number(At(buf, pos + 1, 2))
           el   == find_ei(ei, type)
           body == pos + TLV_HEADER
       IN  CASE el # 0 -> DecodeTlv(ei, c, buf, body, el, n, len, level)
             [] el = 0 /\ type < OPTIONAL_TLV_TYPE_START -> Error
             [] OTHER -> DecodeFrom(ei, c, buf, body + len, k, n, level)

\* Into a structure set to zero, as every caller has it.
qmi_decode(ei, buf) == DecodeFrom(ei, Zero(ei), buf, 0, 1, 0, 1)
=============================================================================
