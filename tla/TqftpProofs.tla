----------------------------- MODULE TqftpProofs -----------------------------
(***************************************************************************)
(* What the TFTP server promises its transfers, proved for any number of   *)
(* readers and writers, any files, block sizes, options and windows,       *)
(* through lost packets, early timeouts, strangers, BYEs and failing files. *)
(*                                                                         *)
(* Each reader and each writer has an invariant of its own.  A reader's    *)
(* says that whatever is on its way to it is some block of the file, so    *)
(* that the order in which it takes them is all that matters.  A writer's  *)
(* says what the file holds while its request, a DATA or an ACK of it is   *)
(* under way, as long as no DATA of it was stored twice or in part: of the *)
(* DATA it repeats, those of an earlier block come first.                  *)
(***************************************************************************)
EXTENDS Tqftp, SequenceTheorems, TLAPS

\* The packets of either direction, and what the remote side remembers.
Ops    == {"RRQ", "WRQ", "OACK", "DATA", "ACK", "ERROR", "PING"}
States == {"idle", "asked", "busy", "last", "done", "failed"}
Sizes  == Nat \cup {-1}
FromServer == [from : Socks, op : Ops, block : Sizes, data : Seq(Units)]
FromPeer   == [from : Peers, op : Ops, block : Nat, data : Seq(Units)]
PeerType   == [st : States, sock : Socks \cup {Null}, size : Sizes, got : Seq(Units), acked : Nat]

\* The packets of q that are in M; at most one of them; those in N at the end.
Sel(q, M)  == {q[i] : i \in DOMAIN q} \cap M
Once(q, M) == \A i, j \in DOMAIN q : q[i] \in M /\ q[j] \in M => i = j
Sorted(q, M, N) == \A i, j \in DOMAIN q : i < j /\ q[i] \in N /\ q[j] \in M => q[j] \in N

Acks      == {m \in FromServer : m.op = "ACK"}
DataOf(c) == {m \in FromPeer : m.from = c /\ m.op = "DATA"}
WrqOf(c)  == {m \in FromPeer : m.from = c /\ m.op = "WRQ"}

Serves(s, c) == conns[s] # Null /\ conns[s].sq = c

TypeInv ==
  /\ files \in [Paths -> Seq(Units) \cup {Null}]
  /\ conns \in [Socks -> Conns \cup {Null}]
  /\ mainq \in Seq(FromPeer)
  /\ inq \in [Socks -> Seq(FromPeer)]
  /\ net \in [Peers -> Seq(FromServer)]
  /\ peer \in [Peers -> PeerType]

\* Readers ask to read and writers to write, and are listed so.
AskInv ==
  \A i \in DOMAIN mainq : /\ mainq[i].op = "RRQ" => mainq[i].from \in Readers
                          /\ mainq[i].op = "WRQ" => mainq[i].from \in Writers

ListInv ==
  \A s \in Socks : conns[s] # Null =>
    conns[s].sq \in (IF conns[s].kind = "reader" THEN Readers ELSE Writers)

\* A transfer under way has a socket; strangers have no transfers.
PeerInv ==
  \A c \in Peers : /\ peer[c].st \in {"busy", "last"} => peer[c].sock \in Socks
                   /\ c \notin Readers \cup Writers => net[c] = <<>> /\ peer[c].st = "idle"

-----------------------------------------------------------------------------
\* A DATA of file f: some block of it that is not empty.
BlockOf(f, m) ==
  \E k \in Nat \ {0} : /\ (k - 1) * Blk < Len(f)
                       /\ m.block = k % BlockMod
                       /\ m.data = Slice(f, (k - 1) * Blk, Blk)

\* What is on its way to the reader of file f.
PacketOK(f, m) ==
  /\ m.op # "ACK"
  /\ m.op = "DATA" => f # Null /\ BlockOf(f, m)
  /\ m.op = "OACK" => f # Null /\ m.block \in {Len(f), -1}

\* What the reader has: whole blocks from the start, or all.
GotOK(f, got) ==
  got # <<>> => /\ f # Null
                /\ Len(got) <= Len(f)
                /\ got = SubSeq(f, 1, Len(got))
                /\ Len(got) = Len(f) \/ \E k \in Nat : Len(got) = k * Blk

ReaderInv(c) ==
  LET f == Stored[PathOf[c]] IN
  /\ files[PathOf[c]] = f
  /\ \A s \in Socks : Serves(s, c) => f # Null
  /\ \A i \in DOMAIN net[c] : PacketOK(f, net[c][i])
  /\ GotOK(f, peer[c].got)
  /\ peer[c].size # -1 => f # Null /\ peer[c].size = Len(f)
  /\ peer[c].st = "done" => peer[c].got = f

-----------------------------------------------------------------------------
\* The first n blocks of what the writer sends, over what its file held before.
Sent(c, n) == SubSeq(Payload[c], 1, Min2(n * WBlk, Len(Payload[c])))
Base(c)    == IF Stored[PathOf[c]] = Null THEN <<>> ELSE Stored[PathOf[c]]
Written(c, n) == Overlay(Base(c), 0, Sent(c, n))

\* The server knows nothing of the writer.
Untouched(c) ==
  /\ peer[c].acked = 0 /\ net[c] = <<>>
  /\ files[PathOf[c]] = Stored[PathOf[c]]
  /\ \A s \in Socks : ~Serves(s, c)

RequestInv(c) ==
  /\ peer[c].st = "idle" => Untouched(c) /\ Sel(mainq, WrqOf(c)) = {}
  /\ Sel(mainq, WrqOf(c)) # {} => Untouched(c) /\ peer[c].st = "asked"
  /\ Once(mainq, WrqOf(c))

\* An ACK on its way says that all blocks sent so far are in the file.
AckInv(c) ==
  c \notin spoiled =>
    /\ Once(net[c], Acks)
    /\ \A m \in Sel(net[c], Acks) :
         /\ files[PathOf[c]] = Written(c, peer[c].acked)
         /\ \A s \in Socks : Serves(s, c) => s = m.from

\* The writer's n-th block.
Nth(c, n) ==
  {m \in DataOf(c) : /\ m.block = n % BlockMod
                     /\ m.data = Slice(Payload[c], (n - 1) * WBlk, WBlk)}

\* All n blocks sent are in the file, and what is under way is the last again.
AllIn(s, c, n) ==
  /\ files[PathOf[c]] = Written(c, n)
  /\ conns[s].pos = n * WBlk
  /\ Sel(inq[s], DataOf(c)) \subseteq Nth(c, n)

\* All but the last are, and behind those repeated comes the last.
LastOut(s, c, n) ==
  /\ n # 0 /\ peer[c].st # "done"
  /\ (n - 1) * WBlk <= Len(Payload[c])
  /\ files[PathOf[c]] = Written(c, n - 1)
  /\ conns[s].pos = (n - 1) * WBlk
  /\ Sel(net[c], Acks) = {}
  /\ Sel(inq[s], DataOf(c)) \subseteq Nth(c, n - 1) \cup Nth(c, n)
  /\ Sorted(inq[s], DataOf(c), Nth(c, n))

\* The DATA at the writer's own socket.
DataInv(c) ==
  LET n == peer[c].acked IN
  /\ n = 0 => \A s \in Socks : Sel(inq[s], DataOf(c)) = {}
  /\ c \notin spoiled => \A s \in Socks : Serves(s, c) => AllIn(s, c, n) \/ LastOut(s, c, n)

\* The file reaches to the writer's position.
PosInv(c) ==
  \A s \in Socks : Serves(s, c) => /\ files[PathOf[c]] # Null
                                   /\ conns[s].pos <= Len(files[PathOf[c]])

\* How far the writer is.
StateInv(c) ==
  LET n == peer[c].acked IN
  /\ peer[c].st = "asked" => n = 0
  /\ peer[c].st \in {"busy", "last"} => n # 0
  /\ peer[c].st = "busy" => n * WBlk <= Len(Payload[c])
  /\ peer[c].st \in {"last", "done"} => Len(Payload[c]) < n * WBlk
  /\ peer[c].st = "done" /\ c \notin spoiled => files[PathOf[c]] = Written(c, n)

OneSocket(c) == \A s, t \in Socks : Serves(s, c) /\ Serves(t, c) => s = t

\* Only ACKs and ERRORs go to a writer.
NetInv(c) == \A i \in DOMAIN net[c] : net[c][i].op \in {"ACK", "ERROR"}

WriterInv(c) ==
  /\ NetInv(c) /\ RequestInv(c) /\ OneSocket(c)
  /\ AckInv(c) /\ DataInv(c) /\ PosInv(c) /\ StateInv(c)

Inv ==
  /\ TypeInv /\ AskInv /\ ListInv /\ PeerInv
  /\ \A c \in Readers : ReaderInv(c)
  /\ \A c \in Writers : WriterInv(c)

\* No file is written while it is read or written by another.
PathsApart ==
  \A c \in Writers, d \in Readers \cup Writers : c # d => PathOf[c] # PathOf[d]

-----------------------------------------------------------------------------
(* Queues.                                                                 *)

\* Of the packets in M, q has no more than p, in the same order.
Less(q, p, M) ==
  /\ Sel(q, M) \subseteq Sel(p, M)
  /\ Once(p, M) => Once(q, M)
  /\ \A N : Sorted(p, M, N) => Sorted(q, M, N)

\* Every packet of u is one of q.
Among(u, q) == \A i \in DOMAIN u : \E j \in DOMAIN q : u[i] = q[j]

\* Every packet of u is one of q, or m.
AmongOr(u, q, m) == \A i \in DOMAIN u : u[i] = m \/ \E j \in DOMAIN q : u[i] = q[j]

\* A queue has no more packets than itself.
LEMMA LessSame == \A q, M : Less(q, q, M)
BY Zenon DEF Less

\* An empty queue has no more packets than any.
LEMMA LessEmpty == \A q, M : Less(<<>>, q, M)
<1>1. DOMAIN <<>> = {}
  OBVIOUS
<1> QED BY <1>1, Zenon DEF Less, Sel, Once, Sorted

\* The rest of a queue.
LEMMA LessTail ==
  ASSUME NEW S, NEW q \in Seq(S), q # <<>>, NEW M
  PROVE  /\ Less(Tail(q), q, M)
         /\ Head(q) \in M => Head(q) \in Sel(q, M)
         /\ Head(q) \in M /\ Once(q, M) => Sel(Tail(q), M) = {}
         /\ \A N : Head(q) \in N /\ Sorted(q, M, N) => Sel(Tail(q), M) \subseteq N
         /\ Tail(q) \in Seq(S) /\ Head(q) \in S
         /\ Among(Tail(q), q)
<1>1. /\ Len(q) \in Nat \ {0} /\ DOMAIN q = 1 .. Len(q) /\ Head(q) = q[1]
      /\ Tail(q) \in Seq(S) /\ DOMAIN Tail(q) = 1 .. Len(q) - 1 /\ Head(q) \in S
  BY EmptySeq, LenProperties, HeadTailProperties
<1>2. \A i \in 1 .. Len(q) - 1 : Tail(q)[i] = q[i + 1]
  BY <1>1, HeadTailProperties, Zenon
<1>3. \A i \in 1 .. Len(q) - 1 : i + 1 \in 1 .. Len(q) /\ i + 1 # 1
  BY <1>1
<1>4. \A i, j \in 1 .. Len(q) - 1 : i + 1 = j + 1 => i = j
  BY <1>1
<1>5. 1 \in 1 .. Len(q)
  BY <1>1
<1>6. Sel(Tail(q), M) \subseteq Sel(q, M)
  BY <1>1, <1>2, <1>3, Zenon DEF Sel
<1>7. Once(q, M) => Once(Tail(q), M)
  BY <1>1, <1>2, <1>3, <1>4 DEF Once
<1>8. ASSUME Head(q) \in M, Once(q, M) PROVE Sel(Tail(q), M) = {}
  <2> SUFFICES ASSUME NEW i \in 1 .. Len(q) - 1, Tail(q)[i] \in M PROVE FALSE
    BY <1>1, Zenon DEF Sel
  <2> QED BY <1>1, <1>2, <1>3, <1>5, <1>8 DEF Once
<1>9. Head(q) \in M => Head(q) \in Sel(q, M)
  BY <1>1, <1>5, Zenon DEF Sel
<1>10. Among(Tail(q), q)
  BY <1>1, <1>2, <1>3, Zenon DEF Among
<1>11. ASSUME NEW N, Sorted(q, M, N) PROVE Sorted(Tail(q), M, N)
  <2>1. \A i, j \in 1 .. Len(q) - 1 : i < j => i + 1 < j + 1
    BY <1>1
  <2> QED BY <1>1, <1>2, <1>3, <1>11, <2>1, Zenon DEF Sorted
<1>12. ASSUME NEW N, Head(q) \in N, Sorted(q, M, N) PROVE Sel(Tail(q), M) \subseteq N
  <2>1. \A i \in 1 .. Len(q) - 1 : 1 < i + 1
    BY <1>1
  <2>2. \A i \in 1 .. Len(q) - 1 : Tail(q)[i] \in M => Tail(q)[i] \in N
    BY <1>1, <1>2, <1>3, <1>5, <1>12, <2>1, Zenon DEF Sorted
  <2> QED BY <1>1, <2>2, Zenon DEF Sel
<1> QED BY <1>1, <1>6, <1>7, <1>8, <1>9, <1>10, <1>11, <1>12, Zenon DEF Less

\* A queue with a packet more.
LEMMA LessAppend ==
  ASSUME NEW S, NEW q \in Seq(S), NEW m \in S, NEW M
  PROVE  /\ m \notin M => Less(Append(q, m), q, M)
         /\ Sel(Append(q, m), M) \subseteq Sel(q, M) \cup {m}
         /\ Sel(q, M) = {} => Once(Append(q, m), M)
         /\ \A N : m \in N /\ Sorted(q, M, N) => Sorted(Append(q, m), M, N)
         /\ \A N \in SUBSET M : m \in N /\ Sel(q, M) \cap N = {} => Sorted(Append(q, m), M, N)
         /\ Append(q, m) \in Seq(S) /\ Append(q, m) # <<>>
         /\ AmongOr(Append(q, m), q, m)
<1>1. /\ Len(q) \in Nat /\ DOMAIN q = 1 .. Len(q)
      /\ Append(q, m) \in Seq(S) /\ DOMAIN Append(q, m) = 1 .. Len(q) + 1
      /\ Append(q, m)[Len(q) + 1] = m /\ Append(q, m) # <<>>
      /\ \A i \in 1 .. Len(q) : Append(q, m)[i] = q[i]
  BY LenProperties, AppendProperties
<1>2. \A i \in 1 .. Len(q) + 1 : i \in 1 .. Len(q) \/ i = Len(q) + 1
  BY <1>1
<1>3. \A i \in 1 .. Len(q) : i # Len(q) + 1
  BY <1>1
<1> DEFINE a == Append(q, m)
<1> HIDE DEF a
<1>4. Sel(a, M) \subseteq Sel(q, M) \cup {m}
  BY <1>1, <1>2, Zenon DEF Sel, a
<1>5. m \notin M => Sel(a, M) \subseteq Sel(q, M)
  BY <1>4, Zenon DEF Sel
<1>6. m \notin M /\ Once(q, M) => Once(a, M)
  BY <1>1, <1>2, Zenon DEF Once, a
<1>7. ASSUME Sel(q, M) = {} PROVE Once(a, M)
  <2>1. \A i \in 1 .. Len(q) : q[i] \notin M
    BY <1>1, <1>7, Zenon DEF Sel
  <2> QED BY <1>1, <1>2, <2>1, Zenon DEF Once, a
<1>8. AmongOr(a, q, m)
  BY <1>1, <1>2, Zenon DEF AmongOr, a
<1>9. \A i, j \in 1 .. Len(q) + 1 : i < j => i \in 1 .. Len(q)
  BY <1>1
<1>10. ASSUME NEW N, m \notin M \/ m \in N, Sorted(q, M, N) PROVE Sorted(a, M, N)
  BY <1>1, <1>2, <1>9, <1>10, Zenon DEF Sorted, a
<1>11. ASSUME NEW N \in SUBSET M, m \in N, Sel(q, M) \cap N = {} PROVE Sorted(a, M, N)
  <2>1. \A i \in 1 .. Len(q) : q[i] \notin N
    BY <1>1, <1>11, Zenon DEF Sel
  <2>2. \A i \in 1 .. Len(q) : a[i] \notin N
    BY <1>1, <2>1, Zenon DEF a
  <2> QED BY <1>1, <1>9, <2>2, Zenon DEF Sorted, a
<1> QED BY <1>1, <1>4, <1>5, <1>6, <1>7, <1>8, <1>10, <1>11, Zenon DEF Less, a

\* The first packet of its kind in a queue.
LEMMA FirstOne ==
  ASSUME NEW S, NEW q \in Seq(S), NEW m \in S, NEW M, Sel(q, M) = {}
  PROVE  Sel(Append(q, m), M) \subseteq {m} /\ Once(Append(q, m), M)
<1>1. Sel(Append(q, m), M) \subseteq Sel(q, M) \cup {m} /\ Once(Append(q, m), M)
  BY LessAppend, Zenon
<1> QED BY <1>1, Zenon

-----------------------------------------------------------------------------
(* Blocks of a file.                                                       *)

\* The blocks n units make, of b units each.
LEMMA DivUp ==
  ASSUME NEW n \in Nat, NEW b \in Nat \ {0}
  PROVE  /\ (n + b - 1) \div b \in Nat
         /\ n <= ((n + b - 1) \div b) * b /\ ((n + b - 1) \div b) * b < n + b
BY SMT

\* Multiples of a block compare as their numbers do.
LEMMA TimesLess ==
  ASSUME NEW i \in Int, NEW j \in Int, NEW b \in Nat \ {0}
  PROVE  i * b < j * b <=> i < j
BY SMT

\* A number below the modulus is its own remainder.
LEMMA ModSmall ==
  ASSUME NEW k \in Nat, NEW b \in Nat \ {0}
  PROVE  /\ k % b \in Nat
         /\ k < b => k % b = k
         /\ k = b => k % b = 0
BY SMT

\* A number and the next have different remainders.
LEMMA ModNext ==
  ASSUME NEW k \in Nat, NEW b \in Nat \ {0, 1}
  PROVE  k % b # (k + 1) % b
<1>1. PICK q, p : q = k \div b /\ p = k % b
  OBVIOUS
<1>2. PICK u, v : u = (k + 1) \div b /\ v = (k + 1) % b
  OBVIOUS
<1>3. /\ k = q * b + p /\ k + 1 = u * b + v
      /\ q \in Int /\ u \in Int /\ p \in Int /\ v \in Int
  BY <1>1, <1>2, SMT
<1>4. p = v => (u - q) * b = 1
  BY <1>3, SMT
<1>5. \A x \in Int : x * b # 1
  BY SMT
<1> QED BY <1>1, <1>2, <1>3, <1>4, <1>5, SMT

\* The blocks in a multiple of a block.
LEMMA DivExact ==
  ASSUME NEW k \in Nat, NEW b \in Nat \ {0}
  PROVE  (k * b) \div b = k
BY SMT

\* Two block numbers with the same remainder are the same, as a file has fewer
\* blocks than block numbers.
LEMMA ModOnce ==
  ASSUME NEW k \in Nat \ {0}, NEW q \in Nat, NEW b \in Nat \ {0}, k < b, q < b,
         k % b = (q + 1) % b
  PROVE  k = q + 1
<1>1. k % b = k
  BY ModSmall, Zenon
<1>2. q + 1 < b => (q + 1) % b = q + 1
  BY ModSmall
<1>3. q + 1 = b => (q + 1) % b = 0
  BY ModSmall, Zenon
<1> QED BY <1>1, <1>2, <1>3

\* What tftp_send_data reads at an offset.
LEMMA SliceFacts ==
  ASSUME NEW S, NEW f \in Seq(S), NEW o \in Nat, NEW n \in Nat
  PROVE  /\ Slice(f, o, n) \in Seq(S)
         /\ Len(Slice(f, o, n)) = IF o < Len(f) THEN Min2(n, Len(f) - o) ELSE 0
         /\ \A i \in 1 .. Len(Slice(f, o, n)) : Slice(f, o, n)[i] = f[o + i]
<1>1. Len(f) \in Nat /\ \A i \in 1 .. Len(f) : f[i] \in S
  BY LenProperties, ElementOfSeq, Zenon
<1> DEFINE e == Min2(o + n, Len(f))
<1>2. /\ e \in Nat /\ o + 1 \in Int /\ e <= Len(f) /\ e - (o + 1) + 1 = e - o
      /\ e = (IF o + n < Len(f) THEN o + n ELSE Len(f))
  BY <1>1 DEF Min2
<1>3. \A i \in o + 1 .. e : f[i] \in S
  BY <1>1, <1>2
<1>4. Slice(f, o, n) = SubSeq(f, o + 1, e)
  BY Zenon DEF Slice
<1>5. e \in Int
  BY <1>2
<1> HIDE DEF e
<1>6. /\ SubSeq(f, o + 1, e) \in Seq(S)
      /\ Len(SubSeq(f, o + 1, e)) = IF o + 1 <= e THEN e - (o + 1) + 1 ELSE 0
      /\ \A i \in 1 .. e - (o + 1) + 1 : SubSeq(f, o + 1, e)[i] = f[(o + 1) + i - 1]
  BY <1>2, <1>3, <1>5, SubSeqProperties
<1>7. Len(Slice(f, o, n)) = IF o < Len(f) THEN Min2(n, Len(f) - o) ELSE 0
  BY <1>1, <1>2, <1>4, <1>6 DEF Min2
<1>8. \A i \in 1 .. Len(Slice(f, o, n)) : i \in 1 .. e - (o + 1) + 1 /\ (o + 1) + i - 1 = o + i
  BY <1>2, <1>4, <1>6
<1> QED BY <1>4, <1>6, <1>7, <1>8, Zenon

\* A block a reader takes is the next of the file, although block numbers are
\* taken modulo BlockMod.
LEMMA NextBlock ==
  ASSUME NEW f \in Seq(Units), NEW got \in Seq(Units), GotOK(f, got),
         Len(f) <= Blk * (BlockMod - 1), NEW k \in Nat \ {0}, (k - 1) * Blk < Len(f),
         k % BlockMod = ((Len(got) + Blk - 1) \div Blk + 1) % BlockMod
  PROVE  Len(got) = (k - 1) * Blk
<1> DEFINE g == Len(got)
           n == Len(f)
           q == (g + Blk - 1) \div Blk
<1>1. /\ g \in Nat /\ n \in Nat /\ Blk \in Nat \ {0} /\ BlockMod \in Nat \ {0}
      /\ g = 0 \/ (g <= n /\ (g = n \/ \E j \in Nat : g = j * Blk))
  BY EmptySeq, LenProperties, BlocksAssumption, Zenon DEF GotOK
<1>2. q \in Nat /\ g <= q * Blk /\ q * Blk < g + Blk
  BY <1>1, DivUp, Zenon
<1>3. g <= n
  BY <1>1
<1>4. k \in Nat /\ k % BlockMod = (q + 1) % BlockMod /\ (k - 1) * Blk < n /\ n <= (BlockMod - 1) * Blk
  BY <1>1
<1> HIDE DEF q, g, n
<1>5. k - 1 < BlockMod - 1
  <2>1. (k - 1) * Blk < (BlockMod - 1) * Blk
    BY <1>1, <1>4
  <2> QED BY <1>1, <2>1, TimesLess
<1>6. q < BlockMod
  <2>1. (BlockMod - 1) * Blk + Blk = BlockMod * Blk
    BY <1>1
  <2>2. q * Blk < BlockMod * Blk
    BY <1>1, <1>2, <1>3, <1>4, <2>1
  <2> QED BY <1>1, <1>2, <2>2, TimesLess
<1>7. k = q + 1
  <2>1. k < BlockMod
    BY <1>1, <1>4, <1>5
  <2> QED BY <1>1, <1>2, <1>4, <1>6, <2>1, ModOnce, Zenon
<1>8. CASE g = 0
  <2>1. q * Blk < 1 * Blk
    BY <1>1, <1>2, <1>8
  <2>2. q < 1
    BY <1>1, <1>2, <2>1, TimesLess
  <2>3. q = 0
    BY <1>2, <2>2
  <2> QED BY <1>1, <1>7, <1>8, <2>3 DEF g
<1>9. CASE g = n
  BY <1>1, <1>2, <1>4, <1>7, <1>9
<1>10. ASSUME NEW j \in Nat, g = j * Blk PROVE Len(got) = (k - 1) * Blk
  <2>1. j * Blk + Blk = (j + 1) * Blk
    BY <1>1
  <2>2. q * Blk < (j + 1) * Blk /\ ~(q * Blk < j * Blk)
    BY <1>1, <1>2, <1>10, <2>1
  <2>3. q < j + 1 /\ ~(q < j)
    BY <1>1, <1>2, <2>2, TimesLess
  <2>4. q = j
    BY <1>2, <2>3
  <2> QED BY <1>1, <1>7, <1>10, <2>4 DEF g
<1> QED BY <1>1, <1>8, <1>9, <1>10, Zenon

\* Taking it keeps what the reader has a part of the file from its start; a
\* short block is the last.
LEMMA TakeBlock ==
  ASSUME NEW f \in Seq(Units), NEW got \in Seq(Units), GotOK(f, got), f # Null,
         NEW k \in Nat \ {0}, (k - 1) * Blk < Len(f), Len(got) = (k - 1) * Blk,
         NEW d, d = Slice(f, (k - 1) * Blk, Blk)
  PROVE  /\ got \o d \in Seq(Units)
         /\ GotOK(f, got \o d)
         /\ Len(d) < Blk => got \o d = f
<1> DEFINE g == Len(got)
           n == Len(f)
           e == Min2(g + Blk, n)
<1>1. /\ g \in Nat /\ n \in Nat /\ Blk \in Nat \ {0} /\ g < n
      /\ got = SubSeq(f, 1, g) /\ g = (k - 1) * Blk
  <2>1. g \in Nat /\ n \in Nat /\ Blk \in Nat \ {0} /\ g < n /\ g = (k - 1) * Blk
    BY LenProperties, BlocksAssumption, Zenon
  <2>2. CASE got = <<>>
    <3>1. g = 0
      BY <2>2, Zenon
    <3>2. SubSeq(f, 1, 0) = <<>>
      BY SubSeqEmpty
    <3> QED BY <2>1, <2>2, <3>1, <3>2, Zenon
  <2>3. CASE got # <<>>
    BY <2>1, <2>3, Zenon DEF GotOK
  <2> QED BY <2>2, <2>3, Zenon
<1>2. d = SubSeq(f, g + 1, e)
  BY <1>1, Zenon DEF Slice
<1>3. /\ 1 \in 1 .. n + 1 /\ g \in 0 .. n /\ e \in g .. n /\ e = (IF g + Blk < n THEN g + Blk ELSE n)
  BY <1>1 DEF Min2
<1> HIDE DEF g, n, e
<1>4. got \o d = SubSeq(f, 1, e)
  <2>1. g \in 1 - 1 .. n
    BY <1>3
  <2> QED BY <1>1, <1>2, <1>3, <2>1, ConcatAdjacentSubSeq, ZenonT(30) DEF n
<1>5. \A i \in 1 .. e : f[i] \in Units
  BY <1>1, <1>3, ElementOfSeq DEF n
<1>6. e \in Nat /\ e \in Int /\ e > 0
  BY <1>1, <1>3
<1>7. SubSeq(f, 1, e) \in Seq(Units) /\ Len(SubSeq(f, 1, e)) = e
  <2>1. Len(SubSeq(f, 1, e)) = IF 1 <= e THEN e - 1 + 1 ELSE 0
    BY <1>5, <1>6, SubSeqProperties
  <2>2. SubSeq(f, 1, e) \in Seq(Units)
    BY <1>5, <1>6, SubSeqProperties
  <2> QED BY <1>6, <2>1, <2>2
<1>8. Len(d) = e - g
  <2>1. \A i \in g + 1 .. e : f[i] \in Units
    BY <1>1, <1>5, <1>6
  <2>2. Len(d) = IF g + 1 <= e THEN e - (g + 1) + 1 ELSE 0
    BY <1>1, <1>2, <1>6, <2>1, SubSeqProperties, SMTT(20)
  <2> QED BY <1>1, <1>3, <2>2
<1>9. e = n \/ \E j \in Nat : e = j * Blk
  <2>1. g + Blk = k * Blk
    BY <1>1
  <2> QED BY <1>1, <1>3, <2>1, Zenon
<1>10. GotOK(f, got \o d)
  <2> DEFINE h == got \o d
  <2>1. h = SubSeq(f, 1, Len(h)) /\ Len(h) = e
    BY <1>4, <1>7, Zenon
  <2>2. Len(h) <= Len(f) /\ (Len(h) = Len(f) \/ \E j \in Nat : Len(h) = j * Blk)
    BY <1>1, <1>3, <1>9, <2>1 DEF n
  <2> HIDE DEF h
  <2>3. GotOK(f, h)
    BY <2>1, <2>2, Zenon DEF GotOK
  <2> QED BY <2>3, Zenon DEF h
<1>11. Len(d) < Blk => got \o d = f
  <2>1. Len(d) < Blk => e = n
    BY <1>1, <1>3, <1>8
  <2>2. SubSeq(f, 1, n) = f
    BY SubSeqFull, Zenon DEF n
  <2> QED BY <1>4, <2>1, <2>2, Zenon
<1> QED BY <1>4, <1>7, <1>10, <1>11, Zenon

\* A part of the file from its start that is as long is the file.
LEMMA GotAll ==
  ASSUME NEW f \in Seq(Units), NEW got \in Seq(Units), GotOK(f, got), Len(got) >= Len(f)
  PROVE  got = f
<1>1. Len(f) \in Nat /\ Len(got) \in Nat
  BY LenProperties, Zenon
<1>2. CASE got = <<>>
  <2>1. Len(f) = 0
    BY <1>1, <1>2
  <2> QED BY <1>2, <2>1, EmptySeq, Zenon
<1>3. CASE got # <<>>
  <2>1. got = SubSeq(f, 1, Len(f))
    BY <1>1, <1>3 DEF GotOK
  <2> QED BY <2>1, SubSeqFull, Zenon
<1> QED BY <1>2, <1>3, Zenon

-----------------------------------------------------------------------------
(* Writing.                                                                *)

\* A place in the longer of two ranges is in one of them.
LEMMA PlacesOfLonger ==
  ASSUME NEW a \in Nat, NEW b \in Nat, NEW n, n = (IF a > b THEN a ELSE b), NEW k \in 1 .. n
  PROVE  (k <= a => k \in 1 .. a) /\ (~(k <= a) => k \in 1 .. b)
OBVIOUS

\* A write at the start of a file.
LEMMA OverlayFacts ==
  ASSUME NEW b \in Seq(Units), NEW x \in Seq(Units)
  PROVE  /\ Overlay(b, 0, x) \in Seq(Units)
         /\ Len(Overlay(b, 0, x)) = IF Len(x) > Len(b) THEN Len(x) ELSE Len(b)
         /\ \A k \in 1 .. Len(Overlay(b, 0, x)) :
              Overlay(b, 0, x)[k] = IF k <= Len(x) THEN x[k] ELSE b[k]
<1> DEFINE n == IF 0 + Len(x) > Len(b) THEN 0 + Len(x) ELSE Len(b)
<1>0. /\ Len(b) \in Nat /\ Len(x) \in Nat /\ n \in Nat
      /\ n = (IF Len(x) > Len(b) THEN Len(x) ELSE Len(b))
  BY LenProperties
<1>1. /\ \A k \in 1 .. Len(b) : b[k] \in Units
      /\ \A k \in 1 .. Len(x) : x[k] \in Units
  BY ElementOfSeq, Zenon
<1>2. Overlay(b, 0, x) = [k \in 1 .. n |-> IF k > 0 /\ k <= 0 + Len(x) THEN x[k - 0] ELSE b[k]]
  BY Zenon DEF Overlay
<1> HIDE DEF n
<1>3. \A k \in 1 .. n : /\ Overlay(b, 0, x)[k] = IF k <= Len(x) THEN x[k] ELSE b[k]
                        /\ Overlay(b, 0, x)[k] \in Units
  <2> SUFFICES ASSUME NEW k \in 1 .. n
               PROVE  /\ Overlay(b, 0, x)[k] = IF k <= Len(x) THEN x[k] ELSE b[k]
                      /\ Overlay(b, 0, x)[k] \in Units
    BY Zenon
  <2>1. k \in Nat /\ k > 0 /\ 1 <= k /\ k <= n /\ k - 0 = k /\ 0 + Len(x) = Len(x)
    BY <1>0
  <2>0. (k <= Len(x) => k \in 1 .. Len(x)) /\ (~(k <= Len(x)) => k \in 1 .. Len(b))
    BY <1>0, PlacesOfLonger, Zenon
  <2>2. Overlay(b, 0, x)[k] = IF k <= Len(x) THEN x[k] ELSE b[k]
    BY <1>2, <2>1, Zenon
  <2> QED BY <1>1, <2>0, <2>2, Zenon
<1>4. Overlay(b, 0, x) \in [1 .. n -> Units]
  BY <1>2, <1>3, Zenon
<1>5. Overlay(b, 0, x) \in Seq(Units)
  BY <1>0, <1>4, SeqDef, Zenon
<1>6. Len(Overlay(b, 0, x)) = n
  BY <1>0, <1>2, <1>5, LenProperties
<1> QED BY <1>0, <1>3, <1>5, <1>6, Zenon

\* A write within a file or at its end.
LEMMA OverlayAt ==
  ASSUME NEW b \in Seq(Units), NEW x \in Seq(Units), NEW o \in Nat, o <= Len(b)
  PROVE  /\ Overlay(b, o, x) \in Seq(Units)
         /\ o + Len(x) <= Len(Overlay(b, o, x))
<1> DEFINE n == IF o + Len(x) > Len(b) THEN o + Len(x) ELSE Len(b)
<1>0. /\ Len(b) \in Nat /\ Len(x) \in Nat /\ n \in Nat /\ o + Len(x) <= n
  BY LenProperties
<1>1. /\ \A k \in 1 .. Len(b) : b[k] \in Units
      /\ \A k \in 1 .. Len(x) : x[k] \in Units
  BY ElementOfSeq, Zenon
<1>2. Overlay(b, o, x)
      = [k \in 1 .. n |-> IF k > o /\ k <= o + Len(x) THEN x[k - o] ELSE b[k]]
  BY Zenon DEF Overlay
<1>3. ASSUME NEW k \in 1 .. n
      PROVE  (IF k > o /\ k <= o + Len(x) THEN x[k - o] ELSE b[k]) \in Units
  <2>1. CASE k > o /\ k <= o + Len(x)
    <3>1. k - o \in 1 .. Len(x)
      BY <1>0, <2>1
    <3> QED BY <1>1, <2>1, <3>1, Zenon
  <2>2. CASE ~(k > o /\ k <= o + Len(x))
    <3>1. k \in 1 .. Len(b)
      BY <1>0, <2>2
    <3> QED BY <1>1, <2>2, <3>1, Zenon
  <2> QED BY <2>1, <2>2, Zenon
<1> HIDE DEF n
<1>4. Overlay(b, o, x) \in [1 .. n -> Units]
  BY <1>2, <1>3, Zenon
<1>5. Overlay(b, o, x) \in Seq(Units)
  BY <1>0, <1>4, SeqDef, Zenon
<1>6. Len(Overlay(b, o, x)) = n
  BY <1>0, <1>2, <1>5, LenProperties
<1> QED BY <1>0, <1>5, <1>6, Zenon

\* z is x, then y.
Joined(x, y, z) ==
  /\ Len(z) = Len(x) + Len(y)
  /\ \A i \in 1 .. Len(x) : z[i] = x[i]
  /\ \A i \in 1 .. Len(y) : z[Len(x) + i] = y[i]

\* A write where an earlier one from the start ended is as one write of both.
LEMMA OverlayOverlay ==
  ASSUME NEW b \in Seq(Units), NEW x \in Seq(Units), NEW y \in Seq(Units), NEW z \in Seq(Units),
         Joined(x, y, z)
  PROVE  Overlay(Overlay(b, 0, x), Len(x), y) = Overlay(b, 0, z)
<1> DEFINE u == Overlay(b, 0, x)
           o == Len(x)
           n == IF o + Len(y) > Len(u) THEN o + Len(y) ELSE Len(u)
           v == Overlay(u, o, y)
           w == Overlay(b, 0, z)
<1>0. /\ Len(z) = o + Len(y)
      /\ \A i \in 1 .. o : z[i] = x[i]
      /\ \A i \in 1 .. Len(y) : z[o + i] = y[i]
  BY Zenon DEF Joined
<1>1. /\ Len(b) \in Nat /\ o \in Nat /\ Len(y) \in Nat
      /\ Len(u) = (IF o > Len(b) THEN o ELSE Len(b))
      /\ \A k \in 1 .. Len(u) : u[k] = IF k <= o THEN x[k] ELSE b[k]
  BY LenProperties, OverlayFacts, Zenon
<1>2. /\ w \in Seq(Units)
      /\ Len(w) = (IF o + Len(y) > Len(b) THEN o + Len(y) ELSE Len(b))
      /\ \A k \in 1 .. Len(w) : w[k] = IF k <= o + Len(y) THEN z[k] ELSE b[k]
  BY <1>0, OverlayFacts
<1>3. v = [k \in 1 .. n |-> IF k > o /\ k <= o + Len(y) THEN y[k - o] ELSE u[k]]
  BY Zenon DEF Overlay
<1>4. n = Len(w) /\ n \in Nat
  BY <1>1, <1>2
<1>5. w = [k \in 1 .. n |-> w[k]]
  BY <1>2, <1>4, LenProperties, Zenon
<1> HIDE DEF u, n, v, w, o
<1>6. ASSUME NEW k \in 1 .. n PROVE v[k] = w[k]
  <2>1. v[k] = IF k > o /\ k <= o + Len(y) THEN y[k - o] ELSE u[k]
    BY <1>3, Zenon
  <2>2. w[k] = IF k <= o + Len(y) THEN z[k] ELSE b[k]
    BY <1>2, <1>4, Zenon
  <2>3. CASE k <= o
    <3>1. k \in 1 .. o /\ k \in 1 .. Len(u) /\ k <= o + Len(y)
      BY <1>1, <1>4, <2>3
    <3>2. z[k] = x[k]
      BY <1>0, <3>1, Zenon
    <3> QED BY <1>1, <2>1, <2>2, <2>3, <3>1, <3>2
  <2>4. CASE k > o /\ k <= o + Len(y)
    <3>1. k - o \in 1 .. Len(y) /\ o + (k - o) = k
      BY <1>1, <1>4, <2>4
    <3>2. z[o + (k - o)] = y[k - o]
      BY <1>0, <3>1, Zenon
    <3> QED BY <2>1, <2>2, <2>4, <3>1, <3>2, Zenon
  <2>5. CASE k > o + Len(y)
    <3>1. k \in 1 .. Len(u) /\ ~(k <= o) /\ ~(k <= o + Len(y))
      BY <1>1, <1>4, <2>5 DEF n
    <3> QED BY <1>1, <2>1, <2>2, <3>1, Zenon
  <2> QED BY <1>1, <1>4, <2>3, <2>4, <2>5
<1>7. v = w
  BY <1>3, <1>5, <1>6, Zenon
<1> QED BY <1>7, Zenon DEF v, w, u, o

\* Writing nothing changes nothing.
LEMMA OverlayNothing ==
  ASSUME NEW b \in Seq(Units), NEW x \in Seq(Units), Len(x) = 0
  PROVE  Overlay(b, 0, x) = b
<1> DEFINE u == Overlay(b, 0, x)
<1>1. Len(b) \in Nat
  BY LenProperties, Zenon
<1>2. /\ u \in Seq(Units) /\ Len(u) = IF Len(x) > Len(b) THEN Len(x) ELSE Len(b)
      /\ \A k \in 1 .. Len(u) : u[k] = IF k <= Len(x) THEN x[k] ELSE b[k]
  BY OverlayFacts, Zenon
<1> HIDE DEF u
<1>3. Len(u) = Len(b) /\ \A k \in 1 .. Len(u) : u[k] = b[k]
  BY <1>1, <1>2
<1>4. u = b
  BY <1>2, <1>3, SeqEqual, Zenon
<1> QED BY <1>4, Zenon DEF u

\* What a writer has sent, and its file.
LEMMA SentFacts ==
  ASSUME NEW c \in Writers, NEW n \in Nat
  PROVE  /\ Sent(c, n) \in Seq(Units) /\ Base(c) \in Seq(Units) /\ Payload[c] \in Seq(Units)
         /\ Len(Sent(c, n)) = Min2(n * WBlk, Len(Payload[c]))
         /\ \A i \in 1 .. Len(Sent(c, n)) : Sent(c, n)[i] = Payload[c][i]
         /\ Written(c, n) \in Seq(Units)
         /\ Written(c, 0) = Base(c)
         /\ Len(Payload[c]) < n * WBlk => Sent(c, n) = Payload[c]
<1>1. /\ Payload[c] \in Seq(Units) /\ Base(c) \in Seq(Units)
      /\ Len(Payload[c]) \in Nat /\ WBlk \in Nat \ {0}
  <2>1. Payload[c] \in Seq(Units) /\ PathOf[c] \in Paths
    BY FilesAssumption, Zenon
  <2>2. Stored[PathOf[c]] \in Seq(Units) \cup {Null}
    BY <2>1, FilesAssumption, Zenon
  <2>3. Base(c) \in Seq(Units)
    BY <2>2, EmptySeq, Zenon DEF Base
  <2> QED BY <2>1, <2>3, LenProperties, BlocksAssumption, Zenon
<1> DEFINE p == Payload[c]
<1>2. ASSUME NEW j \in Nat
      PROVE  /\ Sent(c, j) \in Seq(Units)
             /\ Len(Sent(c, j)) = Min2(j * WBlk, Len(p))
             /\ \A i \in 1 .. Len(Sent(c, j)) : Sent(c, j)[i] = p[i]
  <2> DEFINE e == Min2(j * WBlk, Len(p))
  <2>1. j * WBlk \in Nat
    BY <1>1
  <2>2. e \in Nat /\ e <= Len(p) /\ e \in Int
    BY <1>1, <2>1 DEF Min2
  <2>3. Sent(c, j) = SubSeq(p, 1, e)
    BY Zenon DEF Sent
  <2> HIDE DEF e
  <2>4. \A i \in 1 .. e : p[i] \in Units
    BY <1>1, <2>2, ElementOfSeq
  <2>5. /\ SubSeq(p, 1, e) \in Seq(Units)
        /\ Len(SubSeq(p, 1, e)) = IF 1 <= e THEN e - 1 + 1 ELSE 0
        /\ \A i \in 1 .. e - 1 + 1 : SubSeq(p, 1, e)[i] = p[1 + i - 1]
    BY <2>2, <2>4, SubSeqProperties
  <2>6. \A i \in 1 .. e : i \in 1 .. e - 1 + 1 /\ 1 + i - 1 = i
    BY <2>2
  <2>7. Len(Sent(c, j)) = e
    BY <2>2, <2>3, <2>5
  <2> QED BY <2>3, <2>5, <2>6, <2>7, Zenon DEF e
<1>3. Written(c, n) \in Seq(Units)
  BY <1>1, <1>2, OverlayFacts, Zenon DEF Written
<1>4. Written(c, 0) = Base(c)
  <2>1. Sent(c, 0) \in Seq(Units) /\ Len(Sent(c, 0)) = Min2(0 * WBlk, Len(p))
    BY <1>2, Zenon
  <2>2. Min2(0 * WBlk, Len(p)) = 0
    BY <1>1 DEF Min2
  <2> QED BY <1>1, <2>1, <2>2, OverlayNothing, Zenon DEF Written
<1>5. ASSUME Len(p) < n * WBlk PROVE Sent(c, n) = p
  <2>1. n * WBlk \in Nat
    BY <1>1
  <2>2. Min2(n * WBlk, Len(p)) = Len(p)
    BY <1>1, <1>5, <2>1 DEF Min2
  <2> QED BY <1>2, <2>2, SubSeqFull, <1>1, Zenon DEF Sent
<1> QED BY <1>1, <1>2, <1>3, <1>4, <1>5, Zenon

\* The n-th block, written where the one before it ended.
LEMMA WriteNext ==
  ASSUME NEW c \in Writers, NEW n \in Nat \ {0}, (n - 1) * WBlk <= Len(Payload[c])
  PROVE  /\ Overlay(Written(c, n - 1), (n - 1) * WBlk, Slice(Payload[c], (n - 1) * WBlk, WBlk))
            = Written(c, n)
         /\ Slice(Payload[c], (n - 1) * WBlk, WBlk) \in Seq(Units)
         /\ Len(Slice(Payload[c], (n - 1) * WBlk, WBlk)) < WBlk <=> Len(Payload[c]) < n * WBlk
         /\ Len(Slice(Payload[c], (n - 1) * WBlk, WBlk)) <= WBlk
<1> DEFINE p == Payload[c]
           o == (n - 1) * WBlk
           x == Sent(c, n - 1)
           y == Slice(p, o, WBlk)
           z == Sent(c, n)
<1>1. /\ p \in Seq(Units) /\ Len(p) \in Nat /\ WBlk \in Nat \ {0} /\ n - 1 \in Nat
      /\ Base(c) \in Seq(Units) /\ o \in Nat /\ n * WBlk = o + WBlk
  <2>1. n - 1 \in Nat /\ WBlk \in Nat \ {0}
    BY BlocksAssumption
  <2>2. o \in Nat /\ n * WBlk = o + WBlk
    BY <2>1
  <2>3. p \in Seq(Units) /\ Base(c) \in Seq(Units)
    BY <2>1, SentFacts, Zenon
  <2> QED BY <2>1, <2>2, <2>3, LenProperties, Zenon
<1>2. /\ x \in Seq(Units) /\ Len(x) = Min2(o, Len(p))
      /\ \A i \in 1 .. Len(x) : x[i] = p[i]
  BY <1>1, SentFacts, Zenon
<1>3. /\ z \in Seq(Units) /\ Len(z) = Min2(o + WBlk, Len(p))
      /\ \A i \in 1 .. Len(z) : z[i] = p[i]
  <2>1. n \in Nat
    BY Zenon
  <2> QED BY <1>1, <2>1, SentFacts, Zenon
<1>5. o <= Len(p)
  BY Zenon
<1> HIDE DEF p, o
<1>4. /\ y \in Seq(Units) /\ Len(y) = (IF o < Len(p) THEN Min2(WBlk, Len(p) - o) ELSE 0)
      /\ \A i \in 1 .. Len(y) : y[i] = p[o + i]
  BY <1>1, SliceFacts
<1> HIDE DEF x, y, z
<1>6. Len(x) = o /\ Len(z) = Len(x) + Len(y) /\ Len(y) \in Nat
  BY <1>1, <1>2, <1>3, <1>4, <1>5 DEF Min2
<1>7. \A i \in 1 .. Len(x) : z[i] = x[i]
  <2>1. \A i \in 1 .. Len(x) : i \in 1 .. Len(z)
    BY <1>1, <1>6
  <2> QED BY <1>2, <1>3, <2>1, Zenon
<1>8. \A i \in 1 .. Len(y) : z[Len(x) + i] = y[i]
  <2>1. \A i \in 1 .. Len(y) : o + i \in 1 .. Len(z)
    BY <1>1, <1>6
  <2> QED BY <1>3, <1>4, <1>6, <2>1, Zenon
<1>9. Overlay(Overlay(Base(c), 0, x), Len(x), y) = Overlay(Base(c), 0, z)
  <2>1. /\ Base(c) \in Seq(Units) /\ x \in Seq(Units) /\ y \in Seq(Units) /\ z \in Seq(Units)
        /\ Len(z) = Len(x) + Len(y)
    BY <1>1, <1>2, <1>3, <1>4, <1>6, Zenon
  <2>2. Joined(x, y, z)
    BY <1>7, <1>8, <2>1, Zenon DEF Joined
  <2> QED BY <2>1, <2>2, OverlayOverlay
<1>10. Overlay(Written(c, n - 1), o, y) = Written(c, n)
  BY <1>6, <1>9, Zenon DEF Written, x, z
<1>11. (Len(y) < WBlk <=> Len(p) < o + WBlk) /\ Len(y) <= WBlk
  BY <1>1, <1>4, <1>5, SMTT(20) DEF Min2
<1> QED BY <1>1, <1>4, <1>10, <1>11, Zenon DEF y, o, p

-----------------------------------------------------------------------------
(* Steps that do not concern a transfer.                                   *)

\* A writer of which nothing changes but that packets or its socket are gone,
\* or that it has failed.
LEMMA WriterKept ==
  ASSUME NEW c \in Writers, WriterInv(c),
         Less(mainq', mainq, WrqOf(c)),
         Less(net'[c], net[c], Acks), NetInv(c)',
         net'[c] # <<>> => net[c] # <<>> \/ \E s \in Socks : Serves(s, c),
         \A s \in Socks : Less(inq'[s], inq[s], DataOf(c)),
         \A s \in Socks : Serves(s, c)' => conns'[s] = conns[s],
         files'[PathOf[c]] = files[PathOf[c]], spoiled \subseteq spoiled',
         peer'[c].acked = peer[c].acked,
         \/ peer'[c].st = peer[c].st
         \/ peer'[c].st = "failed" /\ Sel(mainq, WrqOf(c)) = {}
  PROVE  WriterInv(c)'
<1>0. \A s \in Socks : Serves(s, c)' => Serves(s, c)
  BY Zenon DEF Serves
<1>1. Untouched(c) => Untouched(c)'
  BY <1>0, Zenon DEF Untouched
<1>2. Sel(mainq', WrqOf(c)) # {} => Sel(mainq, WrqOf(c)) # {}
  BY Zenon DEF Less
<1>3. RequestInv(c)'
  <2>1. Once(mainq', WrqOf(c))
    BY Zenon DEF Less, WriterInv, RequestInv
  <2>2. peer'[c].st = "idle" => peer[c].st = "idle"
    BY Zenon
  <2>3. Sel(mainq', WrqOf(c)) # {} => peer'[c].st = peer[c].st
    BY <1>2, Zenon
  <2> QED BY <1>1, <1>2, <2>1, <2>2, <2>3, Zenon DEF WriterInv, RequestInv
<1>4. OneSocket(c)'
  BY <1>0, Zenon DEF WriterInv, OneSocket
<1>5. AckInv(c)'
  <2> SUFFICES ASSUME c \notin spoiled'
               PROVE  /\ Once(net'[c], Acks)
                      /\ \A m \in Sel(net'[c], Acks) :
                           /\ files'[PathOf[c]] = Written(c, peer'[c].acked)
                           /\ \A s \in Socks : Serves(s, c)' => s = m.from
    BY Zenon DEF AckInv
  <2>1. c \notin spoiled
    BY Zenon
  <2>2. Once(net'[c], Acks) /\ Sel(net'[c], Acks) \subseteq Sel(net[c], Acks)
    BY <2>1, Zenon DEF Less, WriterInv, AckInv
  <2> QED BY <1>0, <2>1, <2>2, Zenon DEF WriterInv, AckInv
<1>6. DataInv(c)'
  <2> DEFINE n == peer[c].acked
  <2>1. \A s \in Socks : Sel(inq'[s], DataOf(c)) \subseteq Sel(inq[s], DataOf(c))
    BY Zenon DEF Less
  <2>2. n = 0 => \A s \in Socks : Sel(inq'[s], DataOf(c)) = {}
    BY <2>1, Zenon DEF WriterInv, DataInv
  <2>3. ASSUME c \notin spoiled', NEW s \in Socks, Serves(s, c)'
        PROVE  AllIn(s, c, n)' \/ LastOut(s, c, n)'
    <3>1. Serves(s, c) /\ conns'[s] = conns[s] /\ c \notin spoiled
      BY <1>0, <2>3, Zenon
    <3>2. CASE AllIn(s, c, n)
      BY <2>1, <3>1, <3>2, Zenon DEF AllIn
    <3>3. CASE LastOut(s, c, n)
      <4>1. Sorted(inq'[s], DataOf(c), Nth(c, n))
        BY <3>3, Zenon DEF Less, LastOut
      <4>2. Sel(net'[c], Acks) = {} /\ peer'[c].st # "done"
        BY <3>3, Zenon DEF Less, LastOut
      <4> QED BY <2>1, <3>1, <3>3, <4>1, <4>2, Zenon DEF LastOut
    <3> QED BY <3>1, <3>2, <3>3, Zenon DEF WriterInv, DataInv
  <2> QED BY <2>2, <2>3, Zenon DEF DataInv
<1>7. StateInv(c)' /\ PosInv(c)'
  BY <1>0, Zenon DEF WriterInv, StateInv, PosInv
<1> QED BY <1>3, <1>4, <1>5, <1>6, <1>7, Zenon DEF WriterInv

\* A reader that has got nothing new.
LEMMA ReaderKept ==
  ASSUME NEW c \in Readers, ReaderInv(c),
         files'[PathOf[c]] = files[PathOf[c]],
         \A s \in Socks : Serves(s, c)' => Serves(s, c) \/ Stored[PathOf[c]] # Null,
         \A i \in DOMAIN net'[c] : PacketOK(Stored[PathOf[c]], net'[c][i]),
         peer'[c].got = peer[c].got, peer'[c].size = peer[c].size,
         peer'[c].st = peer[c].st \/ peer'[c].st \in {"asked", "failed"}
  PROVE  ReaderInv(c)'
BY Zenon DEF ReaderInv

\* A step that concerns the transfer of c: the transfers of the others.
LEMMA Others ==
  ASSUME Inv, NEW c \in Readers \cup Writers, TypeInv', AskInv', ListInv',
         spoiled \subseteq spoiled',
         \A d \in Readers \cup Writers : d # c =>
           /\ files'[PathOf[d]] = files[PathOf[d]]
           /\ \A s \in Socks : Serves(s, d)' => conns'[s] = conns[s],
         \A d \in Writers : d # c =>
           /\ Less(mainq', mainq, WrqOf(d))
           /\ \A s \in Socks : Less(inq'[s], inq[s], DataOf(d)),
         \A d \in Peers : d # c => net'[d] = net[d] /\ peer'[d] = peer[d],
         peer'[c].st \in {"busy", "last"} => peer'[c].sock \in Socks,
         c \in Readers => ReaderInv(c)', c \in Writers => WriterInv(c)'
  PROVE  Inv'
<1>1. ASSUME NEW d \in Readers, d # c PROVE ReaderInv(d)'
  <2>1. d \in Peers /\ net'[d] = net[d] /\ peer'[d] = peer[d] /\ ReaderInv(d)
    BY <1>1, Zenon DEF Peers, Inv
  <2>2. \A s \in Socks : Serves(s, d)' => Serves(s, d)
    BY <1>1, ZenonT(30) DEF Serves
  <2>3. \A i \in DOMAIN net'[d] : PacketOK(Stored[PathOf[d]], net'[d][i])
    BY <2>1, ZenonT(30) DEF ReaderInv
  <2> QED BY <1>1, <2>1, <2>2, <2>3, ReaderKept, ZenonT(30)
<1>2. ASSUME NEW d \in Writers, d # c PROVE WriterInv(d)'
  <2>1. d \in Peers /\ net'[d] = net[d] /\ peer'[d] = peer[d] /\ WriterInv(d)
    BY <1>2, Zenon DEF Peers, Inv
  <2>2. NetInv(d)'
    BY <2>1, Zenon DEF WriterInv, NetInv
  <2> QED BY <1>2, <2>1, <2>2, LessSame, WriterKept, Zenon
<1>3. PeerInv'
  BY Zenon DEF Inv, PeerInv
<1> QED BY <1>1, <1>2, <1>3, Zenon DEF Inv

\* Packets that go out of a reader's queue, or one more of the right kind.
LEMMA PacketsKept ==
  ASSUME NEW f, NEW q \in Seq(FromServer), \A i \in DOMAIN q : PacketOK(f, q[i])
  PROVE  /\ q # <<>> => \A i \in DOMAIN Tail(q) : PacketOK(f, Tail(q)[i])
         /\ \A m \in FromServer : PacketOK(f, m) =>
              \A i \in DOMAIN Append(q, m) : PacketOK(f, Append(q, m)[i])
<1>1. q # <<>> => Among(Tail(q), q)
  BY LessTail, Zenon
<1>2. \A m \in FromServer : AmongOr(Append(q, m), q, m)
  BY LessAppend, Zenon
<1> QED BY <1>1, <1>2, Zenon DEF Among, AmongOr

\* One queue of several gets a packet.
LEMMA SendFacts ==
  ASSUME NEW D, NEW S, NEW q \in [D -> Seq(S)], NEW d \in D, NEW m \in S
  PROVE  /\ Send(q, d, m) \in [D -> Seq(S)]
         /\ Send(q, d, m)[d] = Append(q[d], m)
         /\ \A e \in D : e # d => Send(q, d, m)[e] = q[e]
<1>1. Append(q[d], m) \in Seq(S)
  BY AppendProperties, Zenon
<1> QED BY <1>1, Zenon DEF Send

\* One queue of several loses its first packet.
LEMMA TakeFacts ==
  ASSUME NEW D, NEW S, NEW q \in [D -> Seq(S)], NEW d \in D, q[d] # <<>>
  PROVE  /\ [q EXCEPT ![d] = Tail(@)] \in [D -> Seq(S)]
         /\ [q EXCEPT ![d] = Tail(@)][d] = Tail(q[d])
         /\ \A e \in D : e # d => [q EXCEPT ![d] = Tail(@)][e] = q[e]
<1>1. Tail(q[d]) \in Seq(S)
  BY HeadTailProperties, Zenon
<1> QED BY <1>1, Zenon

\* What becomes of a datagram to a transfer socket.
LEMMA ToSockFacts ==
  ASSUME inq \in [Socks -> Seq(FromPeer)], NEW s \in Socks, NEW m \in FromPeer, ToSock(s, m)
  PROVE  /\ inq' \in [Socks -> Seq(FromPeer)]
         /\ conns[s] = Null => inq' = inq
         /\ conns[s] # Null => inq'[s] = Append(inq[s], m)
         /\ \A t \in Socks : t # s => inq'[t] = inq[t]
         /\ \A M : m \notin M => \A t \in Socks : Less(inq'[t], inq[t], M)
<1>1. CASE conns[s] = Null
  BY <1>1, LessSame, Zenon DEF ToSock
<1>2. CASE conns[s] # Null
  <2>1. inq' = Send(inq, s, m)
    BY <1>2, Zenon DEF ToSock
  <2>2. /\ inq' \in [Socks -> Seq(FromPeer)] /\ inq'[s] = Append(inq[s], m)
        /\ \A t \in Socks : t # s => inq'[t] = inq[t]
    BY <2>1, SendFacts
  <2>3. inq[s] \in Seq(FromPeer)
    BY Zenon
  <2>4. \A M : m \notin M => Less(Append(inq[s], m), inq[s], M)
    BY <2>3, LessAppend, Zenon
  <2> QED BY <1>2, <2>2, <2>4, LessSame, Zenon
<1> QED BY <1>1, <1>2, Zenon

\* main takes a datagram from the listening socket.
LEMMA MainTakes ==
  ASSUME mainq \in Seq(FromPeer), AskInv, mainq # <<>>, mainq' = Tail(mainq)
  PROVE  /\ mainq' \in Seq(FromPeer) /\ AskInv'
         /\ \A M : Less(mainq', mainq, M)
         /\ \A M : Head(mainq) \in M /\ Once(mainq, M) => Sel(mainq', M) = {}
         /\ \A M : Head(mainq) \in M => Sel(mainq, M) # {}
         /\ Head(mainq) \in FromPeer
         /\ Head(mainq).op = "RRQ" => Head(mainq).from \in Readers
         /\ Head(mainq).op = "WRQ" => /\ Head(mainq).from \in Writers
                                      /\ Head(mainq) \in WrqOf(Head(mainq).from)
<1>1. /\ mainq' \in Seq(FromPeer) /\ Head(mainq) \in FromPeer
      /\ Among(mainq', mainq)
      /\ \A M : Less(mainq', mainq, M)
      /\ \A M : Head(mainq) \in M /\ Once(mainq, M) => Sel(mainq', M) = {}
      /\ \A M : Head(mainq) \in M => Sel(mainq, M) # {}
  <2>1. Tail(mainq) \in Seq(FromPeer) /\ Head(mainq) \in FromPeer /\ Among(Tail(mainq), mainq)
    BY LessTail, Zenon
  <2>2. \A M : Less(Tail(mainq), mainq, M)
    BY LessTail, Zenon
  <2>3. \A M : Head(mainq) \in M /\ Once(mainq, M) => Sel(Tail(mainq), M) = {}
    BY LessTail, Zenon
  <2>4. \A M : Head(mainq) \in M => Sel(mainq, M) # {}
    BY LessTail, Zenon
  <2> QED BY <2>1, <2>2, <2>3, <2>4, Zenon
<1>2. AskInv'
  BY <1>1, Zenon DEF AskInv, Among
<1>3. Head(mainq) = mainq[1] /\ 1 \in DOMAIN mainq
  BY EmptySeq, LenProperties
<1> QED BY <1>1, <1>2, <1>3, Zenon DEF AskInv, WrqOf

-----------------------------------------------------------------------------
(* Requests.                                                               *)

\* A block of a file as it is sent.
LEMMA DataFacts ==
  ASSUME NEW s \in Socks, NEW f \in Seq(Units), NEW k \in Nat \ {0}, (k - 1) * Blk < Len(f)
  PROVE  Data(s, f, k) \in FromServer /\ PacketOK(f, Data(s, f, k))
<1> DEFINE d == Slice(f, (k - 1) * Blk, Blk)
<1>1. /\ Blk \in Nat \ {0} /\ k - 1 \in Nat /\ (k - 1) * Blk \in Nat /\ k % BlockMod \in Nat
      /\ f # Null
  BY BlocksAssumption, ModSmall, FilesAssumption, SMTT(20)
<1>2. d \in Seq(Units)
  BY <1>1, SliceFacts, Zenon
<1>3. Data(s, f, k) = Pkt(s, "DATA", k % BlockMod, d)
  BY Zenon DEF Data
<1> HIDE DEF d
<1>4. /\ Data(s, f, k) \in FromServer /\ Data(s, f, k).op = "DATA"
      /\ Data(s, f, k).block = k % BlockMod /\ Data(s, f, k).data = d
  BY <1>1, <1>2, <1>3 DEF Pkt, FromServer, Ops, Sizes
<1>5. BlockOf(f, Data(s, f, k))
  BY <1>4, Zenon DEF BlockOf, d
<1> QED BY <1>1, <1>4, <1>5, Zenon DEF PacketOK

\* A free socket serves nobody.
LEMMA FreeFacts ==
  ASSUME TypeInv, NEW s \in Free
  PROVE  s \in Socks /\ conns[s] = Null
BY Zenon DEF Free

\* A new entry of a list.
LEMMA ListedFacts ==
  ASSUME TypeInv, ListInv, NEW s \in Socks, conns[s] = Null, NEW r \in Conns,
         r.sq \in (IF r.kind = "reader" THEN Readers ELSE Writers),
         conns' = [conns EXCEPT ![s] = r]
  PROVE  /\ conns' \in [Socks -> Conns \cup {Null}] /\ ListInv'
         /\ conns'[s] = r /\ r # Null
         /\ \A t \in Socks : t # s => conns'[t] = conns[t]
         /\ \A c, t : t \in Socks /\ Serves(t, c)' => Serves(t, c) \/ (t = s /\ c = r.sq)
<1>1. /\ conns \in [Socks -> Conns \cup {Null}] /\ r # Null
  BY SocketsAssumption, Zenon DEF TypeInv
<1>2. /\ conns' \in [Socks -> Conns \cup {Null}] /\ conns'[s] = r
      /\ \A t \in Socks : t # s => conns'[t] = conns[t]
  BY <1>1, Zenon
<1>3. ListInv'
  BY <1>2, Zenon DEF ListInv
<1>4. \A c, t : t \in Socks /\ Serves(t, c)' => Serves(t, c) \/ (t = s /\ c = r.sq)
  BY <1>2, Zenon DEF Serves
<1> QED BY <1>1, <1>2, <1>3, <1>4, Zenon

\* A reader gets one more packet.
LEMMA ReaderGets ==
  ASSUME Inv, NEW c \in Readers, NEW m \in FromServer, PacketOK(Stored[PathOf[c]], m),
         net' = Send(net, c, m)
  PROVE  /\ net' \in [Peers -> Seq(FromServer)]
         /\ \A d \in Peers : d # c => net'[d] = net[d]
         /\ \A i \in DOMAIN net'[c] : PacketOK(Stored[PathOf[c]], net'[c][i])
<1>1. /\ c \in Peers /\ net \in [Peers -> Seq(FromServer)] /\ net[c] \in Seq(FromServer)
      /\ \A i \in DOMAIN net[c] : PacketOK(Stored[PathOf[c]], net[c][i])
  BY Zenon DEF Peers, Inv, TypeInv, ReaderInv
<1>2. /\ net' \in [Peers -> Seq(FromServer)] /\ net'[c] = Append(net[c], m)
      /\ \A d \in Peers : d # c => net'[d] = net[d]
  BY <1>1, SendFacts
<1>3. \A i \in DOMAIN Append(net[c], m) :
        PacketOK(Stored[PathOf[c]], Append(net[c], m)[i])
  BY <1>1, PacketsKept, Zenon
<1> QED BY <1>2, <1>3, Zenon

\* handle_rrq keeps the invariant: the OACK has the file's size or none, and the
\* DATA is its first block.
LEMMA HandleRrqStep ==
  ASSUME Inv, HandleRrq
  PROVE  Inv'
<1> DEFINE c == Head(mainq).from
           f == Stored[PathOf[c]]
<1>1. /\ mainq \in Seq(FromPeer) /\ AskInv /\ mainq # <<>> /\ mainq' = Tail(mainq)
      /\ Head(mainq).op = "RRQ" /\ UNCHANGED <<files, inq, peer, spoiled>>
  BY Zenon DEF Inv, TypeInv, HandleRrq, AtMain
<1>2. /\ mainq' \in Seq(FromPeer) /\ AskInv' /\ \A M : Less(mainq', mainq, M)
      /\ c \in Readers
  BY <1>1, MainTakes, Zenon
<1>3. PICK s \in Free :
        /\ Opens(PathOf[c], FALSE)
        /\ conns' = [conns EXCEPT ![s] =
                       [kind |-> "reader", sq |-> c, pos |-> 0,
                        wsize |-> IF Options[c] = Null THEN 0 ELSE Options[c].wsize]]
        /\ IF Options[c] # Null
           THEN Sends(c, Pkt(s, "OACK", IF Options[c].tsize /\ files[PathOf[c]] # <<>>
                                        THEN Len(files[PathOf[c]]) ELSE -1, <<>>))
           ELSE IF files[PathOf[c]] # <<>>
                THEN Sends(c, Data(s, files[PathOf[c]], 1)) ELSE net' = net
  BY Zenon DEF HandleRrq
<1>4. s \in Socks /\ conns[s] = Null
  BY FreeFacts, Zenon DEF Inv
<1>5. ReaderInv(c) /\ files[PathOf[c]] = f
  BY <1>2, Zenon DEF Inv, ReaderInv
<1>6. PathOf[c] \in Paths /\ f # Null
  BY <1>2, <1>3, <1>5, FilesAssumption, Zenon DEF Opens
<1>7. f \in Seq(Units)
  BY <1>6, FilesAssumption, Zenon
<1> HIDE DEF c, f
<1>9. /\ net' \in [Peers -> Seq(FromServer)]
      /\ \A d \in Peers : d # c => net'[d] = net[d]
      /\ \A i \in DOMAIN net'[c] : PacketOK(f, net'[c][i])
  <2>1. CASE net' = net
    BY <1>2, <1>5, <2>1, Zenon DEF Inv, TypeInv, ReaderInv, f
  <2>2. CASE Options[c] # Null /\ net' # net
    <3> DEFINE n == IF Options[c].tsize /\ f # <<>> THEN Len(f) ELSE -1
               m == Pkt(s, "OACK", n, <<>>)
    <3>1. n \in {Len(f), -1} /\ Len(f) \in Nat /\ <<>> \in Seq(Units)
      BY <1>7, LenProperties, EmptySeq, Zenon
    <3>2. net' = Send(net, c, m)
      BY <1>3, <1>5, <2>2, Zenon DEF Sends
    <3> HIDE DEF n
    <3>3. n \in Sizes
      BY <3>1, Zenon DEF Sizes
    <3>4. m \in FromServer /\ m.op = "OACK" /\ m.block = n
      BY <1>4, <3>1, <3>3, Zenon DEF Pkt, FromServer, Ops
    <3> HIDE DEF m
    <3>5. PacketOK(f, m)
      BY <1>6, <3>1, <3>4, Zenon DEF PacketOK
    <3> QED BY <1>2, <3>2, <3>4, <3>5, ReaderGets, Zenon DEF f
  <2>3. CASE Options[c] = Null /\ net' # net
    <3>0. f # <<>> /\ net' = Send(net, c, Data(s, f, 1))
      BY <1>3, <1>5, <2>3, Zenon DEF Sends
    <3>1. 1 \in Nat \ {0} /\ (1 - 1) * Blk < Len(f)
      BY <1>7, <3>0, EmptySeq, BlocksAssumption
    <3>2. Data(s, f, 1) \in FromServer /\ PacketOK(f, Data(s, f, 1))
      BY <1>4, <1>7, <3>1, DataFacts, Zenon
    <3> QED BY <1>2, <3>0, <3>2, ReaderGets, Zenon DEF f
  <2> QED BY <2>1, <2>2, <2>3, Zenon
<1> DEFINE r == [kind |-> "reader", sq |-> c, pos |-> 0,
                 wsize |-> IF Options[c] = Null THEN 0 ELSE Options[c].wsize]
<1>10. r \in Conns /\ r.sq = c /\ r.sq \in (IF r.kind = "reader" THEN Readers ELSE Writers)
  <2>1. (IF Options[c] = Null THEN 0 ELSE Options[c].wsize) \in Nat
    BY <1>2, OptionsAssumption
  <2> QED BY <1>2, <2>1, Zenon DEF Conns
<1>11. conns' = [conns EXCEPT ![s] = r]
  BY <1>3, Zenon
<1> HIDE DEF r
<1>12. /\ conns' \in [Socks -> Conns \cup {Null}] /\ ListInv'
       /\ \A t \in Socks : t # s => conns'[t] = conns[t]
       /\ \A d, t : t \in Socks /\ Serves(t, d)' => Serves(t, d) \/ (t = s /\ d = r.sq)
  BY <1>4, <1>10, <1>11, ListedFacts, Zenon DEF Inv
<1>a. PICK x \in Readers : x = c
  BY <1>2, Zenon
<1>13. TypeInv'
  BY <1>1, <1>2, <1>9, <1>12, Zenon DEF Inv, TypeInv
<1>14. ReaderInv(x)'
  <2>1. ReaderInv(x)
    BY Zenon DEF Inv
  <2>2. \A t \in Socks : Serves(t, x)' => Serves(t, x) \/ Stored[PathOf[x]] # Null
    BY <1>6, <1>a, Zenon DEF f
  <2>3. \A i \in DOMAIN net'[x] : PacketOK(Stored[PathOf[x]], net'[x][i])
    BY <1>9, <1>a, Zenon DEF f
  <2> QED BY <1>1, <2>1, <2>2, <2>3, ReaderKept, Zenon
<1>15. \A d : d # x => \A t \in Socks : Serves(t, d)' => conns'[t] = conns[t]
  BY <1>4, <1>10, <1>12, <1>a, Zenon DEF Serves
<1>16. x \notin Writers /\ x \in Peers
  BY SocketsAssumption, Zenon DEF Peers
<1>17. peer'[x].st \in {"busy", "last"} => peer'[x].sock \in Socks
  BY <1>1, <1>16, Zenon DEF Inv, PeerInv
<1> QED BY <1>1, <1>2, <1>9, <1>a, <1>12, <1>13, <1>14, <1>15, <1>16, <1>17, LessSame, Others, Zenon

\* A read that is refused, with or without an ERROR, keeps the invariant.
LEMMA RrqNotFoundStep ==
  ASSUME Inv, RrqNotFound
  PROVE  Inv'
<1>1. /\ mainq \in Seq(FromPeer) /\ AskInv /\ mainq # <<>> /\ mainq' = Tail(mainq)
      /\ Head(mainq).op = "RRQ" /\ UNCHANGED <<files, conns, inq, peer, spoiled>>
  BY Zenon DEF Inv, TypeInv, RrqNotFound, AtMain
<1>2. /\ mainq' \in Seq(FromPeer) /\ AskInv' /\ \A M : Less(mainq', mainq, M)
      /\ Head(mainq).from \in Readers
  BY <1>1, MainTakes, Zenon
<1>a. PICK c \in Readers : c = Head(mainq).from
  BY <1>2, Zenon
<1>3. PICK s \in Free : net' = net \/ net' = Send(net, c, Pkt(s, "ERROR", 0, <<>>))
  BY <1>a, Zenon DEF RrqNotFound
<1>4. s \in Socks
  BY FreeFacts, Zenon DEF Inv
<1> DEFINE m == Pkt(s, "ERROR", 0, <<>>)
<1>5. m \in FromServer /\ m.op = "ERROR"
  BY <1>4, EmptySeq, Zenon DEF Pkt, FromServer, Ops, Sizes
<1>6. /\ net' \in [Peers -> Seq(FromServer)]
      /\ \A d \in Peers : d # c => net'[d] = net[d]
      /\ \A i \in DOMAIN net'[c] : PacketOK(Stored[PathOf[c]], net'[c][i])
  <2>1. CASE net' = net
    BY <1>2, <2>1, Zenon DEF Inv, TypeInv, ReaderInv
  <2>2. CASE net' = Send(net, c, m)
    <3> HIDE DEF m
    <3>1. PacketOK(Stored[PathOf[c]], m)
      BY <1>5, Zenon DEF PacketOK
    <3> QED BY <1>2, <1>5, <2>2, <3>1, ReaderGets, Zenon
  <2> QED BY <1>3, <2>1, <2>2, Zenon
<1>7. ReaderInv(c)'
  <2>1. \A t \in Socks : Serves(t, c)' => Serves(t, c)
    BY <1>1, Zenon DEF Serves
  <2> QED BY <1>1, <1>2, <1>6, <2>1, ReaderKept, Zenon DEF Inv
<1>8. c \notin Writers
  BY <1>2, SocketsAssumption, Zenon
<1>9. TypeInv' /\ ListInv' /\ \A d, t : Serves(t, d)' => conns'[t] = conns[t]
  BY <1>1, <1>2, <1>6, ZenonT(30) DEF Inv, TypeInv, ListInv
<1>10. c \in Peers /\ (peer'[c].st \in {"busy", "last"} => peer'[c].sock \in Socks)
  BY <1>1, Zenon DEF Inv, PeerInv, Peers
<1> QED BY <1>1, <1>2, <1>6, <1>7, <1>8, <1>9, <1>10, LessSame, Others, Zenon

\* A request main drops keeps the invariant.
LEMMA DropRequestStep ==
  ASSUME Inv, DropRequest
  PROVE  Inv'
<1>1. /\ mainq \in Seq(FromPeer) /\ AskInv /\ mainq # <<>> /\ mainq' = Tail(mainq)
      /\ UNCHANGED <<files, conns, net, inq, peer, spoiled>>
  BY Zenon DEF Inv, TypeInv, DropRequest, server
<1>2. mainq' \in Seq(FromPeer) /\ AskInv' /\ \A M : Less(mainq', mainq, M)
  BY <1>1, MainTakes, Zenon
<1>3. TypeInv' /\ ListInv' /\ PeerInv'
  BY <1>1, <1>2, ZenonT(30) DEF Inv, TypeInv, ListInv, PeerInv
<1>4. ASSUME NEW d \in Readers PROVE ReaderInv(d)'
  <2>1. /\ \A s \in Socks : Serves(s, d)' => Serves(s, d)
        /\ \A i \in DOMAIN net'[d] : PacketOK(Stored[PathOf[d]], net'[d][i])
    BY <1>1, Zenon DEF Inv, ReaderInv, Serves
  <2> QED BY <1>1, <2>1, ReaderKept, Zenon DEF Inv
<1>5. ASSUME NEW d \in Writers PROVE WriterInv(d)'
  <2>1. WriterInv(d) /\ NetInv(d)'
    BY <1>1, Zenon DEF WriterInv, NetInv, Inv
  <2> QED BY <1>1, <1>2, <2>1, LessSame, WriterKept, Zenon
<1> QED BY <1>2, <1>3, <1>4, <1>5, Zenon DEF Inv

\* A request to write that main has taken and not served.
LEMMA WriterRefused ==
  ASSUME NEW c \in Writers, WriterInv(c), Untouched(c), peer[c].st = "asked",
         Sel(mainq', WrqOf(c)) = {}, Once(mainq', WrqOf(c)),
         UNCHANGED <<conns, inq, net, peer>>
  PROVE  WriterInv(c)'
<1>0. peer[c].acked = 0 /\ net[c] = <<>> /\ \A s \in Socks : ~Serves(s, c)'
  BY Zenon DEF Untouched, Serves
<1>1. NetInv(c)' /\ OneSocket(c)'
  BY <1>0, Zenon DEF WriterInv, NetInv, OneSocket
<1>2. RequestInv(c)' /\ StateInv(c)'
  BY <1>0, Zenon DEF RequestInv, StateInv
<1>3. AckInv(c)'
  <2>1. DOMAIN net'[c] = {}
    BY <1>0
  <2> QED BY <2>1, Zenon DEF AckInv, Sel, Once
<1>4. DataInv(c)' /\ PosInv(c)'
  BY <1>0, Zenon DEF WriterInv, DataInv, PosInv
<1> QED BY <1>1, <1>2, <1>3, <1>4, ZenonT(30) DEF WriterInv

\* The file of a writer when it is opened.
LEMMA OpenedFacts ==
  ASSUME TypeInv, PathsApart, NEW c \in Writers,
         files' = [files EXCEPT ![PathOf[c]] = IF @ = Null THEN <<>> ELSE @]
  PROVE  /\ files' \in [Paths -> Seq(Units) \cup {Null}]
         /\ \A d \in Readers \cup Writers : d # c => files'[PathOf[d]] = files[PathOf[d]]
         /\ files[PathOf[c]] = Stored[PathOf[c]] => files'[PathOf[c]] = Base(c)
<1>1. PathOf[c] \in Paths /\ files \in [Paths -> Seq(Units) \cup {Null}] /\ <<>> \in Seq(Units)
  BY FilesAssumption, EmptySeq, Zenon DEF TypeInv
<1>2. /\ files' \in [Paths -> Seq(Units) \cup {Null}]
      /\ files'[PathOf[c]] = IF files[PathOf[c]] = Null THEN <<>> ELSE files[PathOf[c]]
      /\ \A p \in Paths : p # PathOf[c] => files'[p] = files[p]
  BY <1>1, Zenon
<1>3. \A d \in Readers \cup Writers : d # c => files'[PathOf[d]] = files[PathOf[d]]
  BY <1>2, FilesAssumption DEF PathsApart
<1> QED BY <1>2, <1>3, Zenon DEF Base

\* handle_wrq failing keeps the invariant, though the file may have been made.
LEMMA HandleWrqFailsStep ==
  ASSUME PathsApart, Inv, HandleWrqFails
  PROVE  Inv'
<1>1. /\ mainq \in Seq(FromPeer) /\ AskInv /\ mainq # <<>> /\ mainq' = Tail(mainq)
      /\ Head(mainq).op = "WRQ" /\ UNCHANGED <<conns, net, inq, peer, spoiled>>
  BY Zenon DEF Inv, TypeInv, HandleWrqFails, AtMain
<1>2. PICK c \in Writers : c = Head(mainq).from /\ Head(mainq) \in WrqOf(c)
  BY <1>1, MainTakes, Zenon
<1>3. WriterInv(c) /\ Once(mainq, WrqOf(c))
  BY <1>2, Zenon DEF Inv, WriterInv, RequestInv
<1>4. /\ mainq' \in Seq(FromPeer) /\ AskInv' /\ \A M : Less(mainq', mainq, M)
      /\ Sel(mainq', WrqOf(c)) = {} /\ Sel(mainq, WrqOf(c)) # {}
  BY <1>1, <1>2, <1>3, MainTakes, Zenon
<1>5. Untouched(c) /\ peer[c].st = "asked"
  BY <1>3, <1>4, Zenon DEF WriterInv, RequestInv
<1>6. Once(mainq', WrqOf(c))
  BY <1>3, <1>4, Zenon DEF Less
<1>7. WriterInv(c)'
  BY <1>1, <1>3, <1>4, <1>5, <1>6, WriterRefused, Zenon
<1>8. /\ files' \in [Paths -> Seq(Units) \cup {Null}]
      /\ \A d \in Readers \cup Writers : d # c => files'[PathOf[d]] = files[PathOf[d]]
  <2>1. \/ files' = files
        \/ files' = [files EXCEPT ![PathOf[c]] = IF @ = Null THEN <<>> ELSE @]
    BY <1>2, Zenon DEF HandleWrqFails
  <2>2. CASE files' = files
    BY <2>2, Zenon DEF Inv, TypeInv
  <2>3. CASE files' = [files EXCEPT ![PathOf[c]] = IF @ = Null THEN <<>> ELSE @]
    BY <2>3, OpenedFacts, Zenon DEF Inv
  <2> QED BY <2>1, <2>2, <2>3, Zenon
<1>9. TypeInv' /\ ListInv' /\ \A d, t : Serves(t, d)' => conns'[t] = conns[t]
  BY <1>1, <1>4, <1>8, Zenon DEF Inv, TypeInv, ListInv
<1>10. c \notin Readers /\ c \in Peers /\ (peer'[c].st \in {"busy", "last"} => peer'[c].sock \in Socks)
  BY <1>1, SocketsAssumption, Zenon DEF Inv, PeerInv, Peers
<1> QED BY <1>1, <1>4, <1>7, <1>8, <1>9, <1>10, LessSame, Others, Zenon

\* A BYE keeps the invariant: it only ends writers.
LEMMA HandleByeStep ==
  ASSUME Inv, HandleBye
  PROVE  Inv'
<1>1. /\ UNCHANGED <<files, mainq, net, peer, spoiled>>
      /\ conns \in [Socks -> Conns \cup {Null}] /\ inq \in [Socks -> Seq(FromPeer)]
  BY Zenon DEF HandleBye, Inv, TypeInv
<1>2. /\ conns' \in [Socks -> Conns \cup {Null}]
      /\ \A s \in Socks : conns'[s] # Null => conns'[s] = conns[s]
  BY <1>1, Zenon DEF HandleBye
<1>3. /\ inq' \in [Socks -> Seq(FromPeer)]
      /\ \A s \in Socks : inq'[s] = inq[s] \/ inq'[s] = <<>>
  BY <1>1, EmptySeq, Zenon DEF HandleBye
<1>4. TypeInv' /\ ListInv' /\ AskInv' /\ PeerInv'
  BY <1>1, <1>2, <1>3, Zenon DEF Inv, TypeInv, ListInv, AskInv, PeerInv
<1>5. ASSUME NEW d \in Readers PROVE ReaderInv(d)'
  <2>1. /\ \A s \in Socks : Serves(s, d)' => Serves(s, d)
        /\ \A i \in DOMAIN net'[d] : PacketOK(Stored[PathOf[d]], net'[d][i])
    BY <1>1, <1>2, Zenon DEF Inv, ReaderInv, Serves
  <2> QED BY <1>1, <2>1, ReaderKept, Zenon DEF Inv
<1>6. ASSUME NEW d \in Writers PROVE WriterInv(d)'
  <2>1. WriterInv(d) /\ NetInv(d)'
    BY <1>1, Zenon DEF WriterInv, NetInv, Inv
  <2>2. \A s \in Socks : Serves(s, d)' => conns'[s] = conns[s]
    BY <1>2, Zenon DEF Serves
  <2>3. \A s \in Socks : Less(inq'[s], inq[s], DataOf(d))
    BY <1>3, LessSame, LessEmpty, Zenon
  <2> QED BY <1>1, <2>1, <2>2, <2>3, LessSame, WriterKept, Zenon
<1> QED BY <1>4, <1>5, <1>6, Zenon DEF Inv

\* handle_wrq keeps the invariant: it is the first to touch the writer's file, and
\* the ACK goes with nothing written.
LEMMA HandleWrqStep ==
  ASSUME PathsApart, Inv, HandleWrq
  PROVE  Inv'
<1>1. /\ mainq \in Seq(FromPeer) /\ AskInv /\ mainq # <<>> /\ mainq' = Tail(mainq)
      /\ Head(mainq).op = "WRQ" /\ UNCHANGED <<inq, peer, spoiled>>
  BY Zenon DEF Inv, TypeInv, HandleWrq, AtMain
<1>2. PICK c \in Writers : c = Head(mainq).from /\ Head(mainq) \in WrqOf(c)
  BY <1>1, MainTakes, Zenon
<1>3. WriterInv(c) /\ Once(mainq, WrqOf(c))
  BY <1>2, Zenon DEF Inv, WriterInv, RequestInv
<1>4. /\ mainq' \in Seq(FromPeer) /\ AskInv' /\ \A M : Less(mainq', mainq, M)
      /\ Sel(mainq', WrqOf(c)) = {} /\ Sel(mainq, WrqOf(c)) # {}
  BY <1>1, <1>2, <1>3, MainTakes, Zenon
<1>5. Untouched(c) /\ peer[c].st = "asked"
  BY <1>3, <1>4, Zenon DEF WriterInv, RequestInv
<1>6. Once(mainq', WrqOf(c))
  BY <1>3, <1>4, Zenon DEF Less
<1>7. PICK s \in Free :
        /\ files' = [files EXCEPT ![PathOf[c]] = IF @ = Null THEN <<>> ELSE @]
        /\ conns' = [conns EXCEPT ![s] = [kind |-> "writer", sq |-> c, pos |-> 0,
                                           wsize |-> 0]]
        /\ net' = Send(net, c, Pkt(s, "ACK", 0, <<>>))
  BY <1>2, Zenon DEF HandleWrq
<1>8. s \in Socks /\ conns[s] = Null
  BY FreeFacts, Zenon DEF Inv
<1>9. /\ files' \in [Paths -> Seq(Units) \cup {Null}]
      /\ \A d \in Readers \cup Writers : d # c => files'[PathOf[d]] = files[PathOf[d]]
      /\ files'[PathOf[c]] = Base(c)
  BY <1>5, <1>7, OpenedFacts, Zenon DEF Inv, Untouched
<1> DEFINE r == [kind |-> "writer", sq |-> c, pos |-> 0, wsize |-> 0]
           a == Pkt(s, "ACK", 0, <<>>)
<1>10. /\ r \in Conns /\ r.sq = c /\ r.pos = 0
       /\ r.sq \in (IF r.kind = "reader" THEN Readers ELSE Writers)
  BY Zenon DEF Conns
<1>11. a \in FromServer /\ a.op = "ACK" /\ a.from = s
  BY <1>8, EmptySeq, Zenon DEF Pkt, FromServer, Ops, Sizes
<1>12. conns' = [conns EXCEPT ![s] = r] /\ net' = Send(net, c, a)
  BY <1>7, Zenon
<1> HIDE DEF r, a
<1>13. /\ conns' \in [Socks -> Conns \cup {Null}] /\ ListInv' /\ conns'[s] = r
       /\ \A t \in Socks : t # s => conns'[t] = conns[t]
       /\ \A d, t : t \in Socks /\ Serves(t, d)' => Serves(t, d) \/ (t = s /\ d = r.sq)
  BY <1>8, <1>10, <1>12, ListedFacts, Zenon DEF Inv
<1>14. c \in Peers /\ net \in [Peers -> Seq(FromServer)] /\ net[c] \in Seq(FromServer)
  BY Zenon DEF Peers, Inv, TypeInv
<1>15. /\ net' \in [Peers -> Seq(FromServer)] /\ net'[c] = Append(net[c], a)
       /\ \A d \in Peers : d # c => net'[d] = net[d]
  BY <1>11, <1>12, <1>14, SendFacts, SMTT(20)
<1>16. TypeInv'
  BY <1>1, <1>4, <1>9, <1>13, <1>15, Zenon DEF Inv, TypeInv
<1>17. WriterInv(c)'
  <2>1. /\ peer'[c].acked = 0 /\ peer'[c].st = "asked" /\ net[c] = <<>>
        /\ \A t \in Socks : Serves(t, c)' => t = s
        /\ \A t \in Socks : Sel(inq'[t], DataOf(c)) = {}
    <3>1. peer' = peer /\ inq' = inq
      BY <1>1, Zenon
    <3>2. peer[c].acked = 0 /\ net[c] = <<>> /\ \A t \in Socks : ~Serves(t, c)
      BY <1>5, Zenon DEF Untouched
    <3>3. \A t \in Socks : Serves(t, c)' => t = s
      BY <1>13, <3>2, Zenon
    <3>4. \A t \in Socks : Sel(inq[t], DataOf(c)) = {}
      BY <1>3, <3>2, Zenon DEF WriterInv, DataInv
    <3> QED BY <1>5, <3>1, <3>2, <3>3, <3>4, Zenon
  <2>2. Sel(net[c], Acks) = {} /\ DOMAIN net[c] = {}
    BY <2>1 DEF Sel
  <2>3. /\ Sel(net'[c], Acks) \subseteq {a} /\ Once(net'[c], Acks)
        /\ \A i \in DOMAIN net'[c] : net'[c][i] = a
    <3>1. Sel(Append(net[c], a), Acks) \subseteq {a} /\ Once(Append(net[c], a), Acks)
      BY <1>11, <1>14, <2>2, FirstOne, Zenon
    <3>2. AmongOr(Append(net[c], a), net[c], a)
      BY <1>11, <1>14, LessAppend, Zenon
    <3> QED BY <1>15, <2>2, <3>1, <3>2, Zenon DEF AmongOr
  <2>4. NetInv(c)' /\ OneSocket(c)' /\ RequestInv(c)' /\ StateInv(c)'
    BY <1>4, <1>6, <1>11, <2>1, <2>3, Zenon DEF NetInv, OneSocket, RequestInv, StateInv
  <2>a. files'[PathOf[c]] = Written(c, 0) /\ conns'[s].pos = 0 /\ 0 = 0 * WBlk
    <3>1. files'[PathOf[c]] = Written(c, 0)
      BY <1>9, SentFacts, Zenon
    <3>2. conns'[s].pos = 0 /\ 0 = 0 * WBlk
      BY <1>10, <1>13, BlocksAssumption
    <3> QED BY <3>1, <3>2, Zenon
  <2>5. AckInv(c)'
    BY <1>11, <2>1, <2>3, <2>a, Zenon DEF AckInv
  <2>6. DataInv(c)'
    <3>1. \A t \in Socks : Serves(t, c)' => AllIn(t, c, 0)'
      BY <2>1, <2>a, Zenon DEF AllIn
    <3> QED BY <2>1, <3>1, Zenon DEF DataInv
  <2>7. PosInv(c)'
    <3>1. Base(c) \in Seq(Units)
      BY SentFacts, Zenon
    <3>2. 0 <= Len(Base(c)) /\ Base(c) # Null
      BY <3>1, LenProperties, FilesAssumption
    <3> QED BY <1>9, <2>1, <2>a, <3>2, Zenon DEF PosInv
  <2> QED BY <2>4, <2>5, <2>6, <2>7, Zenon DEF WriterInv
<1>18. \A d : d # c => \A t \in Socks : Serves(t, d)' => conns'[t] = conns[t]
  BY <1>8, <1>10, <1>13, Zenon DEF Serves
<1>19. c \notin Readers /\ (peer'[c].st \in {"busy", "last"} => peer'[c].sock \in Socks)
  BY <1>1, <1>14, SocketsAssumption, Zenon DEF Inv, PeerInv
<1> QED BY <1>1, <1>4, <1>9, <1>13, <1>15, <1>16, <1>17, <1>18, <1>19, LessSame, Others, Zenon

-----------------------------------------------------------------------------
(* Transfers.                                                              *)

\* A transfer socket is closed.
LEMMA EndFacts ==
  ASSUME TypeInv, NEW s \in Socks, CloseAndFree(s), inq' = [inq EXCEPT ![s] = <<>>]
  PROVE  /\ conns' \in [Socks -> Conns \cup {Null}] /\ inq' \in [Socks -> Seq(FromPeer)]
         /\ \A t \in Socks : conns'[t] # Null => conns'[t] = conns[t]
         /\ \A M : \A t \in Socks : Less(inq'[t], inq[t], M)
         /\ files' = files /\ spoiled' = spoiled
<1>1. /\ conns \in [Socks -> Conns \cup {Null}] /\ inq \in [Socks -> Seq(FromPeer)]
      /\ <<>> \in Seq(FromPeer)
  BY EmptySeq, Zenon DEF TypeInv
<1>2. /\ conns' \in [Socks -> Conns \cup {Null}] /\ files' = files /\ spoiled' = spoiled
      /\ \A t \in Socks : conns'[t] # Null => conns'[t] = conns[t]
  BY <1>1, Zenon DEF CloseAndFree
<1>3. /\ inq' \in [Socks -> Seq(FromPeer)] /\ inq'[s] = <<>>
      /\ \A t \in Socks : t # s => inq'[t] = inq[t]
  BY <1>1, Zenon
<1>4. \A M : \A t \in Socks : Less(inq'[t], inq[t], M)
  BY <1>3, LessSame, LessEmpty, Zenon
<1> QED BY <1>2, <1>3, <1>4, Zenon

\* A transfer socket with a datagram.
LEMMA AtFacts ==
  ASSUME Inv, NEW s \in Socks, NEW k \in {"reader", "writer"}, At(s, k)
  PROVE  /\ Serves(s, conns[s].sq) /\ conns[s] \in Conns
         /\ k = "reader" => conns[s].sq \in Readers
         /\ k = "writer" => conns[s].sq \in Writers
         /\ inq[s] \in Seq(FromPeer) /\ inq[s] # <<>>
BY Zenon DEF At, Serves, Inv, TypeInv, ListInv

\* The end of a reader keeps the invariant.
LEMMA ReaderEndsStep ==
  ASSUME Inv, NEW s \in Socks, ReaderEnds(s)
  PROVE  Inv'
<1>1. PICK c \in Readers : c = conns[s].sq
  BY AtFacts, Zenon DEF ReaderEnds
<1>2. /\ conns' \in [Socks -> Conns \cup {Null}] /\ inq' \in [Socks -> Seq(FromPeer)]
      /\ \A t \in Socks : conns'[t] # Null => conns'[t] = conns[t]
      /\ \A M : \A t \in Socks : Less(inq'[t], inq[t], M)
      /\ files' = files /\ UNCHANGED <<mainq, net, peer, spoiled>>
  BY EndFacts, Zenon DEF ReaderEnds, Inv
<1>3. ReaderInv(c)'
  <2>1. /\ \A t \in Socks : Serves(t, c)' => Serves(t, c)
        /\ \A i \in DOMAIN net'[c] : PacketOK(Stored[PathOf[c]], net'[c][i])
    BY <1>2, Zenon DEF Inv, ReaderInv, Serves
  <2> QED BY <1>2, <2>1, ReaderKept, Zenon DEF Inv
<1>4. c \notin Writers
  BY SocketsAssumption, Zenon
<1>5. /\ TypeInv' /\ ListInv' /\ AskInv'
      /\ \A d : \A t \in Socks : Serves(t, d)' => conns'[t] = conns[t]
  BY <1>2, Zenon DEF Inv, TypeInv, ListInv, AskInv, Serves
<1>6. c \in Peers /\ (peer'[c].st \in {"busy", "last"} => peer'[c].sock \in Socks)
  BY <1>2, Zenon DEF Inv, PeerInv, Peers
<1> QED BY <1>2, <1>3, <1>4, <1>5, <1>6, LessSame, Others, Zenon

\* The end of a writer keeps the invariant: an ERROR is not an ACK.
LEMMA WriterEndsStep ==
  ASSUME Inv, NEW s \in Socks, WriterEnds(s)
  PROVE  Inv'
<1>1. PICK c \in Writers : c = conns[s].sq /\ Serves(s, c)
  BY AtFacts, Zenon DEF WriterEnds
<1>2. /\ conns' \in [Socks -> Conns \cup {Null}] /\ inq' \in [Socks -> Seq(FromPeer)]
      /\ \A t \in Socks : conns'[t] # Null => conns'[t] = conns[t]
      /\ \A M : \A t \in Socks : Less(inq'[t], inq[t], M)
      /\ files' = files /\ UNCHANGED <<mainq, peer, spoiled>>
  BY EndFacts, Zenon DEF WriterEnds, Inv
<1> DEFINE e == Pkt(s, "ERROR", 4, <<>>)
<1>3. e \in FromServer /\ e.op = "ERROR"
  BY EmptySeq, Zenon DEF Pkt, FromServer, Ops, Sizes
<1>4. net' = net \/ net' = Send(net, c, e)
  BY <1>1, Zenon DEF WriterEnds, Sends
<1> HIDE DEF e
<1>5. /\ c \in Peers /\ net \in [Peers -> Seq(FromServer)] /\ net[c] \in Seq(FromServer)
      /\ WriterInv(c) /\ NetInv(c)
  BY Zenon DEF Peers, Inv, TypeInv, WriterInv
<1>6. /\ net' \in [Peers -> Seq(FromServer)] /\ NetInv(c)' /\ Less(net'[c], net[c], Acks)
      /\ \A d \in Peers : d # c => net'[d] = net[d]
  <2>1. CASE net' = net
    BY <1>5, <2>1, LessSame, Zenon DEF NetInv
  <2>2. CASE net' = Send(net, c, e)
    <3>1. /\ net' \in [Peers -> Seq(FromServer)] /\ net'[c] = Append(net[c], e)
          /\ \A d \in Peers : d # c => net'[d] = net[d]
      BY <1>3, <1>5, <2>2, SendFacts
    <3>2. e \notin Acks
      BY <1>3, Zenon DEF Acks
    <3>3. Less(Append(net[c], e), net[c], Acks) /\ AmongOr(Append(net[c], e), net[c], e)
      BY <1>3, <1>5, <3>2, LessAppend, Zenon
    <3>4. NetInv(c)'
      BY <1>3, <1>5, <3>1, <3>3, Zenon DEF NetInv, AmongOr
    <3> QED BY <3>1, <3>3, <3>4, Zenon
  <2> QED BY <1>4, <2>1, <2>2, Zenon
<1>7. WriterInv(c)'
  <2>1. \A t \in Socks : Serves(t, c)' => conns'[t] = conns[t]
    BY <1>2, Zenon DEF Serves
  <2> QED BY <1>1, <1>2, <1>5, <1>6, <2>1, LessSame, WriterKept, Zenon
<1>8. /\ TypeInv' /\ ListInv' /\ AskInv'
      /\ \A d : \A t \in Socks : Serves(t, d)' => conns'[t] = conns[t]
  BY <1>2, <1>6, Zenon DEF Inv, TypeInv, ListInv, AskInv, Serves
<1>9. c \notin Readers /\ (peer'[c].st \in {"busy", "last"} => peer'[c].sock \in Socks)
  BY <1>2, <1>5, SocketsAssumption, Zenon DEF Inv, PeerInv
<1> QED BY <1>2, <1>6, <1>7, <1>8, <1>9, LessSame, Others, Zenon

\* The blocks of a window begin inside the file.
LEMMA WindowReach ==
  ASSUME NEW n \in Nat, NEW last \in Nat, NEW b \in Nat \ {0}, NEW left \in Nat,
         left = Pos(n - last * b), NEW k \in Nat \ {0}, k <= (left + b - 1) \div b
  PROVE  (last + k - 1) * b < n
<1> DEFINE q == (left + b - 1) \div b
<1>1. q \in Nat /\ q * b < left + b
  BY DivUp, Zenon
<1>2. k \in Nat \ {0} /\ k <= q
  BY Zenon
<1> HIDE DEF q
<1>3. (k - 1) * b <= (q - 1) * b /\ (q - 1) * b = q * b - b
  BY <1>1, <1>2, SMT
<1>4. (k - 1) * b < left /\ 0 <= (k - 1) * b
  BY <1>1, <1>2, <1>3, SMT
<1>5. left = n - last * b /\ last * b \in Nat
  BY <1>4, SMT DEF Pos
<1>6. (last + k - 1) * b = last * b + (k - 1) * b
  BY <1>2, SMTT(20)
<1> QED BY <1>4, <1>5, <1>6, SMT

\* A window consists of blocks of the file.
LEMMA WindowFacts ==
  ASSUME NEW s \in Socks, NEW last \in Nat, conns[s] \in Conns,
         NEW f \in Seq(Units), files[PathOf[conns[s].sq]] = f
  PROVE  /\ Window(s, last) \in Seq(FromServer)
         /\ \A k \in DOMAIN Window(s, last) : PacketOK(f, Window(s, last)[k])
<1> DEFINE left == Pos(Len(f) - last * Blk)
           q == (left + Blk - 1) \div Blk
           n == Min2(conns[s].wsize, q)
<1>1. Len(f) \in Nat /\ Blk \in Nat \ {0} /\ conns[s].wsize \in Nat /\ last * Blk \in Nat
  BY BlocksAssumption, LenProperties, SMTT(20) DEF Conns
<1>2. left \in Nat
  BY <1>1 DEF Pos
<1>3. q \in Nat
  BY <1>1, <1>2, DivUp, Zenon
<1>4. Window(s, last) = [k \in 1 .. n |-> Data(s, f, last + k)]
  BY Zenon DEF Window
<1>5. \A k \in Nat \ {0} : k <= q => (last + k - 1) * Blk < Len(f)
  BY <1>1, <1>2, WindowReach, Zenon
<1> HIDE DEF q
<1>6. n \in Nat /\ \A k \in 1 .. n : k \in Nat \ {0} /\ k <= q
  BY <1>1, <1>3, SMTT(20) DEF Min2
<1> HIDE DEF n
<1>7. ASSUME NEW k \in 1 .. n
      PROVE  Data(s, f, last + k) \in FromServer /\ PacketOK(f, Data(s, f, last + k))
  <2>1. k \in Nat \ {0} /\ k <= q
    BY <1>6, Zenon
  <2>2. (last + k - 1) * Blk < Len(f)
    BY <1>5, <2>1, Zenon
  <2>3. last + k \in Nat \ {0}
    BY <2>1, SMTT(20)
  <2> QED BY <2>2, <2>3, DataFacts
<1>8. Window(s, last) \in [1 .. n -> FromServer]
  BY <1>4, <1>7, Zenon
<1>9. Window(s, last) \in Seq(FromServer)
  BY <1>6, <1>8, SeqDef, Zenon
<1>10. DOMAIN Window(s, last) = 1 .. n
  BY <1>4, Zenon
<1> QED BY <1>4, <1>7, <1>9, <1>10, Zenon

\* A part of a window after what was on its way.
LEMMA WindowSent ==
  ASSUME NEW f, NEW q \in Seq(FromServer), NEW w \in Seq(FromServer), NEW n \in 0 .. Len(w),
         \A i \in DOMAIN q : PacketOK(f, q[i]), \A i \in DOMAIN w : PacketOK(f, w[i])
  PROVE  /\ q \o SubSeq(w, 1, n) \in Seq(FromServer)
         /\ \A i \in DOMAIN (q \o SubSeq(w, 1, n)) : PacketOK(f, (q \o SubSeq(w, 1, n))[i])
<1> DEFINE u == SubSeq(w, 1, n)
           v == q \o u
<1>1. /\ Len(w) \in Nat /\ DOMAIN w = 1 .. Len(w) /\ Len(q) \in Nat /\ DOMAIN q = 1 .. Len(q)
      /\ n \in Nat /\ n <= Len(w)
  BY LenProperties
<1>2. u \in Seq(FromServer) /\ Len(u) = n /\ \A i \in 1 .. n : u[i] = w[i]
  BY <1>1, SubSeqProperties
<1> HIDE DEF u
<1>3. /\ v \in Seq(FromServer) /\ Len(v) = Len(q) + n
      /\ \A i \in 1 .. Len(q) + n : v[i] = IF i <= Len(q) THEN q[i] ELSE u[i - Len(q)]
  BY <1>1, <1>2, ConcatProperties, Zenon
<1>4. DOMAIN v = 1 .. Len(q) + n
  BY <1>3, LenProperties, Zenon
<1> HIDE DEF v
<1>5. ASSUME NEW i \in 1 .. Len(q) + n PROVE PacketOK(f, v[i])
  <2>1. CASE i <= Len(q)
    BY <1>1, <1>3, <2>1
  <2>2. CASE ~(i <= Len(q))
    <3>1. i - Len(q) \in 1 .. n /\ i - Len(q) \in DOMAIN w
      BY <1>1, <2>2
    <3>2. v[i] = w[i - Len(q)]
      BY <1>2, <1>3, <2>2, <3>1, Zenon
    <3> QED BY <3>1, <3>2, Zenon
  <2> QED BY <2>1, <2>2, Zenon
<1> QED BY <1>3, <1>4, <1>5, Zenon DEF v, u

\* handle_reader's answer to an ACK keeps the invariant, whatever it acknowledges.
LEMMA ReaderAckStep ==
  ASSUME Inv, NEW s \in Socks, ReaderAck(s)
  PROVE  Inv'
<1>1. /\ UNCHANGED <<files, conns, mainq, peer, spoiled>> /\ inq' = [inq EXCEPT ![s] = Tail(@)]
      /\ At(s, "reader")
  BY Zenon DEF ReaderAck, server
<1>2. /\ Serves(s, conns[s].sq) /\ conns[s] \in Conns /\ conns[s].sq \in Readers
      /\ inq[s] \in Seq(FromPeer) /\ inq[s] # <<>>
  BY <1>1, AtFacts, Zenon
<1>3. PICK c \in Readers : c = conns[s].sq
  BY <1>2, Zenon
<1>4. PICK last \in Nat : last = Head(inq[s]).block
  <2>1. Head(inq[s]) \in FromPeer
    BY <1>2, LessTail, Zenon
  <2> QED BY <2>1, Zenon DEF FromPeer
<1>5. PICK n \in 0 .. Len(Window(s, last)) :
        net' = [net EXCEPT ![c] = @ \o SubSeq(Window(s, last), 1, n)]
  BY <1>3, <1>4, Zenon DEF ReaderAck
<1>6. PICK f : f = Stored[PathOf[c]]
  BY Zenon
<1>7. /\ ReaderInv(c) /\ files[PathOf[c]] = f /\ f # Null
      /\ \A i \in DOMAIN net[c] : PacketOK(f, net[c][i])
  BY <1>2, <1>3, <1>6, Zenon DEF Inv, ReaderInv
<1>8. f \in Seq(Units)
  BY <1>6, <1>7, FilesAssumption, Zenon
<1> DEFINE w == Window(s, last)
<1>9. w \in Seq(FromServer) /\ \A k \in DOMAIN w : PacketOK(f, w[k])
  BY <1>2, <1>3, <1>7, <1>8, WindowFacts, Zenon
<1>10. c \in Peers /\ net \in [Peers -> Seq(FromServer)] /\ net[c] \in Seq(FromServer)
  BY Zenon DEF Peers, Inv, TypeInv
<1>11. n \in 0 .. Len(w) /\ net' = [net EXCEPT ![c] = @ \o SubSeq(w, 1, n)]
  BY <1>5, Zenon
<1> HIDE DEF w
<1> DEFINE v == net[c] \o SubSeq(w, 1, n)
<1>12. v \in Seq(FromServer) /\ \A i \in DOMAIN v : PacketOK(f, v[i])
  BY <1>7, <1>9, <1>10, <1>11, WindowSent, Zenon
<1>13. net' = [net EXCEPT ![c] = v]
  BY <1>11, Zenon
<1> HIDE DEF v
<1>14. /\ net' \in [Peers -> Seq(FromServer)] /\ net'[c] = v
       /\ \A d \in Peers : d # c => net'[d] = net[d]
  BY <1>10, <1>12, <1>13, Zenon
<1>15. ReaderInv(c)'
  <2>1. /\ \A t \in Socks : Serves(t, c)' => Serves(t, c)
        /\ \A i \in DOMAIN net'[c] : PacketOK(Stored[PathOf[c]], net'[c][i])
    BY <1>1, <1>6, <1>12, <1>14, Zenon DEF Serves
  <2> QED BY <1>1, <1>7, <2>1, ReaderKept, Zenon
<1>16. /\ inq' \in [Socks -> Seq(FromPeer)] /\ inq'[s] = Tail(inq[s])
       /\ \A t \in Socks : t # s => inq'[t] = inq[t]
  BY <1>1, <1>2, TakeFacts, Zenon DEF Inv, TypeInv
<1>17. \A M : \A t \in Socks : Less(inq'[t], inq[t], M)
  <2>1. \A M : Less(Tail(inq[s]), inq[s], M)
    BY <1>2, LessTail, Zenon
  <2> QED BY <1>16, <2>1, LessSame, Zenon
<1>18. TypeInv' /\ ListInv' /\ AskInv' /\ \A d, t : Serves(t, d)' => conns'[t] = conns[t]
  BY <1>1, <1>14, <1>16, Zenon DEF Inv, TypeInv, ListInv, AskInv
<1>19. c \notin Writers /\ (peer'[c].st \in {"busy", "last"} => peer'[c].sock \in Socks)
  BY <1>1, <1>10, SocketsAssumption, Zenon DEF Inv, PeerInv
<1> QED BY <1>1, <1>14, <1>15, <1>17, <1>18, <1>19, LessSame, Others, ZenonT(30)

\* What of a DATA is written.
LEMMA AcceptedFacts ==
  ASSUME NEW x \in Seq(Units), NEW k \in Accepted(x)
  PROVE  /\ k \in Nat
         /\ SubSeq(x, 1, k) \in Seq(Units) /\ Len(SubSeq(x, 1, k)) = k
         /\ k = Len(x) => SubSeq(x, 1, k) = x
<1>1. Len(x) \in Nat /\ \A i \in 1 .. Len(x) : x[i] \in Units
  BY LenProperties, ElementOfSeq, Zenon
<1>2. k \in Nat /\ k <= Len(x)
  BY <1>1 DEF Accepted, Min2
<1>3. \A i \in 1 .. k : x[i] \in Units
  BY <1>1, <1>2
<1>4. /\ SubSeq(x, 1, k) \in Seq(Units)
      /\ Len(SubSeq(x, 1, k)) = IF 1 <= k THEN k - 1 + 1 ELSE 0
  BY <1>2, <1>3, SubSeqProperties
<1>5. Len(SubSeq(x, 1, k)) = k
  BY <1>2, <1>4
<1> QED BY <1>2, <1>4, <1>5, SubSeqFull, Zenon

\* The DATA handle_writer stores as it should is the last one sent.
LEMMA StoresLast ==
  ASSUME NEW c \in Writers, NEW s \in Socks, NEW n \in Nat, Serves(s, c),
         AllIn(s, c, n) \/ LastOut(s, c, n),
         NEW m \in Sel(inq[s], DataOf(c)), Follows(s, m)
  PROVE  LastOut(s, c, n) /\ m \in Nth(c, n)
<1>1. BlockMod \in Nat \ {0, 1} /\ WBlk \in Nat \ {0}
  BY BlocksAssumption, Zenon
<1>2. ASSUME NEW k \in Nat, conns[s].pos = k * WBlk
      PROVE  m.block = (k + 1) % BlockMod /\ m.block # k % BlockMod
  <2>1. (k * WBlk) \div WBlk = k
    BY <1>1, DivExact, Zenon
  <2>2. m.block = (k + 1) % BlockMod
    BY <1>2, <2>1, Zenon DEF Follows
  <2> QED BY <1>1, <2>2, ModNext, Zenon
<1>3. ~AllIn(s, c, n)
  BY <1>2, Zenon DEF AllIn, Nth
<1>4. LastOut(s, c, n)
  BY <1>3, Zenon
<1>5. n - 1 \in Nat
  BY <1>4 DEF LastOut
<1>6. m \notin Nth(c, n - 1)
  BY <1>2, <1>4, <1>5, Zenon DEF LastOut, Nth
<1> QED BY <1>4, <1>6, Zenon DEF LastOut

\* handle_writer's answer to a DATA keeps the invariant: if all of it is stored
\* and it follows what is stored, it is the last one sent, the position is where
\* it belongs, and its ACK is the only one under way.
LEMMA WriterDataStep ==
  ASSUME PathsApart, Inv, NEW s \in Socks, WriterData(s)
  PROVE  Inv'
<1>1. UNCHANGED <<mainq, peer>> /\ At(s, "writer")
  BY Zenon DEF WriterData
<1>2. /\ Serves(s, conns[s].sq) /\ conns[s] \in Conns /\ conns[s].sq \in Writers
      /\ inq[s] \in Seq(FromPeer) /\ inq[s] # <<>>
  BY <1>1, AtFacts, Zenon
<1>3. PICK c \in Writers : c = conns[s].sq
  BY <1>2, Zenon
<1>4. PICK m : m = Head(inq[s])
  BY Zenon
<1>5. PICK k \in Accepted(m.data) :
        /\ m.from = c /\ m.op = "DATA"
        /\ files' = [files EXCEPT ![PathOf[c]] =
                       Overlay(@, conns[s].pos, SubSeq(m.data, 1, k))]
        /\ conns' = [conns EXCEPT ![s] =
                       IF Len(m.data) = WBlk THEN [conns[s] EXCEPT !.pos = @ + k] ELSE Null]
        /\ spoiled' = IF k = Len(m.data) /\ Follows(s, m) THEN spoiled
                      ELSE spoiled \cup {c}
        /\ Sends(c, Pkt(s, "ACK", m.block, <<>>))
        /\ inq' = [inq EXCEPT ![s] = IF Len(m.data) = WBlk THEN Tail(@) ELSE <<>>]
  BY <1>3, <1>4, Zenon DEF WriterData
<1>6. m \in FromPeer
  BY <1>2, <1>4, LessTail, Zenon
<1>7. m \in DataOf(c) /\ m.data \in Seq(Units)
  BY <1>5, <1>6, Zenon DEF DataOf, FromPeer
<1>8. m \in Sel(inq[s], DataOf(c))
  BY <1>2, <1>4, <1>7, LessTail, Zenon
<1>9. PICK n : n = peer[c].acked
  BY Zenon
<1>10. c \in Peers /\ WriterInv(c) /\ Serves(s, c) /\ n \in Nat /\ WBlk \in Nat \ {0}
  BY <1>2, <1>3, <1>9, BlocksAssumption, Zenon DEF Inv, TypeInv, PeerType, Peers
<1>11. n # 0
  BY <1>8, <1>9, <1>10, Zenon DEF WriterInv, DataInv
<1>12. PICK x \in Seq(Units), o \in Nat :
         /\ x = SubSeq(m.data, 1, k) /\ o = conns[s].pos
         /\ k \in Nat /\ Len(x) = k /\ (k = Len(m.data) => x = m.data)
  BY <1>2, <1>7, AcceptedFacts, Zenon DEF Conns
<1>13. spoiled \subseteq spoiled'
  BY <1>5, Zenon
<1>14. /\ files' \in [Paths -> Seq(Units) \cup {Null}] /\ files'[PathOf[c]] # Null
       /\ files'[PathOf[c]] = Overlay(files[PathOf[c]], o, x)
       /\ o + k <= Len(files'[PathOf[c]])
       /\ \A d \in Readers \cup Writers : d # c => files'[PathOf[d]] = files[PathOf[d]]
  <2>1. files \in [Paths -> Seq(Units) \cup {Null}] /\ PathOf[c] \in Paths
    BY FilesAssumption, Zenon DEF Inv, TypeInv
  <2>2. files[PathOf[c]] \in Seq(Units) /\ o <= Len(files[PathOf[c]])
    BY <1>10, <1>12, <2>1, Zenon DEF WriterInv, PosInv
  <2>3. PICK f \in Seq(Units) : f = Overlay(files[PathOf[c]], o, x) /\ o + k <= Len(f)
    BY <1>12, <2>2, OverlayAt, Zenon
  <2>4. files' = [files EXCEPT ![PathOf[c]] = f]
    BY <1>5, <1>12, <2>3, Zenon
  <2>5. f # Null
    BY FilesAssumption, Zenon
  <2> QED BY <2>1, <2>3, <2>4, <2>5, FilesAssumption, Zenon DEF PathsApart
<1>15. /\ conns' \in [Socks -> Conns \cup {Null}]
       /\ \A t \in Socks : t # s => conns'[t] = conns[t]
       /\ conns'[s] # Null => /\ Len(m.data) = WBlk /\ conns'[s].pos = o + k
                              /\ conns'[s].sq = c /\ conns'[s].kind = conns[s].kind
  <2>1. conns \in [Socks -> Conns \cup {Null}]
    BY Zenon DEF Inv, TypeInv
  <2>2. CASE Len(m.data) = WBlk
    <3> DEFINE r == [conns[s] EXCEPT !.pos = @ + k]
               e == IF Len(m.data) = WBlk THEN r ELSE Null
    <3>1. conns' = [conns EXCEPT ![s] = e]
      BY <1>5, Zenon
    <3>2. conns[s].pos + k = o + k /\ o + k \in Nat
      BY <1>12
    <3>3. r \in Conns /\ r.pos = o + k /\ r.sq = c /\ r.kind = conns[s].kind
      BY <1>2, <1>3, <3>2, Zenon DEF Conns
    <3> HIDE DEF r
    <3>4. conns' = [conns EXCEPT ![s] = r]
      BY <2>2, <3>1, Zenon
    <3> QED BY <2>1, <2>2, <3>3, <3>4, Zenon
  <2>3. CASE Len(m.data) # WBlk
    BY <1>5, <2>1, <2>3, Zenon
  <2> QED BY <2>2, <2>3, Zenon
<1>16. /\ inq' \in [Socks -> Seq(FromPeer)]
       /\ \A M : \A t \in Socks : Less(inq'[t], inq[t], M)
       /\ \A N : m \in N /\ Sorted(inq[s], DataOf(c), N) => Sel(inq'[s], DataOf(c)) \subseteq N
  <2>1. inq \in [Socks -> Seq(FromPeer)] /\ <<>> \in Seq(FromPeer)
    BY EmptySeq, Zenon DEF Inv, TypeInv
  <2>2. CASE Len(m.data) = WBlk
    <3>1. inq' = [inq EXCEPT ![s] = Tail(@)]
      BY <1>5, <2>2, Zenon
    <3>2. /\ inq' \in [Socks -> Seq(FromPeer)] /\ inq'[s] = Tail(inq[s])
          /\ \A t \in Socks : t # s => inq'[t] = inq[t]
      BY <1>2, <2>1, <3>1, TakeFacts, Zenon
    <3>3. \A N : m \in N /\ Sorted(inq[s], DataOf(c), N) => Sel(inq'[s], DataOf(c)) \subseteq N
      BY <1>2, <1>4, <3>2, LessTail, Zenon
    <3>4. \A M : Less(Tail(inq[s]), inq[s], M)
      BY <1>2, LessTail, Zenon
    <3> QED BY <3>2, <3>3, <3>4, LessSame, Zenon
  <2>3. CASE Len(m.data) # WBlk
    <3>1. /\ inq' \in [Socks -> Seq(FromPeer)] /\ inq'[s] = <<>>
          /\ \A t \in Socks : t # s => inq'[t] = inq[t]
      BY <1>5, <2>1, <2>3, Zenon
    <3>2. Sel(inq'[s], DataOf(c)) = {}
      BY <3>1, SMTT(20) DEF Sel
    <3> QED BY <3>1, <3>2, LessSame, LessEmpty, Zenon
  <2> QED BY <2>2, <2>3, Zenon
<1> DEFINE a == Pkt(s, "ACK", m.block, <<>>)
<1>17. a \in FromServer /\ a.op = "ACK" /\ a.from = s
  BY <1>6, EmptySeq, Zenon DEF Pkt, FromServer, FromPeer, Ops, Sizes
<1>18. net' = Send(net, c, a) \/ net' = net
  BY <1>5, Zenon DEF Sends
<1> HIDE DEF a
<1>19. net \in [Peers -> Seq(FromServer)] /\ net[c] \in Seq(FromServer)
  BY <1>10, Zenon DEF Inv, TypeInv
<1>20. /\ net' \in [Peers -> Seq(FromServer)]
       /\ net'[c] = Append(net[c], a) \/ net'[c] = net[c]
       /\ \A d \in Peers : d # c => net'[d] = net[d]
  <2>1. CASE net' = Send(net, c, a)
    <3>1. /\ Send(net, c, a) \in [Peers -> Seq(FromServer)]
          /\ Send(net, c, a)[c] = Append(net[c], a)
          /\ \A d \in Peers : d # c => Send(net, c, a)[d] = net[d]
      <4>1. c \in Peers /\ a \in FromServer /\ net \in [Peers -> Seq(FromServer)]
        BY <1>10, <1>17, <1>19, Zenon
      <4> QED BY <4>1, SendFacts, SMTT(30)
    <3> QED BY <2>1, <3>1, Zenon
  <2>2. CASE net' = net
    BY <1>19, <2>2, Zenon
  <2> QED BY <1>18, <2>1, <2>2, Zenon
<1>21. ASSUME c \notin spoiled'
       PROVE  /\ peer[c].st # "done" /\ Sel(net[c], Acks) = {}
              /\ files'[PathOf[c]] = Written(c, n)
              /\ conns'[s] # Null => conns'[s].pos = n * WBlk
              /\ Sel(inq'[s], DataOf(c)) \subseteq Nth(c, n)
  <2>1. c \notin spoiled /\ k = Len(m.data) /\ Follows(s, m)
    BY <1>5, <1>21, Zenon
  <2>2. AllIn(s, c, n) \/ LastOut(s, c, n)
    BY <1>9, <1>10, <2>1, Zenon DEF WriterInv, DataInv
  <2>3. LastOut(s, c, n) /\ m \in Nth(c, n)
    BY <1>8, <1>10, <2>1, <2>2, StoresLast, Zenon
  <2>4. /\ n \in Nat \ {0} /\ (n - 1) * WBlk <= Len(Payload[c])
        /\ files[PathOf[c]] = Written(c, n - 1) /\ o = (n - 1) * WBlk
        /\ x = Slice(Payload[c], (n - 1) * WBlk, WBlk)
    BY <1>10, <1>11, <1>12, <2>1, <2>3, Zenon DEF LastOut, Nth
  <2>5. Overlay(Written(c, n - 1), (n - 1) * WBlk, Slice(Payload[c], (n - 1) * WBlk, WBlk))
        = Written(c, n)
    BY <2>4, WriteNext, Zenon
  <2>6. files'[PathOf[c]] = Written(c, n)
    BY <1>14, <2>4, <2>5, Zenon
  <2>7. conns'[s] # Null => conns'[s].pos = n * WBlk
    <3>1. o + WBlk = n * WBlk
      BY <1>10, <2>4
    <3> QED BY <1>15, <2>1, <3>1, Zenon
  <2>8. Sel(inq'[s], DataOf(c)) \subseteq Nth(c, n)
    BY <1>16, <2>3, Zenon DEF LastOut
  <2> QED BY <2>3, <2>6, <2>7, <2>8, Zenon DEF LastOut
<1>22. WriterInv(c)'
  <2>1. AmongOr(net'[c], net[c], a)
    <3>1. AmongOr(Append(net[c], a), net[c], a)
      BY <1>17, <1>19, LessAppend, Zenon
    <3>2. AmongOr(net[c], net[c], a)
      BY Zenon DEF AmongOr
    <3> QED BY <1>20, <3>1, <3>2, Zenon
  <2>2. NetInv(c)'
    BY <1>10, <1>17, <2>1, Zenon DEF WriterInv, NetInv, AmongOr
  <2>3. RequestInv(c)'
    <3>1. ~Untouched(c)
      BY <1>10, Zenon DEF Untouched
    <3>2. peer[c].st # "idle" /\ Sel(mainq, WrqOf(c)) = {} /\ Once(mainq, WrqOf(c))
      BY <1>10, <3>1, Zenon DEF WriterInv, RequestInv
    <3> QED BY <1>1, <3>2, Zenon DEF RequestInv
  <2>4. \A t \in Socks : Serves(t, c)' => t = s
    BY <1>10, <1>15, Zenon DEF WriterInv, OneSocket, Serves
  <2>5. OneSocket(c)'
    BY <2>4, Zenon DEF OneSocket
  <2>6. AckInv(c)'
    <3> SUFFICES ASSUME c \notin spoiled'
                 PROVE  /\ Once(net'[c], Acks)
                        /\ \A e \in Sel(net'[c], Acks) :
                             /\ files'[PathOf[c]] = Written(c, peer'[c].acked)
                             /\ \A t \in Socks : Serves(t, c)' => t = e.from
      BY Zenon DEF AckInv
    <3>1. Sel(net[c], Acks) = {} /\ files'[PathOf[c]] = Written(c, peer'[c].acked)
      BY <1>1, <1>9, <1>21, Zenon
    <3>2. Sel(net'[c], Acks) \subseteq {a} /\ Once(net'[c], Acks)
      <4>1. Sel(Append(net[c], a), Acks) \subseteq {a} /\ Once(Append(net[c], a), Acks)
        BY <1>17, <1>19, <3>1, FirstOne, Zenon
      <4>2. Once(net[c], Acks)
        BY <3>1, Zenon DEF Sel, Once
      <4> QED BY <1>20, <3>1, <4>1, <4>2, Zenon
    <3> QED BY <1>17, <2>4, <3>1, <3>2, Zenon
  <2>7. DataInv(c)'
    <3>1. c \notin spoiled' => \A t \in Socks : Serves(t, c)' => AllIn(t, c, n)'
      BY <1>21, <2>4, Zenon DEF AllIn, Serves
    <3> QED BY <1>1, <1>9, <1>11, <3>1, Zenon DEF DataInv
  <2>8. PosInv(c)'
    BY <1>14, <1>15, <2>4, Zenon DEF PosInv, Serves
  <2>9. StateInv(c)'
    BY <1>1, <1>10, <1>21, Zenon DEF WriterInv, StateInv
  <2> QED BY <2>2, <2>3, <2>5, <2>6, <2>7, <2>8, <2>9, Zenon DEF WriterInv
<1>23. TypeInv' /\ AskInv'
  BY <1>1, <1>14, <1>15, <1>16, <1>20, Zenon DEF Inv, TypeInv, AskInv
<1>24. ListInv'
  BY <1>2, <1>3, <1>15, Zenon DEF Inv, ListInv, Serves
<1>25. \A d : d # c => \A t \in Socks : Serves(t, d)' => conns'[t] = conns[t]
  BY <1>15, Zenon DEF Serves
<1>26. c \notin Readers /\ (peer'[c].st \in {"busy", "last"} => peer'[c].sock \in Socks)
  BY <1>1, <1>10, SocketsAssumption, Zenon DEF Inv, PeerInv
<1> QED BY <1>1, <1>13, <1>14, <1>16, <1>20, <1>22, <1>23, <1>24, <1>25, <1>26, LessSame,
           Others, Zenon

-----------------------------------------------------------------------------
(* The remote side.                                                        *)

\* The remote side's record after a step that sets its state.
LEMMA StateSet ==
  ASSUME TypeInv, NEW c \in Peers, NEW st \in States, peer' = [peer EXCEPT ![c].st = st]
  PROVE  /\ peer' \in [Peers -> PeerType] /\ \A d \in Peers : d # c => peer'[d] = peer[d]
         /\ peer'[c].st = st /\ peer'[c].sock = peer[c].sock /\ peer'[c].size = peer[c].size
         /\ peer'[c].got = peer[c].got /\ peer'[c].acked = peer[c].acked
BY Zenon DEF TypeInv, PeerType

\* After an OACK.
LEMMA OackSet ==
  ASSUME TypeInv, NEW c \in Peers, NEW k \in Socks, NEW n \in Sizes,
         peer' = [peer EXCEPT ![c].st = "busy", ![c].sock = k, ![c].size = n]
  PROVE  /\ peer' \in [Peers -> PeerType] /\ \A d \in Peers : d # c => peer'[d] = peer[d]
         /\ peer'[c].st = "busy" /\ peer'[c].sock = k /\ peer'[c].size = n
         /\ peer'[c].got = peer[c].got
BY ZenonT(30) DEF TypeInv, PeerType, States

\* Any datagram but DATA is sent to a transfer socket, or none.
LEMMA Answered ==
  ASSUME Inv, NEW k \in Socks, NEW a \in FromPeer, a.op # "DATA",
         ToSock(k, a) \/ inq' = inq
  PROVE  /\ inq' \in [Socks -> Seq(FromPeer)]
         /\ \A d : \A t \in Socks : Less(inq'[t], inq[t], DataOf(d))
<1>1. \A d : a \notin DataOf(d)
  BY Zenon DEF DataOf
<1>2. inq \in [Socks -> Seq(FromPeer)]
  BY Zenon DEF Inv, TypeInv
<1>3. CASE ToSock(k, a)
  BY <1>1, <1>2, <1>3, ToSockFacts, Zenon
<1>4. CASE inq' = inq
  BY <1>2, <1>4, LessSame, Zenon
<1> QED BY <1>3, <1>4, Zenon

\* A datagram more at the listening socket.
LEMMA MainGets ==
  ASSUME Inv, NEW m \in FromPeer, mainq' = Append(mainq, m),
         m.op = "RRQ" => m.from \in Readers, m.op = "WRQ" => m.from \in Writers
  PROVE  /\ mainq' \in Seq(FromPeer) /\ AskInv'
         /\ \A M : m \notin M => Less(mainq', mainq, M)
         /\ \A M : Sel(mainq, M) = {} => Once(mainq', M)
<1>1. mainq \in Seq(FromPeer) /\ AskInv
  BY Zenon DEF Inv, TypeInv
<1>2. mainq' \in Seq(FromPeer) /\ AmongOr(mainq', mainq, m)
  BY <1>1, LessAppend, Zenon
<1>3. \A M : /\ m \notin M => Less(mainq', mainq, M)
             /\ Sel(mainq, M) = {} => Once(mainq', M)
  BY <1>1, LessAppend, Zenon
<1>4. AskInv'
  BY <1>1, <1>2, Zenon DEF AskInv, AmongOr
<1> QED BY <1>2, <1>3, <1>4, Zenon

\* A new read keeps the invariant.
LEMMA RequestReadStep ==
  ASSUME Inv, NEW c \in Readers, Request(c, "RRQ")
  PROVE  Inv'
<1> DEFINE m == Pkt(c, "RRQ", 0, <<>>)
<1>1. /\ UNCHANGED <<files, conns, inq, net, spoiled>> /\ peer' = [peer EXCEPT ![c].st = "asked"]
      /\ mainq' = Append(mainq, m) /\ c \in Peers
  BY Zenon DEF Request, server, Peers
<1>2. m \in FromPeer /\ m.op = "RRQ" /\ m.from = c
  BY <1>1, EmptySeq, Zenon DEF Pkt, FromPeer, Ops
<1> HIDE DEF m
<1>3. /\ mainq' \in Seq(FromPeer) /\ AskInv'
      /\ \A M : m \notin M => Less(mainq', mainq, M)
  BY <1>1, <1>2, MainGets, Zenon
<1>4. /\ peer' \in [Peers -> PeerType] /\ \A d \in Peers : d # c => peer'[d] = peer[d]
      /\ peer'[c].st = "asked" /\ peer'[c].size = peer[c].size /\ peer'[c].got = peer[c].got
  <2>1. "asked" \in States
    BY Zenon DEF States
  <2> QED BY <1>1, <2>1, StateSet, Zenon DEF Inv
<1>5. \A d \in Writers : m \notin WrqOf(d)
  BY <1>2, Zenon DEF WrqOf
<1>6. TypeInv' /\ ListInv' /\ \A d, t : Serves(t, d)' => conns'[t] = conns[t] /\ Serves(t, d)
  BY <1>1, <1>3, <1>4, Zenon DEF Inv, TypeInv, ListInv, Serves
<1>7. ReaderInv(c)'
  <2>1. \A i \in DOMAIN net'[c] : PacketOK(Stored[PathOf[c]], net'[c][i])
    BY <1>1, Zenon DEF Inv, ReaderInv
  <2> QED BY <1>1, <1>4, <1>6, <2>1, ReaderKept, Zenon DEF Inv
<1>8. c \notin Writers
  BY SocketsAssumption, Zenon
<1> QED BY <1>1, <1>3, <1>4, <1>5, <1>6, <1>7, <1>8, LessSame, Others

\* A new write keeps the invariant: nobody has touched its file.
LEMMA RequestWriteStep ==
  ASSUME Inv, NEW c \in Writers, Request(c, "WRQ")
  PROVE  Inv'
<1> DEFINE m == Pkt(c, "WRQ", 0, <<>>)
<1>1. /\ UNCHANGED <<files, conns, inq, net, spoiled>> /\ peer' = [peer EXCEPT ![c].st = "asked"]
      /\ mainq' = Append(mainq, m) /\ c \in Peers /\ peer[c].st = "idle"
  BY Zenon DEF Request, server, Peers
<1>2. m \in FromPeer /\ m.op = "WRQ" /\ m.from = c
  BY <1>1, EmptySeq, Zenon DEF Pkt, FromPeer, Ops
<1> HIDE DEF m
<1>3. /\ mainq' \in Seq(FromPeer) /\ AskInv'
      /\ \A M : m \notin M => Less(mainq', mainq, M)
      /\ \A M : Sel(mainq, M) = {} => Once(mainq', M)
  BY <1>1, <1>2, MainGets, Zenon
<1>4. /\ peer' \in [Peers -> PeerType] /\ \A d \in Peers : d # c => peer'[d] = peer[d]
      /\ peer'[c].st = "asked" /\ peer'[c].acked = peer[c].acked
  <2>1. "asked" \in States
    BY Zenon DEF States
  <2> QED BY <1>1, <2>1, StateSet, Zenon DEF Inv
<1>5. \A d \in Writers : d # c => m \notin WrqOf(d)
  BY <1>2, Zenon DEF WrqOf
<1>6. TypeInv' /\ ListInv' /\ \A d, t : Serves(t, d)' => conns'[t] = conns[t] /\ Serves(t, d)
  BY <1>1, <1>3, <1>4, Zenon DEF Inv, TypeInv, ListInv, Serves
<1>7. WriterInv(c)'
  <2>1. WriterInv(c) /\ Untouched(c) /\ Sel(mainq, WrqOf(c)) = {}
    BY <1>1, Zenon DEF Inv, WriterInv, RequestInv
  <2>2. Untouched(c)'
    BY <1>1, <1>4, <1>6, <2>1, Zenon DEF Untouched
  <2>3. RequestInv(c)'
    BY <1>3, <1>4, <2>1, <2>2, Zenon DEF RequestInv
  <2>4. NetInv(c)' /\ OneSocket(c)'
    BY <1>1, <1>6, <2>1, Zenon DEF WriterInv, NetInv, OneSocket
  <2>5. StateInv(c)'
    BY <1>4, <2>2, Zenon DEF StateInv, Untouched
  <2>6. AckInv(c)'
    <3>1. DOMAIN net'[c] = {}
      BY <2>2 DEF Untouched
    <3> QED BY <3>1, Zenon DEF AckInv, Sel, Once
  <2>7. DataInv(c)' /\ PosInv(c)'
    BY <1>1, <1>4, <2>1, <2>2, Zenon DEF WriterInv, DataInv, PosInv, Untouched
  <2> QED BY <2>3, <2>4, <2>5, <2>6, <2>7, Zenon DEF WriterInv
<1>8. c \notin Readers
  BY SocketsAssumption, Zenon
<1> QED BY <1>1, <1>3, <1>4, <1>5, <1>6, <1>7, <1>8, LessSame, Others, Zenon

\* A transfer takes a packet.
LEMMA PacketTaken ==
  ASSUME Inv, NEW c \in Peers, net[c] # <<>>, net' = [net EXCEPT ![c] = Tail(@)]
  PROVE  /\ c \in Readers \cup Writers
         /\ Head(net[c]) \in FromServer
         /\ net' \in [Peers -> Seq(FromServer)] /\ \A d \in Peers : d # c => net'[d] = net[d]
         /\ c \in Readers => /\ PacketOK(Stored[PathOf[c]], Head(net[c]))
                             /\ \A i \in DOMAIN net'[c] : PacketOK(Stored[PathOf[c]], net'[c][i])
         /\ c \in Writers =>
              /\ Less(net'[c], net[c], Acks) /\ NetInv(c)' /\ Sel(mainq, WrqOf(c)) = {}
              /\ peer[c].st # "idle"
              /\ Head(net[c]).op \in {"ACK", "ERROR"}
              /\ Head(net[c]).op = "ACK" => /\ Head(net[c]) \in Sel(net[c], Acks)
                                            /\ c \notin spoiled => Sel(net'[c], Acks) = {}
<1>1. c \in Readers \cup Writers
  BY Zenon DEF Inv, PeerInv
<1>2. net \in [Peers -> Seq(FromServer)] /\ net[c] \in Seq(FromServer)
  BY Zenon DEF Inv, TypeInv
<1>3. /\ net' \in [Peers -> Seq(FromServer)] /\ net'[c] = Tail(net[c])
      /\ \A d \in Peers : d # c => net'[d] = net[d]
  BY <1>2, TakeFacts, Zenon
<1>4. /\ Head(net[c]) \in FromServer
      /\ Among(Tail(net[c]), net[c])
      /\ Less(Tail(net[c]), net[c], Acks)
      /\ Head(net[c]) \in Acks => Head(net[c]) \in Sel(net[c], Acks)
      /\ Head(net[c]) \in Acks /\ Once(net[c], Acks) => Sel(Tail(net[c]), Acks) = {}
  BY <1>2, LessTail, Zenon
<1>5. Head(net[c]) = net[c][1] /\ 1 \in DOMAIN net[c]
  BY <1>2, EmptySeq, LenProperties
<1>6. ASSUME c \in Readers
      PROVE  /\ PacketOK(Stored[PathOf[c]], Head(net[c]))
             /\ \A i \in DOMAIN net'[c] : PacketOK(Stored[PathOf[c]], net'[c][i])
  <2>1. \A i \in DOMAIN net[c] : PacketOK(Stored[PathOf[c]], net[c][i])
    BY <1>6, Zenon DEF Inv, ReaderInv
  <2> QED BY <1>3, <1>4, <1>5, <2>1, Zenon DEF Among
<1>7. ASSUME c \in Writers
      PROVE  /\ Less(net'[c], net[c], Acks) /\ NetInv(c)' /\ Sel(mainq, WrqOf(c)) = {}
             /\ peer[c].st # "idle"
             /\ Head(net[c]).op \in {"ACK", "ERROR"}
             /\ Head(net[c]).op = "ACK" => /\ Head(net[c]) \in Sel(net[c], Acks)
                                           /\ c \notin spoiled => Sel(net'[c], Acks) = {}
  <2>1. WriterInv(c)
    BY <1>7, Zenon DEF Inv
  <2>2. NetInv(c)' /\ Head(net[c]).op \in {"ACK", "ERROR"}
    BY <1>3, <1>4, <1>5, <2>1, ZenonT(30) DEF WriterInv, NetInv, Among
  <2>3. ~Untouched(c)
    BY Zenon DEF Untouched
  <2>4. Sel(mainq, WrqOf(c)) = {} /\ peer[c].st # "idle"
    BY <2>1, <2>3, Zenon DEF WriterInv, RequestInv
  <2>5. Head(net[c]).op = "ACK" => Head(net[c]) \in Acks
    BY <1>4, Zenon DEF Acks
  <2>6. c \notin spoiled => Once(net[c], Acks)
    BY <2>1, Zenon DEF WriterInv, AckInv
  <2> QED BY <1>3, <1>4, <2>2, <2>4, <2>5, <2>6, Zenon
<1> QED BY <1>1, <1>3, <1>4, <1>6, <1>7, Zenon

\* An OACK taken by a reader keeps the invariant: the size it learns, if any, is
\* the file's.
LEMMA PeerOackStep ==
  ASSUME Inv, NEW c \in Peers, PeerOack(c)
  PROVE  Inv'
<1>1. PICK m : m = Head(net[c])
  BY Zenon
<1> DEFINE a == Pkt(c, "ACK", 0, <<>>)
<1>2. /\ net[c] # <<>> /\ m.op = "OACK" /\ net' = [net EXCEPT ![c] = Tail(@)]
      /\ peer' = [peer EXCEPT ![c].st = "busy", ![c].sock = m.from, ![c].size = m.block]
      /\ ToSock(m.from, a) /\ UNCHANGED <<files, conns, mainq, spoiled>>
  BY <1>1, Zenon DEF PeerOack, Arrives, server
<1>3. /\ c \in Readers /\ PacketOK(Stored[PathOf[c]], m) /\ m \in FromServer
      /\ net' \in [Peers -> Seq(FromServer)] /\ \A d \in Peers : d # c => net'[d] = net[d]
      /\ \A i \in DOMAIN net'[c] : PacketOK(Stored[PathOf[c]], net'[c][i])
  BY <1>1, <1>2, PacketTaken, Zenon
<1>4. a \in FromPeer /\ a.op = "ACK"
  BY EmptySeq, Zenon DEF Pkt, FromPeer, Ops
<1> HIDE DEF a
<1>5. m.from \in Socks /\ m.block \in Sizes
  BY <1>3, Zenon DEF FromServer
<1>6. /\ inq' \in [Socks -> Seq(FromPeer)]
      /\ \A d : \A t \in Socks : Less(inq'[t], inq[t], DataOf(d))
  BY <1>2, <1>4, <1>5, Answered, Zenon
<1>7. /\ peer' \in [Peers -> PeerType] /\ \A d \in Peers : d # c => peer'[d] = peer[d]
      /\ peer'[c].st = "busy" /\ peer'[c].sock = m.from /\ peer'[c].size = m.block
      /\ peer'[c].got = peer[c].got
  BY <1>2, <1>5, OackSet, Zenon DEF Inv
<1>9. /\ TypeInv' /\ AskInv' /\ ListInv'
      /\ \A d, t : Serves(t, d)' => conns'[t] = conns[t] /\ Serves(t, d)
  BY <1>2, <1>3, <1>6, <1>7, Zenon DEF Inv, TypeInv, AskInv, ListInv, Serves
<1>10. ReaderInv(c)'
  <2>1. Stored[PathOf[c]] # Null /\ m.block \in {Len(Stored[PathOf[c]]), -1}
    BY <1>2, <1>3, Zenon DEF PacketOK
  <2>2. ReaderInv(c)
    BY <1>3, Zenon DEF Inv
  <2>3. files' = files /\ (peer'[c].size # -1 => peer'[c].size = Len(Stored[PathOf[c]]))
    BY <1>2, <1>7, <2>1, Zenon
  <2>4. peer'[c].st = "busy" /\ peer'[c].st # "done" /\ peer'[c].got = peer[c].got
    BY <1>7, Zenon
  <2> QED BY <1>3, <2>1, <2>2, <2>3, <2>4, Zenon DEF ReaderInv
<1>11. c \notin Writers
  BY <1>3, SocketsAssumption, Zenon
<1>12. /\ mainq' = mainq /\ files' = files /\ spoiled' = spoiled /\ peer'[c].sock \in Socks
       /\ \A d : Less(mainq', mainq, WrqOf(d))
  BY <1>2, <1>5, <1>7, LessSame, Zenon
<1> QED BY <1>3, <1>6, <1>7, <1>9, <1>10, <1>11, <1>12, Others, Zenon

\* An ERROR, or a packet that comes too late, keeps the invariant.
LEMMA PeerOtherStep ==
  ASSUME Inv, NEW c \in Peers, PeerOther(c)
  PROVE  Inv'
<1>1. PICK st \in {"done", "failed"} : /\ st = IF peer[c].st = "done" THEN "done" ELSE "failed"
                                       /\ peer' = [peer EXCEPT ![c].st = st]
  BY Zenon DEF PeerOther
<1>2. /\ net[c] # <<>> /\ net' = [net EXCEPT ![c] = Tail(@)]
      /\ UNCHANGED <<files, conns, mainq, inq, spoiled>>
  BY Zenon DEF PeerOther, server
<1>3. /\ c \in Readers \cup Writers
      /\ net' \in [Peers -> Seq(FromServer)] /\ \A d \in Peers : d # c => net'[d] = net[d]
      /\ c \in Readers => \A i \in DOMAIN net'[c] : PacketOK(Stored[PathOf[c]], net'[c][i])
      /\ c \in Writers => Less(net'[c], net[c], Acks) /\ NetInv(c)' /\ Sel(mainq, WrqOf(c)) = {}
  BY <1>2, PacketTaken, Zenon
<1>4. /\ peer' \in [Peers -> PeerType] /\ \A d \in Peers : d # c => peer'[d] = peer[d]
      /\ peer'[c].st = st /\ peer'[c].size = peer[c].size
      /\ peer'[c].got = peer[c].got /\ peer'[c].acked = peer[c].acked
  <2>1. st \in States
    BY Zenon DEF States
  <2> QED BY <1>1, <2>1, StateSet, ZenonT(30) DEF Inv
<1>5. /\ TypeInv' /\ AskInv' /\ ListInv'
      /\ \A d, t : Serves(t, d)' => conns'[t] = conns[t] /\ Serves(t, d)
  BY <1>2, <1>3, <1>4, Zenon DEF Inv, TypeInv, AskInv, ListInv, Serves
<1>6. c \in Readers => ReaderInv(c)'
  BY <1>1, <1>2, <1>3, <1>4, <1>5, ReaderKept, Zenon DEF Inv
<1>7. c \in Writers => WriterInv(c)'
  BY <1>1, <1>2, <1>3, <1>4, <1>5, LessSame, WriterKept, Zenon DEF Inv
<1> QED BY <1>1, <1>2, <1>3, <1>4, <1>5, <1>6, <1>7, LessSame, Others, SMTT(20)

\* A remote side that gives up keeps the invariant.
LEMMA PeerAbortStep ==
  ASSUME Inv, NEW c \in Peers, PeerAbort(c)
  PROVE  Inv'
<1> DEFINE a == Pkt(c, "ERROR", 0, <<>>)
<1>1. /\ peer[c].st = "busy" /\ peer' = [peer EXCEPT ![c].st = "failed"]
      /\ ToSock(peer[c].sock, a) /\ UNCHANGED <<files, conns, mainq, net, spoiled>>
  BY Zenon DEF PeerAbort, server
<1>2. a \in FromPeer /\ a.op = "ERROR"
  BY EmptySeq, Zenon DEF Pkt, FromPeer, Ops
<1> HIDE DEF a
<1>3. c \in Readers \cup Writers /\ peer[c].sock \in Socks
  BY <1>1, Zenon DEF Inv, PeerInv
<1>4. /\ inq' \in [Socks -> Seq(FromPeer)]
      /\ \A d : \A t \in Socks : Less(inq'[t], inq[t], DataOf(d))
  BY <1>1, <1>2, <1>3, Answered, Zenon
<1>6. /\ peer' \in [Peers -> PeerType] /\ \A d \in Peers : d # c => peer'[d] = peer[d]
      /\ peer'[c].st = "failed" /\ peer'[c].size = peer[c].size
      /\ peer'[c].got = peer[c].got /\ peer'[c].acked = peer[c].acked
  <2>1. "failed" \in States
    BY Zenon DEF States
  <2> QED BY <1>1, <2>1, StateSet, Zenon DEF Inv
<1>7. /\ TypeInv' /\ AskInv' /\ ListInv'
      /\ \A d, t : Serves(t, d)' => conns'[t] = conns[t] /\ Serves(t, d)
  BY <1>1, <1>4, <1>6, Zenon DEF Inv, TypeInv, AskInv, ListInv, Serves
<1>8. c \in Readers => ReaderInv(c)'
  <2>1. c \in Readers => \A i \in DOMAIN net'[c] : PacketOK(Stored[PathOf[c]], net'[c][i])
    BY <1>1, Zenon DEF Inv, ReaderInv
  <2> QED BY <1>1, <1>6, <1>7, <2>1, ReaderKept, Zenon DEF Inv
<1>9. c \in Writers => WriterInv(c)'
  <2>1. c \in Writers => NetInv(c)' /\ Sel(mainq, WrqOf(c)) = {}
    BY <1>1, Zenon DEF Inv, WriterInv, NetInv, RequestInv
  <2> QED BY <1>1, <1>4, <1>6, <1>7, <2>1, LessSame, WriterKept, Zenon DEF Inv
<1> QED BY <1>1, <1>3, <1>4, <1>6, <1>7, <1>8, <1>9, LessSame, Others, SMTT(20)

\* A reader's timeout keeps the invariant, early or not.
LEMMA PeerTimeoutStep ==
  ASSUME Inv, NEW c \in Peers, PeerTimeout(c)
  PROVE  Inv'
<1>1. PICK n : n = Blocks(c)
  BY Zenon
<1> DEFINE a == Pkt(c, "ACK", n % BlockMod, <<>>)
<1>2. /\ c \in Readers /\ peer[c].st = "busy" /\ peer' = [peer EXCEPT ![c].acked = n]
      /\ ToSock(peer[c].sock, a) /\ UNCHANGED <<files, conns, mainq, net, spoiled>>
  BY <1>1, Zenon DEF PeerTimeout, server
<1>3. peer[c] \in PeerType /\ peer[c].sock \in Socks
  BY <1>2, Zenon DEF Inv, TypeInv, PeerInv
<1>4. n \in Nat
  <2>1. Len(peer[c].got) \in Nat
    BY <1>3, LenProperties, Zenon DEF PeerType
  <2> QED BY <1>1, <2>1, DivUp, BlocksAssumption, Zenon DEF Blocks
<1>5. n % BlockMod \in Nat
  BY <1>4, ModSmall, BlocksAssumption, Zenon
<1>6. a \in FromPeer /\ a.op = "ACK"
  BY <1>5, EmptySeq, Zenon DEF Pkt, FromPeer, Ops
<1> HIDE DEF a
<1>7. /\ inq' \in [Socks -> Seq(FromPeer)]
      /\ \A d : \A t \in Socks : Less(inq'[t], inq[t], DataOf(d))
  BY <1>2, <1>3, <1>6, Answered, Zenon
<1>8. /\ peer' \in [Peers -> PeerType] /\ \A d \in Peers : d # c => peer'[d] = peer[d]
      /\ peer'[c].st = peer[c].st /\ peer'[c].sock = peer[c].sock
      /\ peer'[c].size = peer[c].size /\ peer'[c].got = peer[c].got
  BY <1>2, <1>4, Zenon DEF Inv, TypeInv, PeerType
<1>9. /\ TypeInv' /\ AskInv' /\ ListInv'
      /\ \A d, t : Serves(t, d)' => conns'[t] = conns[t] /\ Serves(t, d)
  BY <1>2, <1>7, <1>8, Zenon DEF Inv, TypeInv, AskInv, ListInv, Serves
<1>10. ReaderInv(c)'
  <2>1. \A i \in DOMAIN net'[c] : PacketOK(Stored[PathOf[c]], net'[c][i])
    BY <1>2, Zenon DEF Inv, ReaderInv
  <2> QED BY <1>2, <1>8, <1>9, <2>1, ReaderKept, Zenon DEF Inv
<1>11. c \notin Writers
  BY <1>2, SocketsAssumption, Zenon
<1> QED BY <1>2, <1>3, <1>7, <1>8, <1>9, <1>10, <1>11, LessSame, Others, SMTT(20)

\* A DATA taken by a reader keeps the invariant: if its number is the next one it
\* is the next block.
LEMMA PeerDataStep ==
  ASSUME Inv, NEW c \in Peers, PeerData(c)
  PROVE  Inv'
<1>1. PICK m : m = Head(net[c])
  BY Zenon
<1>2. /\ net[c] # <<>> /\ m.op = "DATA" /\ net' = [net EXCEPT ![c] = Tail(@)]
      /\ UNCHANGED <<files, conns, mainq, spoiled>>
  BY <1>1, Zenon DEF PeerData, Arrives, server
<1>3. /\ c \in Readers /\ PacketOK(Stored[PathOf[c]], m) /\ m \in FromServer
      /\ net' \in [Peers -> Seq(FromServer)] /\ \A d \in Peers : d # c => net'[d] = net[d]
      /\ \A i \in DOMAIN net'[c] : PacketOK(Stored[PathOf[c]], net'[c][i])
  BY <1>1, <1>2, PacketTaken, Zenon
<1>4. PICK f : f = Stored[PathOf[c]]
  BY Zenon
<1>5. f # Null /\ BlockOf(f, m)
  BY <1>2, <1>3, <1>4, Zenon DEF PacketOK
<1>6. f \in Seq(Units) /\ Len(f) <= Blk * (BlockMod - 1)
  BY <1>3, <1>4, <1>5, FilesAssumption, Zenon
<1>7. /\ ReaderInv(c) /\ peer[c] \in PeerType /\ peer[c].got \in Seq(Units)
      /\ GotOK(f, peer[c].got)
  BY <1>3, <1>4, Zenon DEF Inv, ReaderInv, TypeInv, PeerType
<1> DEFINE new == m.block = (Blocks(c) + 1) % BlockMod
           got == IF new THEN peer[c].got \o m.data ELSE peer[c].got
           end == IF peer[c].size = -1 THEN new /\ Len(m.data) < Blk
                  ELSE Len(got) >= peer[c].size
           nth == Blocks(c) + 1
           win == IF Options[c] = Null THEN 1 ELSE Options[c].wsize
           ack == IF new /\ nth = peer[c].acked + win THEN nth ELSE peer[c].acked
           sta == IF end THEN "done" ELSE "busy"
<1>8. /\ peer' = [peer EXCEPT ![c].got = got, ![c].sock = m.from, ![c].st = sta,
                              ![c].acked = ack]
      /\ \/ ToSock(m.from, Pkt(c, "ERROR", 0, <<>>))
         \/ ToSock(m.from, Pkt(c, "ACK", nth % BlockMod, <<>>))
         \/ inq' = inq
  BY <1>1, Zenon DEF PeerData
<1>9. /\ got \in Seq(Units) /\ GotOK(f, got)
      /\ new /\ Len(m.data) < Blk => got = f
  <2>1. PICK k \in Nat \ {0} : /\ (k - 1) * Blk < Len(f) /\ m.block = k % BlockMod
                               /\ m.data = Slice(f, (k - 1) * Blk, Blk)
    BY <1>5, Zenon DEF BlockOf
  <2>2. CASE new
    <3>1. Len(peer[c].got) = (k - 1) * Blk
      BY <1>6, <1>7, <2>1, <2>2, NextBlock, Zenon DEF Blocks
    <3>2. PICK g, d : g = peer[c].got /\ d = m.data
      BY Zenon
    <3>3. /\ g \o d \in Seq(Units) /\ GotOK(f, g \o d)
          /\ Len(d) < Blk => g \o d = f
      <4>1. /\ g \in Seq(Units) /\ GotOK(f, g) /\ Len(g) = (k - 1) * Blk
            /\ d = Slice(f, (k - 1) * Blk, Blk)
        BY <1>7, <2>1, <3>1, <3>2, Zenon
      <4> QED BY <1>5, <1>6, <2>1, <4>1, TakeBlock, ZenonT(30)
    <3> QED BY <2>2, <3>2, <3>3, Zenon
  <2>3. CASE ~new
    BY <1>7, <2>3, Zenon
  <2> QED BY <2>2, <2>3, Zenon
<1>10. Blocks(c) \in Nat
  <2>1. Len(peer[c].got) \in Nat
    BY <1>7, LenProperties, Zenon
  <2> QED BY <2>1, DivUp, BlocksAssumption, Zenon DEF Blocks
<1>11. nth \in Nat /\ nth % BlockMod \in Nat /\ ack \in Nat
  <2>1. nth \in Nat
    BY <1>10, SMTT(20)
  <2>2. peer[c].acked \in Nat
    BY <1>7, Zenon DEF PeerType
  <2> QED BY <2>1, <2>2, ModSmall, BlocksAssumption, Zenon
<1>12. peer[c].size # -1 => peer[c].size = Len(f)
  BY <1>4, <1>7, Zenon DEF ReaderInv
<1>13. end => got = f
  <2>1. CASE peer[c].size = -1
    BY <1>9, <2>1, Zenon
  <2>2. CASE peer[c].size # -1
    BY <1>6, <1>9, <1>12, <2>2, GotAll, Zenon
  <2> QED BY <2>1, <2>2, Zenon
<1>14. sta \in States /\ sta \in {"done", "busy"} /\ (sta = "done" => got = f)
  BY <1>13, Zenon DEF States
<1>15. m.from \in Socks
  BY <1>3, Zenon DEF FromServer
<1>16. /\ Pkt(c, "ERROR", 0, <<>>) \in FromPeer /\ Pkt(c, "ERROR", 0, <<>>).op # "DATA"
       /\ Pkt(c, "ACK", nth % BlockMod, <<>>) \in FromPeer
       /\ Pkt(c, "ACK", nth % BlockMod, <<>>).op # "DATA"
  BY <1>11, EmptySeq, Zenon DEF Pkt, FromPeer, Ops
<1>17. /\ inq' \in [Socks -> Seq(FromPeer)]
       /\ \A d : \A t \in Socks : Less(inq'[t], inq[t], DataOf(d))
  BY <1>8, <1>15, <1>16, Answered, Zenon
<1> HIDE DEF new, got, end, nth, win, ack, sta
<1>18. /\ peer' \in [Peers -> PeerType] /\ \A d \in Peers : d # c => peer'[d] = peer[d]
       /\ peer'[c].st = sta /\ peer'[c].sock = m.from /\ peer'[c].size = peer[c].size
       /\ peer'[c].got = got
  <2>1. PICK g \in Seq(Units), k \in Socks, st \in States, n \in Nat :
          g = got /\ k = m.from /\ st = sta /\ n = ack
    BY <1>9, <1>11, <1>14, <1>15, Zenon
  <2>2. peer' = [peer EXCEPT ![c].got = g, ![c].sock = k, ![c].st = st, ![c].acked = n]
    BY <1>8, <2>1, Zenon
  <2>3. /\ peer' \in [Peers -> PeerType] /\ \A d \in Peers : d # c => peer'[d] = peer[d]
        /\ peer'[c].st = st /\ peer'[c].sock = k /\ peer'[c].size = peer[c].size
        /\ peer'[c].got = g
    <3>1. peer \in [Peers -> PeerType]
      BY Zenon DEF Inv, TypeInv
    <3>2. peer' \in [Peers -> PeerType]
      BY <2>2, <3>1, ZenonT(60) DEF PeerType
    <3>3. /\ \A d \in Peers : d # c => peer'[d] = peer[d]
          /\ peer'[c].st = st /\ peer'[c].sock = k
      BY <2>2, <3>1, ZenonT(60) DEF PeerType
    <3>4. peer'[c].size = peer[c].size /\ peer'[c].got = g
      BY <2>2, <3>1, ZenonT(60) DEF PeerType
    <3> QED BY <3>2, <3>3, <3>4, Zenon
  <2> QED BY <2>1, <2>3, Zenon
<1>19. /\ TypeInv' /\ AskInv' /\ ListInv'
       /\ \A d, t : Serves(t, d)' => conns'[t] = conns[t] /\ Serves(t, d)
  BY <1>2, <1>3, <1>17, <1>18, Zenon DEF Inv, TypeInv, AskInv, ListInv, Serves
<1>20. ReaderInv(c)'
  <2>1. files'[PathOf[c]] = f /\ f # Null
    BY <1>2, <1>4, <1>5, <1>7, Zenon DEF ReaderInv
  <2> QED BY <1>3, <1>4, <1>9, <1>12, <1>14, <1>18, <2>1, Zenon DEF ReaderInv
<1>21. c \notin Writers
  BY <1>3, SocketsAssumption, Zenon
<1> QED BY <1>2, <1>3, <1>15, <1>17, <1>18, <1>19, <1>20, <1>21, LessSame, Others, ZenonT(30)

\* A stranger's datagram keeps the invariant.
LEMMA StrayStep ==
  ASSUME Inv, NEW c \in Strangers, NEW s \in Socks, Stray(c, s)
  PROVE  Inv'
<1> DEFINE a == Pkt(c, "ACK", 0, <<>>)
           p == Pkt(c, "PING", 0, <<>>)
<1>1. /\ UNCHANGED <<files, conns, net, peer, spoiled>>
      /\ (ToSock(s, a) /\ mainq' = mainq) \/ (mainq' = Append(mainq, p) /\ inq' = inq)
  BY Zenon DEF Stray, server
<1>2. c \in Peers
  BY Zenon DEF Peers
<1>3. a \in FromPeer /\ a.op = "ACK" /\ p \in FromPeer /\ p.op = "PING"
  BY <1>2, EmptySeq, ZenonT(30) DEF Pkt, FromPeer, Ops
<1> HIDE DEF a, p
<1>4. /\ inq' \in [Socks -> Seq(FromPeer)]
      /\ \A d : \A t \in Socks : Less(inq'[t], inq[t], DataOf(d))
  BY <1>1, <1>3, Answered, Zenon
<1>5. mainq' \in Seq(FromPeer) /\ AskInv' /\ \A d : Less(mainq', mainq, WrqOf(d))
  <2>1. CASE mainq' = mainq
    BY <2>1, LessSame, ZenonT(30) DEF Inv, TypeInv, AskInv
  <2>2. CASE mainq' = Append(mainq, p)
    <3>1. \A d : p \notin WrqOf(d)
      BY <1>3, Zenon DEF WrqOf
    <3> QED BY <1>3, <2>2, <3>1, MainGets, Zenon
  <2> QED BY <1>1, <2>1, <2>2, Zenon
<1>6. /\ TypeInv' /\ ListInv' /\ PeerInv'
      /\ \A d, t : Serves(t, d)' => conns'[t] = conns[t] /\ Serves(t, d)
  BY <1>1, <1>4, <1>5, Zenon DEF Inv, TypeInv, ListInv, PeerInv, Serves
<1>7. ASSUME NEW d \in Readers PROVE ReaderInv(d)'
  <2>1. \A i \in DOMAIN net'[d] : PacketOK(Stored[PathOf[d]], net'[d][i])
    BY <1>1, Zenon DEF Inv, ReaderInv
  <2> QED BY <1>1, <1>6, <2>1, ReaderKept, Zenon DEF Inv
<1>8. ASSUME NEW d \in Writers PROVE WriterInv(d)'
  <2>1. WriterInv(d) /\ NetInv(d)'
    BY <1>1, Zenon DEF WriterInv, NetInv, Inv
  <2> QED BY <1>1, <1>4, <1>5, <1>6, <2>1, LessSame, WriterKept, Zenon
<1> QED BY <1>5, <1>6, <1>7, <1>8, Zenon DEF Inv

\* An ACK of another block than the last keeps the invariant: it is discarded.
LEMMA PeerAckStaleStep ==
  ASSUME Inv, NEW c \in Peers, PeerAck(c), Head(net[c]).block # peer[c].acked % BlockMod
  PROVE  Inv'
<1>1. /\ net[c] # <<>> /\ Head(net[c]).op = "ACK" /\ net' = [net EXCEPT ![c] = Tail(@)]
      /\ UNCHANGED <<files, conns, mainq, inq, spoiled, peer>>
  BY Zenon DEF PeerAck, Arrives, server
<1>2. c \notin Readers
  BY <1>1, PacketTaken, Zenon DEF PacketOK
<1>3. /\ c \in Writers
      /\ net' \in [Peers -> Seq(FromServer)] /\ \A d \in Peers : d # c => net'[d] = net[d]
      /\ Less(net'[c], net[c], Acks) /\ NetInv(c)'
  BY <1>1, <1>2, PacketTaken, Zenon
<1>4. /\ TypeInv' /\ AskInv' /\ ListInv'
      /\ \A d, t : Serves(t, d)' => conns'[t] = conns[t] /\ Serves(t, d)
  BY <1>1, <1>3, Zenon DEF Inv, TypeInv, AskInv, ListInv, Serves
<1>5. WriterInv(c)'
  BY <1>1, <1>3, <1>4, LessSame, WriterKept, Zenon DEF Inv
<1>6. peer'[c].st \in {"busy", "last"} => peer'[c].sock \in Socks
  BY <1>1, Zenon DEF Inv, PeerInv
<1> QED BY <1>1, <1>2, <1>3, <1>4, <1>5, <1>6, LessSame, Others, Zenon

\* With an ACK under way all blocks sent are in the file.
LEMMA AckedAllIn ==
  ASSUME NEW c \in Writers, WriterInv(c), c \notin spoiled, NEW m \in Sel(net[c], Acks)
  PROVE  /\ files[PathOf[c]] = Written(c, peer[c].acked)
         /\ \A s \in Socks : Serves(s, c) => s = m.from /\ AllIn(s, c, peer[c].acked)
BY Zenon DEF WriterInv, AckInv, DataInv, LastOut

\* The last ACK keeps the invariant: the whole payload is in the file.
LEMMA PeerAckLastStep ==
  ASSUME Inv, NEW c \in Peers, PeerAck(c), Head(net[c]).block = peer[c].acked % BlockMod,
         peer[c].st = "last"
  PROVE  Inv'
<1>1. PICK m : m = Head(net[c])
  BY Zenon
<1>2. /\ net[c] # <<>> /\ m.op = "ACK" /\ net' = [net EXCEPT ![c] = Tail(@)]
      /\ UNCHANGED <<files, conns, mainq, inq, spoiled>>
      /\ peer' = [peer EXCEPT ![c].st = "done"]
  BY <1>1, Zenon DEF PeerAck, Arrives, server
<1>3. c \notin Readers
  BY <1>1, <1>2, PacketTaken, Zenon DEF PacketOK
<1>4. /\ c \in Writers /\ m \in Sel(net[c], Acks) /\ (c \notin spoiled => Sel(net'[c], Acks) = {})
      /\ net' \in [Peers -> Seq(FromServer)] /\ \A d \in Peers : d # c => net'[d] = net[d]
      /\ Less(net'[c], net[c], Acks) /\ NetInv(c)' /\ Sel(mainq, WrqOf(c)) = {}
  BY <1>1, <1>2, <1>3, PacketTaken, Zenon
<1>5. /\ peer' \in [Peers -> PeerType] /\ \A d \in Peers : d # c => peer'[d] = peer[d]
      /\ peer'[c].st = "done" /\ peer'[c].acked = peer[c].acked
  <2>1. "done" \in States
    BY Zenon DEF States
  <2> QED BY <1>2, <2>1, StateSet, Zenon DEF Inv
<1>6. /\ TypeInv' /\ AskInv' /\ ListInv'
      /\ \A d, t : Serves(t, d)' => conns'[t] = conns[t] /\ Serves(t, d)
  BY <1>2, <1>4, <1>5, Zenon DEF Inv, TypeInv, AskInv, ListInv, Serves
<1>7. WriterInv(c)'
  <2>1. WriterInv(c)
    BY <1>4, Zenon DEF Inv
  <2>2. c \notin spoiled' =>
          /\ c \notin spoiled /\ files[PathOf[c]] = Written(c, peer[c].acked)
          /\ \A s \in Socks : Serves(s, c) => AllIn(s, c, peer[c].acked)
    BY <1>2, <1>4, <2>1, AckedAllIn, Zenon
  <2>3. RequestInv(c)'
    BY <1>2, <1>4, <1>5, <2>1, Zenon DEF WriterInv, RequestInv
  <2>4. OneSocket(c)' /\ PosInv(c)'
    BY <1>2, <1>6, <2>1, Zenon DEF WriterInv, OneSocket, PosInv
  <2>5. AckInv(c)'
    BY <1>4, <2>1, <2>2, Zenon DEF WriterInv, AckInv, Less
  <2>6. DataInv(c)'
    <3>1. c \notin spoiled' => \A s \in Socks : Serves(s, c)' => AllIn(s, c, peer[c].acked)'
      BY <1>2, <1>5, <1>6, <2>2, Zenon DEF AllIn
    <3> QED BY <1>2, <1>5, <2>1, <3>1, Zenon DEF WriterInv, DataInv
  <2>7. StateInv(c)'
    BY <1>2, <1>5, <2>1, <2>2, Zenon DEF WriterInv, StateInv
  <2> QED BY <1>4, <2>3, <2>4, <2>5, <2>6, <2>7, Zenon DEF WriterInv
<1> QED BY <1>2, <1>3, <1>4, <1>5, <1>6, <1>7, LessSame, Others, SMTT(20)

\* The n-th block as a packet.
LEMMA NthFacts ==
  ASSUME NEW c \in Writers, NEW n \in Nat \ {0}
  PROVE  /\ Pkt(c, "DATA", n % BlockMod, Slice(Payload[c], (n - 1) * WBlk, WBlk)) \in Nth(c, n)
         /\ Nth(c, n - 1) \cap Nth(c, n) = {}
         /\ Nth(c, n) \subseteq DataOf(c) /\ DataOf(c) \subseteq FromPeer
<1> DEFINE d == Slice(Payload[c], (n - 1) * WBlk, WBlk)
           p == Pkt(c, "DATA", n % BlockMod, d)
<1>1. /\ n - 1 \in Nat /\ (n - 1) * WBlk \in Nat /\ WBlk \in Nat /\ (n - 1) + 1 = n
      /\ n % BlockMod \in Nat
  BY BlocksAssumption, ModSmall, SMTT(20)
<1>2. d \in Seq(Units)
  BY <1>1, FilesAssumption, SliceFacts, Zenon
<1>3. (n - 1) % BlockMod # n % BlockMod
  BY <1>1, BlocksAssumption, ModNext, Zenon
<1> HIDE DEF d
<1>4. /\ p \in FromPeer /\ p.from = c /\ p.op = "DATA"
      /\ p.block = n % BlockMod /\ p.data = d
  BY <1>1, <1>2, Zenon DEF Pkt, FromPeer, Ops, Peers
<1>5. p \in Nth(c, n)
  BY <1>4, Zenon DEF Nth, DataOf, d
<1> QED BY <1>3, <1>5, Zenon DEF Nth, DataOf, d

\* Any other ACK keeps the invariant: the next block begins where the file's
\* position is.
LEMMA PeerAckNextStep ==
  ASSUME Inv, NEW c \in Peers, PeerAck(c), Head(net[c]).block = peer[c].acked % BlockMod,
         peer[c].st # "last"
  PROVE  Inv'
<1>1. PICK m, n, data : /\ m = Head(net[c]) /\ n = peer[c].acked
                        /\ data = Slice(Payload[c], n * WBlk, WBlk)
  BY Zenon
<1>2. PICK st \in {"last", "busy"} : st = IF Len(data) < WBlk THEN "last" ELSE "busy"
  BY Zenon
<1> DEFINE p == Pkt(c, "DATA", (n + 1) % BlockMod, data)
<1>3. /\ net[c] # <<>> /\ m.op = "ACK" /\ net' = [net EXCEPT ![c] = Tail(@)]
      /\ UNCHANGED <<files, conns, mainq, spoiled>> /\ peer[c].st \in {"asked", "busy"}
      /\ peer' = [peer EXCEPT ![c].sock = m.from, ![c].acked = n + 1, ![c].st = st]
      /\ ToSock(m.from, p)
  BY <1>1, <1>2, Zenon DEF PeerAck, Arrives, server
<1>4. c \notin Readers
  BY <1>1, <1>3, PacketTaken, Zenon DEF PacketOK
<1>5. /\ c \in Writers /\ m \in Sel(net[c], Acks) /\ m \in FromServer
      /\ c \notin spoiled => Sel(net'[c], Acks) = {}
      /\ net' \in [Peers -> Seq(FromServer)] /\ \A d \in Peers : d # c => net'[d] = net[d]
      /\ Less(net'[c], net[c], Acks) /\ NetInv(c)' /\ Sel(mainq, WrqOf(c)) = {}
  BY <1>1, <1>3, <1>4, PacketTaken, Zenon
<1>6. /\ WriterInv(c) /\ n \in Nat /\ m.from \in Socks /\ WBlk \in Nat \ {0}
      /\ Payload[c] \in Seq(Units) /\ Len(Payload[c]) \in Nat
  BY <1>1, <1>5, BlocksAssumption, FilesAssumption, LenProperties, Zenon
     DEF Inv, TypeInv, PeerType, FromServer
<1>7. n * WBlk <= Len(Payload[c])
  <2>1. CASE peer[c].st = "asked"
    <3>1. n = 0
      BY <1>1, <1>6, <2>1, ZenonT(30) DEF WriterInv, StateInv
    <3> QED BY <1>6, <3>1
  <2>2. CASE peer[c].st = "busy"
    BY <1>1, <1>6, <2>2, Zenon DEF WriterInv, StateInv
  <2> QED BY <1>3, <2>1, <2>2, Zenon
<1>8. n + 1 \in Nat \ {0} /\ (n + 1) - 1 = n
  BY <1>6
<1>9. /\ data \in Seq(Units) /\ (Len(data) < WBlk <=> Len(Payload[c]) < (n + 1) * WBlk)
  BY <1>1, <1>5, <1>7, <1>8, WriteNext, Zenon
<1>10. (n + 1) * WBlk \in Nat
  BY <1>6, <1>8, SMTT(20)
<1>11. /\ p \in Nth(c, n + 1) /\ Nth(c, n) \cap Nth(c, n + 1) = {}
       /\ p \in FromPeer /\ p.from = c /\ Nth(c, n + 1) \in SUBSET DataOf(c)
  <2>1. /\ p \in Nth(c, n + 1) /\ Nth(c, n) \cap Nth(c, n + 1) = {}
        /\ Nth(c, n + 1) \subseteq DataOf(c) /\ DataOf(c) \subseteq FromPeer
    BY <1>1, <1>5, <1>8, NthFacts, Zenon
  <2> QED BY <2>1, Zenon DEF DataOf
<1> HIDE DEF p
<1>12. /\ inq' \in [Socks -> Seq(FromPeer)]
       /\ conns[m.from] # Null => inq'[m.from] = Append(inq[m.from], p)
       /\ \A t \in Socks : t # m.from => inq'[t] = inq[t]
       /\ \A M : p \notin M => \A t \in Socks : Less(inq'[t], inq[t], M)
  BY <1>3, <1>6, <1>11, ToSockFacts, Zenon DEF Inv, TypeInv
<1>13. \A d : d # c => p \notin DataOf(d)
  BY <1>11, Zenon DEF DataOf
<1>14. /\ peer' \in [Peers -> PeerType] /\ \A d \in Peers : d # c => peer'[d] = peer[d]
       /\ peer'[c].st = st /\ peer'[c].sock = m.from /\ peer'[c].acked = n + 1
  <2>1. PICK k \in Socks, j \in Nat : k = m.from /\ j = n + 1
    BY <1>6, <1>8, Zenon
  <2>2. st \in States
    BY Zenon DEF States
  <2>3. peer' = [peer EXCEPT ![c].sock = k, ![c].acked = j, ![c].st = st]
    BY <1>3, <2>1, Zenon
  <2>4. peer \in [Peers -> PeerType]
    BY Zenon DEF Inv, TypeInv
  <2>5. /\ peer' \in [Peers -> PeerType] /\ \A d \in Peers : d # c => peer'[d] = peer[d]
        /\ peer'[c].st = st /\ peer'[c].sock = k /\ peer'[c].acked = j
    BY <2>2, <2>3, <2>4, ZenonT(30) DEF PeerType
  <2> QED BY <2>1, <2>5, Zenon
<1>15. /\ TypeInv' /\ AskInv' /\ ListInv'
       /\ \A d, t : Serves(t, d)' => conns'[t] = conns[t] /\ Serves(t, d)
  BY <1>3, <1>5, <1>12, <1>14, Zenon DEF Inv, TypeInv, AskInv, ListInv, Serves
<1>16. WriterInv(c)'
  <2>1. RequestInv(c)'
    BY <1>3, <1>5, <1>6, <1>14, Zenon DEF WriterInv, RequestInv
  <2>2. OneSocket(c)' /\ PosInv(c)'
    BY <1>3, <1>6, <1>15, Zenon DEF WriterInv, OneSocket, PosInv
  <2>3. AckInv(c)'
    BY <1>3, <1>5, <1>6, Zenon DEF WriterInv, AckInv, Less
  <2>4. ASSUME c \notin spoiled', NEW s \in Socks, Serves(s, c)'
        PROVE  LastOut(s, c, n + 1)'
    <3>1. c \notin spoiled /\ Serves(s, c) /\ conns[s] # Null
      BY <1>3, <1>15, <2>4, Zenon DEF Serves
    <3>2. s = m.from /\ AllIn(s, c, n)
      BY <1>1, <1>5, <1>6, <3>1, AckedAllIn, Zenon
    <3>3. inq'[s] = Append(inq[s], p) /\ inq[s] \in Seq(FromPeer)
      BY <1>12, <3>1, <3>2, Zenon DEF Inv, TypeInv
    <3>4. Sel(inq[s], DataOf(c)) \subseteq Nth(c, n)
      BY <3>2, Zenon DEF AllIn
    <3>5. Sel(inq[s], DataOf(c)) \cap Nth(c, n + 1) = {}
      BY <1>11, <3>4, Zenon
    <3>6. /\ Sorted(Append(inq[s], p), DataOf(c), Nth(c, n + 1))
          /\ Sel(Append(inq[s], p), DataOf(c)) \subseteq Sel(inq[s], DataOf(c)) \cup {p}
      <4>1. /\ \A N \in SUBSET DataOf(c) : p \in N /\ Sel(inq[s], DataOf(c)) \cap N = {} =>
                    Sorted(Append(inq[s], p), DataOf(c), N)
            /\ Sel(Append(inq[s], p), DataOf(c)) \subseteq Sel(inq[s], DataOf(c)) \cup {p}
        BY <1>11, <3>3, LessAppend, Zenon
      <4> QED BY <1>11, <3>5, <4>1, Zenon
    <3>7. Sel(inq'[s], DataOf(c)) \subseteq Nth(c, n) \cup Nth(c, n + 1)
      BY <1>11, <3>3, <3>4, <3>6, Zenon
    <3>8. files'[PathOf[c]] = Written(c, n) /\ conns'[s].pos = n * WBlk
      BY <1>3, <3>2, Zenon DEF AllIn
    <3>9. n + 1 # 0 /\ peer'[c].st # "done" /\ Sel(net'[c], Acks) = {}
      BY <1>2, <1>5, <1>8, <1>14, <3>1, Zenon
    <3> QED BY <1>7, <1>8, <3>3, <3>6, <3>7, <3>8, <3>9, Zenon DEF LastOut
  <2>5. DataInv(c)'
    BY <1>8, <1>14, <2>4, Zenon DEF DataInv
  <2>6. StateInv(c)'
    BY <1>2, <1>6, <1>8, <1>9, <1>10, <1>14, SMTT(20) DEF StateInv
  <2> QED BY <1>5, <2>1, <2>2, <2>3, <2>5, <2>6, Zenon DEF WriterInv
<1> QED BY <1>3, <1>4, <1>5, <1>6, <1>12, <1>13, <1>14, <1>15, <1>16, LessSame, Others, SMTT(20)

\* A writer's repetition keeps the invariant: the last block sent is behind any
\* other.
LEMMA PeerRepeatStep ==
  ASSUME Inv, NEW c \in Peers, PeerRepeat(c)
  PROVE  Inv'
<1>1. PICK n, k : n = peer[c].acked /\ k = peer[c].sock
  BY Zenon
<1> DEFINE p == Pkt(c, "DATA", n % BlockMod, Slice(Payload[c], (n - 1) * WBlk, WBlk))
<1>2. /\ c \in Writers /\ peer[c].st \in {"busy", "last"} /\ ToSock(k, p)
      /\ UNCHANGED <<files, conns, mainq, net, peer, spoiled>>
  BY <1>1, Zenon DEF PeerRepeat, server
<1>3. k \in Socks /\ WriterInv(c) /\ n \in Nat \ {0}
  BY <1>1, <1>2, Zenon DEF Inv, PeerInv, TypeInv, PeerType, WriterInv, StateInv
<1>4. p \in Nth(c, n) /\ p \in FromPeer /\ p.from = c
  <2>1. p \in Nth(c, n) /\ Nth(c, n) \subseteq DataOf(c) /\ DataOf(c) \subseteq FromPeer
    BY <1>2, <1>3, NthFacts, Zenon
  <2> QED BY <2>1, Zenon DEF DataOf
<1> HIDE DEF p
<1>5. /\ inq' \in [Socks -> Seq(FromPeer)]
      /\ conns[k] # Null => inq'[k] = Append(inq[k], p)
      /\ \A t \in Socks : t # k => inq'[t] = inq[t]
      /\ \A M : p \notin M => \A t \in Socks : Less(inq'[t], inq[t], M)
  BY <1>2, <1>3, <1>4, ToSockFacts, Zenon DEF Inv, TypeInv
<1>6. \A d : d # c => p \notin DataOf(d)
  BY <1>4, Zenon DEF DataOf
<1>7. /\ TypeInv' /\ AskInv' /\ ListInv'
      /\ \A d, t : Serves(t, d)' => conns'[t] = conns[t] /\ Serves(t, d)
  BY <1>2, <1>5, Zenon DEF Inv, TypeInv, AskInv, ListInv, Serves
<1>8. DataInv(c)'
  <2> SUFFICES ASSUME c \notin spoiled, NEW s \in Socks, Serves(s, c)
               PROVE  AllIn(s, c, n)' \/ LastOut(s, c, n)'
    BY <1>1, <1>2, <1>3, <1>7, Zenon DEF DataInv
  <2>1. AllIn(s, c, n) \/ LastOut(s, c, n)
    BY <1>1, <1>3, Zenon DEF WriterInv, DataInv
  <2>2. /\ Sel(inq'[s], DataOf(c)) \subseteq Sel(inq[s], DataOf(c)) \cup {p}
        /\ Sorted(inq[s], DataOf(c), Nth(c, n)) => Sorted(inq'[s], DataOf(c), Nth(c, n))
    <3>1. CASE s # k
      BY <1>5, <3>1, Zenon
    <3>2. CASE s = k
      <4>1. inq'[s] = Append(inq[s], p) /\ inq[s] \in Seq(FromPeer)
        BY <1>5, <3>2, Zenon DEF Inv, TypeInv, Serves
      <4>2. /\ Sel(Append(inq[s], p), DataOf(c)) \subseteq Sel(inq[s], DataOf(c)) \cup {p}
            /\ Sorted(inq[s], DataOf(c), Nth(c, n)) =>
                 Sorted(Append(inq[s], p), DataOf(c), Nth(c, n))
        BY <1>4, <4>1, LessAppend, Zenon
      <4> QED BY <4>1, <4>2, Zenon
    <3> QED BY <3>1, <3>2, Zenon
  <2>3. CASE AllIn(s, c, n)
    BY <1>2, <1>4, <2>2, <2>3, Zenon DEF AllIn
  <2>4. CASE LastOut(s, c, n)
    BY <1>2, <1>4, <2>2, <2>4, Zenon DEF LastOut
  <2> QED BY <2>1, <2>3, <2>4, Zenon
<1>9. WriterInv(c)'
  <2>1. NetInv(c)' /\ OneSocket(c)' /\ PosInv(c)' /\ StateInv(c)'
    BY <1>2, <1>3, <1>7, Zenon DEF WriterInv, NetInv, OneSocket, PosInv, StateInv
  <2>2. RequestInv(c)' /\ AckInv(c)'
    BY <1>2, <1>3, <1>7, Zenon DEF WriterInv, RequestInv, AckInv
  <2> QED BY <1>8, <2>1, <2>2, Zenon DEF WriterInv
<1>10. c \notin Readers
  BY <1>2, SocketsAssumption, Zenon
<1>11. /\ spoiled \subseteq spoiled' /\ mainq' = mainq /\ files' = files
       /\ \A d \in Peers : net'[d] = net[d] /\ peer'[d] = peer[d]
       /\ peer'[c].sock \in Socks
  BY <1>1, <1>2, <1>3, Zenon
<1>12. \A d \in Writers : d # c =>
         /\ Less(mainq', mainq, WrqOf(d))
         /\ \A s \in Socks : Less(inq'[s], inq[s], DataOf(d))
  BY <1>5, <1>6, <1>11, LessSame, Zenon
<1>13. \A d \in Readers \cup Writers :
         /\ files'[PathOf[d]] = files[PathOf[d]]
         /\ \A s \in Socks : Serves(s, d)' => conns'[s] = conns[s]
  BY <1>7, <1>11, Zenon
<1> QED BY <1>2, <1>7, <1>9, <1>10, <1>11, <1>12, <1>13, Others, Zenon

-----------------------------------------------------------------------------
(* The theorems.                                                           *)

\* The invariant holds at start.
LEMMA InitInv == Init => Inv
<1> SUFFICES ASSUME Init PROVE Inv
  BY Zenon
<1>1. /\ files = Stored /\ mainq = <<>>
      /\ \A s \in Socks : conns[s] = Null /\ inq[s] = <<>>
      /\ \A c \in Peers : /\ net[c] = <<>> /\ peer[c].st = "idle" /\ peer[c].acked = 0
                          /\ peer[c].got = <<>> /\ peer[c].size = -1
  BY Zenon DEF Init
<1>2. TypeInv
  <2>1. 0 \in Nat /\ <<>> \in Seq(Units) /\ <<>> \in Seq(FromPeer) /\ <<>> \in Seq(FromServer)
    BY EmptySeq, Zenon
  <2>2. [st |-> "idle", sock |-> Null, size |-> -1, got |-> <<>>, acked |-> 0] \in PeerType
    BY <2>1, Zenon DEF PeerType, States, Sizes
  <2> QED BY <2>1, <2>2, FilesAssumption, Zenon DEF Init, TypeInv
<1>3. AskInv /\ ListInv /\ PeerInv
  <2>1. DOMAIN mainq = {}
    BY <1>1
  <2>2. AskInv
    BY <2>1, Zenon DEF AskInv
  <2>3. ListInv
    BY <1>1, Zenon DEF ListInv
  <2>4. PeerInv
    BY <1>1, Zenon DEF PeerInv
  <2> QED BY <2>2, <2>3, <2>4, Zenon
<1>4. ASSUME NEW c \in Readers PROVE ReaderInv(c)
  <2>1. c \in Peers
    BY Zenon DEF Peers
  <2> QED BY <1>1, <2>1 DEF ReaderInv, GotOK, Serves
<1>5. ASSUME NEW c \in Writers PROVE WriterInv(c)
  <2>1. c \in Peers
    BY Zenon DEF Peers
  <2>2. \A M : Sel(<<>>, M) = {} /\ Once(<<>>, M)
    BY DEF Sel, Once
  <2>3. \A s \in Socks : ~Serves(s, c)
    BY <1>1, Zenon DEF Serves
  <2>4. NetInv(c) /\ RequestInv(c) /\ OneSocket(c)
    <3>1. Untouched(c) /\ Sel(mainq, WrqOf(c)) = {} /\ Once(mainq, WrqOf(c))
      BY <1>1, <2>1, <2>2, <2>3, Zenon DEF Untouched
    <3>2. DOMAIN net[c] = {}
      BY <3>1 DEF Untouched
    <3> QED BY <2>3, <3>1, <3>2, Zenon DEF NetInv, RequestInv, OneSocket
  <2>5. AckInv(c) /\ DataInv(c) /\ PosInv(c) /\ StateInv(c)
    BY <1>1, <2>1, <2>2, <2>3, Zenon DEF AckInv, DataInv, PosInv, StateInv
  <2> QED BY <2>4, <2>5, Zenon DEF WriterInv
<1> QED BY <1>2, <1>3, <1>4, <1>5, Zenon DEF Inv

\* Every step of the server and of the remote side keeps the invariant.
LEMMA NextInv ==
  ASSUME PathsApart, Inv, Next
  PROVE  Inv'
<1>1. CASE Serve
  BY <1>1, HandleRrqStep, RrqNotFoundStep, HandleWrqStep, HandleWrqFailsStep, DropRequestStep,
     ReaderAckStep, ReaderEndsStep, WriterDataStep, WriterEndsStep, Zenon DEF Serve, Transfer
<1>2. CASE HandleBye
  BY <1>2, HandleByeStep, Zenon
<1>3. CASE \E c \in Readers : Request(c, "RRQ")
  BY <1>3, RequestReadStep, Zenon
<1>4. CASE \E c \in Writers : Request(c, "WRQ")
  BY <1>4, RequestWriteStep, Zenon
<1>5. ASSUME NEW c \in Peers, Peer(c) \/ PeerTimeout(c) \/ PeerRepeat(c) \/ PeerAbort(c)
      PROVE  Inv'
  BY <1>5, PeerOackStep, PeerDataStep, PeerAckStaleStep, PeerAckLastStep, PeerAckNextStep,
     PeerOtherStep, PeerTimeoutStep, PeerRepeatStep, PeerAbortStep, Zenon DEF Peer
<1>6. ASSUME NEW c \in Strangers, NEW s \in Socks, Stray(c, s) PROVE Inv'
  BY <1>6, StrayStep, Zenon
<1> QED BY <1>1, <1>2, <1>3, <1>4, <1>5, <1>6, Zenon DEF Next

\* So does a step that changes nothing.
LEMMA StutterInv ==
  ASSUME Inv, UNCHANGED vars
  PROVE  Inv'
<1>1. UNCHANGED <<files, conns, mainq, inq, net, peer, spoiled>>
  BY Zenon DEF vars
<1>2. TypeInv' /\ AskInv' /\ ListInv' /\ PeerInv' /\ \A d, t : Serves(t, d)' <=> Serves(t, d)
  BY <1>1, Zenon DEF Inv, TypeInv, AskInv, ListInv, PeerInv, Serves
<1>3. ASSUME NEW d \in Readers PROVE ReaderInv(d)'
  <2>1. \A i \in DOMAIN net'[d] : PacketOK(Stored[PathOf[d]], net'[d][i])
    BY <1>1, Zenon DEF Inv, ReaderInv
  <2> QED BY <1>1, <1>2, <2>1, ReaderKept, Zenon DEF Inv
<1>4. ASSUME NEW d \in Writers PROVE WriterInv(d)'
  <2>1. WriterInv(d) /\ NetInv(d)'
    BY <1>1, Zenon DEF WriterInv, NetInv, Inv
  <2> QED BY <1>1, <1>2, <2>1, LessSame, WriterKept, Zenon
<1> QED BY <1>2, <1>3, <1>4, Zenon DEF Inv

\* The transfers' invariant: what is under way to a reader is some block of its
\* file; and as long as no DATA of a writer was stored twice or in part, what is
\* under way of it says how much of what it sends the file holds.  What a writer
\* repeats, packets that are lost and short writes are among the steps.
THEOREM TqftpInvariant ==
  ASSUME PathsApart
  PROVE  Spec => []Inv
<1>1. Inv /\ [Next]_vars => Inv'
  BY NextInv, StutterInv, Zenon
<1> QED BY <1>1, InitInv, PTL DEF Spec

\* A reader never holds anything but the beginning of the file, and all of it
\* when it is done, though handle_reader forgets what it sent.
THEOREM TqftpReadIntact ==
  ASSUME PathsApart
  PROVE  Spec => []ReadIntact
<1>1. Inv => ReadIntact
  BY Zenon DEF Inv, ReaderInv, GotOK, ReadIntact
<1> QED BY <1>1, TqftpInvariant, PTL

\* When a writer has its last ACK, the file is what it sent over what was there,
\* unless handle_writer has stored a repeated DATA twice or a DATA in part: the
\* repetitions and lost ACKs that do not come to that do no harm.
THEOREM TqftpWriteExact ==
  ASSUME PathsApart
  PROVE  Spec => []WriteExact
<1>1. ASSUME Inv PROVE WriteExact
  <2> SUFFICES ASSUME NEW c \in Writers, peer[c].st = "done", c \notin spoiled
               PROVE  files[PathOf[c]] = Overlay(Base(c), 0, Payload[c])
    BY Zenon DEF WriteExact, Base
  <2>1. PICK n : n = peer[c].acked
    BY Zenon
  <2>2. n \in Nat
    BY <1>1, <2>1, Zenon DEF Inv, TypeInv, PeerType, Peers
  <2>3. Len(Payload[c]) < n * WBlk /\ files[PathOf[c]] = Written(c, n)
    BY <1>1, <2>1, Zenon DEF Inv, WriterInv, StateInv
  <2>4. Sent(c, n) = Payload[c]
    BY <2>2, <2>3, SentFacts, Zenon
  <2> QED BY <2>3, <2>4, Zenon DEF Written
<1> QED BY <1>1, TqftpInvariant, PTL

=============================================================================
