---------------------------- MODULE WaiterProofs ----------------------------
(***************************************************************************)
(* The invariants of the event loop, for every set of tickets, descriptors *)
(* and intervals, every growth of the pollset and whatever the callbacks   *)
(* do with the waiter.                                                     *)
(***************************************************************************)
EXTENDS Waiter, FiniteSetTheorems, SequenceTheorems, WellFoundedInduction, TLAPS

-----------------------------------------------------------------------------
(* Numbers and lists.                                                      *)

\* Min of a set of naturals is its least element.
LEMMA MinIsLeast ==
  ASSUME NEW D \in SUBSET Nat, D # {}
  PROVE  Min(D) \in D /\ \A e \in D : Min(D) <= e
<1>1. IsWellFoundedOn(OpToRel(<, Nat), Nat)
  BY NatLessThanWellFounded, Zenon
<1>2. PICK d \in D : \A e \in D : ~(<<e, d>> \in OpToRel(<, Nat))
  BY <1>1, WFMin, Zenon
<1>3. \A e \in D : d <= e
  <2> SUFFICES ASSUME NEW e \in D PROVE d <= e
    BY Zenon
  <2>1. <<e, d>> \notin OpToRel(<, Nat)
    BY <1>2, Zenon
  <2>2. e < d => <<e, d>> \in OpToRel(<, Nat)
    BY Zenon DEF OpToRel
  <2>3. ~(e < d)
    BY <2>1, <2>2, Zenon
  <2>4. e \in Nat /\ d \in Nat
    BY Zenon
  <2> QED BY <2>3, <2>4
<1> QED BY <1>3, Zenon DEF Min

\* One more chunk changes no remainder.
LEMMA NextChunk ==
  ASSUME NEW n \in Nat, NEW c \in Nat \ {0}, n % c = 0
  PROVE  (n + c) % c = 0
<1>1. n = c * (n \div c)
  OBVIOUS
<1>2. PICK q \in Nat : n = c * q
  BY <1>1
<1>3. n + c = c * (q + 1)
  BY <1>2
<1>4. PICK r, k \in Int : n + c = c * k + r /\ 0 <= r /\ r < c /\ r = (n + c) % c
  OBVIOUS
<1>5. c * (q + 1 - k) = r
  BY <1>3, <1>4
<1>6. PICK d \in Int : d = q + 1 - k
  BY <1>2, <1>4
<1>7. c * d = r
  BY <1>5, <1>6, Zenon
<1>8. d < 1
  <2> SUFFICES ASSUME d >= 1 PROVE FALSE
    BY <1>6
  <2>1. c * d >= c
    BY <1>6
  <2> QED BY <1>4, <1>7, <2>1
<1>9. d > -1
  <2> SUFFICES ASSUME d <= -1 PROVE FALSE
    BY <1>6
  <2>1. c * d <= -c
    BY <1>6
  <2> QED BY <1>4, <1>7, <2>1
<1>10. d = 0
  BY <1>6, <1>8, <1>9
<1> QED BY <1>4, <1>7, <1>10

\* No ticket is twice in a list.
Distinct(s) == \A i, j \in DOMAIN s : s[i] = s[j] => i = j

\* list_append of a ticket that is not in the list.
LEMMA AppendList ==
  ASSUME NEW S, NEW s \in Seq(S), Distinct(s), NEW t \in S, t \notin ToSet(s)
  PROVE  /\ Append(s, t) \in Seq(S)
         /\ Distinct(Append(s, t))
         /\ ToSet(Append(s, t)) = ToSet(s) \cup {t}
<1>1. /\ Append(s, t) \in Seq(S) /\ Len(Append(s, t)) = Len(s) + 1 /\ Len(s) \in Nat
      /\ DOMAIN s = 1 .. Len(s) /\ DOMAIN Append(s, t) = 1 .. Len(s) + 1
      /\ \A i \in 1 .. Len(s) : Append(s, t)[i] = s[i]
      /\ Append(s, t)[Len(s) + 1] = t
  BY AppendProperties, LenProperties
<1> DEFINE u == Append(s, t)
           n == Len(s)
<1> HIDE DEF u, n
<1>2. /\ u \in Seq(S) /\ n \in Nat /\ DOMAIN s = 1 .. n /\ DOMAIN u = 1 .. n + 1
      /\ \A i \in 1 .. n : u[i] = s[i]
      /\ u[n + 1] = t
  BY <1>1, Zenon DEF u, n
<1>3. \A i \in 1 .. n + 1 : i \in 1 .. n \/ i = n + 1
  BY <1>2
<1>4. \A i \in 1 .. n : s[i] # t /\ i \in 1 .. n + 1
  BY <1>2 DEF ToSet
<1>5. Distinct(u)
  BY <1>2, <1>3, <1>4, Zenon DEF Distinct
<1>6. ToSet(u) = ToSet(s) \cup {t}
  <2>1. \A x \in ToSet(u) : x \in ToSet(s) \cup {t}
    BY <1>2, <1>3, Zenon DEF ToSet
  <2>2. \A x \in ToSet(s) : x \in ToSet(u)
    BY <1>2, <1>4, Zenon DEF ToSet
  <2>3. t \in ToSet(u)
    <3>1. n + 1 \in 1 .. n + 1
      BY <1>2
    <3> QED BY <1>2, <3>1, Zenon DEF ToSet
  <2> QED BY <2>1, <2>2, <2>3, Zenon
<1> QED BY <1>2, <1>5, <1>6, Zenon DEF u

\* What is left of a list when one place of it goes.
LEMMA RemoveAtPlaces ==
  ASSUME NEW S, NEW s \in Seq(S), NEW i \in 1 .. Len(s)
  PROVE  LET u == RemoveAt(s, i)
         IN  /\ u \in Seq(S) /\ DOMAIN u = 1 .. Len(s) - 1
             /\ \A j \in 1 .. Len(s) - 1 : u[j] = IF j < i THEN s[j] ELSE s[j + 1]
<1> DEFINE n == Len(s)
           a == SubSeq(s, 1, i - 1)
           b == SubSeq(s, i + 1, n)
<1>1. n \in Nat /\ i \in Nat /\ i >= 1 /\ i <= n
  BY LenProperties
<1>2. a \in Seq(S) /\ Len(a) = i - 1 /\ \A j \in 1 .. i - 1 : a[j] = s[j]
  BY <1>1
<1>3. b \in Seq(S) /\ Len(b) = n - i /\ \A j \in 1 .. n - i : b[j] = s[i + j]
  BY <1>1
<1> HIDE DEF a, b, n
<1>4. /\ a \o b \in Seq(S) /\ Len(a \o b) = n - 1
      /\ \A j \in 1 .. n - 1 : (a \o b)[j] = IF j <= i - 1 THEN a[j] ELSE b[j - (i - 1)]
  <2>1. /\ a \o b \in Seq(S) /\ Len(a \o b) = Len(a) + Len(b)
        /\ \A j \in 1 .. Len(a) + Len(b) :
             (a \o b)[j] = IF j <= Len(a) THEN a[j] ELSE b[j - Len(a)]
    BY <1>2, <1>3, ConcatProperties, Zenon
  <2>2. Len(a) + Len(b) = n - 1 /\ Len(a) = i - 1
    BY <1>1, <1>2, <1>3
  <2> QED BY <2>1, <2>2, Zenon
<1>5. ASSUME NEW j \in 1 .. n - 1
      PROVE  (a \o b)[j] = IF j < i THEN s[j] ELSE s[j + 1]
  <2>1. CASE j < i
    BY <1>1, <1>2, <1>4, <2>1
  <2>2. CASE ~(j < i)
    <3>1. j - (i - 1) \in 1 .. n - i /\ i + (j - (i - 1)) = j + 1 /\ ~(j <= i - 1)
      BY <1>1, <2>2
    <3>2. b[j - (i - 1)] = s[j + 1]
      BY <1>3, <3>1, Zenon
    <3> QED BY <1>4, <2>2, <3>1, <3>2, Zenon
  <2> QED BY <2>1, <2>2, Zenon
<1>6. DOMAIN (a \o b) = 1 .. n - 1
  BY <1>4, LenProperties, Zenon
<1> QED BY <1>4, <1>5, <1>6, Zenon DEF RemoveAt, a, b, n

\* The elements of u are elements of s, in the same order.
InOrder(u, s) ==
  \A j, p \in DOMAIN u : \E k, q \in DOMAIN s :
    u[j] = s[k] /\ u[p] = s[q] /\ (j < p => k < q) /\ (j = p => k = q)

\* list_remove of a ticket that is in the list: the others stay, in their
\* order.
LEMMA UnlinkList ==
  ASSUME NEW S, NEW s \in Seq(S), Distinct(s), NEW t \in ToSet(s), NEW u,
         u = RemoveAt(s, CHOOSE i \in DOMAIN s : s[i] = t)
  PROVE  /\ u \in Seq(S) /\ Distinct(u)
         /\ ToSet(u) = ToSet(s) \ {t}
         /\ InOrder(u, s)
<1> DEFINE i == CHOOSE i \in DOMAIN s : s[i] = t
           n == Len(s)
           Old(j) == IF j < i THEN j ELSE j + 1
<1>1. n \in Nat /\ DOMAIN s = 1 .. n
  BY LenProperties, Zenon
<1>2. i \in 1 .. n /\ s[i] = t
  BY <1>1, Zenon DEF ToSet
<1>3. /\ u \in Seq(S) /\ DOMAIN u = 1 .. n - 1
      /\ \A j \in 1 .. n - 1 : u[j] = IF j < i THEN s[j] ELSE s[j + 1]
  BY <1>2, RemoveAtPlaces, Zenon
<1> HIDE DEF i, n
<1>4. \A j \in 1 .. n - 1 : Old(j) \in 1 .. n /\ u[j] = s[Old(j)] /\ Old(j) # i
  BY <1>1, <1>2, <1>3
<1>5. \A j, p \in 1 .. n - 1 : /\ j < p => Old(j) < Old(p)
                               /\ j = p => Old(j) = Old(p)
                               /\ Old(j) = Old(p) => j = p
  BY <1>1, <1>2
<1>6. \A k \in 1 .. n : k # i => \E j \in 1 .. n - 1 : Old(j) = k
  <2> SUFFICES ASSUME NEW k \in 1 .. n, k # i PROVE \E j \in 1 .. n - 1 : Old(j) = k
    BY Zenon
  <2>1. CASE k < i
    BY <1>1, <1>2, <2>1
  <2>2. CASE ~(k < i)
    <3>1. k - 1 \in 1 .. n - 1 /\ Old(k - 1) = k
      BY <1>1, <1>2, <2>2
    <3> QED BY <3>1, Zenon
  <2> QED BY <2>1, <2>2, Zenon
<1> HIDE DEF Old
<1>7. Distinct(u)
  <2> SUFFICES ASSUME NEW j \in 1 .. n - 1, NEW p \in 1 .. n - 1, u[j] = u[p] PROVE j = p
    BY <1>3, Zenon DEF Distinct
  <2>1. Old(j) \in DOMAIN s /\ Old(p) \in DOMAIN s /\ s[Old(j)] = s[Old(p)]
    BY <1>1, <1>4, Zenon
  <2>2. Old(j) = Old(p)
    BY <2>1, Zenon DEF Distinct
  <2> QED BY <1>5, <2>2, Zenon
<1>8. ToSet(u) = ToSet(s) \ {t}
  <2>1. \A x \in ToSet(u) : x \in ToSet(s) /\ x # t
    BY <1>1, <1>2, <1>3, <1>4 DEF ToSet, Distinct
  <2>2. \A x \in ToSet(s) : x # t => x \in ToSet(u)
    <3> SUFFICES ASSUME NEW k \in 1 .. n, s[k] # t PROVE s[k] \in ToSet(u)
      BY <1>1, Zenon DEF ToSet
    <3>1. PICK j \in 1 .. n - 1 : Old(j) = k
      BY <1>2, <1>6, Zenon
    <3> QED BY <1>3, <1>4, <3>1, Zenon DEF ToSet
  <2> QED BY <2>1, <2>2, Zenon
<1>9. ASSUME NEW j \in DOMAIN u, NEW p \in DOMAIN u
      PROVE  \E k, q \in DOMAIN s :
               u[j] = s[k] /\ u[p] = s[q] /\ (j < p => k < q) /\ (j = p => k = q)
  <2>1. Old(j) \in DOMAIN s /\ Old(p) \in DOMAIN s /\ u[j] = s[Old(j)] /\ u[p] = s[Old(p)]
    BY <1>1, <1>3, <1>4, Zenon
  <2> QED BY <1>3, <1>5, <2>1, Zenon
<1>10. InOrder(u, s)
  BY <1>9, Zenon DEF InOrder
<1> QED BY <1>3, <1>7, <1>8, <1>10, Zenon

-----------------------------------------------------------------------------
(* The list, the tickets and the pollset.                                  *)

All == Tickets \cup {Temp}

\* The tickets in the list, and those of them that callers hold and count.
Listed == ToSet(tickets)
States == {"idle", "poll", "scan", "callback", "crashed"}

Held   == (Listed \ lost) \ {Temp}

TicketType ==
  {r \in [type : {"NULL", "FD", "TIMEOUT"}, arg : {Null} \cup Fds \cup Intervals,
          age : Nat, updated : BOOLEAN] : r.type = "TIMEOUT" => r.arg \in Intervals}

ListInv ==
  /\ tickets \in Seq(All) /\ Distinct(tickets) /\ IsFiniteSet(Listed)
  /\ tk \in [All -> TicketType \cup {Null}]
  /\ \A t \in All : tk[t] # Null <=> t \in Listed

\* A ticket whose waiter_add failed is nobody's, and stays a null ticket.
LostInv == lost \subseteq Tickets /\ lost \subseteq Listed /\ \A t \in lost : tk[t].type = "NULL"

\* waiter_wait_timeout's ticket is in the list only during the wait.
TempInv ==
  /\ pc \in States /\ drift \in Nat
  /\ pc = "idle" => tk[Temp] = Null
  /\ tk[Temp] # Null => tk[Temp].type = "TIMEOUT"

CountInv == count = Cardinality(Held) + (IF tk[Temp] = Null THEN 0 ELSE 1)

\* The pollset was made for a whole number of chunks and one ticket more.
CapInv == cap # Null => cap \in Nat /\ (cap - 1) % Chunk = 0 /\ Cardinality(Held) < cap

\* There is none for want of tickets or of memory.
GoneInv == cap = Null => Held = {} \/ lost # {}

WInv == ListInv /\ LostInv /\ TempInv /\ CountInv /\ CapInv /\ GoneInv

\* A ticket record is not Null.
LEMMA RecordNotNull == Null \notin TicketType
BY MarkersAssumption, Zenon DEF TicketType

\* The tickets waiter_add_null, waiter_add_fd and waiter_add_timeout make.
LEMMA NewTyped ==
  /\ NullTicket \in TicketType /\ NullTicket.type = "NULL"
  /\ \A r \in NewTickets : r \in TicketType /\ r.age = 0
  /\ \A r \in Timeouts : r \in TicketType /\ r.type = "TIMEOUT" /\ r.age = 0
<1>1. ASSUME NEW type \in {"NULL", "FD", "TIMEOUT"}, NEW arg \in {Null} \cup Fds \cup Intervals,
             type = "TIMEOUT" => arg \in Intervals
      PROVE  Ticket(type, arg) \in TicketType /\ Ticket(type, arg).type = type
               /\ Ticket(type, arg).age = 0
  <2>1. \A b \in BOOLEAN : LET r == [type |-> type, arg |-> arg, age |-> 0, updated |-> b]
                           IN  r \in TicketType /\ r.type = type /\ r.age = 0
    BY <1>1, Zenon DEF TicketType
  <2> QED BY <2>1, Zenon DEF Ticket
<1>2. NullTicket \in TicketType /\ NullTicket.type = "NULL" /\ NullTicket.age = 0
  BY <1>1, Zenon DEF NullTicket
<1>3. \A r \in FdTickets : r \in TicketType /\ r.age = 0
  BY <1>1 DEF FdTickets
<1>4. \A r \in Timeouts : r \in TicketType /\ r.type = "TIMEOUT" /\ r.age = 0
  BY <1>1 DEF Timeouts
<1> QED BY <1>2, <1>3, <1>4, Zenon DEF NewTickets

\* A held ticket is in the list, and the held ones are finitely many.
LEMMA HeldFinite ==
  ASSUME ListInv
  PROVE  IsFiniteSet(Held) /\ Cardinality(Held) \in Nat
<1>1. Held \subseteq Listed
  BY Zenon DEF Held
<1>2. IsFiniteSet(Held)
  BY <1>1, FS_Subset, Zenon DEF ListInv
<1> QED BY <1>2, FS_CardinalityType, Zenon

\* Steps that leave the list and only rewrite tickets in it keep the
\* invariant, if null tickets nobody holds stay so and the temporary ticket
\* stays a timeout.
LEMMA RewriteKeeps ==
  ASSUME WInv, tickets' = tickets, lost' = lost, count' = count, cap' = cap,
         tk' \in [All -> TicketType \cup {Null}],
         \A t \in All : tk'[t] = Null <=> tk[t] = Null,
         \A t \in lost \cup {Temp} : tk[t] # Null => tk'[t].type = tk[t].type,
         pc' \in States, drift' \in Nat,
         pc' = "idle" => tk[Temp] = Null
  PROVE  WInv'
<1>0. Temp \in All /\ \A t \in lost : t \in All /\ tk[t] # Null
  BY Zenon DEF All, WInv, LostInv, ListInv
<1>1. ListInv'
  BY Zenon DEF WInv, ListInv, Listed
<1>2. LostInv'
  BY <1>0, Zenon DEF WInv, LostInv, Listed
<1>3. TempInv'
  BY <1>0, Zenon DEF WInv, TempInv
<1>4. CountInv'
  BY <1>0, Zenon DEF WInv, CountInv, Held, Listed
<1>5. CapInv'
  BY Zenon DEF WInv, CapInv, Held, Listed
<1>6. GoneInv'
  BY Zenon DEF WInv, GoneInv, Held, Listed
<1> QED BY <1>1, <1>2, <1>3, <1>4, <1>5, <1>6, Zenon DEF WInv

\* Putting a new ticket at the end of the list.
LEMMA AppendKeeps ==
  ASSUME ListInv, NEW t \in All, NEW r \in TicketType, tk[t] = Null,
         tickets' = Append(tickets, t), tk' = [tk EXCEPT ![t] = r]
  PROVE  /\ ListInv' /\ Listed' = Listed \cup {t} /\ t \notin Listed
         /\ tk'[t] = r /\ \A u \in All : u # t => tk'[u] = tk[u]
<1>1. t \notin Listed
  BY Zenon DEF ListInv
<1>2. /\ tickets' \in Seq(All) /\ Distinct(tickets')
      /\ ToSet(tickets') = ToSet(tickets) \cup {t}
  BY <1>1, AppendList DEF ListInv, Listed
<1>3. IsFiniteSet(Listed')
  BY <1>2, FS_AddElement DEF ListInv, Listed
<1>4. /\ tk' \in [All -> TicketType \cup {Null}] /\ tk'[t] = r
      /\ \A u \in All : u # t => tk'[u] = tk[u]
  BY Zenon DEF ListInv
<1>5. Listed' = Listed \cup {t}
  BY <1>2, Zenon DEF Listed
<1>6. \A u \in All : tk'[u] # Null <=> u \in Listed'
  BY <1>4, <1>5, RecordNotNull, Zenon DEF ListInv
<1> QED BY <1>1, <1>2, <1>3, <1>4, <1>5, <1>6, SMTT(20) DEF ListInv

\* Taking a ticket out of the list.
LEMMA UnlinkKeeps ==
  ASSUME ListInv, NEW t \in All, tk[t] # Null,
         tickets' = Unlinked(t), tk' = [tk EXCEPT ![t] = Null]
  PROVE  /\ ListInv' /\ Listed' = Listed \ {t} /\ t \in Listed
         /\ tk'[t] = Null /\ \A u \in All : u # t => tk'[u] = tk[u]
<1>1. t \in Listed
  BY Zenon DEF ListInv
<1>2. /\ tickets' \in Seq(All) /\ Distinct(tickets')
      /\ ToSet(tickets') = ToSet(tickets) \ {t}
  BY <1>1, UnlinkList DEF ListInv, Listed, Unlinked
<1>3. IsFiniteSet(Listed')
  BY <1>2, FS_RemoveElement DEF ListInv, Listed
<1>4. /\ tk' \in [All -> TicketType \cup {Null}] /\ tk'[t] = Null
      /\ \A u \in All : u # t => tk'[u] = tk[u]
  BY Zenon DEF ListInv
<1>5. Listed' = Listed \ {t}
  BY <1>2, Zenon DEF Listed
<1>6. \A u \in All : tk'[u] # Null <=> u \in Listed'
  BY <1>4, <1>5, Zenon DEF ListInv
<1> QED BY <1>1, <1>2, <1>3, <1>4, <1>5, <1>6, SMTT(20) DEF ListInv

\* waiter_add_null and its callers: the ticket fits the pollset there is, or
\* the count is at a multiple of the chunk and the pollset is made anew.
LEMMA AddStep ==
  ASSUME WInv, NEW t \in Tickets, NEW new \in NewTickets, Add(t, new)
  PROVE  WInv'
<1>1. t \in All /\ Temp \in All /\ t # Temp /\ new \in TicketType
  BY TicketsAssumption, NewTyped, Zenon DEF All
<1>2. /\ ListInv' /\ Listed' = Listed \cup {t} /\ t \notin Listed
      /\ tk'[t] = new /\ \A u \in All : u # t => tk'[u] = tk[u]
  BY <1>1, AppendKeeps, Zenon DEF Add, WInv
<1>3. lost' = lost /\ pc' = pc /\ pc = "idle" /\ drift' = drift /\ count' = count + 1
  BY Zenon DEF Add, local
<1>4. LostInv'
  BY <1>1, <1>2, <1>3, Zenon DEF WInv, LostInv, All
<1>5. TempInv'
  BY <1>1, <1>2, <1>3, Zenon DEF WInv, TempInv
<1>6. Held' = Held \cup {t} /\ t \notin Held
  BY <1>1, <1>2, <1>3, Zenon DEF Held, WInv, LostInv
<1>7. Cardinality(Held') = Cardinality(Held) + 1 /\ Cardinality(Held) \in Nat
  BY <1>6, HeldFinite, FS_AddElement, Zenon DEF WInv
<1>8. count = Cardinality(Held) /\ tk'[Temp] = Null
  BY <1>1, <1>2, <1>3, <1>7 DEF WInv, CountInv, TempInv
<1>9. CountInv'
  BY <1>3, <1>7, <1>8 DEF CountInv
<1>10. CapInv'
  <2>0. Chunk \in Nat \ {0} /\ count \in Nat
    BY <1>7, <1>8, NumbersAssumption, Zenon
  <2>1. CASE count % Chunk = 0
    <3>1. cap' = count + Chunk + 1
      BY <2>1, Zenon DEF Add, Room
    <3>2. (count + Chunk) % Chunk = 0
      BY <2>0, <2>1, NextChunk, Zenon
    <3>3. cap' - 1 = count + Chunk /\ cap' \in Nat /\ Cardinality(Held') < cap'
      BY <1>7, <1>8, <2>0, <3>1
    <3> QED BY <3>2, <3>3, Zenon DEF CapInv
  <2>2. CASE count % Chunk # 0
    <3> SUFFICES ASSUME cap # Null
                 PROVE  cap \in Nat /\ (cap - 1) % Chunk = 0 /\ Cardinality(Held') < cap
      BY <2>2, Zenon DEF Add, CapInv
    <3>1. cap \in Nat /\ (cap - 1) % Chunk = 0 /\ count < cap
      BY <1>8, Zenon DEF WInv, CapInv
    <3>2. count # cap - 1
      BY <2>2, <3>1, Zenon
    <3> QED BY <1>7, <1>8, <2>0, <3>1, <3>2, SMTT(20)
  <2> QED BY <2>1, <2>2, Zenon
<1>11. GoneInv'
  <2>0. Chunk \in Nat \ {0} /\ count \in Nat /\ Cardinality({}) = 0
    BY <1>7, <1>8, NumbersAssumption, FS_EmptySet, Zenon
  <2>1. CASE count % Chunk = 0
    <3>1. cap' \in Nat
      BY <2>0, <2>1 DEF Add, Room
    <3> QED BY <3>1, NumbersAssumption, Zenon DEF GoneInv
  <2>2. CASE count % Chunk # 0
    <3>1. Held # {}
      BY <1>8, <2>0, <2>2
    <3> QED BY <1>3, <2>2, <3>1, Zenon DEF Add, WInv, GoneInv
  <2> QED BY <2>1, <2>2, Zenon
<1> QED BY <1>2, <1>4, <1>5, <1>9, <1>10, <1>11, Zenon DEF WInv

\* A waiter_add that fails leaves a null ticket in the list, and no pollset.
LEMMA AddFailsStep ==
  ASSUME WInv, NEW t \in Tickets, AddFails(t)
  PROVE  WInv'
<1>1. t \in All /\ Temp \in All /\ t # Temp /\ NullTicket \in TicketType /\ NullTicket.type = "NULL"
  BY TicketsAssumption, NewTyped, Zenon DEF All
<1>2. /\ ListInv' /\ Listed' = Listed \cup {t} /\ t \notin Listed
      /\ tk'[t] = NullTicket /\ \A u \in All : u # t => tk'[u] = tk[u]
  BY <1>1, AppendKeeps, Zenon DEF AddFails, WInv
<1>3. lost' = lost \cup {t} /\ pc' = pc /\ pc = "idle" /\ drift' = drift /\ count' = count /\ cap' = Null
  BY Zenon DEF AddFails, local
<1>4. LostInv'
  BY <1>1, <1>2, <1>3, Zenon DEF WInv, LostInv, All
<1>5. TempInv'
  BY <1>1, <1>2, <1>3, Zenon DEF WInv, TempInv
<1>6. Held' = Held /\ tk'[Temp] = tk[Temp]
  BY <1>1, <1>2, <1>3, Zenon DEF Held, WInv, LostInv
<1>7. CountInv' /\ CapInv' /\ GoneInv'
  BY <1>3, <1>6, Zenon DEF WInv, CountInv, CapInv, GoneInv
<1> QED BY <1>2, <1>4, <1>5, <1>7 DEF WInv

\* waiter_ticket_delete.
LEMMA DeleteStep ==
  ASSUME WInv, NEW t \in Tickets, Delete(t)
  PROVE  WInv'
<1>1. t \in All /\ Temp \in All /\ t # Temp /\ tk[t] # Null /\ t \notin lost
  BY TicketsAssumption, Zenon DEF All, Delete, InUse
<1>2. /\ ListInv' /\ Listed' = Listed \ {t} /\ t \in Listed
      /\ \A u \in All : u # t => tk'[u] = tk[u]
  BY <1>1, UnlinkKeeps, Zenon DEF Delete, WInv
<1>3. lost' = lost /\ pc' = pc /\ drift' = drift /\ count' = count - 1 /\ cap' = cap
  BY Zenon DEF Delete, local
<1>4. LostInv'
  BY <1>1, <1>2, <1>3, Zenon DEF WInv, LostInv, All
<1>5. TempInv' /\ tk'[Temp] = tk[Temp]
  BY <1>1, <1>2, <1>3, Zenon DEF WInv, TempInv
<1>6. Held' = Held \ {t} /\ t \in Held
  BY <1>1, <1>2, <1>3, Zenon DEF Held
<1>7. Cardinality(Held') = Cardinality(Held) - 1 /\ Cardinality(Held) \in Nat
  BY <1>6, HeldFinite, FS_RemoveElement, Zenon DEF WInv
<1>8. CountInv' /\ CapInv'
  BY <1>3, <1>5, <1>7 DEF WInv, CountInv, CapInv
<1>9. GoneInv'
  BY <1>3, <1>6, Zenon DEF WInv, GoneInv
<1> QED BY <1>2, <1>4, <1>5, <1>8, <1>9, Zenon DEF WInv

\* A ticket with another age or another mark is a ticket.
LEMMA RecordUpdates ==
  ASSUME NEW r \in TicketType, NEW a \in Nat, NEW b \in BOOLEAN
  PROVE  /\ LET d == [r EXCEPT !.age = a]
            IN  d \in TicketType /\ d.type = r.type /\ d.arg = r.arg /\ d.age = a
         /\ LET d == [r EXCEPT !.updated = b]
            IN  d \in TicketType /\ d.type = r.type /\ d.arg = r.arg /\ d.age = r.age
BY Zenon DEF TicketType

\* A ticket whose age alone is set, for the steps that set no mark.
LEMMA RecordAged ==
  ASSUME NEW r \in TicketType, NEW a \in Nat, NEW d, d = [r EXCEPT !.age = a]
  PROVE  d \in TicketType /\ d.type = r.type /\ d.arg = r.arg /\ d.age = a
BY Zenon DEF TicketType

\* So is one with both.
LEMMA RecordMarked ==
  ASSUME NEW r \in TicketType, NEW a \in Nat, NEW b \in BOOLEAN,
         NEW d, d = [r EXCEPT !.age = a, !.updated = b]
  PROVE  d \in TicketType /\ d.type = r.type /\ d.arg = r.arg /\ d.age = a
<1> DEFINE c == [r EXCEPT !.age = a]
<1>1. c \in TicketType /\ c.type = r.type /\ c.arg = r.arg /\ c.age = a
  BY RecordUpdates, Zenon
<1>2. d = [c EXCEPT !.updated = b]
  BY Zenon
<1> HIDE DEF c
<1>3. LET e == [c EXCEPT !.updated = b]
      IN  e \in TicketType /\ e.type = c.type /\ e.arg = c.arg /\ e.age = c.age
  BY <1>1, RecordUpdates, Zenon
<1> QED BY <1>1, <1>2, <1>3, Zenon

\* The parts of a ticket's record.
LEMMA RecordParts ==
  ASSUME NEW r \in TicketType
  PROVE  /\ r.age \in Nat /\ r.updated \in BOOLEAN
         /\ r.type = "TIMEOUT" => r.arg \in Nat
<1>1. \A n \in Intervals : n \in Nat
  BY NumbersAssumption
<1> QED BY <1>1, Zenon DEF TicketType

\* A listed ticket has a record.
LEMMA ListedTyped ==
  ASSUME ListInv, NEW t \in All, tk[t] # Null
  PROVE  tk[t] \in TicketType
BY Zenon DEF ListInv

\* What a step may do to the tickets without touching the list: change marks
\* and ages, never types or intervals.
Kept == /\ tk' \in [All -> TicketType \cup {Null}]
        /\ \A t \in All : tk'[t] = Null <=> tk[t] = Null
        /\ \A t \in All : tk[t] # Null => tk'[t].type = tk[t].type /\ tk'[t].arg = tk[t].arg

\* waiter_ticket_clear does no more.
LEMMA ClearKept ==
  ASSUME WInv, NEW t \in Tickets, Clear(t)
  PROVE  Kept /\ \A u \in All : tk[u] # Null => tk'[u].age = tk[u].age
<1>1. t \in All /\ tk[t] # Null /\ tk \in [All -> TicketType \cup {Null}]
  BY Zenon DEF All, Clear, InUse, WInv, ListInv
<1>2. tk[t] \in TicketType
  BY <1>1, Zenon
<1> DEFINE d == [tk[t] EXCEPT !.updated = FALSE]
<1>3. d \in TicketType /\ d.type = tk[t].type /\ d.arg = tk[t].arg /\ d.age = tk[t].age
  BY <1>2, RecordUpdates, Zenon
<1>4. tk' = [tk EXCEPT ![t] = d]
  BY Zenon DEF Clear
<1> HIDE DEF d
<1>5. tk'[t] = d /\ \A u \in All : u # t => tk'[u] = tk[u]
  BY <1>1, <1>4, Zenon
<1>6. tk' \in [All -> TicketType \cup {Null}]
  BY <1>1, <1>3, <1>4, Zenon
<1> QED BY <1>1, <1>3, <1>5, <1>6, RecordNotNull, SMTT(20) DEF Kept

\* waiter_synchronize moves starts between timeouts of one interval: a timeout
\* gets the start of one that is not behind it in the list.
LEMMA SyncKept ==
  ASSUME WInv, Synchronize
  PROVE  /\ Kept
         /\ \A j \in DOMAIN tickets :
              \E k \in DOMAIN tickets :
                LET r == tk[tickets[k]]
                IN  /\ k <= j
                    /\ r.type = tk[tickets[j]].type
                    /\ r.type = "TIMEOUT" => r.arg = tk[tickets[j]].arg
                    /\ tk'[tickets[j]].age = r.age
<1>0. /\ tk \in [All -> TicketType \cup {Null}] /\ tickets \in Seq(All)
      /\ DOMAIN tickets = 1 .. Len(tickets) /\ Len(tickets) \in Nat
  BY LenProperties, Zenon DEF WInv, ListInv
<1>1. ASSUME NEW j \in DOMAIN tickets
      PROVE  tickets[j] \in All /\ tickets[j] \in Listed /\ tk[tickets[j]] \in TicketType
  <2>1. tickets[j] \in All /\ tickets[j] \in Listed
    BY <1>0, ElementOfSeq, Zenon DEF Listed, ToSet
  <2> QED BY <2>1, Zenon DEF WInv, ListInv
<1>2. ASSUME NEW t \in OfType("TIMEOUT"), NEW j \in DOMAIN tickets, t = tickets[j]
      PROVE  \E k \in DOMAIN tickets : /\ k <= j /\ FirstAlike(t) = tickets[k]
                                       /\ tk[tickets[k]].type = "TIMEOUT"
                                       /\ tk[tickets[k]].arg = tk[t].arg
  <2> DEFINE D == {k \in DOMAIN tickets : /\ tk[tickets[k]].type = "TIMEOUT"
                                          /\ tk[tickets[k]].arg = tk[t].arg}
  <2>1. j \in D /\ D \in SUBSET Nat
    BY <1>0, <1>2, SMTT(20) DEF OfType
  <2>2. Min(D) \in D /\ Min(D) <= j
    BY <2>1, MinIsLeast, Zenon
  <2>3. FirstAlike(t) = tickets[Min(D)]
    BY Zenon DEF FirstAlike
  <2> HIDE DEF D
  <2>4. PICK k \in D : k = Min(D)
    BY <2>2, Zenon
  <2> USE DEF D
  <2> QED BY <2>2, <2>3, <2>4, Zenon
<1> DEFINE a(t) == tk[FirstAlike(t)].age
<1>3. ASSUME NEW t \in OfType("TIMEOUT")
      PROVE  a(t) \in Nat /\ tk[t] \in TicketType /\ t \in All
  <2>1. PICK j \in DOMAIN tickets : t = tickets[j]
    BY Zenon DEF OfType, ToSet
  <2>2. PICK k \in DOMAIN tickets : FirstAlike(t) = tickets[k]
    BY <1>2, <2>1, Zenon
  <2>3. tk[tickets[k]] \in TicketType
    BY <1>1, Zenon
  <2> QED BY <1>1, <2>1, <2>2, <2>3, RecordParts, Zenon
<1>4. tk' = [t \in All |-> IF t \in OfType("TIMEOUT") THEN [tk[t] EXCEPT !.age = a(t)] ELSE tk[t]]
  BY <1>0, Zenon DEF Synchronize
<1> HIDE DEF a
<1>5. \A t \in OfType("TIMEOUT") : /\ tk'[t] \in TicketType /\ tk'[t].type = tk[t].type
                                   /\ tk'[t].arg = tk[t].arg /\ tk'[t].age = a(t)
  <2> SUFFICES ASSUME NEW t \in OfType("TIMEOUT")
               PROVE  /\ tk'[t] \in TicketType /\ tk'[t].type = tk[t].type
                      /\ tk'[t].arg = tk[t].arg /\ tk'[t].age = a(t)
    BY Zenon
  <2>1. a(t) \in Nat /\ tk[t] \in TicketType /\ t \in All
    BY <1>3, Zenon
  <2>2. tk'[t] = [tk[t] EXCEPT !.age = a(t)]
    BY <1>4, <2>1, Zenon
  <2> QED BY <2>1, <2>2, RecordAged
<1>6. \A t \in All : t \notin OfType("TIMEOUT") => tk'[t] = tk[t]
  BY <1>4, Zenon
<1>7. Kept
  <2>1. tk' \in [All -> TicketType \cup {Null}]
    <3>1. \A t \in All : tk'[t] \in TicketType \cup {Null}
      BY <1>0, <1>5, <1>6, Zenon
    <3> QED BY <1>4, <3>1, Zenon
  <2>2. \A t \in OfType("TIMEOUT") : tk[t] # Null /\ tk'[t] # Null
    BY <1>3, <1>5, RecordNotNull
  <2> QED BY <1>5, <1>6, <2>1, <2>2, SMTT(20) DEF Kept
<1>8. ASSUME NEW j \in DOMAIN tickets
      PROVE  \E k \in DOMAIN tickets :
               /\ k <= j
               /\ tk[tickets[k]].type = tk[tickets[j]].type
               /\ tk[tickets[k]].type = "TIMEOUT" => tk[tickets[k]].arg = tk[tickets[j]].arg
               /\ tk'[tickets[j]].age = tk[tickets[k]].age
  <2>1. PICK t \in All : t = tickets[j]
    BY <1>1, Zenon
  <2>2. CASE t \in OfType("TIMEOUT")
    <3>1. PICK k \in DOMAIN tickets : /\ k <= j /\ FirstAlike(t) = tickets[k]
                                      /\ tk[tickets[k]].type = "TIMEOUT"
                                      /\ tk[tickets[k]].arg = tk[t].arg
      BY <1>2, <2>1, <2>2, Zenon
    <3>2. tk'[t].age = tk[tickets[k]].age /\ tk[t].type = "TIMEOUT"
      BY <1>5, <2>2, <3>1, Zenon DEF a, OfType
    <3> QED BY <2>1, <3>1, <3>2, Zenon
  <2>3. CASE t \notin OfType("TIMEOUT")
    BY <1>0, <1>6, <2>1, <2>3, SMTT(20)
  <2> QED BY <2>2, <2>3, Zenon
<1> QED BY <1>7, <1>8, Zenon

\* A round of waiter_wait's loop starts a timeout that is past again, and
\* changes no other ticket.
LEMMA ScanKept ==
  ASSUME WInv, ScanTicket, node \in Listed
  PROVE  /\ Kept
         /\ \A u \in All : u # node => tk'[u] = tk[u]
         /\ tk'[node].age = IF Past(tk[node]) THEN drift ELSE tk[node].age
<1> DEFINE r == tk[node]
           fresh == (Past(r) \/ Hit(r)) /\ ~r.updated
           a == IF Past(r) THEN drift ELSE r.age
           b == r.updated \/ fresh
           d == [r EXCEPT !.age = a, !.updated = b]
<1>1. node \in All /\ r \in TicketType /\ tk \in [All -> TicketType \cup {Null}]
  <2>1. node \in All
    BY ElementOfSeq, LenProperties DEF WInv, ListInv, Listed, ToSet
  <2> QED BY <2>1, Zenon DEF WInv, ListInv
<1>2. a \in Nat /\ b \in BOOLEAN
  BY <1>1, RecordParts, Zenon DEF WInv, TempInv
<1>3. tk' = [tk EXCEPT ![node] = d]
  BY Zenon DEF ScanTicket
<1>4. d \in TicketType /\ d.type = r.type /\ d.arg = r.arg /\ d.age = a
  <2> HIDE DEF a, b, r
  <2>1. \A e : e = [r EXCEPT !.age = a, !.updated = b] =>
               e \in TicketType /\ e.type = r.type /\ e.arg = r.arg /\ e.age = a
    BY <1>1, <1>2, RecordMarked, ZenonT(30)
  <2> QED BY <2>1, Zenon
<1> HIDE DEF d
<1>5. tk'[node] = d /\ \A u \in All : u # node => tk'[u] = tk[u]
  BY <1>1, <1>3, Zenon
<1>6. tk' \in [All -> TicketType \cup {Null}]
  BY <1>1, <1>3, <1>4, Zenon
<1>7. Kept
  BY <1>1, <1>4, <1>5, <1>6, RecordNotNull, Zenon DEF Kept
<1> QED BY <1>4, <1>5, <1>7, Zenon

\* A millisecond makes timeouts older by at most one.
LEMMA TickKept ==
  ASSUME WInv, Tick
  PROVE  /\ Kept
         /\ \A u \in All : tk[u] # Null => tk'[u].age \in {tk[u].age, tk[u].age + 1}
<1>1. tk \in [All -> TicketType \cup {Null}] /\ tk' = [t \in All |-> Older(tk[t])]
  BY Zenon DEF WInv, ListInv, Tick
<1>2. ASSUME NEW r \in TicketType
      PROVE  /\ Older(r) \in TicketType /\ Older(r).type = r.type /\ Older(r).arg = r.arg
             /\ Older(r).age \in {r.age, r.age + 1}
  <2>1. r.age + 1 \in Nat
    BY RecordParts
  <2> QED BY <2>1, RecordUpdates, Zenon DEF Older
<1>3. Older(Null) = Null
  BY Zenon DEF Older
<1>4. \A t \in All : tk[t] # Null => tk[t] \in TicketType
  BY <1>1, Zenon
<1>5. \A t \in All : tk'[t] = Older(tk[t])
  BY <1>1, Zenon
<1>6. tk' \in [All -> TicketType \cup {Null}]
  BY <1>1, <1>2, <1>3, <1>4, Zenon
<1> QED BY <1>2, <1>3, <1>4, <1>5, <1>6, RecordNotNull, SMTT(20) DEF Kept

\* waiter_ticket_set_null, waiter_ticket_set_fd and waiter_ticket_set_timeout
\* make a fresh ticket of one the caller holds.
LEMMA SetFacts ==
  ASSUME WInv, NEW t \in Tickets, NEW new \in NewTickets, Set(t, new)
  PROVE  /\ t \in All /\ t \notin lost \cup {Temp} /\ tk[t] # Null
         /\ tk' \in [All -> TicketType \cup {Null}]
         /\ tk'[t] \in TicketType /\ tk'[t].age = 0
         /\ \A u \in All : u # t => tk'[u] = tk[u]
<1>1. /\ t \in All /\ tk[t] # Null /\ tk \in [All -> TicketType \cup {Null}]
      /\ t \notin lost \cup {Temp}
  BY TicketsAssumption, Zenon DEF All, Set, InUse, WInv, ListInv
<1>2. tk[t] \in TicketType /\ tk[t].updated \in BOOLEAN
  BY <1>1, RecordParts, Zenon
<1> DEFINE d == [new EXCEPT !.updated = tk[t].updated]
<1>3. d \in TicketType /\ d.age = 0
  <2>1. new \in TicketType /\ new.age = 0
    BY NewTyped, Zenon
  <2>2. \A b \in BOOLEAN : LET e == [new EXCEPT !.updated = b]
                           IN  e \in TicketType /\ e.age = 0
    BY <2>1, RecordUpdates, Zenon
  <2> QED BY <1>2, <2>2, Zenon
<1>4. tk' = [tk EXCEPT ![t] = d]
  BY Zenon DEF Set
<1> HIDE DEF d
<1>5. tk'[t] = d /\ \A u \in All : u # t => tk'[u] = tk[u]
  BY <1>1, <1>4, Zenon
<1>6. tk' \in [All -> TicketType \cup {Null}]
  BY <1>1, <1>3, <1>4, Zenon
<1> QED BY <1>1, <1>3, <1>5, <1>6, Zenon

\* waiter_wait_timeout's ticket joins the list for the wait.
LEMMA WaitTimeoutStep ==
  ASSUME WInv, NEW new \in Timeouts, WaitTimeout(new)
  PROVE  WInv'
<1>1. Temp \in All /\ tk[Temp] = Null /\ new \in TicketType /\ new.type = "TIMEOUT"
  BY NewTyped, Zenon DEF All, WaitTimeout, WInv, TempInv
<1>2. /\ ListInv' /\ Listed' = Listed \cup {Temp} /\ Temp \notin Listed
      /\ tk'[Temp] = new /\ \A u \in All : u # Temp => tk'[u] = tk[u]
  BY <1>1, AppendKeeps, Zenon DEF WaitTimeout, WInv
<1>3. /\ lost' = lost /\ pc' \in {"poll", "scan", "crashed"} /\ drift' \in Nat
      /\ count' = count + 1 /\ cap' = cap
  <2>1. drift \in Nat
    BY Zenon DEF WInv, TempInv
  <2>2. count' = count + 1 /\ (NoPollset \/ Poll(tickets', tk'))
    BY Zenon DEF WaitTimeout, Begin
  <2>3. CASE NoPollset
    BY <2>1, <2>2, <2>3, Zenon DEF NoPollset, local
  <2>4. CASE Poll(tickets', tk')
    BY <2>2, <2>4 DEF Poll
  <2> QED BY <2>2, <2>3, <2>4, Zenon
<1>4. LostInv'
  BY <1>1, <1>2, <1>3, TicketsAssumption DEF WInv, LostInv, All
<1>5. TempInv'
  BY <1>1, <1>2, <1>3, Zenon DEF TempInv, States
<1>6. Held' = Held
  BY <1>2, <1>3, Zenon DEF Held
<1>7. CountInv' /\ CapInv'
  <2>1. Cardinality(Held) \in Nat /\ tk'[Temp] # Null
    BY <1>1, <1>2, HeldFinite, RecordNotNull, SMTT(20) DEF WInv
  <2> QED BY <1>1, <1>3, <1>6, <2>1, SMTT(20) DEF WInv, CountInv, CapInv
<1>8. GoneInv'
  BY <1>3, <1>6, Zenon DEF WInv, GoneInv
<1> QED BY <1>2, <1>4, <1>5, <1>7, <1>8, Zenon DEF WInv

\* When the wait is over it leaves.
LEMMA ReturnStep ==
  ASSUME WInv, Return
  PROVE  WInv'
<1>0. Temp \in All
  BY Zenon DEF All
<1>1. CASE tk[Temp] = Null
  <2>1. /\ tickets' = tickets /\ lost' = lost /\ count' = count /\ cap' = cap /\ tk' = tk
        /\ pc' = "idle" /\ drift' = 0
    BY <1>1, Zenon DEF Return
  <2> QED BY <1>1, <2>1, RewriteKeeps, Zenon DEF WInv, ListInv, States
<1>2. CASE tk[Temp] # Null
  <2>1. /\ tickets' = Unlinked(Temp) /\ tk' = [tk EXCEPT ![Temp] = Null]
        /\ lost' = lost /\ pc' = "idle" /\ drift' = 0 /\ count' = count - 1 /\ cap' = cap
    BY <1>2, Zenon DEF Return
  <2>2. /\ ListInv' /\ Listed' = Listed \ {Temp}
        /\ tk'[Temp] = Null /\ \A u \in All : u # Temp => tk'[u] = tk[u]
    BY <1>0, <1>2, <2>1, UnlinkKeeps, Zenon DEF WInv
  <2>3. LostInv'
    BY <2>1, <2>2, TicketsAssumption, Zenon DEF WInv, LostInv, All
  <2>4. TempInv'
    BY <2>1, <2>2, Zenon DEF TempInv, States
  <2>5. Held' = Held
    BY <2>1, <2>2, Zenon DEF Held
  <2>6. CountInv' /\ CapInv'
    <3>1. Cardinality(Held) \in Nat
      BY HeldFinite, Zenon DEF WInv
    <3> QED BY <1>2, <2>1, <2>2, <2>5, <3>1, SMTT(20) DEF WInv, CountInv, CapInv
  <2>7. GoneInv'
    BY <2>1, <2>5, Zenon DEF WInv, GoneInv
  <2> QED BY <2>2, <2>3, <2>4, <2>6, <2>7, Zenon DEF WInv
<1> QED BY <1>1, <1>2, Zenon

\* A waiter as waiter_create makes it.
Fresh ==
  /\ tickets = <<>> /\ tk = [t \in All |-> Null] /\ count = 0 /\ cap = Null /\ lost = {}
  /\ pc = "idle" /\ drift \in Nat

\* It has the invariant.
LEMMA FreshWaiter == Fresh => WInv
<1> SUFFICES ASSUME Fresh PROVE WInv
  BY Zenon
<1> USE DEF Fresh
<1>1. tickets \in Seq(All) /\ DOMAIN tickets = {} /\ Listed = {}
  BY DEF Listed, ToSet
<1>2. ListInv
  BY <1>1, FS_EmptySet, Zenon DEF ListInv, Distinct
<1>3. Held = {} /\ Cardinality({}) = 0 /\ tk[Temp] = Null
  BY <1>1, FS_EmptySet, Zenon DEF Held, All
<1> QED BY <1>2, <1>3 DEF WInv, LostInv, TempInv, CountInv, CapInv, GoneInv, States

\* So has the one made after waiter_destroy.
LEMMA FreshAgain == Fresh' => WInv'
BY FreshWaiter, PTL

\* Every call and every step of waiter_wait keeps the invariant, if the loop is
\* at a ticket of the list.
LEMMA NextWInv ==
  ASSUME WInv, [Next]_vars, pc = "scan" /\ node # Null => node \in Listed
  PROVE  WInv'
<1>0. Temp \in All /\ lost \subseteq All /\ tk \in [All -> TicketType \cup {Null}]
  BY Zenon DEF All, WInv, LostInv, ListInv
<1>1. ASSUME Kept, UNCHANGED <<tickets, count, cap, lost>>, drift' \in Nat,
             pc' \in States, pc' = "idle" => pc = "idle"
      PROVE  WInv'
  <2>1. pc' = "idle" => tk[Temp] = Null
    BY <1>1, Zenon DEF WInv, TempInv
  <2> QED BY <1>0, <1>1, <2>1, RewriteKeeps, SMTT(20) DEF Kept
<1>2. tk' = tk => Kept
  BY <1>0, Zenon DEF Kept
<1>3. drift \in Nat /\ pc \in States
  BY Zenon DEF WInv, TempInv
<1>4. ASSUME NEW t \in Tickets PROVE AddFails(t) \/ Delete(t) => WInv'
  BY AddFailsStep, DeleteStep, Zenon
<1>5. ASSUME NEW t \in Tickets, NEW new \in NewTickets, Add(t, new) PROVE WInv'
  BY <1>5, AddStep, Zenon
<1>6. ASSUME NEW t \in Tickets, NEW new \in NewTickets, Set(t, new) PROVE WInv'
  <2>1. /\ tickets' = tickets /\ lost' = lost /\ count' = count /\ cap' = cap
        /\ pc' = pc /\ drift' = drift
    BY <1>6, Zenon DEF Set, local
  <2>2. /\ t \in All /\ t \notin lost \cup {Temp} /\ tk[t] # Null
        /\ tk' \in [All -> TicketType \cup {Null}]
        /\ tk'[t] # Null /\ \A u \in All : u # t => tk'[u] = tk[u]
    BY <1>6, SetFacts, RecordNotNull, Zenon
  <2>3. pc' = "idle" => tk[Temp] = Null
    BY <2>1, Zenon DEF WInv, TempInv
  <2> QED BY <1>0, <1>3, <2>1, <2>2, <2>3, RewriteKeeps, SMTT(20)
<1>7. ASSUME NEW t \in Tickets, Clear(t) PROVE WInv'
  BY <1>1, <1>3, <1>7, ClearKept, Zenon DEF Clear, local
<1>8. CASE Synchronize
  BY <1>1, <1>3, <1>8, SyncKept, Zenon DEF Synchronize, local
<1>9. CASE Wait
  <2>1. UNCHANGED <<tickets, tk, count>> /\ (NoPollset \/ Poll(tickets, tk))
    BY <1>9, Zenon DEF Wait, Begin
  <2>2. CASE NoPollset
    BY <1>1, <1>2, <1>3, <2>1, <2>2, Zenon DEF NoPollset, local, States
  <2>3. CASE Poll(tickets, tk)
    <3>1. drift' \in Nat /\ cap' = cap /\ lost' = lost /\ pc' \in {"poll", "scan"}
      BY <2>3 DEF Poll
    <3> QED BY <1>1, <1>2, <2>1, <3>1, Zenon DEF States
  <2> QED BY <2>1, <2>2, <2>3, Zenon
<1>10. ASSUME NEW new \in Timeouts, WaitTimeout(new) PROVE WInv'
  BY <1>10, WaitTimeoutStep, Zenon
<1>11. ASSUME NEW revents, PollReady(revents) PROVE WInv'
  BY <1>1, <1>2, <1>11, Zenon DEF PollReady, Scan, States
<1>12. CASE PollTimeout
  BY <1>1, <1>2, <1>12, Zenon DEF PollTimeout, Scan, States
<1>13. CASE PollFails \/ ScanEnds
  BY <1>13, ReturnStep, Zenon DEF PollFails, ScanEnds
<1>14. CASE ScanTicket
  <2>1. Kept
    BY <1>14, ScanKept, Zenon DEF ScanTicket
  <2> QED BY <1>1, <1>3, <1>14, <2>1, Zenon DEF ScanTicket, States
<1>15. CASE CallbackReturns
  BY <1>1, <1>2, <1>3, <1>15, Zenon DEF CallbackReturns, States
<1>16. CASE Tick
  <2>1. Kept
    BY <1>16, TickKept, Zenon
  <2>2. drift' \in Nat
    BY <1>3, <1>16 DEF Tick
  <2> QED BY <1>1, <1>3, <1>16, <2>1, <2>2, SMTT(20) DEF Tick
<1>17. CASE Destroy
  <2>1. Fresh'
    BY <1>3, <1>17, Zenon DEF Destroy, Fresh, local, All
  <2> QED BY <2>1, FreshAgain, Zenon
<1>18. CASE UNCHANGED vars
  BY <1>1, <1>2, <1>3, <1>18, SMTT(20) DEF vars
<1> QED BY <1>4, <1>5, <1>6, <1>7, <1>8, <1>9, <1>10, <1>11, <1>12, <1>13, <1>14, <1>15, <1>16, SMTT(20),
           <1>17, <1>18 DEF Next

-----------------------------------------------------------------------------
(* The loop over the tickets.                                              *)

\* A ticket the loop is done with: no timeout that was past at `now', or one
\* of 0 ms.
Settled(r, d) == r.type = "TIMEOUT" => Due(r, d) > 0 \/ r.arg = 0

\* The places of the list the loop is done with.
Passed(j) ==
  \/ node = Null
  \/ \E p \in DOMAIN tickets : tickets[p] = node /\ (j < p \/ (pc = "callback" /\ j = p))

ScanInv ==
  pc \in {"scan", "callback"} =>
    /\ node # Null => node \in Listed
    /\ pc = "callback" => node # Null
    /\ \A j \in DOMAIN tickets : Passed(j) => Settled(tk[tickets[j]], drift)

\* The elements of the list are tickets.
LEMMA ListElements ==
  ASSUME ListInv
  PROVE  /\ Len(tickets) \in Nat /\ DOMAIN tickets = 1 .. Len(tickets)
         /\ \A j \in DOMAIN tickets : /\ tickets[j] \in All /\ tickets[j] \in Listed
                                      /\ tickets[j] # Null
                                      /\ tk[tickets[j]] \in TicketType /\ tk[tickets[j]] # Null
<1>1. Len(tickets) \in Nat /\ DOMAIN tickets = 1 .. Len(tickets)
  BY LenProperties, Zenon DEF ListInv
<1>2. \A j \in DOMAIN tickets : tickets[j] \in All /\ tickets[j] \in Listed
  BY <1>1, ElementOfSeq, Zenon DEF ListInv, Listed, ToSet
<1> QED BY <1>1, <1>2, TicketsAssumption, Zenon DEF ListInv, All

\* The ticket after the one in place p.
LEMMA NextOfPlace ==
  ASSUME ListInv, NEW p \in DOMAIN tickets, NEW t, t = tickets[p]
  PROVE  NextOf(t) = IF p + 1 \in DOMAIN tickets THEN tickets[p + 1] ELSE Null
<1> DEFINE after == {i \in DOMAIN tickets : i > 1 /\ tickets[i - 1] = t}
<1>1. Len(tickets) \in Nat /\ DOMAIN tickets = 1 .. Len(tickets) /\ p \in Nat /\ p >= 1
  BY ListElements
<1>2. \A i \in after : i = p + 1
  <2> SUFFICES ASSUME NEW i \in after PROVE i = p + 1
    BY Zenon
  <2>1. i - 1 \in DOMAIN tickets
    BY <1>1
  <2>2. i - 1 = p
    BY <2>1, Zenon DEF ListInv, Distinct
  <2> QED BY <1>1, <2>2
<1>3. CASE p + 1 \in DOMAIN tickets
  <2>1. p + 1 \in after /\ after \in SUBSET Nat
    <3>1. (p + 1) - 1 = p /\ p + 1 > 1
      BY <1>1
    <3> QED BY <1>1, <1>3, <3>1
  <2>2. Min(after) = p + 1
    BY <1>2, <2>1, MinIsLeast, Zenon
  <2>3. NextOf(t) = tickets[Min(after)]
    BY <2>1, Zenon DEF NextOf
  <2> QED BY <1>3, <2>2, <2>3, Zenon
<1>4. CASE p + 1 \notin DOMAIN tickets
  <2>1. after = {}
    BY <1>2, <1>4, Zenon
  <2> QED BY <1>4, <2>1, Zenon DEF NextOf
<1> QED BY <1>3, <1>4, Zenon

\* The loop starts at the head of the list, with nothing done.
LEMMA LoopStarts ==
  ASSUME ListInv', pc' = "scan",
         IF tickets' = <<>> THEN node' = Null ELSE node' = Head(tickets')
  PROVE  ScanInv'
<1>1. CASE tickets' = <<>>
  BY <1>1 DEF ScanInv, Listed
<1>2. CASE tickets' # <<>>
  <2>1. tickets' \in Seq(All) /\ Distinct(tickets')
    BY Zenon DEF ListInv
  <2>2. /\ Len(tickets') \in Nat /\ DOMAIN tickets' = 1 .. Len(tickets')
        /\ Len(tickets') # 0 /\ Head(tickets') = tickets'[1]
    BY <1>2, <2>1, LenProperties, EmptySeq, SMTT(20)
  <2>3. 1 \in DOMAIN tickets' /\ node' = tickets'[1]
    BY <1>2, <2>2
  <2>4. node' \in Listed' /\ node' # Null
    <3>1. node' \in All
      BY <2>1, <2>2, <2>3, ElementOfSeq, SMTT(20)
    <3> QED BY <2>3, <3>1, TicketsAssumption, Zenon DEF Listed, ToSet, All
  <2>5. \A j \in DOMAIN tickets' : ~Passed(j)'
    <3> SUFFICES ASSUME NEW j \in DOMAIN tickets', NEW p \in DOMAIN tickets',
                        tickets'[p] = node', j < p
                 PROVE  FALSE
      BY <2>4, Zenon DEF Passed
    <3>1. p = 1
      BY <2>1, <2>3, Zenon DEF Distinct
    <3> QED BY <2>2, <3>1
  <2> QED BY <2>4, <2>5, Zenon DEF ScanInv
<1> QED BY <1>1, <1>2, Zenon

\* The loop goes on to the next ticket when the one it is at is settled.
LEMMA LoopAdvances ==
  ASSUME ListInv, UNCHANGED tickets, pc' = "scan",
         NEW p \in DOMAIN tickets, tickets[p] = node, node' = NextOf(node),
         \A j \in DOMAIN tickets : j <= p => Settled(tk'[tickets[j]], drift')
  PROVE  ScanInv'
<1>1. /\ Len(tickets) \in Nat /\ DOMAIN tickets = 1 .. Len(tickets)
      /\ \A j \in DOMAIN tickets : tickets[j] \in Listed /\ tickets[j] # Null
  BY ListElements, Zenon
<1>2. node' = IF p + 1 \in DOMAIN tickets THEN tickets[p + 1] ELSE Null
  BY NextOfPlace, Zenon
<1>3. CASE p + 1 \in DOMAIN tickets
  <2>1. node' = tickets[p + 1] /\ node' # Null /\ node' \in Listed'
    BY <1>1, <1>2, <1>3, Zenon DEF Listed
  <2>2. ASSUME NEW j \in DOMAIN tickets, Passed(j)' PROVE j <= p
    <3>1. PICK q \in DOMAIN tickets : tickets[q] = node' /\ j < q
      BY <2>1, <2>2, Zenon DEF Passed
    <3>2. q = p + 1
      BY <1>3, <2>1, <3>1, Zenon DEF ListInv, Distinct
    <3> QED BY <1>1, <3>1, <3>2, SMTT(20)
  <2> QED BY <2>1, <2>2, Zenon DEF ScanInv
<1>4. CASE p + 1 \notin DOMAIN tickets
  <2>1. \A j \in DOMAIN tickets : j <= p
    BY <1>1, <1>4, SMTT(20)
  <2> QED BY <1>2, <1>4, <2>1, Zenon DEF ScanInv
<1> QED BY <1>3, <1>4, Zenon

\* A step that leaves the loop where it is keeps what is settled, if it
\* unsettles no ticket the loop is done with.
LEMMA LoopStays ==
  ASSUME ScanInv, UNCHANGED <<tickets, pc, node>>,
         pc \in {"scan", "callback"} =>
           \A j \in DOMAIN tickets : Passed(j) => Settled(tk'[tickets[j]], drift')
  PROVE  ScanInv'
<1>1. \A j : Passed(j)' <=> Passed(j)
  BY Zenon DEF Passed
<1> QED BY <1>1, Zenon DEF ScanInv, Listed

\* A timeout that was settled stays so when its age and the loop's time grow
\* alike, or only the latter does; a new one is settled.
LEMMA SettledStays ==
  ASSUME NEW r \in TicketType, NEW s \in TicketType, NEW d \in Nat, NEW e \in Nat,
         s.type = r.type, s.arg = r.arg
  PROVE  /\ s.age = r.age /\ e = d /\ Settled(r, d) => Settled(s, e)
         /\ s.age \in {r.age, r.age + 1} /\ e = d + 1 /\ Settled(r, d) => Settled(s, e)
<1>1. CASE r.type = "TIMEOUT"
  <2>1. r.age \in Nat /\ s.age \in Nat /\ r.arg \in Nat
    BY <1>1, RecordParts, Zenon
  <2> QED BY <2>1 DEF Settled, Due
<1>2. CASE r.type # "TIMEOUT"
  BY <1>2, Zenon DEF Settled
<1> QED BY <1>1, <1>2, Zenon

\* A timeout that starts now is settled.
LEMMA NewIsSettled ==
  ASSUME NEW r \in TicketType, NEW d \in Nat, r.age <= d
  PROVE  Settled(r, d)
<1> SUFFICES ASSUME r.type = "TIMEOUT" PROVE Due(r, d) > 0 \/ r.arg = 0
  BY Zenon DEF Settled
<1>1. r.age \in Nat /\ r.arg \in Nat
  BY RecordParts, Zenon
<1> QED BY <1>1 DEF Due

\* waiter_ticket_delete from a callback unsettles nothing: the other tickets
\* keep their order.
LEMMA DeleteScan ==
  ASSUME WInv, ScanInv, NEW t \in Tickets, Delete(t)
  PROVE  ScanInv'
<1> SUFFICES ASSUME pc \in {"scan", "callback"} PROVE ScanInv'
  BY Zenon DEF Delete, ScanInv
<1>0. pc = "callback" /\ pc' = pc /\ node' = node /\ t # node /\ drift' = drift /\ node # Null
  BY Zenon DEF Delete, Called, local, ScanInv
<1>1. t \in All /\ tk[t] # Null
  BY Zenon DEF Delete, InUse, All
<1>2. /\ ListInv' /\ Listed' = Listed \ {t} /\ t \in Listed
      /\ \A u \in All : u # t => tk'[u] = tk[u]
  BY <1>1, UnlinkKeeps, Zenon DEF Delete, WInv
<1>3. node \in Listed'
  BY <1>0, <1>2, Zenon DEF ScanInv
<1>4. \A j, p \in DOMAIN tickets' : \E k, q \in DOMAIN tickets :
        /\ tickets'[j] = tickets[k] /\ tickets'[p] = tickets[q]
        /\ (j < p => k < q) /\ (j = p => k = q)
  <2>1. /\ tickets \in Seq(All) /\ Distinct(tickets) /\ t \in ToSet(tickets)
        /\ tickets' = RemoveAt(tickets, CHOOSE i \in DOMAIN tickets : tickets[i] = t)
    BY <1>2, Zenon DEF Delete, WInv, ListInv, Unlinked, Listed
  <2>2. InOrder(tickets', tickets)
    BY <2>1, UnlinkList, Zenon
  <2> QED BY <2>2 DEF InOrder
<1>5. ASSUME NEW j \in DOMAIN tickets', Passed(j)'
      PROVE  Settled(tk'[tickets'[j]], drift')
  <2>1. PICK p \in DOMAIN tickets' : tickets'[p] = node /\ (j < p \/ j = p)
    BY <1>0, <1>5, Zenon DEF Passed
  <2>2. PICK k, q \in DOMAIN tickets :
          /\ tickets'[j] = tickets[k] /\ tickets'[p] = tickets[q]
          /\ (j < p => k < q) /\ (j = p => k = q)
    BY <1>4, Zenon
  <2>3. Passed(k)
    BY <1>0, <2>1, <2>2, Zenon DEF Passed
  <2>4. Settled(tk[tickets[k]], drift)
    BY <1>0, <2>3, Zenon DEF ScanInv
  <2>5. tickets'[j] \in Listed'
    BY Zenon DEF Listed, ToSet
  <2>6. tickets[k] \in All /\ tickets[k] # t
    BY <1>2, <2>2, <2>5, ListElements, Zenon DEF WInv
  <2> QED BY <1>0, <1>2, <2>2, <2>4, <2>6, SMTT(20)
<1> QED BY <1>0, <1>3, <1>5, Zenon DEF ScanInv

\* Every call and every step of waiter_wait keeps it.
LEMMA NextScanInv ==
  ASSUME WInv, ScanInv, [Next]_vars, WInv'
  PROVE  ScanInv'
<1>0. ListInv /\ ListInv' /\ drift \in Nat
  BY Zenon DEF WInv, TempInv
<1>1. \A j \in DOMAIN tickets : tickets[j] \in All /\ tk[tickets[j]] \in TicketType /\ tk[tickets[j]] # Null
  BY <1>0, ListElements, Zenon
<1>2. ASSUME UNCHANGED <<tickets, pc, node, tk, drift>> PROVE ScanInv'
  <2>1. pc \in {"scan", "callback"} =>
          \A j \in DOMAIN tickets : Passed(j) => Settled(tk'[tickets[j]], drift')
    BY <1>2, Zenon DEF ScanInv
  <2> QED BY <1>2, <2>1, LoopStays, Zenon
<1>3. ASSUME Kept, UNCHANGED <<tickets, pc, node>>,
             \/ drift' = drift /\ \A u \in All : tk[u] # Null => tk'[u].age = tk[u].age
             \/ drift' = drift + 1 /\
                  \A u \in All : tk[u] # Null => tk'[u].age \in {tk[u].age, tk[u].age + 1}
      PROVE  ScanInv'
  <2>1. ASSUME pc \in {"scan", "callback"}, NEW j \in DOMAIN tickets, Passed(j)
        PROVE  Settled(tk'[tickets[j]], drift')
    <3>1. PICK t \in All : t = tickets[j] /\ tk[t] \in TicketType /\ tk[t] # Null
      BY <1>1, Zenon
    <3>2. tk'[t] \in TicketType /\ tk'[t].type = tk[t].type /\ tk'[t].arg = tk[t].arg
      BY <1>3, <3>1, Zenon DEF Kept
    <3>3. Settled(tk[t], drift)
      BY <2>1, <3>1, Zenon DEF ScanInv
    <3>4. drift' \in Nat
      BY <1>0, <1>3
    <3> QED BY <1>0, <1>3, <3>1, <3>2, <3>3, <3>4, SettledStays, SMTT(20)
  <2> QED BY <1>3, <2>1, LoopStays, Zenon
<1>4. ASSUME pc' \in {"idle", "poll", "crashed"} PROVE ScanInv'
  BY <1>4, Zenon DEF ScanInv
<1>5. ASSUME NEW t \in Tickets, NEW new \in NewTickets, Set(t, new) PROVE ScanInv'
  <2>1. /\ tk'[t] \in TicketType /\ tk'[t].age = 0
        /\ \A u \in All : u # t => tk'[u] = tk[u]
    BY <1>5, SetFacts, Zenon
  <2>2. UNCHANGED <<tickets, pc, node>> /\ drift' = drift
    BY <1>5, Zenon DEF Set, local
  <2>3. Settled(tk'[t], drift')
    BY <1>0, <2>1, <2>2, NewIsSettled, SMTT(20)
  <2>4. pc \in {"scan", "callback"} =>
          \A j \in DOMAIN tickets : Passed(j) => Settled(tk'[tickets[j]], drift')
    BY <1>1, <2>1, <2>2, <2>3, SMTT(20) DEF ScanInv
  <2> QED BY <2>2, <2>4, LoopStays, Zenon
<1>6. ASSUME NEW t \in Tickets, Clear(t) PROVE ScanInv'
  BY <1>3, <1>6, ClearKept, Zenon DEF Clear, local
<1>7. CASE Synchronize
  <2>1. UNCHANGED <<tickets, pc, node>> /\ drift' = drift /\ Kept
    BY <1>7, SyncKept, Zenon DEF Synchronize, local
  <2>2. ASSUME pc \in {"scan", "callback"}, NEW j \in DOMAIN tickets, Passed(j)
        PROVE  Settled(tk'[tickets[j]], drift')
    <3>1. PICK k \in DOMAIN tickets :
            /\ k <= j
            /\ tk[tickets[k]].type = tk[tickets[j]].type
            /\ tk[tickets[k]].type = "TIMEOUT" => tk[tickets[k]].arg = tk[tickets[j]].arg
            /\ tk'[tickets[j]].age = tk[tickets[k]].age
      BY <1>7, SyncKept, Zenon
    <3>2. Passed(k)
      <4>1. k \in Nat /\ j \in Nat /\ DOMAIN tickets \subseteq Nat
        BY <1>0, ListElements, SMTT(20)
      <4> QED BY <2>2, <3>1, <4>1, SMTT(20) DEF Passed
    <3>3. Settled(tk[tickets[k]], drift)
      BY <2>2, <3>2, Zenon DEF ScanInv
    <3>4. tk'[tickets[j]].type = tk[tickets[j]].type /\ tk'[tickets[j]].arg = tk[tickets[j]].arg
      BY <1>1, <2>1, Zenon DEF Kept
    <3> QED BY <2>1, <3>1, <3>3, <3>4, SMTT(20) DEF Settled, Due
  <2> QED BY <2>1, <2>2, LoopStays, Zenon
<1>8. ASSUME Begin(tickets', tk') PROVE ScanInv'
  <2>1. CASE pc' \in {"poll", "crashed"}
    BY <1>4, <2>1, Zenon
  <2>2. CASE pc' \notin {"poll", "crashed"}
    <3>1. /\ pc' = "scan" /\ node' = Head(tickets')
          /\ \E t \in ToSet(tickets') : tk'[t].type = "TIMEOUT"
      BY <1>8, <2>2, Zenon DEF Begin, NoPollset, Poll
    <3>2. tickets' # <<>>
      BY <3>1 DEF ToSet
    <3> QED BY <1>0, <3>1, <3>2, LoopStarts, SMTT(20)
  <2> QED BY <2>1, <2>2, Zenon
<1>9. ASSUME NEW result, Scan(result) PROVE ScanInv'
  BY <1>0, <1>9, LoopStarts, Zenon DEF Scan
<1>10. CASE ScanTicket
  <2>1. PICK p \in DOMAIN tickets : tickets[p] = node
    BY <1>10, Zenon DEF ScanTicket, ScanInv, Listed, ToSet
  <2>2. node \in Listed /\ node \in All /\ tk[node] \in TicketType /\ UNCHANGED tickets /\ drift' = drift
    BY <1>1, <1>10, <2>1, Zenon DEF ScanTicket, Listed, ToSet
  <2>3. /\ Kept /\ \A u \in All : u # node => tk'[u] = tk[u]
        /\ tk'[node].age = IF Past(tk[node]) THEN drift ELSE tk[node].age
    BY <1>10, <2>2, ScanKept, Zenon
  <2>4. tk'[node] \in TicketType /\ tk'[node].type = tk[node].type /\ tk'[node].arg = tk[node].arg
    BY <2>2, <2>3, RecordNotNull, Zenon DEF Kept
  <2>5. Settled(tk'[node], drift')
    <3>1. CASE Past(tk[node])
      BY <1>0, <2>2, <2>3, <2>4, <3>1, NewIsSettled, SMTT(20)
    <3>2. CASE ~Past(tk[node])
      <4>1. Settled(tk[node], drift)
        <5> SUFFICES ASSUME tk[node].type = "TIMEOUT" PROVE Due(tk[node], drift) > 0
          BY Zenon DEF Settled
        <5>1. ~(Due(tk[node], drift) <= 0)
          BY <3>2, Zenon DEF Past
        <5>2. Due(tk[node], drift) \in Int
          BY <1>0, <2>2, RecordParts, SMTT(20) DEF Due
        <5> QED BY <5>1, <5>2
      <4> QED BY <1>0, <2>2, <2>3, <2>4, <3>2, <4>1, SettledStays, SMTT(20)
    <3> QED BY <3>1, <3>2, Zenon
  <2>6. \A j \in DOMAIN tickets : j <= p => Settled(tk'[tickets[j]], drift')
    <3> SUFFICES ASSUME NEW j \in DOMAIN tickets, j <= p, j # p
                 PROVE  Settled(tk'[tickets[j]], drift')
      BY <2>1, <2>5, Zenon
    <3>1. j < p /\ tickets[j] # node
      <4>1. DOMAIN tickets \subseteq Nat
        BY <1>0, ListElements
      <4> QED BY <2>1, <4>1, <1>0, SMTT(20) DEF ListInv, Distinct
    <3>2. Passed(j)
      BY <2>1, <3>1, Zenon DEF Passed
    <3>3. Settled(tk[tickets[j]], drift)
      BY <1>10, <3>2, Zenon DEF ScanTicket, ScanInv
    <3> QED BY <1>1, <2>2, <2>3, <3>1, <3>3, SMTT(20)
  <2>7. CASE pc' = "scan"
    <3>1. node' = NextOf(node)
      BY <1>10, <2>7, Zenon DEF ScanTicket
    <3> QED BY <1>0, <2>1, <2>2, <2>6, <2>7, <3>1, LoopAdvances, SMTT(20)
  <2>8. CASE pc' # "scan"
    <3>1. pc' = "callback" /\ node' = node /\ node # Null
      BY <1>10, <2>8, Zenon DEF ScanTicket
    <3>2. \A j \in DOMAIN tickets : Passed(j)' => j <= p
      <4> SUFFICES ASSUME NEW j \in DOMAIN tickets, NEW q \in DOMAIN tickets, tickets[q] = node,
                          j < q \/ j = q
                   PROVE  j <= p
        BY <2>2, <3>1, Zenon DEF Passed
      <4>1. q = p
        BY <1>0, <2>1, Zenon DEF ListInv, Distinct
      <4>2. DOMAIN tickets \subseteq Nat
        BY <1>0, ListElements, SMTT(20)
      <4> QED BY <4>1, <4>2
    <3> QED BY <2>2, <2>6, <3>1, <3>2, SMTT(20) DEF ScanInv, Listed
  <2> QED BY <2>7, <2>8, Zenon
<1>11. CASE CallbackReturns
  <2>1. /\ pc = "callback" /\ pc' = "scan" /\ node' = NextOf(node)
        /\ UNCHANGED <<tickets, tk, drift>> /\ node # Null
    BY <1>11, Zenon DEF CallbackReturns, ScanInv
  <2>2. PICK p \in DOMAIN tickets : tickets[p] = node
    BY <2>1, Zenon DEF ScanInv, Listed, ToSet
  <2>3. \A j \in DOMAIN tickets : j <= p => Settled(tk'[tickets[j]], drift')
    <3> SUFFICES ASSUME NEW j \in DOMAIN tickets, j <= p PROVE Settled(tk[tickets[j]], drift)
      BY <2>1, Zenon
    <3>1. j < p \/ j = p
      <4>1. DOMAIN tickets \subseteq Nat
        BY <1>0, ListElements
      <4> QED BY <4>1
    <3>2. Passed(j)
      BY <2>1, <2>2, <3>1, Zenon DEF Passed
    <3> QED BY <2>1, <3>2, Zenon DEF ScanInv
  <2> QED BY <1>0, <2>1, <2>2, <2>3, LoopAdvances, SMTT(20)
<1>12. CASE Tick
  <2>1. /\ Kept /\ UNCHANGED <<tickets, pc, node>>
        /\ \A u \in All : tk[u] # Null => tk'[u].age \in {tk[u].age, tk[u].age + 1}
    BY <1>12, TickKept, Zenon DEF Tick
  <2>2. CASE pc \in {"scan", "callback"}
    <3>1. drift' = drift + 1
      BY <1>12, <2>2, Zenon DEF Tick
    <3> QED BY <1>3, <2>1, <3>1, Zenon
  <2>3. CASE pc \notin {"scan", "callback"}
    BY <2>1, <2>3, Zenon DEF ScanInv
  <2> QED BY <2>2, <2>3, Zenon
<1>13. ASSUME NEW t \in Tickets PROVE AddFails(t) => ScanInv'
  BY <1>4, Zenon DEF AddFails
<1>14. ASSUME NEW t \in Tickets, NEW new \in NewTickets PROVE Add(t, new) => ScanInv'
  BY <1>4, Zenon DEF Add
<1>15. CASE PollFails \/ ScanEnds \/ Destroy
  BY <1>4, <1>15, Zenon DEF PollFails, ScanEnds, Return, Destroy
<1>16. CASE Wait
  BY <1>8, <1>16, Zenon DEF Wait
<1>17. ASSUME NEW new \in Timeouts, WaitTimeout(new) PROVE ScanInv'
  BY <1>8, <1>17, Zenon DEF WaitTimeout
<1>18. ASSUME NEW revents, PollReady(revents) PROVE ScanInv'
  BY <1>9, <1>18, Zenon DEF PollReady
<1>19. CASE PollTimeout
  BY <1>9, <1>19, Zenon DEF PollTimeout
<1>20. CASE UNCHANGED vars
  BY <1>2, <1>20, Zenon DEF vars
<1> QED BY <1>5, <1>6, <1>7, <1>10, <1>11, <1>12, <1>13, <1>14, <1>15, <1>16, <1>17, <1>18, <1>19, SMTT(20),
           <1>20, DeleteScan DEF Next

-----------------------------------------------------------------------------
\* Both invariants hold of every waiter.
THEOREM WaiterInvariant == Spec => [](WInv /\ ScanInv)
<1>1. Init => WInv /\ ScanInv
  <2> SUFFICES ASSUME Init PROVE WInv /\ ScanInv
    BY Zenon
  <2>1. Fresh
    BY Zenon DEF Init, Fresh, All
  <2> QED BY <2>1, FreshWaiter, Zenon DEF Init, ScanInv
<1>2. WInv /\ ScanInv /\ [Next]_vars => WInv' /\ ScanInv'
  <2> SUFFICES ASSUME WInv, ScanInv, [Next]_vars PROVE WInv' /\ ScanInv'
    BY Zenon
  <2>1. pc = "scan" /\ node # Null => node \in Listed
    BY Zenon DEF ScanInv
  <2>2. WInv'
    BY <2>1, NextWInv, Zenon
  <2> QED BY <2>2, NextScanInv, Zenon
<1> QED BY <1>1, <1>2, PTL DEF Spec

\* A crash is waiter_wait's, for want of a pollset.
LEMMA NextCrash ==
  ASSUME pc = "crashed" => cap = Null, [Next]_vars
  PROVE  pc' = "crashed" => cap' = Null
<1>1. ASSUME NEW t \in Tickets PROVE AddFails(t) \/ Delete(t) \/ Clear(t) => pc' # "crashed"
  BY Zenon DEF AddFails, Delete, Clear, Called
<1>2. ASSUME NEW t \in Tickets, NEW new \in NewTickets
      PROVE  Add(t, new) \/ Set(t, new) => pc' # "crashed"
  BY Zenon DEF Add, Set, Called
<1>3. Synchronize \/ PollTimeout \/ PollFails \/ ScanTicket \/ CallbackReturns \/ ScanEnds \/ Destroy
        => pc' # "crashed"
  BY Zenon DEF Synchronize, PollTimeout, PollFails, ScanTicket, CallbackReturns, ScanEnds,
               Destroy, Called, Scan, Return
<1>4. ASSUME NEW revents PROVE PollReady(revents) => pc' # "crashed"
  BY Zenon DEF PollReady, Scan
<1>5. ASSUME NEW ts, NEW s, Begin(ts, s) PROVE pc' = "crashed" => cap' = Null
  BY <1>5, Zenon DEF Begin, NoPollset, Poll
<1>6. Wait => (pc' = "crashed" => cap' = Null)
  BY <1>5, Zenon DEF Wait
<1>7. ASSUME NEW new \in Timeouts PROVE WaitTimeout(new) => (pc' = "crashed" => cap' = Null)
  BY <1>5, Zenon DEF WaitTimeout
<1>8. Tick \/ UNCHANGED vars => pc' = pc /\ cap' = cap
  BY Zenon DEF Tick, vars
<1> QED BY <1>1, <1>2, <1>3, <1>4, <1>6, <1>7, <1>8, Zenon DEF Next

\* The pollset has room for every descriptor waiter_wait puts into it: the
\* descriptors are tickets callers hold, and waiter_add_null makes room for
\* the next whole chunk of those.  It is missing, and waiter_wait crashes, only
\* without tickets or after a waiter_add_null that failed.
THEOREM WaiterPollsetFits == Spec => []PollsetFits
<1>1. WInv /\ cap # Null => Cardinality(OfType("FD")) <= cap
  <2> SUFFICES ASSUME WInv, cap # Null PROVE Cardinality(OfType("FD")) <= cap
    BY Zenon
  <2>1. Temp \in All /\ lost \subseteq Listed
    BY Zenon DEF All, WInv, LostInv
  <2>2. OfType("FD") \subseteq Held
    <3> SUFFICES ASSUME NEW t \in Listed, tk[t].type = "FD" PROVE t \in Held
      BY Zenon DEF OfType, Listed
    <3>1. t \notin lost
      BY Zenon DEF WInv, LostInv
    <3>2. t # Temp
      BY <2>1, Zenon DEF WInv, TempInv, ListInv
    <3> QED BY <3>1, <3>2, Zenon DEF Held
  <2>3. IsFiniteSet(Held) /\ Cardinality(Held) \in Nat
    BY HeldFinite, Zenon DEF WInv
  <2>4. Cardinality(OfType("FD")) <= Cardinality(Held) /\ Cardinality(OfType("FD")) \in Nat
    BY <2>2, <2>3, FS_Subset, FS_CardinalityType, SMTT(20)
  <2> QED BY <2>3, <2>4 DEF WInv, CapInv
<1>2. WInv /\ cap = Null => ToSet(tickets) \subseteq {Temp} \/ lost # {}
  BY Zenon DEF WInv, GoneInv, Held, Listed
<1>3. Init => (pc = "crashed" => cap = Null)
  BY Zenon DEF Init
<1>4. (pc = "crashed" => cap = Null) /\ [Next]_vars => (pc = "crashed" => cap = Null)'
  BY NextCrash, Zenon
<1>5. WInv /\ ScanInv /\ (pc = "crashed" => cap = Null) => PollsetFits
  BY <1>1, <1>2, Zenon DEF PollsetFits
<1> QED BY <1>3, <1>4, <1>5, WaiterInvariant, PTL DEF Spec

\* When the loop of waiter_wait is over, no timeout that was past when it began
\* is left, whatever the callbacks deleted, set, cleared or synchronized; one
\* of 0 ms is due again at once.
THEOREM WaiterNoTimerLeftDue == Spec => []NoTimerLeftDue
<1>1. WInv /\ ScanInv => NoTimerLeftDue
  <2> SUFFICES ASSUME WInv, ScanInv, pc = "scan", node = Null, NEW t \in OfType("TIMEOUT")
               PROVE  Due(tk[t], drift) > 0 \/ tk[t].arg = 0
    BY Zenon DEF NoTimerLeftDue
  <2>1. PICK j \in DOMAIN tickets : tickets[j] = t
    BY Zenon DEF OfType, ToSet
  <2>2. Settled(tk[t], drift)
    BY <2>1, Zenon DEF ScanInv, Passed
  <2> QED BY <2>2, Zenon DEF Settled, OfType
<1> QED BY <1>1, WaiterInvariant, PTL
=============================================================================
