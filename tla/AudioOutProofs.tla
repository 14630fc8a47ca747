--------------------------- MODULE AudioOutProofs ----------------------------
(***************************************************************************)
(* Proofs about AudioOut, for any number of threads and streams and any    *)
(* bounds.                                                                 *)
(*                                                                         *)
(* LockInv says who holds which mutex from where each thread is in its     *)
(* call; with it no two threads can wait for each other.  OutInv says that *)
(* a stream out of standby has an open PCM, and CallInv, for each thread,  *)
(* that a write in the PCM keeps its stream out of standby, and that a     *)
(* framework that does not overlap position queries with other calls sees  *)
(* the pointer it tested stay (SafeCall, Apart).  OwnInv ties every open   *)
(* PCM to a stream out of standby, and CountInv what each stream, write    *)
(* and query has counted to the frames that reached the buffers.           *)
(***************************************************************************)
EXTENDS AudioOut, FiniteSetTheorems, TLAPS

Places == {"", "dev", "out", "body", "pcm", "stamp", "compute"}

CallType ==
  [op : {"none", "standby", "route", "write", "position"}, at : Places, s : Streams \union {NoStream},
   pcm : Int, n : Nat, left : Nat, avail : Int]

\* The places of a call that takes mutexes, and of a query.
CallOK(c) ==
  /\ c.at \in {"stamp", "compute"} => c.op = "position" /\ c.s \in Streams
  /\ c.at \in {"dev", "out", "body", "pcm"} => c.op \in {"standby", "route", "write"} /\ c.s \in Streams
  /\ c.at = "" => c = Idle

LockInv ==
  /\ call \in [Threads -> CallType]
  /\ \A t \in Threads : CallOK(call[t])
  /\ devLock \in Threads \union {NoThread}
  /\ outLock \in [Streams -> Threads \union {NoThread}]
  /\ \A t \in Threads : (devLock = t) <=> (call[t].at \in {"out", "body"})
  /\ \A t \in Threads, s \in Streams :
       (outLock[s] = t) <=> (call[t].s = s /\ call[t].at \in {"body", "pcm"})

\* Facts about an idle thread.
LEMMA IdleFacts ==
  /\ Idle.at = "" /\ Idle.op = "none" /\ Idle.s = NoStream
  /\ Idle.pcm = 0 /\ Idle.n = 0 /\ Idle.left = 0 /\ Idle.avail = 0
  /\ Idle \in CallType /\ CallOK(Idle)
BY DEF Idle, Called, CallType, CallOK, Places, NullPcm

\* What a step does to one thread's call, the mutexes left alone.
LEMMA MovesFreely ==
  ASSUME LockInv, NEW t \in Threads, NEW c \in CallType, CallOK(c), call' = [call EXCEPT ![t] = c],
         UNCHANGED <<devLock, outLock>>,
         (c.at \in {"out", "body"}) <=> (call[t].at \in {"out", "body"}),
         (c.at \in {"body", "pcm"}) <=> (call[t].at \in {"body", "pcm"}),
         c.at \in {"body", "pcm"} => c.s = call[t].s
  PROVE  LockInv'
BY DEF LockInv

\* A call begins: the device mutex is wanted.
LEMMA BeginStep ==
  ASSUME LockInv, NEW t \in Threads, NEW s \in Streams, NEW n \in Nat,
         NEW op \in {"standby", "route", "write"}, Begin(t, s, op, n)
  PROVE  LockInv'
<1> DEFINE c == Called(op, "dev", s, 0, n)
<1>2. call' = [call EXCEPT ![t] = c] /\ UNCHANGED <<devLock, outLock>> /\ call[t] = Idle
  BY Zenon DEF Begin, MayCall, LockOrder, NullPcm
<1>3. c \in CallType /\ CallOK(c) /\ c.at = "dev"
  BY DEF Called, CallType, CallOK, Places
<1> HIDE DEF c
<1>4. c.at \notin {"out", "body", "pcm"} /\ call[t].at \notin {"out", "body", "pcm"}
  BY <1>2, <1>3, IdleFacts, Zenon
<1>5. LockInv /\ c \in CallType /\ CallOK(c) /\ call' = [call EXCEPT ![t] = c]
  BY <1>2, <1>3, Zenon
<1> QED BY <1>2, <1>4, <1>5, MovesFreely, Zenon

\* A thread gets the mutex it wants, the device's first.
LEMMA LockedStep == ASSUME LockInv, NEW t \in Threads, Lock(t) PROVE LockInv'
<1> DEFINE c(w) == [call[t] EXCEPT !.at = w]
<1>1. call[t] \in CallType /\ CallOK(call[t]) /\ call[t].op \in {"standby", "route", "write"}
      /\ call[t].s \in Streams /\ call[t].at \in {"dev", "out"}
  BY Zenon DEF LockInv, CallOK, Lock
<1>2. \A w \in {"out", "body"} : /\ c(w) \in CallType /\ c(w).at = w /\ c(w).s = call[t].s
                                 /\ c(w).op = call[t].op /\ CallOK(c(w))
  BY <1>1, Zenon DEF CallType, CallOK, Places
<1>3. After(t, "dev") = "out" /\ After(t, "out") = "body"
  BY Zenon DEF After, LockOrder
<1>4. CASE call[t].at = "dev" /\ devLock = NoThread /\ devLock' = t /\ UNCHANGED outLock
  <2>1. call' = [call EXCEPT ![t] = c("out")]
    BY <1>3, <1>4, Zenon DEF Lock
  <2>2. PICK x \in CallType : x = c("out")
    BY <1>2, Zenon
  <2> QED BY <1>2, <1>4, <2>1, <2>2, AudioAssumption DEF LockInv
<1>5. CASE /\ call[t].at = "out" /\ outLock[call[t].s] = NoThread
           /\ outLock' = [outLock EXCEPT ![call[t].s] = t] /\ UNCHANGED devLock
  <2>1. call' = [call EXCEPT ![t] = c("body")]
    BY <1>3, <1>5, Zenon DEF Lock
  <2>2. PICK x \in CallType : x = c("body")
    BY <1>2, Zenon
  <2> QED BY <1>1, <1>2, <1>5, <2>1, <2>2, AudioAssumption DEF LockInv
<1> QED BY <1>4, <1>5, Zenon DEF Lock

\* A call returns and releases both mutexes.
LEMMA UnlockedStep ==
  ASSUME LockInv, NEW t \in Threads, call[t].at = "body", Unlock(t, call[t].s)
  PROVE  LockInv'
<1>1. devLock = t /\ call[t].s \in Streams /\ outLock[call[t].s] = t
  <2>1. devLock = t /\ call[t].s \in Streams
    BY Zenon DEF LockInv, CallOK
  <2> QED BY <2>1 DEF LockInv
<1>2. devLock' = NoThread /\ outLock' = [outLock EXCEPT ![call[t].s] = NoThread]
      /\ call' = [call EXCEPT ![t] = Idle]
  BY Zenon DEF Unlock
<1>3. call' \in [Threads -> CallType] /\ (\A u \in Threads : CallOK(call'[u]))
      /\ devLock' \in Threads \union {NoThread} /\ outLock' \in [Streams -> Threads \union {NoThread}]
  BY <1>2, IdleFacts, ZenonT(30) DEF LockInv
<1>0. call'[t] = Idle /\ (\A u \in Threads \ {t} : call'[u] = call[u])
  BY <1>2 DEF LockInv
<1>4. ASSUME NEW u \in Threads PROVE (devLock' = u) <=> (call'[u].at \in {"out", "body"})
  <2>1. CASE u = t
    BY <1>0, <1>2, <2>1, IdleFacts, AudioAssumption, Zenon
  <2>2. CASE u # t
    BY <1>1, <1>2, <2>2, AudioAssumption DEF LockInv
  <2> QED BY <2>1, <2>2, Zenon
<1>5. ASSUME NEW u \in Threads, NEW s \in Streams
      PROVE  (outLock'[s] = u) <=> (call'[u].s = s /\ call'[u].at \in {"body", "pcm"})
  <2>1. CASE u = t
    <3>1. call'[u].at = ""
      BY <1>0, <2>1, IdleFacts, Zenon
    <3>2. outLock'[s] # t
      BY <1>1, <1>2, AudioAssumption DEF LockInv
    <3> QED BY <2>1, <3>1, <3>2, Zenon
  <2>2. CASE u # t
    BY <1>1, <1>2, <2>2, AudioAssumption DEF LockInv
  <2> QED BY <2>1, <2>2, Zenon
<1> QED BY <1>3, <1>4, <1>5, Zenon DEF LockInv

\* A write goes on to the PCM with its stream's mutex alone.
LEMMA ToPcmStep ==
  ASSUME LockInv, NEW t \in Threads, call[t].at = "body", ToPcm(t)
  PROVE  LockInv'
<1> DEFINE c == [call[t] EXCEPT !.at = "pcm"]
<1>1. devLock = t /\ call[t] \in CallType /\ CallOK(call[t]) /\ call[t].s \in Streams
  BY Zenon DEF LockInv, CallOK
<1>2. c \in CallType /\ c.at = "pcm" /\ c.s = call[t].s /\ CallOK(c)
  BY <1>1, Zenon DEF CallType, CallOK, Places
<1>3. devLock' = NoThread /\ outLock' = outLock /\ call' = [call EXCEPT ![t] = c]
  BY Zenon DEF ToPcm
<1> HIDE DEF c
<1> QED BY <1>1, <1>2, <1>3, AudioAssumption DEF LockInv

\* A write returns and releases its stream's mutex.
LEMMA WriteReturnsStep ==
  ASSUME LockInv, NEW t \in Threads, NEW ok, WriteReturns(t, ok)
  PROVE  LockInv'
<1>1. call[t].at = "pcm" /\ call[t].s \in Streams /\ outLock[call[t].s] = t
  BY Zenon DEF LockInv, CallOK, WriteReturns
<1>2. devLock' = devLock /\ outLock' = [outLock EXCEPT ![call[t].s] = NoThread]
      /\ call' = [call EXCEPT ![t] = Idle]
  BY Zenon DEF WriteReturns
<1>3. call' \in [Threads -> CallType] /\ (\A u \in Threads : CallOK(call'[u]))
      /\ outLock' \in [Streams -> Threads \union {NoThread}]
  BY <1>2, IdleFacts, ZenonT(30) DEF LockInv
<1>0. call'[t] = Idle /\ (\A u \in Threads \ {t} : call'[u] = call[u])
  BY <1>2 DEF LockInv
<1>4. ASSUME NEW u \in Threads PROVE (devLock' = u) <=> (call'[u].at \in {"out", "body"})
  <2>1. CASE u = t
    BY <1>0, <1>1, <1>2, <2>1, IdleFacts, Zenon DEF LockInv
  <2>2. CASE u # t
    BY <1>0, <1>2, <2>2 DEF LockInv
  <2> QED BY <2>1, <2>2, Zenon
<1>5. ASSUME NEW u \in Threads, NEW s \in Streams
      PROVE  (outLock'[s] = u) <=> (call'[u].s = s /\ call'[u].at \in {"body", "pcm"})
  <2>1. CASE u = t
    <3>1. call'[u].at = ""
      BY <1>0, <2>1, IdleFacts, Zenon
    <3>2. outLock'[s] # t
      BY <1>1, <1>2, AudioAssumption DEF LockInv
    <3> QED BY <2>1, <3>1, <3>2, Zenon
  <2>2. CASE u # t
    BY <1>1, <1>2, <2>2, AudioAssumption DEF LockInv
  <2> QED BY <2>1, <2>2, Zenon
<1> QED BY <1>2, <1>3, <1>4, <1>5, Zenon DEF LockInv

-----------------------------------------------------------------------------
(* The streams and the PCMs keep their types.                              *)

OutType == [open : BOOLEAN, standby : BOOLEAN, unavailable : BOOLEAN, pcm : Int, frames : Nat]

PcmType == [open : BOOLEAN, queue : Int]

PcmsTyped ==
  /\ \E n \in Nat : DOMAIN pcms = 1 .. n
  /\ pcms \in [DOMAIN pcms -> PcmType]

TypeInv == out \in [Streams -> OutType] /\ PcmsTyped

\* A stream that is closed, and one just opened.
LEMMA ClosedTyped == Closed \in OutType /\ [Closed EXCEPT !.open = TRUE] \in OutType
<1>1. Closed \in OutType
  BY DEF Closed, OutType, NullPcm
<1>2. \A c \in OutType : [c EXCEPT !.open = TRUE] \in OutType
  BY Zenon DEF OutType
<1> QED BY <1>1, <1>2, Zenon

\* A query that has its timestamp.
LEMMA StampedTyped ==
  ASSUME NEW c \in CallType, NEW a \in Int,
         NEW d, d = [c EXCEPT !.at = "compute", !.avail = a, !.pcm = NullPcm]
  PROVE  d \in CallType /\ d.at = "compute" /\ d.op = c.op /\ d.s = c.s
<1> DEFINE x == [c EXCEPT !.at = "compute"]
           y == [x EXCEPT !.avail = a]
           z == [y EXCEPT !.pcm = NullPcm]
<1>1. x \in CallType /\ x.at = "compute" /\ x.op = c.op /\ x.s = c.s
  BY Zenon DEF CallType, Places
<1>5. d = [x EXCEPT !.avail = a, !.pcm = NullPcm]
  BY Zenon
<1> HIDE DEF x
<1>2. y \in CallType /\ y.at = x.at /\ y.op = x.op /\ y.s = x.s
  BY <1>1, Zenon DEF CallType
<1>6. d = [y EXCEPT !.pcm = NullPcm]
  BY <1>5, Zenon
<1> HIDE DEF y
<1>3. z \in CallType /\ z.at = y.at /\ z.op = y.op /\ z.s = y.s
  BY <1>2 DEF CallType, NullPcm
<1> QED BY <1>1, <1>2, <1>3, <1>6, Zenon

\* do_output_standby, of a stream that is not in standby.
LEMMA StandbyStep ==
  ASSUME TypeInv, NEW s \in Streams, do_output_standby(s), ~out[s].standby
  PROVE  /\ out' \in [Streams -> OutType]
         /\ out'[s].pcm = NullPcm /\ out'[s].standby /\ out'[s].open = out[s].open
         /\ \A u \in Streams \ {s} : out'[u] = out[u]
BY DEF do_output_standby, TypeInv, OutType, NullPcm

\* start_output_stream opens a PCM.
LEMMA OpenStep ==
  ASSUME PcmsTyped, NEW p \in PcmIds, pcm_open_ok(p, pcms')
  PROVE  /\ PcmsTyped' /\ p \notin DOMAIN pcms /\ p > 0 /\ IsOpen(p)'
         /\ \A q : IsOpen(q) => IsOpen(q)'
<1>1. PICK n \in Nat : DOMAIN pcms = 1 .. n
  BY Zenon DEF PcmsTyped
<1>2. Cardinality(DOMAIN pcms) = n
  BY <1>1, FS_Interval
<1>3. p = n + 1 /\ p \notin DOMAIN pcms /\ DOMAIN pcms \union {p} = 1 .. (n + 1)
  BY <1>1, <1>2 DEF pcm_open_ok
<1>4. pcms' = [q \in DOMAIN pcms \union {p} |-> IF q = p THEN [open |-> TRUE, queue |-> 0] ELSE pcms[q]]
  BY Zenon DEF pcm_open_ok
<1>5. DOMAIN pcms' = 1 .. (n + 1) /\ pcms' \in [DOMAIN pcms' -> PcmType]
  BY <1>3, <1>4 DEF PcmsTyped, PcmType
<1>6. PcmsTyped'
  BY <1>5 DEF PcmsTyped
<1>7. IsOpen(p)' /\ \A q : IsOpen(q) => IsOpen(q)'
  BY <1>3, <1>4, Zenon DEF IsOpen
<1> QED BY <1>3, <1>6, <1>7

\* pcm_close closes one PCM.
LEMMA CloseStep ==
  ASSUME PcmsTyped, NEW p, pcms' = pcm_close(p)
  PROVE  PcmsTyped' /\ \A q : q # p /\ IsOpen(q) => IsOpen(q)'
<1>1. DOMAIN pcms' = DOMAIN pcms /\ pcms' \in [DOMAIN pcms' -> PcmType]
  BY DEF pcm_close, PcmsTyped, PcmType
<1>2. \A q : q # p /\ IsOpen(q) => IsOpen(q)'
  BY Zenon DEF pcm_close, IsOpen
<1> QED BY <1>1, <1>2, Zenon DEF PcmsTyped

\* Frames come into a buffer and leave it.
LEMMA QueueStep ==
  ASSUME PcmsTyped, NEW p, IsOpen(p), NEW n \in Int,
         pcms' = [pcms EXCEPT ![p].queue = n]
  PROVE  PcmsTyped' /\ \A q : IsOpen(q) => IsOpen(q)'
<1>1. p \in DOMAIN pcms /\ pcms[p] \in PcmType
  BY Zenon DEF IsOpen, PcmsTyped
<1>2. DOMAIN pcms' = DOMAIN pcms /\ pcms' \in [DOMAIN pcms' -> PcmType]
  BY <1>1, Zenon DEF PcmsTyped, PcmType
<1>3. pcms'[p].open = pcms[p].open /\ \A q \in DOMAIN pcms : q # p => pcms'[q] = pcms[q]
  BY <1>1, Zenon DEF PcmType
<1>4. \A q : IsOpen(q) => IsOpen(q)'
  BY <1>2, <1>3, Zenon DEF IsOpen
<1> QED BY <1>2, <1>4, Zenon DEF PcmsTyped

\* Every step keeps the types of the streams and the PCMs.
LEMMA TypeStep == ASSUME LockInv, TypeInv, [Next]_vars PROVE TypeInv'
<1>1. ASSUME out' = out, pcms' = pcms PROVE TypeInv'
  BY <1>1, Zenon DEF TypeInv, PcmsTyped
<1>2. ASSUME NEW s \in Streams, adev_open_output_stream(s) \/ adev_close_output_stream(s) PROVE TypeInv'
  <2>1. Closed \in OutType /\ [Closed EXCEPT !.open = TRUE] \in OutType
    BY ClosedTyped, Zenon
  <2>2. out' \in [Streams -> OutType] /\ pcms' = pcms
    BY <1>2, <2>1, Zenon DEF adev_open_output_stream, adev_close_output_stream, TypeInv
  <2> QED BY <2>2, Zenon DEF TypeInv, PcmsTyped
<1>3. ASSUME NEW p \in PcmIds, Play(p) PROVE TypeInv'
  <2>1. IsOpen(p) /\ out' = out /\ pcms' = [pcms EXCEPT ![p].queue = pcms[p].queue - 1]
    BY <1>3, Zenon DEF Play
  <2>2. pcms[p].queue - 1 \in Int
    BY <2>1 DEF TypeInv, PcmsTyped, PcmType, IsOpen
  <2>3. PcmsTyped'
    BY <2>1, <2>2, QueueStep, Zenon DEF TypeInv
  <2> QED BY <2>1, <2>3, Zenon DEF TypeInv
<1>4. ASSUME NEW t \in Threads, WriteFrame(t) PROVE TypeInv'
  <2> DEFINE p == out[call[t].s].pcm
  <2>1. IsOpen(p) /\ out' = out /\ pcms' = [pcms EXCEPT ![p].queue = pcms[p].queue + 1]
    BY <1>4, Zenon DEF WriteFrame
  <2> HIDE DEF p
  <2>2. pcms[p].queue + 1 \in Int
    BY <2>1 DEF TypeInv, PcmsTyped, PcmType, IsOpen
  <2>3. PcmsTyped'
    BY <2>1, <2>2, QueueStep, Zenon DEF TypeInv
  <2> QED BY <2>1, <2>3, Zenon DEF TypeInv
<1>5. ASSUME NEW t \in Threads, NEW ok \in BOOLEAN, WriteReturns(t, ok) PROVE TypeInv'
  <2>1. call[t].s \in Streams /\ call[t].n \in Nat
    BY <1>5, Zenon DEF WriteReturns, LockInv, CallOK, CallType
  <2>2. out' \in [Streams -> OutType] /\ pcms' = pcms
    BY <1>5, <2>1 DEF WriteReturns, TypeInv, OutType
  <2> QED BY <2>2, Zenon DEF TypeInv, PcmsTyped
<1>6. ASSUME NEW t \in Threads, OutStandby(t) PROVE TypeInv'
  <2>1. call[t].s \in Streams /\ do_output_standby(call[t].s)
    BY <1>6, Zenon DEF OutStandby, LockInv, CallOK
  <2>2. CASE out[call[t].s].standby
    BY <1>1, <2>1, <2>2, Zenon DEF do_output_standby
  <2>3. CASE ~out[call[t].s].standby
    BY <2>1, <2>3, StandbyStep, CloseStep, Zenon DEF do_output_standby, TypeInv
  <2> QED BY <2>2, <2>3, Zenon
<1>7. ASSUME NEW t \in Threads, WriteStart(t) PROVE TypeInv'
  <2> DEFINE s == call[t].s
  <2>1. s \in Streams
    BY <1>7, Zenon DEF WriteStart, LockInv, CallOK
  <2>2. CASE StartFails(t, s)
    <3>1. out' \in [Streams -> OutType] /\ pcms' = pcms
      BY <2>1, <2>2 DEF StartFails, TypeInv, OutType, BadPcm
    <3> QED BY <3>1, Zenon DEF TypeInv, PcmsTyped
  <2>3. CASE StartOpens(t, s)
    <3>1. PICK p \in PcmIds : pcm_open_ok(p, pcms') /\ out' = [out EXCEPT ![s].pcm = p, ![s].standby = FALSE]
      BY <2>3, Zenon DEF StartOpens
    <3>2. out' \in [Streams -> OutType]
      BY <2>1, <3>1 DEF TypeInv, OutType, PcmIds
    <3> QED BY <3>1, <3>2, OpenStep, Zenon DEF TypeInv
  <2>4. CASE out' = out /\ pcms' = pcms
    BY <1>1, <2>4, Zenon
  <2> QED BY <1>7, <2>2, <2>3, <2>4, Zenon DEF WriteStart, StartRefused
<1>8. CASE UNCHANGED vars \/ adev_open \/ adev_close
  BY <1>1, <1>8, Zenon DEF vars, adev_open, adev_close
<1>9. ASSUME NEW t \in Threads,
             \/ \E s \in Streams, op \in {"standby", "route", "write"}, n \in Nat : Begin(t, s, op, n)
             \/ \E s \in Streams : PositionTest(t, s)
             \/ Lock(t) \/ PositionStamp(t) \/ PositionCompute(t)
             \/ \E val \in Routes : OutSetParameters(t, val)
      PROVE  TypeInv'
  BY <1>1, <1>9, Zenon DEF Begin, PositionTest, Lock, PositionStamp, PositionCompute, OutSetParameters
<1>10. 0 \in Nat /\ \A n \in 1 .. MaxWrite : n \in Nat
  BY AudioAssumption
<1> QED
  BY <1>2, <1>3, <1>4, <1>5, <1>6, <1>7, <1>8, <1>9, <1>10, Zenon DEF Next

\* Every step keeps the mutexes and the threads' places in accord.
LEMMA LockStep == ASSUME LockInv, TypeInv, [Next]_vars PROVE LockInv'
<1>1. ASSUME UNCHANGED <<call, devLock, outLock>> PROVE LockInv'
  BY <1>1 DEF LockInv
<1>2. CASE \/ UNCHANGED vars \/ adev_open \/ adev_close \/ \E p \in PcmIds : Play(p)
           \/ \E s \in Streams : adev_open_output_stream(s) \/ adev_close_output_stream(s)
  BY <1>1, <1>2, Zenon DEF vars, adev_open, adev_close, Play, adev_open_output_stream, adev_close_output_stream
<1>3. ASSUME NEW t \in Threads, NEW s \in Streams, PositionTest(t, s) PROVE LockInv'
  <2> DEFINE c == Called("position", "stamp", s, out[s].pcm, 0)
  <2>1. call' = [call EXCEPT ![t] = c] /\ UNCHANGED <<devLock, outLock>> /\ call[t] = Idle
    BY <1>3, Zenon DEF PositionTest, MayCall
  <2>2. c \in CallType /\ CallOK(c) /\ c.at = "stamp"
    BY DEF Called, CallType, CallOK, Places, TypeInv, OutType
  <2> HIDE DEF c
  <2>3. c.at \notin {"out", "body", "pcm"} /\ call[t].at \notin {"out", "body", "pcm"}
    BY <2>1, <2>2, IdleFacts, Zenon
  <2> QED BY <2>1, <2>2, <2>3, MovesFreely, Zenon
<1>4. ASSUME NEW t \in Threads, call[t].at \notin {"dev", "out", "body", "pcm"}, call' = [call EXCEPT ![t] = Idle],
             UNCHANGED <<devLock, outLock>>
      PROVE  LockInv'
  <2>1. Idle.at \notin {"out", "body", "pcm"} /\ call[t].at \notin {"out", "body", "pcm"}
    BY <1>4, IdleFacts, Zenon
  <2> QED BY <1>4, <2>1, IdleFacts, MovesFreely, Zenon
<1>5. ASSUME NEW t \in Threads, PositionStamp(t) PROVE LockInv'
  <2>1. call[t].at = "stamp" /\ UNCHANGED <<devLock, outLock>> /\ call[t] \in CallType /\ CallOK(call[t])
    BY <1>5, Zenon DEF PositionStamp, LockInv
  <2>2. CASE call' = [call EXCEPT ![t] = Idle]
    BY <1>4, <2>1, <2>2, Zenon
  <2>3. ASSUME NEW p, IsOpen(p),
               call' = [call EXCEPT ![t].at = "compute", ![t].avail = BufferSize - pcms[p].queue,
                                    ![t].pcm = NullPcm]
        PROVE  LockInv'
    <3> DEFINE a == BufferSize - pcms[p].queue
               c == [call[t] EXCEPT !.at = "compute", !.avail = a, !.pcm = NullPcm]
    <3>1. a \in Int
      BY <2>3, AudioAssumption DEF IsOpen, TypeInv, PcmsTyped, PcmType
    <3>2. call' = [call EXCEPT ![t] = c]
      BY <2>3, Zenon DEF LockInv
    <3> HIDE DEF a
    <3>5. call[t] \in CallType
      BY <2>1, Zenon
    <3>3. c \in CallType /\ c.at = "compute" /\ c.op = call[t].op /\ c.s = call[t].s
      BY <3>1, <3>5, StampedTyped, ZenonT(30)
    <3> HIDE DEF c
    <3>4. CallOK(c) /\ c.at \notin {"out", "body", "pcm"}
      BY <2>1, <3>3, Zenon DEF CallOK
    <3> QED BY <2>1, <3>2, <3>3, <3>4, MovesFreely, Zenon
  <2> QED BY <1>5, <2>2, <2>3, Zenon DEF PositionStamp
<1>6. ASSUME NEW t \in Threads, PositionCompute(t) PROVE LockInv'
  BY <1>4, <1>6, Zenon DEF PositionCompute
<1>7. ASSUME NEW t \in Threads, WriteFrame(t) PROVE LockInv'
  <2> DEFINE c == [call[t] EXCEPT !.left = call[t].left - 1]
  <2>1. call[t] \in CallType /\ CallOK(call[t]) /\ call[t].at = "pcm" /\ call[t].left > 0
        /\ call' = [call EXCEPT ![t] = c] /\ UNCHANGED <<devLock, outLock>>
    BY <1>7 DEF WriteFrame, LockInv
  <2>2. c \in CallType /\ c.at = "pcm" /\ c.s = call[t].s /\ c.op = call[t].op
    BY <2>1 DEF CallType
  <2> HIDE DEF c
  <2>3. CallOK(c)
    BY <2>1, <2>2, Zenon DEF CallOK
  <2> QED BY <2>1, <2>2, <2>3, MovesFreely, Zenon
<1>8. ASSUME NEW t \in Threads, OutStandby(t) \/ \E val \in Routes : OutSetParameters(t, val) PROVE LockInv'
  BY <1>8, UnlockedStep, Zenon DEF OutStandby, OutSetParameters
<1>9. ASSUME NEW t \in Threads, WriteStart(t) PROVE LockInv'
  BY <1>9, UnlockedStep, ToPcmStep, Zenon DEF WriteStart, StartRefused, StartFails, StartOpens
<1>10. 0 \in Nat /\ \A n \in 1 .. MaxWrite : n \in Nat
  BY AudioAssumption
<1>11. ASSUME NEW t \in Threads, NEW s \in Streams,
              \/ Begin(t, s, "standby", 0) \/ Begin(t, s, "route", 0)
              \/ \E n \in 1 .. MaxWrite : MayWrite(s, n) /\ Begin(t, s, "write", n)
       PROVE  LockInv'
  BY <1>10, <1>11, BeginStep, Zenon
<1> QED
  BY <1>2, <1>3, <1>5, <1>6, <1>7, <1>8, <1>9, <1>11, LockedStep, WriteReturnsStep, Zenon DEF Next

\* The types, and the mutexes and places, at all times.
LEMMA LockInvariant == Spec => [](LockInv /\ TypeInv)
<1>1. Init => LockInv
  BY IdleFacts, AudioAssumption, ZenonT(30) DEF Init, LockInv
<1>2. Init => TypeInv
  <2> SUFFICES ASSUME Init PROVE TypeInv
    BY Zenon
  <2>1. Closed \in OutType
    BY ClosedTyped, Zenon
  <2>2. DOMAIN pcms = 1 .. 0 /\ pcms \in [DOMAIN pcms -> PcmType]
    BY DEF Init
  <2> QED BY <2>1, <2>2, Zenon DEF Init, TypeInv, PcmsTyped
<1>3. LockInv /\ TypeInv /\ [Next]_vars => LockInv' /\ TypeInv'
  BY LockStep, TypeStep, Zenon
<1> QED BY <1>1, <1>2, <1>3, PTL DEF Spec

\* No two threads of the framework ever wait for each other's mutex, however
\* many there are: every call takes the device's mutex first, and out_write
\* releases it before it blocks.
THEOREM AudioNoLockCycle == Spec => []NoLockCycle
<1>1. ASSUME LockInv, NEW t \in Threads, NEW u \in Threads, Waits(t, u), Waits(u, t) PROVE FALSE
  <2>1. call[t].at \in {"dev", "out"} /\ call[u].at \in {"dev", "out"}
        /\ call[t].s \in Streams /\ call[u].s \in Streams
    BY <1>1, Zenon DEF LockInv, CallOK, Waits
  <2>2. outLock[call[t].s] # u /\ outLock[call[u].s] # t
    BY <1>1, <2>1 DEF LockInv
  <2>3. call[t].at = "dev" /\ devLock = u /\ call[u].at = "dev"
    BY <1>1, <2>1, <2>2, Zenon DEF Waits
  <2> QED BY <1>1, <2>3, Zenon DEF LockInv
<1>2. LockInv => NoLockCycle
  BY <1>1, Zenon DEF NoLockCycle
<1> QED BY <1>2, LockInvariant, PTL

-----------------------------------------------------------------------------
(* The PCM of each stream, and the calls that use it.                      *)

\* A stream out of standby has an open PCM of its own.
OutInv ==
  /\ \A s \in Streams : out[s].standby => out[s].pcm \in {NullPcm, BadPcm}
  /\ \A s \in Streams : ~out[s].standby => IsOpen(out[s].pcm)
  /\ \A s, u \in Streams : s # u /\ ~out[s].standby /\ ~out[u].standby => out[s].pcm # out[u].pcm

\* A call c of a framework cl on a stream o: it is on an open stream, it is in
\* the PCM of a stream out of standby only, and the pointer a query has tested
\* stays where queries overlap no other call.
SafeCall(cl, c, o) ==
  /\ c.at # "" => o.open
  /\ c.at = "pcm" => ~o.standby
  /\ "serial" \in cl /\ c.at = "stamp" => c.pcm = o.pcm /\ c.pcm # NullPcm

\* If c is a query, d is on another stream.
Apart(c, d) == c.at \in {"stamp", "compute"} => d.s # c.s

CallInv ==
  /\ \A t \in Threads : SafeCall(client, call[t], out[call[t].s])
  /\ "serial" \in client => \A t, u \in Threads : t # u => Apart(call[t], call[u])

\* Each stream goes to standby or keeps its PCM, and the PCMs kept stay open.
LEMMA OutKept ==
  ASSUME OutInv,
         \A s \in Streams :
           \/ out'[s].standby /\ out'[s].pcm \in {NullPcm, BadPcm}
           \/ /\ out'[s].standby <=> out[s].standby
              /\ out'[s].pcm = out[s].pcm
              /\ ~out'[s].standby => IsOpen(out[s].pcm)'
  PROVE  OutInv'
<1>1. \A s \in Streams : out'[s].standby => out'[s].pcm \in {NullPcm, BadPcm}
  BY Zenon DEF OutInv
<1>2. \A s \in Streams : ~out'[s].standby => ~out[s].standby /\ out'[s].pcm = out[s].pcm /\ IsOpen(out[s].pcm)'
  BY Zenon
<1>3. \A s \in Streams : ~out'[s].standby => IsOpen(out[s].pcm)'
  BY <1>2, Zenon
<1>4. \A s, u \in Streams : s # u /\ ~out'[s].standby /\ ~out'[u].standby => out'[s].pcm # out'[u].pcm
  BY <1>2 DEF OutInv
<1> QED BY <1>1, <1>2, <1>3, <1>4, Zenon DEF OutInv

\* What a step makes of the calls when it changes one of them.
LEMMA OneCall ==
  ASSUME LockInv, NEW t \in Threads, NEW c, call' = [call EXCEPT ![t] = c]
  PROVE  call'[t] = c /\ \A u \in Threads \ {t} : call'[u] = call[u]
BY DEF LockInv

\* An idle thread is safe, and apart from every thread.
LEMMA IdleSafe ==
  /\ \A cl, o : SafeCall(cl, Idle, o)
  /\ LockInv => \A u \in Threads : Apart(Idle, call[u]) /\ Apart(call[u], Idle)
<1>1. \A cl, o : SafeCall(cl, Idle, o)
  BY IdleFacts, Zenon DEF SafeCall
<1>2. ASSUME LockInv, NEW u \in Threads PROVE Apart(Idle, call[u]) /\ Apart(call[u], Idle)
  BY <1>2, IdleFacts, AudioAssumption, Zenon DEF Apart, LockInv, CallOK
<1> QED BY <1>1, <1>2, Zenon

\* A call is on a stream, unless the thread is idle.
LEMMA CallOnStream ==
  ASSUME LockInv, NEW u \in Threads PROVE call[u] = Idle \/ call[u].s \in Streams
<1>1. call[u].at \in Places /\ CallOK(call[u])
  BY Zenon DEF LockInv, CallType
<1> QED BY <1>1, Zenon DEF CallOK, Places

\* What a call that neither is in the PCM nor relies on it needs of its stream.
LEMMA SafeAgain ==
  ASSUME NEW cl, NEW c, NEW o, NEW p, SafeCall(cl, c, o), o.open <=> p.open,
         c.at # "pcm", "serial" \in cl => c.at # "stamp"
  PROVE  SafeCall(cl, c, p)
BY Zenon DEF SafeCall

\* A step of one thread that leaves the streams alone.
LEMMA CallMoves ==
  ASSUME LockInv, CallInv, NEW t \in Threads, NEW c,
         call' = [call EXCEPT ![t] = c], UNCHANGED <<out, client>>,
         SafeCall(client, c, out[c.s]),
         "serial" \in client => \A u \in Threads \ {t} : Apart(c, call[u]) /\ Apart(call[u], c)
  PROVE  CallInv'
<1>1. call'[t] = c /\ \A u \in Threads \ {t} : call'[u] = call[u]
  BY OneCall, Zenon
<1>2. \A u \in Threads : SafeCall(client', call'[u], out'[call'[u].s])
  BY <1>1, Zenon DEF CallInv
<1>3. "serial" \in client => \A v, u \in Threads : v # u => Apart(call'[v], call'[u])
  BY <1>1, Zenon DEF CallInv
<1> QED BY <1>2, <1>3, Zenon DEF CallInv

\* A step, of a thread that holds a stream's mutex, that changes the stream.
LEMMA OwnerMoves ==
  ASSUME LockInv, CallInv, NEW t \in Threads, NEW s \in Streams, call[t].s = s,
         call[t].at \in {"body", "pcm"}, NEW c, call' = [call EXCEPT ![t] = c],
         UNCHANGED client, out[s].open <=> out'[s].open,
         \A u \in Streams \ {s} : out'[u] = out[u],
         c = Idle \/ (c.s = s /\ c.at = "pcm" /\ ~out'[s].standby)
  PROVE  CallInv'
<1>1. call'[t] = c /\ \A u \in Threads \ {t} : call'[u] = call[u]
  BY OneCall, Zenon
<1>2. ASSUME NEW u \in Threads \ {t}, call[u].s = s
      PROVE  call[u].at # "pcm" /\ ("serial" \in client => call[u].at # "stamp")
  <2>1. ASSUME call[u].at = "pcm" PROVE FALSE
    <3>1. outLock[s] = u /\ outLock[s] = t
      BY <1>2, <2>1 DEF LockInv
    <3> QED BY <3>1, Zenon
  <2>2. ASSUME "serial" \in client, call[u].at = "stamp" PROVE FALSE
    <3>1. Apart(call[u], call[t])
      BY <2>2, Zenon DEF CallInv
    <3> QED BY <1>2, <2>2, <3>1, Zenon DEF Apart
  <2> QED BY <2>1, <2>2, Zenon
<1>3. ASSUME NEW u \in Threads \ {t} PROVE SafeCall(client, call[u], out'[call[u].s])
  <2>1. SafeCall(client, call[u], out[call[u].s])
    BY Zenon DEF CallInv
  <2>2. CASE call[u].s = s
    BY <1>2, <2>1, <2>2, SafeAgain
  <2>3. CASE call[u] = Idle
    BY <2>3, IdleSafe, Zenon
  <2>4. CASE call[u].s \in Streams \ {s}
    <3>1. out'[call[u].s] = out[call[u].s]
      BY <2>4, Zenon
    <3> QED BY <2>1, <3>1, Zenon
  <2> QED BY <2>2, <2>3, <2>4, CallOnStream, Zenon
<1>4. SafeCall(client, c, out'[c.s])
  <2>1. CASE c = Idle
    BY <2>1, IdleSafe, Zenon
  <2>2. CASE c.s = s /\ c.at = "pcm" /\ ~out'[s].standby
    <3>1. SafeCall(client, call[t], out[s]) /\ call[t].at # ""
      BY Zenon DEF CallInv
    <3>2. out'[s].open
      BY <3>1, Zenon DEF SafeCall
    <3> QED BY <2>2, <3>2, Zenon DEF SafeCall
  <2> QED BY <2>1, <2>2, Zenon
<1>5. ASSUME "serial" \in client, NEW u \in Threads \ {t} PROVE Apart(c, call[u]) /\ Apart(call[u], c)
  <2>1. CASE c = Idle
    BY <2>1, IdleSafe, Zenon
  <2>2. CASE c.s = s /\ c.at = "pcm"
    <3>1. Apart(call[u], call[t])
      BY <1>5, Zenon DEF CallInv
    <3> QED BY <2>2, <3>1, Zenon DEF Apart
  <2> QED BY <2>1, <2>2, Zenon
<1>6. \A u \in Threads : SafeCall(client', call'[u], out'[call'[u].s])
  BY <1>1, <1>3, <1>4, Zenon
<1>7. "serial" \in client => \A v, u \in Threads : v # u => Apart(call'[v], call'[u])
  BY <1>1, <1>5 DEF CallInv
<1> QED BY <1>6, <1>7, Zenon DEF CallInv

\* Every step keeps the streams' PCMs open and apart.
LEMMA OutStep == ASSUME LockInv, TypeInv, OutInv, [Next]_vars PROVE OutInv'
<1>1. ASSUME out' = out, pcms' = pcms PROVE OutInv'
  <2>1. \A s \in Streams : ~out[s].standby => IsOpen(out[s].pcm)'
    BY <1>1, Zenon DEF OutInv, IsOpen
  <2> QED BY <1>1, <2>1, OutKept, Zenon
<1>2. ASSUME NEW s \in Streams, adev_open_output_stream(s) \/ adev_close_output_stream(s) PROVE OutInv'
  <2>1. PICK x \in OutType : out' = [out EXCEPT ![s] = x] /\ x.standby /\ x.pcm = NullPcm /\ pcms' = pcms
    <3>1. Closed.standby /\ Closed.pcm = NullPcm
      BY Zenon DEF Closed
    <3>2. [Closed EXCEPT !.open = TRUE].standby /\ [Closed EXCEPT !.open = TRUE].pcm = NullPcm
      BY Zenon DEF Closed
    <3> QED BY <1>2, <3>1, <3>2, ClosedTyped, Zenon DEF adev_open_output_stream, adev_close_output_stream
  <2>2. out'[s] = x /\ \A u \in Streams \ {s} : out'[u] = out[u]
    BY <2>1, Zenon DEF TypeInv
  <2>3. \A u \in Streams : ~out'[u].standby => IsOpen(out[u].pcm)'
    BY <2>1, <2>2, Zenon DEF OutInv, IsOpen
  <2> QED BY <2>1, <2>2, <2>3, OutKept, Zenon
<1>3. ASSUME out' = out, \A q : IsOpen(q) => IsOpen(q)' PROVE OutInv'
  <2>1. \A s \in Streams : ~out[s].standby => IsOpen(out[s].pcm)'
    BY <1>3, Zenon DEF OutInv
  <2> QED BY <1>3, <2>1, OutKept, Zenon
<1>4. ASSUME NEW p \in PcmIds, Play(p) PROVE OutInv'
  <2>1. IsOpen(p) /\ out' = out /\ pcms' = [pcms EXCEPT ![p].queue = pcms[p].queue - 1]
    BY <1>4, Zenon DEF Play
  <2>2. pcms[p].queue - 1 \in Int
    BY <2>1 DEF TypeInv, PcmsTyped, PcmType, IsOpen
  <2>3. \A q : IsOpen(q) => IsOpen(q)'
    BY <2>1, <2>2, QueueStep, Zenon DEF TypeInv
  <2> QED BY <1>3, <2>1, <2>3, Zenon
<1>5. ASSUME NEW t \in Threads, WriteFrame(t) PROVE OutInv'
  <2> DEFINE p == out[call[t].s].pcm
  <2>1. IsOpen(p) /\ out' = out /\ pcms' = [pcms EXCEPT ![p].queue = pcms[p].queue + 1]
    BY <1>5, Zenon DEF WriteFrame
  <2> HIDE DEF p
  <2>2. pcms[p].queue + 1 \in Int
    BY <2>1 DEF TypeInv, PcmsTyped, PcmType, IsOpen
  <2>3. \A q : IsOpen(q) => IsOpen(q)'
    BY <2>1, <2>2, QueueStep, Zenon DEF TypeInv
  <2> QED BY <1>3, <2>1, <2>3, Zenon
<1>6. ASSUME NEW t \in Threads, NEW ok \in BOOLEAN, WriteReturns(t, ok) PROVE OutInv'
  <2>1. call[t].s \in Streams /\ call[t].n \in Nat /\ pcms' = pcms
    BY <1>6, Zenon DEF WriteReturns, LockInv, CallOK, CallType
  <2>2. \A s \in Streams : (out'[s].standby <=> out[s].standby) /\ out'[s].pcm = out[s].pcm
    BY <1>6, <2>1, Zenon DEF WriteReturns, TypeInv, OutType
  <2>3. \A s \in Streams : ~out'[s].standby => IsOpen(out[s].pcm)'
    BY <2>1, <2>2, Zenon DEF OutInv, IsOpen
  <2> QED BY <2>2, <2>3, OutKept, Zenon
<1>7. ASSUME NEW t \in Threads, OutStandby(t) PROVE OutInv'
  <2> DEFINE s == call[t].s
  <2>1. s \in Streams /\ do_output_standby(s)
    BY <1>7, Zenon DEF OutStandby, LockInv, CallOK
  <2> HIDE DEF s
  <2>2. CASE out[s].standby
    BY <1>1, <2>1, <2>2, Zenon DEF do_output_standby
  <2>3. CASE ~out[s].standby
    <3>1. out'[s].pcm = NullPcm /\ out'[s].standby /\ \A u \in Streams \ {s} : out'[u] = out[u]
      BY <2>1, <2>3, StandbyStep, Zenon
    <3>2. pcms' = pcm_close(out[s].pcm)
      BY <2>1, <2>3, Zenon DEF do_output_standby
    <3>3. \A q : q # out[s].pcm /\ IsOpen(q) => IsOpen(q)'
      BY <3>2, CloseStep, Zenon DEF TypeInv
    <3>4. ASSUME NEW u \in Streams \ {s}, ~out'[u].standby PROVE IsOpen(out[u].pcm)'
      <4>1. IsOpen(out[u].pcm) /\ out[u].pcm # out[s].pcm /\ out'[u].pcm = out[u].pcm
        BY <2>1, <2>3, <3>1, <3>4, Zenon DEF OutInv
      <4> QED BY <3>3, <4>1, Zenon DEF IsOpen
    <3> QED BY <3>1, <3>4, OutKept, Zenon
  <2> QED BY <2>2, <2>3, Zenon
<1>8. ASSUME NEW t \in Threads, WriteStart(t) PROVE OutInv'
  <2> DEFINE s == call[t].s
  <2>1. s \in Streams
    BY <1>8, Zenon DEF WriteStart, LockInv, CallOK
  <2>2. CASE StartFails(t, s) /\ out[s].standby
    <3>1. out'[s].pcm = BadPcm /\ (out'[s].standby <=> out[s].standby) /\ pcms' = pcms /\ out[s].standby
          /\ \A u \in Streams \ {s} : out'[u] = out[u]
      <4>1. pcms' = pcms /\ out[s].standby
        BY <2>2, Zenon DEF StartFails
      <4>2. out'[s].pcm = BadPcm /\ (out'[s].standby <=> out[s].standby)
        BY <2>1, <2>2, Zenon DEF StartFails, TypeInv, OutType, BadPcm
      <4>3. \A u \in Streams \ {s} : out'[u] = out[u]
        BY <2>1, <2>2, Zenon DEF StartFails, TypeInv
      <4> QED BY <4>1, <4>2, <4>3, Zenon
    <3>2. \A u \in Streams : ~out'[u].standby => IsOpen(out[u].pcm)'
      BY <3>1, Zenon DEF OutInv, IsOpen
    <3> QED BY <3>1, <3>2, OutKept, Zenon
  <2>3. CASE StartOpens(t, s)
    <3>1. PICK p \in PcmIds : pcm_open_ok(p, pcms') /\ out' = [out EXCEPT ![s].pcm = p, ![s].standby = FALSE]
      BY <2>3, Zenon DEF StartOpens
    <3>2. out'[s].pcm = p /\ ~out'[s].standby /\ \A u \in Streams \ {s} : out'[u] = out[u]
      BY <2>1, <3>1, Zenon DEF TypeInv, OutType, PcmIds
    <3>3. p \notin DOMAIN pcms /\ IsOpen(p)' /\ \A q : IsOpen(q) => IsOpen(q)'
      BY <3>1, OpenStep, Zenon DEF TypeInv
    <3>4. \A u \in Streams \ {s} : ~out'[u].standby => out[u].pcm # p /\ IsOpen(out[u].pcm)'
      <4> SUFFICES ASSUME NEW u \in Streams \ {s}, ~out'[u].standby
                   PROVE  out[u].pcm # p /\ IsOpen(out[u].pcm)'
        BY Zenon
      <4>1. IsOpen(out[u].pcm) /\ out'[u].pcm = out[u].pcm
        BY <3>2, Zenon DEF OutInv
      <4> QED BY <3>3, <4>1, Zenon DEF IsOpen
    <3>5. \A u \in Streams : out'[u].standby => out'[u].pcm \in {NullPcm, BadPcm}
      BY <3>2, Zenon DEF OutInv
    <3>6. ASSUME NEW u \in Streams, ~out'[u].standby PROVE IsOpen(out[u].pcm)'
      <4>1. CASE u = s
        BY <3>2, <3>3, <4>1, Zenon DEF IsOpen
      <4>2. CASE u # s
        BY <3>2, <3>4, <3>6, <4>2, Zenon DEF IsOpen
      <4> QED BY <4>1, <4>2, Zenon
    <3>7. ASSUME NEW u \in Streams, NEW v \in Streams, u # v, ~out'[u].standby, ~out'[v].standby
          PROVE  out'[u].pcm # out'[v].pcm
      <4>1. CASE u = s \/ v = s
        BY <3>2, <3>4, <3>7, <4>1, Zenon
      <4>2. CASE u # s /\ v # s
        BY <3>2, <3>7, <4>2, Zenon DEF OutInv
      <4> QED BY <4>1, <4>2, Zenon
    <3> QED BY <3>5, <3>6, <3>7, Zenon DEF OutInv
  <2>4. CASE out' = out /\ pcms' = pcms
    BY <1>1, <2>4, Zenon
  <2> QED BY <1>8, <2>2, <2>3, <2>4, Zenon DEF WriteStart, StartRefused
<1>9. CASE UNCHANGED vars \/ adev_open \/ adev_close
  BY <1>1, <1>9, Zenon DEF vars, adev_open, adev_close
<1>10. ASSUME NEW t \in Threads,
             \/ \E s \in Streams, op \in {"standby", "route", "write"}, n \in Nat : Begin(t, s, op, n)
             \/ \E s \in Streams : PositionTest(t, s)
             \/ Lock(t) \/ PositionStamp(t) \/ PositionCompute(t)
             \/ \E val \in Routes : OutSetParameters(t, val)
      PROVE  OutInv'
  BY <1>1, <1>10, Zenon DEF Begin, PositionTest, Lock, PositionStamp, PositionCompute, OutSetParameters
<1>11. 0 \in Nat /\ \A n \in 1 .. MaxWrite : n \in Nat
  BY AudioAssumption
<1> QED
  BY <1>2, <1>4, <1>5, <1>6, <1>7, <1>8, <1>9, <1>10, <1>11, Zenon DEF Next

\* A thread goes on in its call.
LEMMA GoesOn ==
  ASSUME LockInv, CallInv, NEW t \in Threads, NEW c, call[t].at # "",
         call' = [call EXCEPT ![t] = c], UNCHANGED <<out, client>>, c.s = call[t].s,
         c.at = "pcm" => ~out[c.s].standby, c.at # "stamp", c.at = "compute" => call[t].at = "stamp"
  PROVE  CallInv'
<1>1. SafeCall(client, call[t], out[call[t].s])
  BY Zenon DEF CallInv
<1>2. SafeCall(client, c, out[c.s])
  BY <1>1, Zenon DEF SafeCall
<1>3. ASSUME "serial" \in client, NEW u \in Threads \ {t} PROVE Apart(c, call[u]) /\ Apart(call[u], c)
  <2>1. Apart(call[t], call[u]) /\ Apart(call[u], call[t])
    BY <1>3, Zenon DEF CallInv
  <2> QED BY <2>1, Zenon DEF Apart
<1> QED BY <1>2, <1>3, CallMoves, Zenon

\* A thread returns from its call; the streams are left alone.
LEMMA Returns ==
  ASSUME LockInv, CallInv, NEW t \in Threads, call' = [call EXCEPT ![t] = Idle], UNCHANGED <<out, client>>
  PROVE  CallInv'
BY IdleSafe, CallMoves, Zenon

\* Every step keeps the calls safe and the queries apart.
LEMMA CallStep == ASSUME LockInv, TypeInv, CallInv, [Next]_vars PROVE CallInv'
<1>1. CASE UNCHANGED vars \/ adev_open \/ adev_close \/ \E p \in PcmIds : Play(p)
  <2>1. UNCHANGED <<call, out, client>>
    BY <1>1, Zenon DEF vars, adev_open, adev_close, Play
  <2> QED BY <2>1, Zenon DEF CallInv
<1>2. ASSUME NEW s \in Streams, adev_open_output_stream(s) \/ adev_close_output_stream(s) PROVE CallInv'
  <2>1. UNCHANGED <<call, client>> /\ \A u \in Streams \ {s} : out'[u] = out[u]
    BY <1>2, Zenon DEF adev_open_output_stream, adev_close_output_stream, TypeInv
  <2>2. ASSUME NEW u \in Threads PROVE call[u].s # s
    <3>1. CASE adev_close_output_stream(s)
      BY <3>1, Zenon DEF adev_close_output_stream, InCall
    <3>2. CASE adev_open_output_stream(s)
      <4> SUFFICES ASSUME call[u].s = s PROVE FALSE
        BY Zenon
      <4>1. call[u] # Idle
        BY IdleFacts, AudioAssumption, Zenon
      <4>2. call[u].at # ""
        BY <4>1, Zenon DEF LockInv, CallOK
      <4>3. SafeCall(client, call[u], out[s]) /\ ~out[s].open
        BY <3>2, Zenon DEF CallInv, adev_open_output_stream
      <4> QED BY <4>2, <4>3, Zenon DEF SafeCall
    <3> QED BY <1>2, <3>1, <3>2, Zenon
  <2>3. ASSUME NEW u \in Threads PROVE SafeCall(client, call[u], out'[call[u].s])
    <3>1. SafeCall(client, call[u], out[call[u].s])
      BY Zenon DEF CallInv
    <3>2. CASE call[u] = Idle
      BY <3>2, IdleSafe, Zenon
    <3>3. CASE call[u].s \in Streams
      <4>1. out'[call[u].s] = out[call[u].s]
        BY <2>1, <2>2, <3>3, Zenon
      <4> QED BY <3>1, <4>1, Zenon
    <3> QED BY <3>2, <3>3, CallOnStream, Zenon
  <2> QED BY <2>1, <2>3, Zenon DEF CallInv
<1>3. ASSUME NEW t \in Threads, NEW s \in Streams, NEW op \in {"standby", "route", "write"}, NEW n \in Nat,
             Begin(t, s, op, n)
      PROVE  CallInv'
  <2> DEFINE c == Called(op, "dev", s, NullPcm, n)
  <2>1. call' = [call EXCEPT ![t] = c] /\ UNCHANGED <<out, client>> /\ out[s].open
    BY <1>3, Zenon DEF Begin, MayCall, LockOrder
  <2>2. c.s = s /\ c.at = "dev"
    BY Zenon DEF Called
  <2> HIDE DEF c
  <2>3. SafeCall(client, c, out[c.s])
    BY <2>1, <2>2, Zenon DEF SafeCall
  <2>4. ASSUME "serial" \in client, NEW u \in Threads \ {t} PROVE Apart(c, call[u]) /\ Apart(call[u], c)
    <3>1. ~Querying(s)
      BY <1>3, <2>4, Zenon DEF Begin, MayCall
    <3>2. CallOK(call[u])
      BY Zenon DEF LockInv
    <3> QED BY <2>2, <3>1, <3>2, Zenon DEF Apart, Querying, CallOK
  <2> QED BY <2>1, <2>3, <2>4, CallMoves, Zenon
<1>4. ASSUME NEW t \in Threads, NEW s \in Streams, PositionTest(t, s) PROVE CallInv'
  <2> DEFINE c == Called("position", "stamp", s, out[s].pcm, 0)
  <2>1. call' = [call EXCEPT ![t] = c] /\ UNCHANGED <<out, client>> /\ out[s].open /\ out[s].pcm # NullPcm
    BY <1>4, Zenon DEF PositionTest, MayCall
  <2>2. c.s = s /\ c.at = "stamp" /\ c.pcm = out[s].pcm
    BY Zenon DEF Called
  <2> HIDE DEF c
  <2>3. SafeCall(client, c, out[c.s])
    BY <2>1, <2>2, Zenon DEF SafeCall
  <2>4. ASSUME "serial" \in client, NEW u \in Threads \ {t} PROVE Apart(c, call[u]) /\ Apart(call[u], c)
    <3>1. ~InCall(s)
      BY <1>4, <2>4, Zenon DEF PositionTest, MayCall
    <3> QED BY <2>2, <3>1, Zenon DEF Apart, InCall
  <2> QED BY <2>1, <2>3, <2>4, CallMoves, Zenon
<1>5. ASSUME NEW t \in Threads, Lock(t) PROVE CallInv'
  <2>1. call[t].at \in {"dev", "out"} /\ UNCHANGED <<out, client>> /\ call[t] \in CallType
    BY <1>5, Zenon DEF Lock, LockInv
  <2>2. After(t, "dev") = "out" /\ After(t, "out") = "body"
    BY Zenon DEF After, LockOrder
  <2>3. PICK w \in {"out", "body"} : call' = [call EXCEPT ![t].at = w]
    BY <1>5, <2>1, <2>2, Zenon DEF Lock
  <2> DEFINE c == [call[t] EXCEPT !.at = w]
  <2>4. call' = [call EXCEPT ![t] = c]
    BY <2>3, Zenon DEF LockInv
  <2>5. c.at = w /\ c.s = call[t].s
    BY <2>1, Zenon DEF CallType
  <2> HIDE DEF c
  <2> QED BY <2>1, <2>4, <2>5, GoesOn, Zenon
<1>6. ASSUME NEW t \in Threads, PositionStamp(t) PROVE CallInv'
  <2>1. call[t].at = "stamp" /\ UNCHANGED <<out, client>> /\ call[t] \in CallType
    BY <1>6, Zenon DEF PositionStamp, LockInv
  <2>2. CASE call' = [call EXCEPT ![t] = Idle]
    BY <2>1, <2>2, Returns, Zenon
  <2>3. ASSUME NEW p, IsOpen(p),
               call' = [call EXCEPT ![t].at = "compute", ![t].avail = BufferSize - pcms[p].queue,
                                    ![t].pcm = NullPcm]
        PROVE  CallInv'
    <3> DEFINE a == BufferSize - pcms[p].queue
               c == [call[t] EXCEPT !.at = "compute", !.avail = a, !.pcm = NullPcm]
    <3>1. a \in Int
      BY <2>3, AudioAssumption DEF IsOpen, TypeInv, PcmsTyped, PcmType
    <3>2. call' = [call EXCEPT ![t] = c]
      BY <2>3, Zenon DEF LockInv
    <3> HIDE DEF a
    <3>5. call[t] \in CallType
      BY <2>1, Zenon
    <3>3. c \in CallType /\ c.at = "compute" /\ c.op = call[t].op /\ c.s = call[t].s
      BY <3>1, <3>5, StampedTyped, ZenonT(30)
    <3> HIDE DEF c
    <3> QED BY <2>1, <3>2, <3>3, GoesOn, Zenon
  <2> QED BY <1>6, <2>2, <2>3, Zenon DEF PositionStamp
<1>7. ASSUME NEW t \in Threads, PositionCompute(t) \/ \E val \in Routes : OutSetParameters(t, val) PROVE CallInv'
  BY <1>7, Returns, Zenon DEF PositionCompute, OutSetParameters, Unlock
<1>8. ASSUME NEW t \in Threads, WriteFrame(t) PROVE CallInv'
  <2> DEFINE c == [call[t] EXCEPT !.left = call[t].left - 1]
  <2>1. call[t] \in CallType /\ call[t].at = "pcm" /\ UNCHANGED <<out, client>> /\ call' = [call EXCEPT ![t] = c]
    BY <1>8 DEF WriteFrame, LockInv
  <2>2. c.at = "pcm" /\ c.s = call[t].s
    BY <2>1, Zenon DEF CallType
  <2>3. ~out[call[t].s].standby
    BY <2>1, Zenon DEF CallInv, SafeCall
  <2> HIDE DEF c
  <2> QED BY <2>1, <2>2, <2>3, GoesOn, Zenon
<1>9. ASSUME NEW t \in Threads, NEW ok \in BOOLEAN, WriteReturns(t, ok) PROVE CallInv'
  <2>1. call[t].s \in Streams /\ call[t].n \in Nat /\ call[t].at = "pcm" /\ client' = client
        /\ call' = [call EXCEPT ![t] = Idle]
    BY <1>9, Zenon DEF WriteReturns, LockInv, CallOK, CallType
  <2>2. /\ out[call[t].s].open <=> out'[call[t].s].open
        /\ \A u \in Streams \ {call[t].s} : out'[u] = out[u]
    BY <1>9, <2>1, Zenon DEF WriteReturns, TypeInv, OutType
  <2> QED BY <2>1, <2>2, OwnerMoves, Zenon
<1>10. ASSUME NEW t \in Threads, OutStandby(t) PROVE CallInv'
  <2> DEFINE s == call[t].s
  <2>1. s \in Streams /\ do_output_standby(s) /\ call[t].at = "body" /\ client' = client
        /\ call' = [call EXCEPT ![t] = Idle]
    BY <1>10, Zenon DEF OutStandby, Unlock, LockInv, CallOK
  <2>2. CASE out[s].standby
    BY <2>1, <2>2, Returns, Zenon DEF do_output_standby
  <2>3. CASE ~out[s].standby
    <3>1. (out[s].open <=> out'[s].open) /\ \A u \in Streams \ {s} : out'[u] = out[u]
      BY <2>1, <2>3, StandbyStep, Zenon
    <3> QED BY <2>1, <3>1, OwnerMoves, Zenon
  <2> QED BY <2>2, <2>3, Zenon
<1>11. ASSUME NEW t \in Threads, WriteStart(t) PROVE CallInv'
  <2> DEFINE s == call[t].s
             c == [call[t] EXCEPT !.at = "pcm"]
  <2>1. s \in Streams /\ call[t].at = "body" /\ client' = client /\ call[t] \in CallType
    BY <1>11, Zenon DEF WriteStart, LockInv, CallOK
  <2>2. c.at = "pcm" /\ c.s = s
    BY <2>1, Zenon DEF CallType
  <2>3. ToPcm(t) => call' = [call EXCEPT ![t] = c]
    BY Zenon DEF ToPcm, LockInv
  <2> HIDE DEF c
  <2>4. CASE StartRefused(t, s)
    BY <2>1, <2>4, Returns, Zenon DEF StartRefused, Unlock
  <2>5. CASE StartFails(t, s)
    <3>1. call' = [call EXCEPT ![t] = Idle]
      BY <2>5, Zenon DEF StartFails, Unlock
    <3>2. (out[s].open <=> out'[s].open) /\ \A u \in Streams \ {s} : out'[u] = out[u]
      BY <2>1, <2>5, Zenon DEF StartFails, TypeInv, OutType, BadPcm
    <3> QED BY <2>1, <3>1, <3>2, OwnerMoves, Zenon
  <2>6. CASE StartOpens(t, s)
    <3>1. PICK p \in PcmIds : out' = [out EXCEPT ![s].pcm = p, ![s].standby = FALSE]
      BY <2>6, Zenon DEF StartOpens
    <3>2. /\ (out[s].open <=> out'[s].open) /\ ~out'[s].standby
          /\ \A u \in Streams \ {s} : out'[u] = out[u]
      BY <2>1, <3>1, Zenon DEF TypeInv, OutType, PcmIds
    <3>3. call' = [call EXCEPT ![t] = c]
      BY <2>3, <2>6, Zenon DEF StartOpens
    <3> QED BY <2>1, <2>2, <3>2, <3>3, OwnerMoves, Zenon
  <2>7. CASE ~out[s].standby /\ ToPcm(t) /\ out' = out
    BY <2>1, <2>2, <2>3, <2>7, GoesOn, Zenon
  <2> QED BY <1>11, <2>4, <2>5, <2>6, <2>7, Zenon DEF WriteStart
<1>12. 0 \in Nat /\ \A n \in 1 .. MaxWrite : n \in Nat
  BY AudioAssumption
<1> QED
  BY <1>1, <1>2, <1>3, <1>4, <1>5, <1>6, <1>7, <1>8, <1>9, <1>10, <1>11, <1>12, Zenon DEF Next

\* Every step keeps the record of misuse within what PcmUsedOpen allows.
LEMMA MisuseStep ==
  ASSUME LockInv, TypeInv, OutInv, CallInv, PcmUsedOpen, [Next]_vars
  PROVE  PcmUsedOpen'
<1>1. ASSUME UNCHANGED <<misuse, client>> PROVE PcmUsedOpen'
  BY <1>1, Zenon DEF PcmUsedOpen
<1>2. ASSUME NEW t \in Threads, OutStandby(t) PROVE PcmUsedOpen'
  <2> DEFINE s == call[t].s
  <2>1. s \in Streams /\ do_output_standby(s) /\ call[t].at = "body" /\ client' = client
    BY <1>2, Zenon DEF OutStandby, LockInv, CallOK
  <2>2. ASSUME ~out[s].standby PROVE ~CloseMisused(s)
    <3>1. IsOpen(out[s].pcm)
      BY <2>1, <2>2, Zenon DEF OutInv
    <3>2. ASSUME NEW u \in Threads, call[u].s = s, call[u].at = "pcm" PROVE FALSE
      <4>1. outLock[s] = u /\ outLock[s] = t
        BY <2>1, <3>2 DEF LockInv
      <4> QED BY <2>1, <3>2, <4>1, Zenon
    <3> QED BY <3>1, <3>2, Zenon DEF CloseMisused
  <2> HIDE DEF s
  <2>3. misuse' = misuse
    BY <2>1, <2>2, Zenon DEF do_output_standby
  <2> QED BY <1>1, <2>1, <2>3, Zenon
<1>3. ASSUME NEW t \in Threads, WriteStart(t) PROVE PcmUsedOpen'
  <2> DEFINE s == call[t].s
  <2>1. s \in Streams /\ client' = client
    BY <1>3, Zenon DEF WriteStart, LockInv, CallOK
  <2>2. ~out[s].standby => IsOpen(out[s].pcm)
    BY <2>1, Zenon DEF OutInv
  <2>3. misuse' = misuse
    BY <1>3, <2>2, Zenon DEF WriteStart
  <2> QED BY <1>1, <2>1, <2>3, Zenon
<1>4. ASSUME NEW t \in Threads, PositionStamp(t) PROVE PcmUsedOpen'
  <2> DEFINE s == call[t].s
  <2>1. s \in Streams /\ client' = client /\ call[t].at = "stamp"
    BY <1>4, Zenon DEF PositionStamp, LockInv, CallOK
  <2>2. misuse' \subseteq {"position"}
    BY <1>4, Zenon DEF PositionStamp, PcmUsedOpen
  <2>3. CASE "serial" \in client
    <3>1. call[t].pcm = out[s].pcm /\ out[s].pcm # NullPcm
      BY <2>1, <2>3, Zenon DEF CallInv, SafeCall
    <3>2. IsOpen(out[s].pcm) \/ out[s].pcm = BadPcm
      BY <2>1, <3>1, Zenon DEF OutInv
    <3>3. misuse' = misuse
      BY <1>4, <3>1, <3>2, Zenon DEF PositionStamp
    <3> QED BY <1>1, <2>1, <3>3, Zenon
  <2>4. CASE "serial" \notin client
    BY <2>1, <2>2, <2>4, Zenon DEF PcmUsedOpen
  <2> QED BY <2>3, <2>4, Zenon
<1>5. CASE UNCHANGED vars \/ adev_open \/ adev_close \/ \E p \in PcmIds : Play(p)
  BY <1>1, <1>5, Zenon DEF vars, adev_open, adev_close, Play
<1>6. CASE \E s \in Streams : adev_open_output_stream(s) \/ adev_close_output_stream(s)
  BY <1>1, <1>6, Zenon DEF adev_open_output_stream, adev_close_output_stream
<1>7. ASSUME NEW t \in Threads,
             \/ \E s \in Streams, op \in {"standby", "route", "write"}, n \in Nat : Begin(t, s, op, n)
             \/ \E s \in Streams : PositionTest(t, s)
             \/ Lock(t) \/ PositionCompute(t) \/ WriteFrame(t)
             \/ \E ok \in BOOLEAN : WriteReturns(t, ok)
             \/ \E val \in Routes : OutSetParameters(t, val)
      PROVE  PcmUsedOpen'
  BY <1>1, <1>7, Zenon DEF Begin, PositionTest, Lock, PositionCompute, WriteFrame, WriteReturns, OutSetParameters
<1>8. 0 \in Nat /\ \A n \in 1 .. MaxWrite : n \in Nat
  BY AudioAssumption
<1> QED
  BY <1>2, <1>3, <1>4, <1>5, <1>6, <1>7, <1>8, Zenon DEF Next

\* tinyalsa is never given a closed or NULL PCM by a write or by standby, for
\* any number of threads and streams, nor by a position query of a framework
\* that does not overlap it with another call on the stream.
THEOREM AudioPcmUsedOpen == Spec => []PcmUsedOpen
<1>1. Init => OutInv /\ CallInv /\ PcmUsedOpen
  <2> SUFFICES ASSUME Init PROVE OutInv /\ CallInv /\ PcmUsedOpen
    BY Zenon
  <2>1. OutInv
    BY Zenon DEF Init, OutInv, Closed
  <2>2. \A t \in Threads : call[t] = Idle
    BY Zenon DEF Init
  <2>3. \A t, u \in Threads : Apart(call[t], call[u])
    BY <2>2, IdleFacts, Zenon DEF Apart
  <2>4. CallInv
    BY <2>2, <2>3, IdleSafe, Zenon DEF CallInv
  <2>5. PcmUsedOpen
    BY Zenon DEF Init, PcmUsedOpen
  <2> QED BY <2>1, <2>4, <2>5, Zenon
<1>2. /\ LockInv /\ TypeInv /\ OutInv /\ CallInv /\ PcmUsedOpen /\ [Next]_vars
      => OutInv' /\ CallInv' /\ PcmUsedOpen'
  BY OutStep, CallStep, MisuseStep, Zenon
<1> QED BY <1>1, <1>2, LockInvariant, PTL DEF Spec

-----------------------------------------------------------------------------
(* No PCM is lost.                                                         *)

AudioInv == LockInv /\ TypeInv /\ OutInv /\ CallInv

\* The streams' PCMs and the calls on them, at all times.
LEMMA AudioInvariant == Spec => []AudioInv
<1>1. Init => OutInv /\ CallInv
  <2> SUFFICES ASSUME Init PROVE OutInv /\ CallInv
    BY Zenon
  <2>1. OutInv
    BY Zenon DEF Init, OutInv, Closed
  <2>2. \A t \in Threads : call[t] = Idle
    BY Zenon DEF Init
  <2>3. \A t, u \in Threads : Apart(call[t], call[u])
    BY <2>2, IdleFacts, Zenon DEF Apart
  <2> QED BY <2>1, <2>2, <2>3, IdleSafe, Zenon DEF CallInv
<1>2. LockInv /\ TypeInv /\ OutInv /\ CallInv /\ [Next]_vars => OutInv' /\ CallInv'
  BY OutStep, CallStep, Zenon
<1> QED BY <1>1, <1>2, LockInvariant, PTL DEF Spec, AudioInv

\* An open PCM is that of a stream out of standby, and so is the active
\* output; a stream that is closed is in standby.
DevType == [open : BOOLEAN, devices : Routes, active_output : Streams \union {NoStream}]

Owned ==
  /\ \A p : IsOpen(p) => \E s \in Streams : out[s].pcm = p /\ ~out[s].standby
  /\ dev.active_output # NoStream => ~out[dev.active_output].standby

ClosedInStandby == \A s \in Streams : ~out[s].open => out[s].standby

OwnInv == dev \in DevType /\ ClosedInStandby /\ ("orderly" \in client => Owned)

\* A frame that comes into a buffer or leaves it opens and closes nothing.
LEMMA QueueKeepsOpen ==
  ASSUME PcmsTyped, NEW p, IsOpen(p), NEW n \in Int,
         pcms' = [pcms EXCEPT ![p].queue = n]
  PROVE  /\ \A q : IsOpen(q)' => IsOpen(q)
         /\ pcms'[p].queue = n /\ \A q \in DOMAIN pcms : q # p => pcms'[q] = pcms[q]
<1>1. p \in DOMAIN pcms /\ pcms[p] \in PcmType
  BY Zenon DEF IsOpen, PcmsTyped
<1>2. DOMAIN pcms' = DOMAIN pcms /\ pcms'[p].queue = n /\ pcms'[p].open = pcms[p].open
      /\ \A q \in DOMAIN pcms : q # p => pcms'[q] = pcms[q]
  BY <1>1, Zenon DEF PcmsTyped, PcmType
<1> QED BY <1>2, Zenon DEF IsOpen

\* Each stream keeps its standby and its PCM, and no PCM is opened.
LEMMA OwnKept ==
  ASSUME OwnInv, client' = client, dev' \in DevType,
         dev'.active_output \in {dev.active_output, NoStream},
         \A s \in Streams : /\ out'[s].open <=> out[s].open
                            /\ out'[s].standby <=> out[s].standby
                            /\ ~out[s].standby => out'[s].pcm = out[s].pcm,
         \A p : IsOpen(p)' => IsOpen(p)
  PROVE  OwnInv'
<1>1. ClosedInStandby'
  BY Zenon DEF OwnInv, ClosedInStandby
<1>2. ASSUME Owned PROVE Owned'
  <2>1. ASSUME NEW p, IsOpen(p)'
        PROVE  \E s \in Streams : out'[s].pcm = p /\ ~out'[s].standby
    <3>1. PICK s \in Streams : out[s].pcm = p /\ ~out[s].standby
      BY <1>2, <2>1, Zenon DEF Owned
    <3> QED BY <3>1, Zenon
  <2>2. dev'.active_output # NoStream => ~out'[dev'.active_output].standby
    BY <1>2, Zenon DEF Owned, DevType
  <2> QED BY <2>1, <2>2, Zenon DEF Owned
<1> QED BY <1>1, <1>2, Zenon DEF OwnInv

\* Every step keeps the PCMs owned.
LEMMA OwnStep == ASSUME AudioInv, OwnInv, [Next]_vars PROVE OwnInv'
<1> USE DEF AudioInv
<1>1. ASSUME UNCHANGED <<client, dev, out, pcms>> PROVE OwnInv'
  <2>1. \A p : IsOpen(p)' => IsOpen(p)
    BY <1>1, Zenon DEF IsOpen
  <2> QED BY <1>1, <2>1, OwnKept, Zenon DEF OwnInv
<1>2. ASSUME NEW s \in Streams, adev_open_output_stream(s) \/ adev_close_output_stream(s) PROVE OwnInv'
  <2>1. PICK x \in OutType : /\ out' = [out EXCEPT ![s] = x] /\ x.standby
                             /\ UNCHANGED <<client, dev, pcms>>
    <3>1. Closed.standby
      BY Zenon DEF Closed
    <3>2. [Closed EXCEPT !.open = TRUE].standby
      BY Zenon DEF Closed
    <3> QED BY <1>2, <3>1, <3>2, ClosedTyped, Zenon DEF adev_open_output_stream, adev_close_output_stream
  <2>2. out'[s] = x /\ \A u \in Streams \ {s} : out'[u] = out[u]
    BY <2>1, Zenon DEF TypeInv
  <2>3. ClosedInStandby'
    BY <2>1, <2>2, Zenon DEF OwnInv, ClosedInStandby
  <2>4. "orderly" \in client => out[s].standby
    BY <1>2, Zenon DEF adev_open_output_stream, adev_close_output_stream, OwnInv, ClosedInStandby
  <2>5. ASSUME "orderly" \in client PROVE Owned'
    <3>1. Owned /\ out[s].standby
      BY <2>4, <2>5, Zenon DEF OwnInv
    <3>2. ASSUME NEW p, IsOpen(p)'
          PROVE  \E u \in Streams : out'[u].pcm = p /\ ~out'[u].standby
      <4>1. IsOpen(p)
        BY <2>1, <3>2, Zenon DEF IsOpen
      <4>2. PICK u \in Streams : out[u].pcm = p /\ ~out[u].standby
        BY <3>1, <4>1, Zenon DEF Owned
      <4> QED BY <2>2, <3>1, <4>2, Zenon
    <3>3. dev'.active_output # NoStream => ~out'[dev'.active_output].standby
      BY <2>1, <2>2, <3>1 DEF Owned, OwnInv, DevType
    <3> QED BY <3>2, <3>3, Zenon DEF Owned
  <2> QED BY <2>1, <2>3, <2>5, Zenon DEF OwnInv
<1>3. ASSUME NEW p, IsOpen(p), NEW n \in Int, pcms' = [pcms EXCEPT ![p].queue = n],
             UNCHANGED <<client, dev, out>>
      PROVE  OwnInv'
  <2>1. \A q : IsOpen(q)' => IsOpen(q)
    BY <1>3, QueueKeepsOpen, Zenon DEF TypeInv
  <2> QED BY <1>3, <2>1, OwnKept, Zenon DEF OwnInv
<1>4. ASSUME NEW p \in PcmIds, Play(p) PROVE OwnInv'
  <2>1. /\ IsOpen(p) /\ UNCHANGED <<client, dev, out>>
        /\ pcms' = [pcms EXCEPT ![p].queue = pcms[p].queue - 1]
    BY <1>4, Zenon DEF Play
  <2>2. pcms[p].queue - 1 \in Int
    BY <2>1 DEF TypeInv, PcmsTyped, PcmType, IsOpen
  <2> QED BY <1>3, <2>1, <2>2, Zenon
<1>5. ASSUME NEW t \in Threads, WriteFrame(t) PROVE OwnInv'
  <2> DEFINE p == out[call[t].s].pcm
  <2>1. /\ IsOpen(p) /\ UNCHANGED <<client, dev, out>>
        /\ pcms' = [pcms EXCEPT ![p].queue = pcms[p].queue + 1]
    BY <1>5, Zenon DEF WriteFrame
  <2> HIDE DEF p
  <2>2. pcms[p].queue + 1 \in Int
    BY <2>1 DEF TypeInv, PcmsTyped, PcmType, IsOpen
  <2> QED BY <1>3, <2>1, <2>2, Zenon
<1>6. ASSUME NEW t \in Threads, NEW ok \in BOOLEAN, WriteReturns(t, ok) PROVE OwnInv'
  <2>1. call[t].s \in Streams /\ call[t].n \in Nat /\ UNCHANGED <<client, dev, pcms>>
    BY <1>6, Zenon DEF WriteReturns, LockInv, CallOK, CallType
  <2>2. \A s \in Streams : /\ out'[s].open <=> out[s].open
                           /\ out'[s].standby <=> out[s].standby
                           /\ out'[s].pcm = out[s].pcm
    BY <1>6, <2>1, Zenon DEF WriteReturns, TypeInv, OutType
  <2>3. \A p : IsOpen(p)' => IsOpen(p)
    BY <2>1, Zenon DEF IsOpen
  <2> QED BY <2>1, <2>2, <2>3, OwnKept, Zenon DEF OwnInv
<1>7. ASSUME NEW t \in Threads, OutStandby(t) PROVE OwnInv'
  <2> DEFINE s == call[t].s
  <2>1. s \in Streams /\ do_output_standby(s) /\ client' = client
    BY <1>7, Zenon DEF OutStandby, LockInv, CallOK
  <2> HIDE DEF s
  <2>2. CASE out[s].standby
    BY <1>1, <2>1, <2>2, Zenon DEF do_output_standby
  <2>3. CASE ~out[s].standby
    <3>1. /\ out'[s].standby /\ \A u \in Streams \ {s} : out'[u] = out[u]
      BY <2>1, <2>3, StandbyStep, Zenon
    <3>2. /\ pcms' = pcm_close(out[s].pcm)
          /\ dev' = [dev EXCEPT !.active_output = NoStream]
      BY <2>1, <2>3, Zenon DEF do_output_standby
    <3>3. \A q : IsOpen(q)' => IsOpen(q) /\ q # out[s].pcm
      BY <3>2, Zenon DEF pcm_close, IsOpen
    <3>4. ClosedInStandby'
      BY <3>1, Zenon DEF OwnInv, ClosedInStandby
    <3>6. dev' \in DevType /\ dev'.active_output = NoStream
      BY <3>2, Zenon DEF DevType, OwnInv
    <3>5. ASSUME Owned PROVE Owned'
      <4>1. ASSUME NEW p, IsOpen(p)'
            PROVE  \E u \in Streams : out'[u].pcm = p /\ ~out'[u].standby
        <5>1. PICK u \in Streams : out[u].pcm = p /\ ~out[u].standby
          BY <3>3, <3>5, <4>1, Zenon DEF Owned
        <5> QED BY <3>1, <3>3, <4>1, <5>1, Zenon
      <4> QED BY <3>6, <4>1, Zenon DEF Owned
    <3> QED BY <2>1, <3>4, <3>5, <3>6, Zenon DEF OwnInv
  <2> QED BY <2>2, <2>3, Zenon
<1>8. ASSUME NEW t \in Threads, WriteStart(t) PROVE OwnInv'
  <2> DEFINE s == call[t].s
  <2>1. s \in Streams /\ client' = client /\ out[s].open
    <3>1. s \in Streams /\ client' = client /\ call[t].at = "body"
      BY <1>8, Zenon DEF WriteStart, LockInv, CallOK
    <3>2. SafeCall(client, call[t], out[s])
      BY Zenon DEF CallInv
    <3> QED BY <3>1, <3>2, Zenon DEF SafeCall
  <2>2. CASE StartFails(t, s) /\ out[s].standby
    <3>1. dev' \in DevType /\ dev'.active_output = NoStream /\ pcms' = pcms
      BY <2>2, Zenon DEF StartFails, OwnInv, DevType
    <3>2. \A u \in Streams : /\ out'[u].open <=> out[u].open
                             /\ out'[u].standby <=> out[u].standby
                             /\ ~out[u].standby => out'[u].pcm = out[u].pcm
      BY <2>1, <2>2, Zenon DEF StartFails, TypeInv, OutType, BadPcm
    <3>3. \A p : IsOpen(p)' => IsOpen(p)
      BY <3>1, Zenon DEF IsOpen
    <3> QED BY <2>1, <3>1, <3>2, <3>3, OwnKept, Zenon
  <2>3. CASE StartOpens(t, s) /\ out[s].standby
    <3>1. PICK p \in PcmIds : pcm_open_ok(p, pcms') /\ out' = [out EXCEPT ![s].pcm = p, ![s].standby = FALSE]
      BY <2>3, Zenon DEF StartOpens
    <3>2. /\ out'[s].pcm = p /\ ~out'[s].standby /\ (out'[s].open <=> out[s].open)
          /\ \A u \in Streams \ {s} : out'[u] = out[u]
      BY <2>1, <3>1, Zenon DEF TypeInv, OutType, PcmIds
    <3>3. \A q : IsOpen(q)' => IsOpen(q) \/ q = p
      BY <3>1, Zenon DEF pcm_open_ok, IsOpen
    <3>4. dev' \in DevType /\ dev'.active_output = s
      BY <2>1, <2>3, Zenon DEF StartOpens, OwnInv, DevType
    <3>5. ClosedInStandby'
      BY <2>1, <3>2, Zenon DEF OwnInv, ClosedInStandby
    <3>6. ASSUME Owned PROVE Owned'
      <4>1. ASSUME NEW q, IsOpen(q)'
            PROVE  \E u \in Streams : out'[u].pcm = q /\ ~out'[u].standby
        <5>1. CASE q = p
          BY <2>1, <3>2, <5>1, Zenon
        <5>2. CASE IsOpen(q)
          <6>1. PICK u \in Streams : out[u].pcm = q /\ ~out[u].standby
            BY <3>6, <5>2, Zenon DEF Owned
          <6> QED BY <2>3, <3>2, <6>1, Zenon
        <5> QED BY <3>3, <4>1, <5>1, <5>2, Zenon
      <4> QED BY <3>2, <3>4, <4>1, Zenon DEF Owned
    <3> QED BY <2>1, <3>4, <3>5, <3>6, Zenon DEF OwnInv
  <2>5. CASE out' = out /\ pcms' = pcms /\ dev' = dev
    BY <1>1, <2>1, <2>5, Zenon
  <2> QED BY <1>8, <2>2, <2>3, <2>5, Zenon DEF WriteStart, StartRefused
<1>9. CASE adev_open \/ adev_close
  <2>1. /\ UNCHANGED <<client, out, pcms>>
        /\ dev' \in DevType /\ dev'.active_output = NoStream
    <3>1. \A b \in BOOLEAN : LET d == [open |-> b, devices |-> 0, active_output |-> NoStream]
                            IN  d \in DevType /\ d.active_output = NoStream
      BY AudioAssumption, Zenon DEF DevType
    <3> QED BY <1>9, <3>1, Zenon DEF adev_open, adev_close
  <2>2. \A p : IsOpen(p)' => IsOpen(p)
    BY <2>1, Zenon DEF IsOpen
  <2> QED BY <2>1, <2>2, OwnKept, Zenon
<1>10. ASSUME NEW t \in Threads, NEW val \in Routes, OutSetParameters(t, val) PROVE OwnInv'
  <2>1. /\ UNCHANGED <<client, out, pcms>>
        /\ dev' \in DevType /\ dev'.active_output = dev.active_output
    BY <1>10, Zenon DEF OutSetParameters, OwnInv, DevType
  <2>2. \A p : IsOpen(p)' => IsOpen(p)
    BY <2>1, Zenon DEF IsOpen
  <2> QED BY <2>1, <2>2, OwnKept, Zenon
<1>11. ASSUME NEW t \in Threads,
             \/ \E s \in Streams, op \in {"standby", "route", "write"}, n \in Nat : Begin(t, s, op, n)
             \/ \E s \in Streams : PositionTest(t, s)
             \/ Lock(t) \/ PositionStamp(t) \/ PositionCompute(t)
      PROVE  OwnInv'
  BY <1>1, <1>11, Zenon DEF Begin, PositionTest, Lock, PositionStamp, PositionCompute
<1>12. CASE UNCHANGED vars
  BY <1>1, <1>12, Zenon DEF vars
<1>13. 0 \in Nat /\ \A n \in 1 .. MaxWrite : n \in Nat
  BY AudioAssumption
<1> QED
  BY <1>2, <1>4, <1>5, <1>6, <1>7, <1>8, <1>9, <1>10, <1>11, <1>12, <1>13, Zenon DEF Next

\* To a framework that closes its streams in standby no PCM is lost, for any
\* number of streams and threads: start_output_stream and do_output_standby
\* keep each open PCM that of one stream out of standby.
THEOREM AudioPcmAccounted == Spec => []PcmAccounted
<1>1. Init => OwnInv
  <2> SUFFICES ASSUME Init PROVE OwnInv
    BY Zenon
  <2>1. dev \in DevType /\ dev.active_output = NoStream
    BY AudioAssumption, Zenon DEF Init, DevType
  <2>2. \A s \in Streams : out[s].standby
    BY Zenon DEF Init, Closed
  <2>3. \A p : ~IsOpen(p)
    BY Zenon DEF Init, IsOpen
  <2> QED BY <2>1, <2>2, <2>3, Zenon DEF OwnInv, Owned, ClosedInStandby
<1>2. AudioInv /\ OwnInv /\ [Next]_vars => OwnInv'
  BY OwnStep, Zenon
<1>3. AudioInv /\ OwnInv => PcmAccounted
  <2>1. ASSUME AudioInv, OwnInv, "orderly" \in client
        PROVE  \A p \in OpenPcms : \E s \in Streams : out[s].pcm = p /\ ~out[s].standby
    BY <2>1, Zenon DEF OpenPcms, OwnInv, Owned, IsOpen
  <2> QED BY <2>1, Zenon DEF AudioInv, OwnInv, Owned, OutInv, PcmAccounted
<1> QED BY <1>1, <1>2, <1>3, AudioInvariant, PTL DEF Spec

-----------------------------------------------------------------------------
(* The position reported.                                                  *)

Queue(s) == pcms[out[s].pcm].queue

\* What stream o has counted, and what its PCM has not played yet, has
\* reached a buffer.
StreamCounts(o, f, q) ==
  /\ f \in Nat /\ o.frames <= f
  /\ ~o.standby => q <= f

\* A write in the PCM has fed it what is not left, on top of what was counted;
\* a query that overlaps no other call has read no less than is queued.
CallCounts(cl, c, o, f, q) ==
  /\ c.at \in {"dev", "out", "body"} => c.left = c.n
  /\ c.at = "pcm" => o.frames + c.n - c.left <= f
  /\ "serial" \in cl /\ c.at = "compute" =>
       ~o.standby /\ q <= BufferSize - c.avail /\ BufferSize - c.avail <= f

CountInv ==
  /\ fed \in [Streams -> Nat]
  /\ \A s \in Streams : StreamCounts(out[s], fed[s], Queue(s))
  /\ \A t \in Threads, s \in Streams :
       call[t].s = s => CallCounts(client, call[t], out[s], fed[s], Queue(s))

\* A step that changes the streams of S, and calls that it leaves counted.
LEMMA CountsKept ==
  ASSUME AudioInv, AudioInv', CountInv, client' = client, NEW S \in SUBSET Streams,
         fed' \in [Streams -> Nat],
         \A u \in Streams \ S : /\ out'[u] = out[u] /\ fed'[u] = fed[u]
                                /\ ~out[u].standby => Queue(u)' <= Queue(u),
         \A s \in S : StreamCounts(out'[s], fed'[s], Queue(s)'),
         \A t \in Threads, v \in Streams : call'[t].s = v =>
           \/ /\ call'[t] = call[t]
              /\ v \in S => call[t].at # "pcm" /\ ("serial" \in client => call[t].at # "compute")
           \/ CallCounts(client, call'[t], out'[v], fed'[v], Queue(v)')
  PROVE  CountInv'
<1>1. \A u \in Streams : ~out[u].standby => Queue(u) \in Int
  BY Zenon DEF AudioInv, OutInv, TypeInv, PcmsTyped, PcmType, IsOpen, Queue
<1>2. \A u \in Streams : ~out'[u].standby => Queue(u)' \in Int
  BY Zenon DEF AudioInv, OutInv, TypeInv, PcmsTyped, PcmType, IsOpen, Queue
<1>3. ASSUME NEW u \in Streams PROVE StreamCounts(out'[u], fed'[u], Queue(u)')
  <2>1. CASE u \notin S
    BY <1>1, <1>2, <2>1, SMTT(20) DEF CountInv, StreamCounts
  <2> QED BY <2>1, Zenon
<1>4. ASSUME NEW t \in Threads, NEW v \in Streams, call'[t].s = v
      PROVE  CallCounts(client', call'[t], out'[v], fed'[v], Queue(v)')
  <2>1. CASE call'[t] = call[t] /\ (v \in S => call[t].at # "pcm" /\ ("serial" \in client => call[t].at # "compute"))
    <3>1. CallCounts(client, call[t], out[v], fed[v], Queue(v)) /\ call[t].avail \in Int
      <4>1. call[t].s = v
        BY <1>4, <2>1, Zenon
      <4>2. CallCounts(client, call[t], out[v], fed[v], Queue(v))
        BY <4>1, ZenonT(30) DEF CountInv
      <4>3. call[t] \in CallType
        BY ZenonT(30) DEF AudioInv, LockInv
      <4>4. call[t].avail \in Int
        BY <4>3, Zenon DEF CallType
      <4> QED BY <4>2, <4>4, Zenon
    <3>2. CASE v \in S
      BY <2>1, <3>1, <3>2, Zenon DEF CallCounts
    <3>3. CASE v \notin S
      <4>1. out'[v] = out[v] /\ fed'[v] = fed[v] /\ (~out[v].standby => Queue(v)' <= Queue(v))
        BY <1>4, <3>3, Zenon
      <4>2. ~out[v].standby => Queue(v) \in Int /\ Queue(v)' \in Int
        BY <1>1, <1>2, <1>4, <4>1, Zenon
      <4>3. BufferSize \in Int
        BY AudioAssumption
      <4> QED BY <2>1, <3>1, <4>1, <4>2, <4>3, SMTT(20) DEF CallCounts
    <3> QED BY <3>2, <3>3, Zenon
  <2> QED BY <1>4, <2>1, Zenon
<1> QED BY <1>3, <1>4, Zenon DEF CountInv

\* No other thread is in the PCM of a stream whose mutex is held, nor queries it.
LEMMA OthersAway ==
  ASSUME AudioInv, NEW t \in Threads, NEW u \in Threads \ {t}, call[t].at \in {"body", "pcm"},
         call[u].s = call[t].s
  PROVE  call[u].at # "pcm" /\ ("serial" \in client => call[u].at # "compute")
<1>1. call[t].s \in Streams
  BY Zenon DEF AudioInv, LockInv, CallOK
<1>2. ASSUME call[u].at = "pcm" PROVE FALSE
  <2>1. outLock[call[t].s] = u /\ outLock[call[t].s] = t
    BY <1>1, <1>2, Zenon DEF AudioInv, LockInv
  <2> QED BY <2>1, Zenon
<1>3. ASSUME "serial" \in client, call[u].at = "compute" PROVE FALSE
  <2>1. Apart(call[u], call[t])
    BY <1>3, Zenon DEF AudioInv, CallInv
  <2> QED BY <1>3, <2>1, Zenon DEF Apart
<1> QED BY <1>2, <1>3, Zenon

\* A step of one thread that leaves the streams and the PCMs alone.
LEMMA CountMoves ==
  ASSUME AudioInv, AudioInv', CountInv, NEW t \in Threads, NEW c, call' = [call EXCEPT ![t] = c],
         UNCHANGED <<client, out, pcms, fed>>,
         \A s \in Streams : c.s = s => CallCounts(client, c, out[s], fed[s], Queue(s))
  PROVE  CountInv'
<1>1. call'[t] = c /\ \A u \in Threads \ {t} : call'[u] = call[u]
  BY OneCall, Zenon DEF AudioInv
<1>2. \A u \in Streams : Queue(u)' = Queue(u)
  BY Zenon DEF Queue
<1> QED BY <1>1, <1>2, Zenon DEF CountInv

\* A step of a thread that holds the mutex of stream s and changes it.
LEMMA CountOwner ==
  ASSUME AudioInv, AudioInv', CountInv, NEW t \in Threads, NEW s \in Streams, call[t].s = s,
         call[t].at \in {"body", "pcm"}, NEW c, call' = [call EXCEPT ![t] = c], UNCHANGED client,
         fed' \in [Streams -> Nat],
         \A u \in Streams \ {s} : /\ out'[u] = out[u] /\ fed'[u] = fed[u]
                                  /\ ~out[u].standby => Queue(u)' <= Queue(u),
         StreamCounts(out'[s], fed'[s], Queue(s)'),
         c = Idle \/ (c.s = s /\ CallCounts(client, c, out'[s], fed'[s], Queue(s)'))
  PROVE  CountInv'
<1>1. call'[t] = c /\ \A u \in Threads \ {t} : call'[u] = call[u]
  BY OneCall, Zenon DEF AudioInv
<1>2. ASSUME NEW u \in Threads, NEW v \in Streams, call'[u].s = v
      PROVE  \/ /\ call'[u] = call[u]
                /\ v \in {s} => call[u].at # "pcm" /\ ("serial" \in client => call[u].at # "compute")
             \/ CallCounts(client, call'[u], out'[v], fed'[v], Queue(v)')
  <2>1. CASE u = t
    <3>1. c # Idle
      BY <1>1, <1>2, <2>1, IdleFacts, AudioAssumption, ZenonT(30)
    <3>2. v = s /\ CallCounts(client, c, out'[s], fed'[s], Queue(s)')
      BY <1>1, <1>2, <2>1, <3>1, Zenon
    <3> QED BY <1>1, <2>1, <3>2, Zenon
  <2>2. CASE u # t
    BY <1>1, <1>2, <2>2, OthersAway, SMTT(20)
  <2> QED BY <2>1, <2>2, Zenon
<1> DEFINE S == {s}
<1>3. S \in SUBSET Streams /\ \A u \in S : StreamCounts(out'[u], fed'[u], Queue(u)')
  BY Zenon
<1> QED BY <1>2, <1>3, CountsKept, Zenon

\* Playing, writing a frame and closing leave the other PCMs' queues.
LEMMA OtherQueues ==
  ASSUME AudioInv, NEW s \in Streams, ~out[s].standby, NEW x,
         pcms' = [q \in DOMAIN pcms |-> IF q = out[s].pcm THEN x ELSE pcms[q]],
         \A u \in Streams \ {s} : out'[u] = out[u]
  PROVE  \A u \in Streams \ {s} : ~out[u].standby => Queue(u)' = Queue(u)
<1> SUFFICES ASSUME NEW u \in Streams \ {s}, ~out[u].standby PROVE Queue(u)' = Queue(u)
  BY Zenon
<1>1. out[u].pcm # out[s].pcm /\ out[u].pcm \in DOMAIN pcms /\ out'[u].pcm = out[u].pcm
  BY Zenon DEF AudioInv, OutInv, IsOpen
<1> QED BY <1>1, Zenon DEF Queue

\* A query that has its timestamp, again: what it keeps.
LEMMA Stamped ==
  ASSUME NEW c \in CallType, NEW a \in Int,
         NEW d, d = [c EXCEPT !.at = "compute", !.avail = a, !.pcm = NullPcm]
  PROVE  d.avail = a /\ d.at = "compute" /\ d.s = c.s
<1> DEFINE x == [c EXCEPT !.at = "compute"]
           y == [x EXCEPT !.avail = a]
<1>1. d = [y EXCEPT !.pcm = NullPcm]
  BY Zenon
<1>2. x \in CallType /\ y.avail = a
  BY Zenon DEF CallType, Places
<1> HIDE DEF x
<1>3. y \in CallType
  BY <1>2, Zenon DEF CallType
<1> HIDE DEF y
<1>4. d.avail = y.avail
  BY <1>1, <1>3, Zenon DEF CallType
<1>5. d.at = "compute" /\ d.s = c.s
  BY StampedTyped, Zenon
<1> QED BY <1>2, <1>4, <1>5, Zenon

\* Every step keeps the counts.
LEMMA CountStep == ASSUME AudioInv, CountInv, [Next]_vars PROVE CountInv'
<1>0. AudioInv'
  BY LockStep, TypeStep, OutStep, CallStep, Zenon DEF AudioInv
<1>1. CASE UNCHANGED vars \/ adev_open \/ adev_close
  <2>1. UNCHANGED <<client, out, pcms, fed, call>>
    BY <1>1, Zenon DEF vars, adev_open, adev_close
  <2>2. \A u \in Streams : Queue(u)' = Queue(u)
    BY <2>1, Zenon DEF Queue
  <2> QED BY <2>1, <2>2, Zenon DEF CountInv
<1>2. ASSUME NEW s \in Streams, adev_open_output_stream(s) \/ adev_close_output_stream(s) PROVE CountInv'
  <2>1. /\ UNCHANGED <<client, pcms, call>> /\ fed' \in [Streams -> Nat]
        /\ \A u \in Streams \ {s} : out'[u] = out[u] /\ fed'[u] = fed[u]
    BY <1>2 DEF adev_open_output_stream, adev_close_output_stream, AudioInv, TypeInv, CountInv
  <2>2. ASSUME NEW u \in Threads PROVE call[u].s # s
    <3>1. CASE adev_close_output_stream(s)
      BY <3>1, Zenon DEF adev_close_output_stream, InCall
    <3>2. CASE adev_open_output_stream(s)
      <4> SUFFICES ASSUME call[u].s = s PROVE FALSE
        BY Zenon
      <4>1. call[u] # Idle
        BY IdleFacts, AudioAssumption, Zenon
      <4>2. call[u].at # ""
        BY <4>1, Zenon DEF AudioInv, LockInv, CallOK
      <4>3. SafeCall(client, call[u], out[s]) /\ ~out[s].open
        BY <3>2, Zenon DEF AudioInv, CallInv, adev_open_output_stream
      <4> QED BY <4>2, <4>3, Zenon DEF SafeCall
    <3> QED BY <1>2, <3>1, <3>2, Zenon
  <2>3. out'[s].standby /\ out'[s].frames = 0 /\ out'[s] \in OutType
    <3>1. Closed.standby /\ Closed.frames = 0
      BY Zenon DEF Closed
    <3>2. [Closed EXCEPT !.open = TRUE].standby /\ [Closed EXCEPT !.open = TRUE].frames = 0
      BY Zenon DEF Closed
    <3>3. out'[s] \in {Closed, [Closed EXCEPT !.open = TRUE]}
      BY <1>2, Zenon DEF adev_open_output_stream, adev_close_output_stream, AudioInv, TypeInv
    <3> QED BY <3>1, <3>2, <3>3, ClosedTyped, Zenon
  <2>4. StreamCounts(out'[s], fed'[s], Queue(s)')
    BY <2>1, <2>3 DEF StreamCounts
  <2>5. \A u \in Streams \ {s} : ~out[u].standby => Queue(u) \in Int
    BY Zenon DEF AudioInv, OutInv, TypeInv, PcmsTyped, PcmType, IsOpen, Queue
  <2>6. \A u \in Streams \ {s} : ~out[u].standby => Queue(u)' <= Queue(u)
    BY <2>1, <2>5 DEF Queue
  <2> DEFINE S == {s}
  <2>7. S \in SUBSET Streams /\ \A u \in S : StreamCounts(out'[u], fed'[u], Queue(u)')
    BY <2>4, Zenon
  <2> QED BY <1>0, <2>1, <2>2, <2>6, <2>7, CountsKept, Zenon
<1>3. ASSUME NEW p \in PcmIds, Play(p) PROVE CountInv'
  <2>1. /\ UNCHANGED <<client, out, fed, call>> /\ IsOpen(p)
        /\ pcms' = [pcms EXCEPT ![p].queue = pcms[p].queue - 1]
    BY <1>3, Zenon DEF Play
  <2>2. pcms \in [DOMAIN pcms -> PcmType] /\ p \in DOMAIN pcms /\ pcms[p].queue \in Int
    BY <2>1, Zenon DEF AudioInv, TypeInv, PcmsTyped, PcmType, IsOpen
  <2>3. \A q \in DOMAIN pcms : pcms[q].queue \in Int /\ pcms'[q].queue <= pcms[q].queue
    BY <2>1, <2>2 DEF PcmType
  <2>4. \A u \in Streams : ~out[u].standby => out[u].pcm \in DOMAIN pcms
    BY Zenon DEF AudioInv, OutInv, IsOpen
  <2> DEFINE S == {}
  <2>5. S \in SUBSET Streams /\ \A u \in Streams \ S : ~out[u].standby => Queue(u)' <= Queue(u)
    BY <2>1, <2>3, <2>4, Zenon DEF Queue
  <2>6. fed \in [Streams -> Nat]
    BY Zenon DEF CountInv
  <2> QED BY <1>0, <2>1, <2>5, <2>6, CountsKept, ZenonT(30)
<1>4. ASSUME NEW t \in Threads, WriteFrame(t) PROVE CountInv'
  <2>0. PICK s \in Streams : s = call[t].s
    BY <1>4, Zenon DEF WriteFrame, AudioInv, LockInv, CallOK
  <2> DEFINE p == out[s].pcm
             c == [call[t] EXCEPT !.left = call[t].left - 1]
             x == [pcms[p] EXCEPT !.queue = pcms[p].queue + 1]
  <2>1. /\ call[t] \in CallType /\ call[t].at = "pcm" /\ call[t].left > 0
        /\ UNCHANGED <<client, out>> /\ IsOpen(p)
        /\ pcms' = [pcms EXCEPT ![p] = x]
        /\ call' = [call EXCEPT ![t] = c]
        /\ fed' = [fed EXCEPT ![s] = fed[s] + 1]
    BY <1>4, <2>0, SMTT(20) DEF WriteFrame, AudioInv, LockInv
  <2>2. c.s = s /\ c.at = "pcm" /\ c.left = call[t].left - 1 /\ c.n = call[t].n
    BY <2>0, <2>1, Zenon DEF CallType
  <2>3. call[t].left \in Int /\ call[t].n \in Int /\ out[s].frames \in Int /\ fed[s] \in Nat
    BY <2>1 DEF CallType, AudioInv, TypeInv, OutType, CountInv
  <2>4. ~out[s].standby
    <3>1. SafeCall(client, call[t], out[s])
      BY <2>0, Zenon DEF AudioInv, CallInv
    <3> QED BY <2>1, <3>1, Zenon DEF SafeCall
  <2>5. pcms[p] \in PcmType /\ x.queue = Queue(s) + 1 /\ Queue(s) \in Int
    BY <2>1, Zenon DEF AudioInv, TypeInv, PcmsTyped, PcmType, IsOpen, Queue
  <2>6. CallCounts(client, call[t], out[s], fed[s], Queue(s)) /\ StreamCounts(out[s], fed[s], Queue(s))
    BY <2>0, Zenon DEF CountInv
  <2>7. fed' \in [Streams -> Nat] /\ fed'[s] = fed[s] + 1 /\ \A u \in Streams \ {s} : fed'[u] = fed[u]
    BY <2>1, <2>3 DEF CountInv
  <2>8. pcms' = [q \in DOMAIN pcms |-> IF q = p THEN x ELSE pcms[q]]
    BY <2>1, Zenon DEF AudioInv, TypeInv, PcmsTyped
  <2>9. Queue(s)' = Queue(s) + 1
    BY <2>1, <2>5, <2>8, Zenon DEF Queue, IsOpen
  <2> HIDE DEF c, x
  <2>10. \A u \in Streams \ {s} : ~out[u].standby => Queue(u)' <= Queue(u)
    <3>1. \A u \in Streams \ {s} : ~out[u].standby => Queue(u) \in Int
      BY Zenon DEF AudioInv, OutInv, TypeInv, PcmsTyped, PcmType, IsOpen, Queue
    <3>2. \A u \in Streams \ {s} : out'[u] = out[u]
      BY <2>1, Zenon
    <3>3. pcms' = [q \in DOMAIN pcms |-> IF q = out[s].pcm THEN x ELSE pcms[q]]
      BY <2>8, Zenon
    <3>4. \A u \in Streams \ {s} : ~out[u].standby => Queue(u)' = Queue(u)
      BY <2>4, <3>2, <3>3, OtherQueues, Zenon
    <3> QED BY <3>1, <3>4
  <2>11. StreamCounts(out'[s], fed'[s], Queue(s)')
    BY <2>1, <2>3, <2>5, <2>6, <2>7, <2>9, SMTT(20) DEF StreamCounts
  <2>12. CallCounts(client, c, out'[s], fed'[s], Queue(s)')
    BY <2>1, <2>2, <2>3, <2>6, <2>7, SMTT(20) DEF CallCounts
  <2> QED BY <1>0, <2>0, <2>1, <2>2, <2>7, <2>10, <2>11, <2>12, CountOwner, Zenon
<1>5. ASSUME NEW t \in Threads, NEW ok \in BOOLEAN, WriteReturns(t, ok) PROVE CountInv'
  <2>0. PICK s \in Streams : s = call[t].s
    BY <1>5, Zenon DEF WriteReturns, AudioInv, LockInv, CallOK
  <2>1. /\ call[t] \in CallType /\ call[t].at = "pcm" /\ (ok => call[t].left = 0)
        /\ UNCHANGED <<client, pcms, fed>>
        /\ call' = [call EXCEPT ![t] = Idle]
        /\ out' = IF ok THEN [out EXCEPT ![s].frames = out[s].frames + call[t].n] ELSE out
    BY <1>5, <2>0, Zenon DEF WriteReturns, AudioInv, LockInv
  <2>2. call[t].left \in Int /\ call[t].n \in Nat /\ out[s].frames \in Nat /\ fed \in [Streams -> Nat]
        /\ out[s] \in OutType
    BY <2>1 DEF CallType, AudioInv, TypeInv, OutType, CountInv
  <2>3. /\ out'[s].frames = IF ok THEN out[s].frames + call[t].n ELSE out[s].frames
        /\ out'[s].standby <=> out[s].standby
        /\ out'[s].pcm = out[s].pcm
        /\ \A u \in Streams \ {s} : out'[u] = out[u]
    BY <2>1, <2>2, Zenon DEF AudioInv, TypeInv, OutType
  <2>4. \A u \in Streams : Queue(u)' = Queue(u)
    BY <2>1, <2>3, Zenon DEF Queue
  <2>5. CallCounts(client, call[t], out[s], fed[s], Queue(s)) /\ StreamCounts(out[s], fed[s], Queue(s))
    BY <2>0, Zenon DEF CountInv
  <2>6. out'[s].frames <= fed[s]
    BY <2>1, <2>2, <2>3, <2>5 DEF CallCounts, StreamCounts
  <2>7. StreamCounts(out'[s], fed'[s], Queue(s)')
    BY <2>1, <2>3, <2>4, <2>5, <2>6, Zenon DEF StreamCounts
  <2>8. \A u \in Streams \ {s} : ~out[u].standby => Queue(u) \in Int
    BY Zenon DEF AudioInv, OutInv, TypeInv, PcmsTyped, PcmType, IsOpen, Queue
  <2>9. \A u \in Streams \ {s} : ~out[u].standby => Queue(u)' <= Queue(u)
    BY <2>4, <2>8
  <2> QED BY <1>0, <2>0, <2>1, <2>2, <2>3, <2>7, <2>9, CountOwner, Zenon

<1>6. ASSUME NEW t \in Threads, OutStandby(t) PROVE CountInv'
  <2>0. PICK s \in Streams : s = call[t].s
    BY <1>6, Zenon DEF OutStandby, AudioInv, LockInv, CallOK
  <2>1. /\ do_output_standby(s) /\ call[t].at = "body" /\ UNCHANGED <<client, fed>>
        /\ call' = [call EXCEPT ![t] = Idle]
    BY <1>6, <2>0, Zenon DEF OutStandby, Unlock
  <2>2. CASE out[s].standby
    <3>1. UNCHANGED <<out, pcms>>
      BY <2>1, <2>2, Zenon DEF do_output_standby
    <3> QED BY <1>0, <2>1, <3>1, CountMoves, IdleFacts, AudioAssumption, Zenon
  <2>3. CASE ~out[s].standby
    <3>1. out'[s].standby /\ \A u \in Streams \ {s} : out'[u] = out[u]
      BY <2>1, <2>3, StandbyStep, Zenon DEF AudioInv
    <3>2. out'[s].frames = out[s].frames
      BY <2>1, <2>3 DEF do_output_standby, AudioInv, TypeInv, OutType, NullPcm
    <3>3. pcms' = [q \in DOMAIN pcms |-> IF q = out[s].pcm THEN [open |-> FALSE, queue |-> 0] ELSE pcms[q]]
      BY <2>1, <2>3, Zenon DEF do_output_standby, pcm_close
    <3>4. \A u \in Streams \ {s} : ~out[u].standby => Queue(u) \in Int
      BY Zenon DEF AudioInv, OutInv, TypeInv, PcmsTyped, PcmType, IsOpen, Queue
    <3>5. \A u \in Streams \ {s} : ~out[u].standby => Queue(u)' <= Queue(u)
      BY <2>3, <3>1, <3>3, <3>4, OtherQueues, SMTT(20)
    <3>6. StreamCounts(out'[s], fed'[s], Queue(s)')
      <4>1. StreamCounts(out[s], fed[s], Queue(s))
        BY Zenon DEF CountInv
      <4>2. fed'[s] = fed[s]
        BY <2>1, Zenon
      <4> QED BY <3>1, <3>2, <4>1, <4>2, Zenon DEF StreamCounts
    <3>7. fed \in [Streams -> Nat]
      BY Zenon DEF CountInv
    <3> QED BY <1>0, <2>0, <2>1, <3>1, <3>5, <3>6, <3>7, CountOwner, Zenon
  <2> QED BY <2>2, <2>3, Zenon
<1>7. ASSUME NEW t \in Threads, WriteStart(t) PROVE CountInv'
  <2>0. PICK s \in Streams : s = call[t].s
    BY <1>7, ZenonT(30) DEF WriteStart, AudioInv, LockInv, CallOK
  <2> DEFINE c == [call[t] EXCEPT !.at = "pcm"]
  <2>1. call[t].at = "body" /\ UNCHANGED <<client, fed>> /\ call[t] \in CallType
    BY <1>7, Zenon DEF WriteStart, AudioInv, LockInv
  <2>2. fed \in [Streams -> Nat] /\ StreamCounts(out[s], fed[s], Queue(s)) /\ call[t].left = call[t].n
    BY <2>0, <2>1, Zenon DEF CountInv, CallCounts
  <2>3. c.at = "pcm" /\ c.s = s /\ c.left = call[t].n /\ c.n = call[t].n /\ call[t].n \in Int
        /\ out[s].frames \in Int
    BY <2>0, <2>1, <2>2 DEF CallType, AudioInv, TypeInv, OutType
  <2>4. \A u \in Streams : ~out[u].standby => Queue(u) \in Int /\ out[u].pcm \in DOMAIN pcms
    BY Zenon DEF AudioInv, OutInv, TypeInv, PcmsTyped, PcmType, IsOpen, Queue
  <2>5. CASE StartRefused(t, s)
    BY <1>0, <2>1, <2>5, CountMoves, IdleFacts, AudioAssumption, ZenonT(30) DEF StartRefused, Unlock
  <2>6. CASE StartFails(t, s) /\ out[s].standby
    <3>1. pcms' = pcms /\ call' = [call EXCEPT ![t] = Idle]
      BY <2>6, Zenon DEF StartFails, Unlock
    <3>2. /\ out'[s].standby /\ out'[s].frames = out[s].frames
          /\ \A u \in Streams \ {s} : out'[u] = out[u]
      BY <2>6, Zenon DEF StartFails, AudioInv, TypeInv, OutType, BadPcm
    <3>3. \A u \in Streams \ {s} : ~out[u].standby => Queue(u)' <= Queue(u)
      BY <2>4, <3>1, <3>2, SMTT(20) DEF Queue
    <3>4. StreamCounts(out'[s], fed'[s], Queue(s)')
      BY <2>1, <2>2, <3>2, Zenon DEF StreamCounts
    <3> QED BY <1>0, <2>0, <2>1, <2>2, <3>1, <3>2, <3>3, <3>4, CountOwner, Zenon
  <2>7. CASE StartOpens(t, s)
    <3>1. PICK p \in PcmIds : pcm_open_ok(p, pcms') /\ out' = [out EXCEPT ![s].pcm = p, ![s].standby = FALSE]
      BY <2>7, Zenon DEF StartOpens
    <3>2. /\ out'[s].pcm = p /\ out'[s].frames = out[s].frames
          /\ \A u \in Streams \ {s} : out'[u] = out[u]
      BY <3>1, Zenon DEF AudioInv, TypeInv, OutType, PcmIds
    <3>3. p \notin DOMAIN pcms
      BY <3>1, OpenStep, Zenon DEF AudioInv, TypeInv
    <3>4. pcms'[p].queue = 0 /\ \A q \in DOMAIN pcms : pcms'[q] = pcms[q]
      BY <3>1, <3>3, Zenon DEF pcm_open_ok
    <3>5. \A u \in Streams \ {s} : ~out[u].standby => Queue(u)' <= Queue(u)
      BY <2>4, <3>2, <3>4 DEF Queue
    <3>6. Queue(s)' = 0
      BY <3>2, <3>4, Zenon DEF Queue
    <3>7. StreamCounts(out'[s], fed'[s], Queue(s)')
      BY <2>1, <2>2, <3>2, <3>6 DEF StreamCounts
    <3>8. call' = [call EXCEPT ![t] = c]
      BY <2>7, Zenon DEF StartOpens, ToPcm, AudioInv, LockInv
    <3> HIDE DEF c
    <3>9. CallCounts(client, c, out'[s], fed'[s], Queue(s)')
      BY <2>1, <2>2, <2>3, <3>2, SMTT(20) DEF CallCounts, StreamCounts
    <3> QED BY <1>0, <2>0, <2>1, <2>2, <2>3, <3>2, <3>5, <3>7, <3>8, <3>9, CountOwner, Zenon
  <2>8. CASE ToPcm(t) /\ UNCHANGED <<out, pcms>>
    <3>1. call' = [call EXCEPT ![t] = c]
      BY <2>8, Zenon DEF ToPcm, AudioInv, LockInv
    <3> HIDE DEF c
    <3>2. CallCounts(client, c, out[s], fed[s], Queue(s))
      BY <2>1, <2>2, <2>3, SMTT(20) DEF CallCounts, StreamCounts
    <3> QED BY <1>0, <2>1, <2>3, <2>8, <3>1, <3>2, CountMoves, Zenon
  <2> QED BY <1>7, <2>0, <2>5, <2>6, <2>7, <2>8, Zenon DEF WriteStart
<1>8. ASSUME NEW t \in Threads, NEW s \in Streams, NEW op \in {"standby", "route", "write"}, NEW n \in Nat,
             Begin(t, s, op, n)
      PROVE  CountInv'
  <2> DEFINE c == Called(op, "dev", s, NullPcm, n)
  <2>1. call' = [call EXCEPT ![t] = c] /\ UNCHANGED <<client, out, pcms, fed>>
    BY <1>8, Zenon DEF Begin, LockOrder
  <2>2. c.at = "dev" /\ c.left = c.n
    BY Zenon DEF Called
  <2> HIDE DEF c
  <2> QED BY <1>0, <2>1, <2>2, CountMoves, Zenon DEF CallCounts
<1>9. ASSUME NEW t \in Threads, NEW s \in Streams, PositionTest(t, s) PROVE CountInv'
  <2> DEFINE c == Called("position", "stamp", s, out[s].pcm, 0)
  <2>1. call' = [call EXCEPT ![t] = c] /\ UNCHANGED <<client, out, pcms, fed>>
    BY <1>9, Zenon DEF PositionTest
  <2>2. c.at = "stamp"
    BY Zenon DEF Called
  <2> HIDE DEF c
  <2> QED BY <1>0, <2>1, <2>2, CountMoves, Zenon DEF CallCounts
<1>10. ASSUME NEW t \in Threads, call' = [call EXCEPT ![t] = Idle], UNCHANGED <<client, out, pcms, fed>>
       PROVE  CountInv'
  BY <1>0, <1>10, CountMoves, IdleFacts, AudioAssumption, Zenon
<1>11. ASSUME NEW t \in Threads, Lock(t) PROVE CountInv'
  <2>1. PICK w \in {"out", "body"} : w = After(t, call[t].at)
    BY <1>11, Zenon DEF Lock, After, LockOrder
  <2> DEFINE c == [call[t] EXCEPT !.at = w]
  <2>2. /\ call' = [call EXCEPT ![t] = c] /\ UNCHANGED <<client, out, pcms, fed>>
        /\ call[t] \in CallType /\ call[t].at \in {"dev", "out"} /\ call[t].s \in Streams
    BY <1>11, <2>1, Zenon DEF Lock, AudioInv, LockInv, CallOK
  <2>3. call[t].left = call[t].n
    BY <2>2, Zenon DEF CountInv, CallCounts
  <2>4. c.at \in {"out", "body"} /\ c.left = c.n
    BY <2>2, <2>3, Zenon DEF CallType
  <2> HIDE DEF c
  <2> QED BY <1>0, <2>2, <2>4, CountMoves, Zenon DEF CallCounts
<1>12. ASSUME NEW t \in Threads, PositionStamp(t) PROVE CountInv'
  <2>0. PICK s \in Streams : s = call[t].s
    BY <1>12, Zenon DEF PositionStamp, AudioInv, LockInv, CallOK
  <2>1. call[t].at = "stamp" /\ UNCHANGED <<client, out, pcms, fed>> /\ call[t] \in CallType
    BY <1>12, Zenon DEF PositionStamp, AudioInv, LockInv
  <2>2. ASSUME NEW p \in {call[t].pcm, out[s].pcm}, IsOpen(p),
               call' = [call EXCEPT ![t].at = "compute", ![t].avail = BufferSize - pcms[p].queue,
                                    ![t].pcm = NullPcm]
        PROVE  CountInv'
    <3> DEFINE a == BufferSize - pcms[p].queue
               c == [call[t] EXCEPT !.at = "compute", !.avail = a, !.pcm = NullPcm]
    <3>1. pcms[p].queue \in Int /\ BufferSize - a = pcms[p].queue
      BY <2>2, AudioAssumption DEF IsOpen, AudioInv, TypeInv, PcmsTyped, PcmType
    <3>8. a \in Int
      BY <3>1, AudioAssumption
    <3>2. call' = [call EXCEPT ![t] = c]
      BY <2>2, ZenonT(30) DEF AudioInv, LockInv
    <3> HIDE DEF a
    <3>6. call[t] \in CallType
      BY <2>1, Zenon
    <3>9. \A d : d = c => d.avail = a /\ d.at = "compute" /\ d.s = call[t].s
      BY <3>6, <3>8, Stamped, Zenon
    <3> HIDE DEF c
    <3>7. c.avail = a /\ c.at = "compute" /\ c.s = call[t].s
      BY <3>9, Zenon
    <3>3. c.avail = a /\ c.at = "compute" /\ c.s = s
      BY <2>0, <3>7, Zenon
    <3>4. ASSUME "serial" \in client
          PROVE  ~out[s].standby /\ Queue(s) <= BufferSize - a /\ BufferSize - a <= fed[s]
      <4>1. SafeCall(client, call[t], out[s])
        BY <2>0, Zenon DEF AudioInv, CallInv
      <4>2. p = out[s].pcm
        BY <2>1, <2>2, <3>4, <4>1, Zenon DEF SafeCall
      <4>3. ~out[s].standby
        <5>1. \E n \in Nat : DOMAIN pcms = 1 .. n
          BY Zenon DEF AudioInv, TypeInv, PcmsTyped
        <5>2. p # 0 /\ p # -1
          BY <2>2, <5>1 DEF IsOpen
        <5> QED BY <4>2, <5>2, Zenon DEF AudioInv, OutInv, NullPcm, BadPcm
      <4>4. Queue(s) = pcms[p].queue
        BY <4>2, Zenon DEF Queue
      <4> QED BY <3>1, <4>3, <4>4, SMTT(20) DEF CountInv, StreamCounts
    <3>5. CallCounts(client, c, out[s], fed[s], Queue(s))
      BY <3>3, <3>4, Zenon DEF CallCounts
    <3> QED BY <1>0, <2>1, <3>2, <3>3, <3>5, CountMoves, Zenon
  <2> QED BY <1>10, <1>12, <2>0, <2>1, <2>2, Zenon DEF PositionStamp
<1>13. ASSUME NEW t \in Threads, PositionCompute(t) \/ \E val \in Routes : OutSetParameters(t, val)
       PROVE  CountInv'
  BY <1>10, <1>13, Zenon DEF PositionCompute, OutSetParameters, Unlock
<1>14. 0 \in Nat /\ \A n \in 1 .. MaxWrite : n \in Nat
  BY AudioAssumption
<1> QED
  BY <1>1, <1>2, <1>3, <1>4, <1>5, <1>6, <1>7, <1>8, <1>9, <1>11, <1>12, <1>13, <1>14, Zenon DEF Next

\* What a remainder is.
LEMMA Remainders ==
  ASSUME NEW a \in Nat, NEW m \in Nat \ {0}
  PROVE  a % m \in Int /\ a % m <= a /\ (a < m => a % m = a)
OBVIOUS

\* The position reported to a framework that overlaps its queries with no other
\* call on the stream counts only frames the codec is done with: `written'
\* counts only what reached a buffer, and the queue only drains between
\* pcm_get_htimestamp and the read of `written'.
THEOREM AudioPositionTrue == Spec => []PositionTrue
<1>1. Init => CountInv
  <2> SUFFICES ASSUME Init PROVE CountInv
    BY Zenon
  <2>1. \A s \in Streams : out[s].standby /\ out[s].frames = 0 /\ fed[s] = 0
    BY Zenon DEF Init, Closed
  <2>2. \A t \in Threads : call[t].s = NoStream
    BY IdleFacts, Zenon DEF Init
  <2>3. fed \in [Streams -> Nat]
    BY Zenon DEF Init
  <2>4. \A s \in Streams : StreamCounts(out[s], fed[s], Queue(s))
    BY <2>1, SMTT(20) DEF StreamCounts
  <2> QED BY <2>2, <2>3, <2>4, AudioAssumption, Zenon DEF CountInv
<1>2. AudioInv /\ CountInv /\ [Next]_vars => CountInv'
  BY CountStep, Zenon
<1>3. AudioInv /\ CountInv => PositionTrue
  <2> SUFFICES ASSUME AudioInv, CountInv, "serial" \in client, NEW t \in Threads, NEW wide \in BOOLEAN,
                      call[t].at = "compute",
                      wide \/ (fed[call[t].s] = out[call[t].s].frames /\ fed[call[t].s] < WrittenMod)
               PROVE  Position(t, wide) <= Played(call[t].s)
    BY Zenon DEF PositionTrue
  <2>0. PICK s \in Streams : s = call[t].s
    BY Zenon DEF AudioInv, LockInv, CallOK
  <2> DEFINE q == Queue(s)
             a == call[t].avail
             f == out[s].frames
  <2>1. ~out[s].standby /\ q <= BufferSize - a /\ BufferSize - a <= fed[s] /\ f <= fed[s]
    BY <2>0, Zenon DEF CountInv, CallCounts, StreamCounts
  <2>2. IsOpen(out[s].pcm)
    BY <2>1, Zenon DEF AudioInv, OutInv
  <2>3. q \in Int /\ a \in Int /\ f \in Nat /\ fed[s] \in Nat /\ BufferSize \in Nat /\ WrittenMod \in Nat \ {0}
    BY <2>2, AudioAssumption, SMTT(20)
    DEF AudioInv, TypeInv, PcmsTyped, PcmType, IsOpen, Queue, OutType, CountInv, LockInv, CallType
  <2>4. Played(call[t].s) = fed[s] - q
    BY <2>0, <2>2, Zenon DEF Played, Queue
  <2>5. f % WrittenMod \in Int /\ f % WrittenMod <= f /\ (f < WrittenMod => f % WrittenMod = f)
    BY <2>3, Remainders, Zenon
  <2>6. Position(t, wide) = LET d == (f % WrittenMod) - BufferSize + a IN IF wide THEN d ELSE d % WrittenMod
    BY <2>0, Zenon DEF Position, SignedFrames, written
  <2> HIDE DEF q, a, f
  <2>7. CASE wide
    BY <2>1, <2>3, <2>4, <2>5, <2>6, <2>7, SMTT(20)
  <2>8. CASE ~wide
    <3> DEFINE d == (f % WrittenMod) - BufferSize + a
    <3>1. fed[s] = f /\ f < WrittenMod
      BY <2>0, <2>8, Zenon DEF f
    <3>2. d \in Nat /\ d <= fed[s] - q
      BY <2>1, <2>3, <2>5, <3>1
    <3> HIDE DEF d
    <3>3. d % WrittenMod <= d /\ d % WrittenMod \in Int
      BY <2>3, <3>2, Remainders, Zenon
    <3>4. Position(t, wide) = d % WrittenMod
      BY <2>6, <2>8, Zenon DEF d
    <3> QED BY <2>3, <2>4, <3>2, <3>3, <3>4, SMTT(20)
  <2> QED BY <2>7, <2>8, Zenon
<1> QED BY <1>1, <1>2, <1>3, AudioInvariant, PTL DEF Spec
=============================================================================
