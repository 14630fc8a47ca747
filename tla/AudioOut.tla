------------------------------ MODULE AudioOut ------------------------------
(***************************************************************************)
(* The playback side of the audio HAL, audio/audio_hw.c: output streams    *)
(* that share one PCM port, the device mutex and one mutex per stream.     *)
(* Each call is taken by a thread of the audio framework; a call is cut    *)
(* where it takes a mutex, where it blocks in the PCM and, in              *)
(* out_get_presentation_position, which takes no mutex, at every read of   *)
(* what other threads write.                                               *)
(*                                                                         *)
(* tinyalsa and the codec are external: an open may fail, and does while   *)
(* the port's substreams are taken; a failed open returns one static PCM   *)
(* that is never ready, that pcm_close leaves alone and of which a         *)
(* timestamp is an error; a write feeds the PCM's buffer frame by frame    *)
(* and may fail half way; the codec plays the buffer.  What the framework  *)
(* promises is chosen in Init: "serial", a position query overlaps no      *)
(* other call on its stream, and "orderly", a stream is in standby when it *)
(* is closed.  One promise is always kept: a stream is closed after its    *)
(* last call has returned (its memory is freed).                           *)
(***************************************************************************)
EXTENDS Integers, FiniteSets

CONSTANTS
  Threads, Streams,
  NoThread, NoStream,
  Routes,       \* output devices a routing request can name, 0 for none
  Substreams,   \* PCMs the port lets be open at a time
  BufferSize,   \* period_size * period_count, in frames
  WrittenMod,   \* 2^32: `written' is an unsigned int
  MaxWrite,     \* frames in one write
  MaxFrames,    \* frames written to a stream
  MaxPcms       \* PCMs opened

ASSUME AudioAssumption ==
  /\ NoThread \notin Threads /\ NoStream \notin Streams /\ 0 \in Routes
  /\ {Substreams, BufferSize, WrittenMod, MaxWrite, MaxFrames, MaxPcms} \subseteq Nat \ {0}

VARIABLES
  client,     \* what the framework promises
  dev,        \* [open, devices, active_output]
  devLock,    \* adev->lock: its owner
  outLock,    \* out->lock: its owner, by stream
  out,        \* struct alsa_stream_out, by stream
  pcms,       \* the PCMs opened: [open, queue], queue the frames not played yet
  call,       \* what each thread is doing
  fed,        \* frames that have reached a buffer, by stream
  misuse      \* the calls that were given a PCM they must not use

vars == <<client, dev, devLock, outLock, out, pcms, call, fed, misuse>>

NullPcm == 0
BadPcm  == -1   \* what a failed pcm_open returns
PcmIds  == 1 .. MaxPcms

Closed == [open |-> FALSE, standby |-> TRUE, unavailable |-> FALSE, pcm |-> NullPcm, frames |-> 0]

\* A thread in a call on stream s, with the PCM it has read and the frames it writes.
Called(op, at, s, pcm, n) ==
  [op |-> op, at |-> at, s |-> s, pcm |-> pcm, n |-> n, left |-> n, avail |-> 0]

Idle == Called("none", "", NoStream, NullPcm, 0)

\* out->written, from the frames of every write that succeeded.
written(s) == out[s].frames % WrittenMod

IsOpen(p) == p \in DOMAIN pcms /\ pcms[p].open
OpenPcms  == {p \in DOMAIN pcms : pcms[p].open}

-----------------------------------------------------------------------------
(* tinyalsa.                                                               *)

\* The PCM that pcm_open returns, and the PCMs after it.
pcm_open_ok(p, after) ==
  /\ Cardinality(OpenPcms) < Substreams /\ Cardinality(DOMAIN pcms) < MaxPcms
  /\ p = Cardinality(DOMAIN pcms) + 1
  /\ after = [q \in DOMAIN pcms \union {p} |->
                IF q = p THEN [open |-> TRUE, queue |-> 0] ELSE pcms[q]]

\* pcm_close drops what was not played.
pcm_close(p) ==
  [q \in DOMAIN pcms |-> IF q = p THEN [open |-> FALSE, queue |-> 0] ELSE pcms[q]]

\* The codec plays a frame.
Play(p) ==
  /\ IsOpen(p) /\ pcms[p].queue > 0
  /\ pcms' = [pcms EXCEPT ![p].queue = @ - 1]
  /\ UNCHANGED <<client, dev, devLock, outLock, out, call, fed, misuse>>

-----------------------------------------------------------------------------
(* Taking and releasing the mutexes.                                       *)

Querying(s) == \E t \in Threads : call[t].s = s /\ call[t].op = "position"
InCall(s)   == \E t \in Threads : call[t].s = s

\* A thread enters a call on an open stream.
MayCall(t, s, op) ==
  /\ call[t] = Idle /\ out[s].open
  /\ "serial" \in client => IF op = "position" THEN ~InCall(s) ELSE ~Querying(s)

\* Fault: out_standby takes the stream's mutex first.
LockOrderSwapped(op) == IF op = "standby" THEN <<"out", "dev">> ELSE <<"dev", "out">>

\* The order in which out_standby, out_set_parameters and out_write lock.
LockOrder(op) == <<"dev", "out">>

Begin(t, s, op, n) ==
  /\ MayCall(t, s, op) /\ op \in {"standby", "route", "write"}
  /\ call' = [call EXCEPT ![t] = Called(op, LockOrder(op)[1], s, NullPcm, n)]
  /\ UNCHANGED <<client, dev, devLock, outLock, out, pcms, fed, misuse>>

\* pthread_mutex_lock returns; the next mutex is wanted, or the body follows.
After(t, m) ==
  IF LockOrder(call[t].op)[1] = m THEN LockOrder(call[t].op)[2] ELSE "body"

Lock(t) ==
  /\ \/ /\ call[t].at = "dev" /\ devLock = NoThread
        /\ devLock' = t /\ UNCHANGED outLock
     \/ /\ call[t].at = "out" /\ outLock[call[t].s] = NoThread
        /\ outLock' = [outLock EXCEPT ![call[t].s] = t] /\ UNCHANGED devLock
  /\ call' = [call EXCEPT ![t].at = After(t, @)]
  /\ UNCHANGED <<client, dev, out, pcms, fed, misuse>>

\* Both mutexes are released and the call returns.
Unlock(t, s) ==
  /\ devLock' = NoThread
  /\ outLock' = [outLock EXCEPT ![s] = NoThread]
  /\ call' = [call EXCEPT ![t] = Idle]

-----------------------------------------------------------------------------
(* out_standby and out_set_parameters.                                     *)

\* pcm_close of a PCM that is not open, or that a write is using.
CloseMisused(s) ==
  \/ ~IsOpen(out[s].pcm)
  \/ \E t \in Threads : call[t].s = s /\ call[t].at = "pcm"

\* Fault: the stream keeps the PCM it has closed and is not in standby.
do_output_standby_keeps(s) ==
  IF out[s].standby THEN UNCHANGED <<out, dev, pcms, misuse>>
  ELSE /\ pcms' = pcm_close(out[s].pcm)
       /\ misuse' = IF CloseMisused(s) THEN misuse \union {"close"} ELSE misuse
       /\ dev' = [dev EXCEPT !.active_output = NoStream]
       /\ UNCHANGED out

do_output_standby(s) ==
  IF out[s].standby THEN UNCHANGED <<out, dev, pcms, misuse>>
  ELSE /\ pcms' = pcm_close(out[s].pcm)
       /\ misuse' = IF CloseMisused(s) THEN misuse \union {"close"} ELSE misuse
       /\ out' = [out EXCEPT ![s].pcm = NullPcm, ![s].standby = TRUE]
       /\ dev' = [dev EXCEPT !.active_output = NoStream]

OutStandby(t) ==
  LET s == call[t].s IN
  /\ call[t].op = "standby" /\ call[t].at = "body"
  /\ do_output_standby(s)
  /\ Unlock(t, s)
  /\ UNCHANGED <<client, fed>>

\* The routing a request names replaces the old one, unless it names none.
OutSetParameters(t, val) ==
  /\ call[t].op = "route" /\ call[t].at = "body"
  /\ dev' = IF val # 0 /\ val # dev.devices THEN [dev EXCEPT !.devices = val] ELSE dev
  /\ Unlock(t, call[t].s)
  /\ UNCHANGED <<client, out, pcms, fed, misuse>>

-----------------------------------------------------------------------------
(* out_write.                                                              *)

\* The device mutex is released; the write goes on with the stream's alone.
ToPcm(t) ==
  /\ devLock' = NoThread
  /\ call' = [call EXCEPT ![t].at = "pcm"]
  /\ UNCHANGED outLock

\* start_output_stream, when the stream is in standby: it fails for good once
\* an open has failed.
StartRefused(t, s) ==
  /\ out[s].unavailable
  /\ Unlock(t, s)
  /\ UNCHANGED <<out, dev, pcms>>

StartFails(t, s) ==
  /\ ~out[s].unavailable
  /\ out' = [out EXCEPT ![s].pcm = BadPcm, ![s].unavailable = TRUE]
  /\ dev' = [dev EXCEPT !.active_output = NoStream]
  /\ Unlock(t, s)
  /\ UNCHANGED pcms

\* Fault: the stream stays in standby.
StartOpensInStandby(t, s) ==
  /\ ~out[s].unavailable
  /\ \E p \in PcmIds :
       /\ pcm_open_ok(p, pcms')
       /\ out' = [out EXCEPT ![s].pcm = p]
  /\ dev' = [dev EXCEPT !.active_output = s]
  /\ ToPcm(t)

StartOpens(t, s) ==
  /\ ~out[s].unavailable
  /\ \E p \in PcmIds :
       /\ pcm_open_ok(p, pcms')
       /\ out' = [out EXCEPT ![s].pcm = p, ![s].standby = FALSE]
  /\ dev' = [dev EXCEPT !.active_output = s]
  /\ ToPcm(t)

WriteStart(t) ==
  LET s == call[t].s IN
  /\ call[t].op = "write" /\ call[t].at = "body"
  /\ IF out[s].standby
     THEN /\ StartRefused(t, s) \/ StartFails(t, s) \/ StartOpens(t, s)
          /\ UNCHANGED misuse
     ELSE /\ ToPcm(t)
          /\ misuse' = IF IsOpen(out[s].pcm) THEN misuse ELSE misuse \union {"write"}
          /\ UNCHANGED <<out, dev, pcms>>
  /\ UNCHANGED <<client, fed>>

\* pcm_mmap_write: a frame reaches the buffer as there is room.
WriteFrame(t) ==
  LET p == out[call[t].s].pcm IN
  /\ call[t].at = "pcm" /\ call[t].left > 0
  /\ IsOpen(p) /\ pcms[p].queue < BufferSize
  /\ pcms' = [pcms EXCEPT ![p].queue = @ + 1]
  /\ call' = [call EXCEPT ![t].left = @ - 1]
  /\ fed' = [fed EXCEPT ![call[t].s] = @ + 1]
  /\ UNCHANGED <<client, dev, devLock, outLock, out, misuse>>

\* Fault: the frames of a write that failed are counted too.
WriteReturnsCountsAll(t, ok) ==
  LET s == call[t].s IN
  /\ call[t].at = "pcm"
  /\ ok => call[t].left = 0
  /\ out' = [out EXCEPT ![s].frames = @ + call[t].n]
  /\ outLock' = [outLock EXCEPT ![s] = NoThread]
  /\ call' = [call EXCEPT ![t] = Idle]
  /\ UNCHANGED <<client, dev, devLock, pcms, fed, misuse>>

\* It returns: `written' counts the frames of a write that succeeded.
WriteReturns(t, ok) ==
  LET s == call[t].s IN
  /\ call[t].at = "pcm"
  /\ ok => call[t].left = 0
  /\ out' = IF ok THEN [out EXCEPT ![s].frames = @ + call[t].n] ELSE out
  /\ outLock' = [outLock EXCEPT ![s] = NoThread]
  /\ call' = [call EXCEPT ![t] = Idle]
  /\ UNCHANGED <<client, dev, devLock, pcms, fed, misuse>>

-----------------------------------------------------------------------------
(* out_get_presentation_position: no mutex is held.                        *)

\* out->pcm is tested.
PositionTest(t, s) ==
  /\ MayCall(t, s, "position") /\ out[s].pcm # NullPcm
  /\ call' = [call EXCEPT ![t] = Called("position", "stamp", s, out[s].pcm, 0)]
  /\ UNCHANGED <<client, dev, devLock, outLock, out, pcms, fed, misuse>>

\* pcm_get_htimestamp, with the pointer tested or with the one read again.
PositionStamp(t) ==
  /\ call[t].at = "stamp"
  /\ \E p \in {call[t].pcm, out[call[t].s].pcm} :
       \/ /\ IsOpen(p)
          /\ call' = [call EXCEPT ![t].at = "compute", ![t].avail = BufferSize - pcms[p].queue,
                                  ![t].pcm = NullPcm]
          /\ UNCHANGED misuse
       \/ /\ IsOpen(p) \/ p = BadPcm
          /\ call' = [call EXCEPT ![t] = Idle]
          /\ UNCHANGED misuse
       \/ /\ ~IsOpen(p) /\ p # BadPcm
          /\ call' = [call EXCEPT ![t] = Idle]
          /\ misuse' = misuse \union {"position"}
  /\ UNCHANGED <<client, dev, devLock, outLock, out, pcms, fed>>

\* signed_frames: the difference is taken in size_t, so that it is negative
\* only where size_t is wider than `written'.
SignedFrames(w, avail, wide) ==
  LET frames == w - BufferSize + avail IN
  IF wide THEN frames ELSE frames % WrittenMod

\* What a thread that has its timestamp is about to report, unless negative.
Position(t, wide) == SignedFrames(written(call[t].s), call[t].avail, wide)

\* `written' is read and the position reported.
PositionCompute(t) ==
  /\ call[t].at = "compute"
  /\ call' = [call EXCEPT ![t] = Idle]
  /\ UNCHANGED <<client, dev, devLock, outLock, out, pcms, fed, misuse>>

-----------------------------------------------------------------------------
(* The device and its streams.                                             *)

adev_open ==
  /\ ~dev.open
  /\ dev' = [open |-> TRUE, devices |-> 0, active_output |-> NoStream]
  /\ UNCHANGED <<client, devLock, outLock, out, pcms, call, fed, misuse>>

adev_close ==
  /\ dev.open /\ \A s \in Streams : ~out[s].open
  /\ dev' = [open |-> FALSE, devices |-> 0, active_output |-> NoStream]
  /\ UNCHANGED <<client, devLock, outLock, out, pcms, call, fed, misuse>>

\* Whatever configuration is asked for, the stream has the codec's.
adev_open_output_stream(s) ==
  /\ dev.open /\ ~out[s].open
  /\ out' = [out EXCEPT ![s] = [Closed EXCEPT !.open = TRUE]]
  /\ fed' = [fed EXCEPT ![s] = 0]
  /\ UNCHANGED <<client, dev, devLock, outLock, pcms, call, misuse>>

\* The structure is freed, whatever its PCM.  That no call on the stream is
\* under way is the framework's promise: the code does not look.
adev_close_output_stream(s) ==
  /\ out[s].open /\ ~InCall(s)
  /\ "orderly" \in client => out[s].standby
  /\ out' = [out EXCEPT ![s] = Closed]
  /\ UNCHANGED <<client, dev, devLock, outLock, pcms, call, fed, misuse>>

-----------------------------------------------------------------------------
Init ==
  /\ client \in SUBSET {"serial", "orderly"}
  /\ dev = [open |-> FALSE, devices |-> 0, active_output |-> NoStream]
  /\ devLock = NoThread /\ outLock = [s \in Streams |-> NoThread]
  /\ out = [s \in Streams |-> Closed]
  /\ pcms = [p \in {} |-> [open |-> FALSE, queue |-> 0]]
  /\ call = [t \in Threads |-> Idle]
  /\ fed = [s \in Streams |-> 0]
  /\ misuse = {}

\* A write is made while the frames it could add are within the bound.
MayWrite(s, n) == fed[s] + n <= MaxFrames

Next ==
  \/ adev_open \/ adev_close
  \/ \E s \in Streams : adev_open_output_stream(s) \/ adev_close_output_stream(s)
  \/ \E p \in PcmIds : Play(p)
  \/ \E t \in Threads :
       \/ \E s \in Streams :
            \/ Begin(t, s, "standby", 0) \/ Begin(t, s, "route", 0)
            \/ \E n \in 1 .. MaxWrite : MayWrite(s, n) /\ Begin(t, s, "write", n)
            \/ PositionTest(t, s)
       \/ Lock(t)
       \/ OutStandby(t)
       \/ \E val \in Routes : OutSetParameters(t, val)
       \/ WriteStart(t) \/ WriteFrame(t)
       \/ \E ok \in BOOLEAN : WriteReturns(t, ok)
       \/ PositionStamp(t) \/ PositionCompute(t)

Spec == Init /\ [][Next]_vars

-----------------------------------------------------------------------------
(* Properties.                                                             *)

\* Neither out_write, which goes on without the device mutex, nor standby
\* ever passes tinyalsa a PCM that is closed or NULL, whatever the framework's
\* threads do meanwhile; and a position query does not either when it overlaps
\* no other call on its stream.
PcmUsedOpen ==
  /\ misuse \subseteq {"position"}
  /\ "serial" \in client => misuse = {}

\* With streams closed in standby no PCM is lost: every open one is the PCM of
\* a stream out of standby, each such stream has one of its own, and the
\* device's active output is such a stream.
PcmAccounted ==
  "orderly" \in client =>
    /\ \A p \in OpenPcms : \E s \in Streams : out[s].pcm = p /\ ~out[s].standby
    /\ \A s \in Streams : ~out[s].standby => IsOpen(out[s].pcm)
    /\ \A s, u \in Streams : s # u /\ ~out[s].standby /\ ~out[u].standby => out[s].pcm # out[u].pcm
    /\ dev.active_output # NoStream => ~out[dev.active_output].standby

Waits(t, u) ==
  \/ call[t].at = "dev" /\ devLock = u
  \/ call[t].at = "out" /\ outLock[call[t].s] = u

\* No two threads wait for each other's mutex: a writer that blocks in the PCM
\* holds its stream's mutex only, and all take the device's first.
NoLockCycle == \A t, u \in Threads : ~(Waits(t, u) /\ Waits(u, t))

\* Frames of stream s that its PCMs are done with.
Played(s) ==
  LET p == out[s].pcm IN
  fed[s] - (IF IsOpen(p) THEN pcms[p].queue ELSE 0)

\* A position is reported only where it is not negative, and to a framework
\* that does not overlap the query with another call on the stream it counts
\* only frames the codec is done with, even when `written' has wrapped or a
\* failed write left frames in the buffer that `written' does not count.  A
\* 32-bit build, which does not see a negative difference, needs neither to
\* have happened.
PositionTrue ==
  "serial" \in client =>
    \A t \in Threads, wide \in BOOLEAN :
      LET s == call[t].s IN
      /\ call[t].at = "compute"
      /\ wide \/ (fed[s] = out[s].frames /\ fed[s] < WrittenMod)
      => Position(t, wide) <= Played(s)
=============================================================================
