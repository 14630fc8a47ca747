------------------------------ MODULE RmtfsRun ------------------------------
(***************************************************************************)
(* The life of the rmtfs daemon: run_rmtfs and main of rmtfs.c, the        *)
(* threads of rproc.c that start and stop the modem, and the signals that  *)
(* end it.  The modem, its remoteproc driver and the name server are       *)
(* external: a write of "stop" fails or returns when the modem is down,    *)
(* and the modem goes down only after rmtfs has answered what it still     *)
(* writes.                                                                 *)
(*                                                                         *)
(* Option -s is given (Sync): rprocfd is the read end of the pipe.         *)
(***************************************************************************)
EXTENDS Integers

CONSTANTS
  Sync,        \* option -s
  MaxSignals,  \* signals sent
  MaxResets,   \* restarts of the name server
  MaxRequests  \* requests the modem makes while it shuts down

ASSUME RunBoundsAssumption ==
  Sync \in BOOLEAN /\ MaxSignals \in Nat /\ MaxResets \in Nat /\ MaxRequests \in Nat

VARIABLES
  pc,         \* where main is
  sigs,       \* sig_int_count
  handled,    \* sig_int_handled
  starts,     \* start threads that have not written "start" yet
  stops,      \* stop threads: how many are at each of their two writes
  pipe,       \* bytes 'Y' in the pipe
  modem,      \* "off", "on" or "stopping"
  todo,       \* requests the modem has to make before it can be off
  queue,      \* requests at the service's socket
  sock,       \* the service's socket: "closed", "open" or "reset"
  ns,         \* whether the name server runs
  resets,     \* how often it was restarted
  cause,      \* why main ended
  stopped,    \* whether a "stop" has returned
  failed,     \* what has failed of the stops: the "thread", the "write"
  inOrder     \* whether every "start" was written when the first stop was asked for

runVars == <<pc, sigs, handled, starts, stops, pipe, modem, todo, queue, sock, ns,
          resets, cause, stopped, failed, inOrder>>

mainvars  == <<pc, handled, cause>>
procs     == <<starts, stops, pipe>>
others    == <<modem, todo, ns, resets, stopped, failed, inOrder>>

Running == pc # "done"

-----------------------------------------------------------------------------
(* run_rmtfs.                                                              *)

\* qrtr_open and qrtr_publish, then rproc_start; nobody asks whether it made its
\* thread.
RunStarts ==
  /\ pc = "run" /\ ns
  /\ sock' = "open" /\ queue' = 0
  /\ handled' = FALSE
  /\ starts' \in IF Sync THEN {starts, starts + 1} ELSE {starts}
  /\ inOrder' = (inOrder /\ ~handled)
  /\ pc' = "check"
  /\ UNCHANGED <<sigs, stops, pipe, cause, modem, todo, ns, resets, stopped, failed>>

\* The publication fails, for want of a name server or otherwise: main ends.
RunFails ==
  /\ pc = "run"
  /\ pc' = "done" /\ cause' = "failed"
  /\ UNCHANGED <<sigs, handled, procs, queue, sock, others>>

\* Leaving the loop with `ret'; main calls run_rmtfs again for ENETRESET.
Leave(why) ==
  /\ sock' = "closed" /\ queue' = 0
  /\ pc' = IF why = "reset" THEN "run" ELSE "done"
  /\ cause' = IF why = "reset" THEN cause ELSE why

\* The tests at the top of the loop: one signal stops the modem, by a thread, if
\* there is memory for one; a second one ends the daemon.
CheckStop ==
  /\ pc = "check" /\ Sync /\ sigs = 1 /\ ~handled
  /\ handled' = TRUE
  /\ \/ stops' = [stops EXCEPT !.state = @ + 1] /\ failed' = failed
     \/ stops' = stops /\ failed' = failed \cup {"thread"}
  /\ inOrder' = (inOrder /\ starts = 0)
  /\ pc' = "gap"
  /\ UNCHANGED <<sigs, starts, pipe, queue, sock, cause, modem, todo, ns, resets, stopped>>

CheckLeave ==
  /\ pc = "check" /\ sigs > 1
  /\ Leave("signal")
  /\ UNCHANGED <<sigs, handled, procs, others>>

\* Fault: the count of signals is never looked at.
CheckNothingEver ==
  /\ pc = "check"
  /\ pc' = "gap"
  /\ UNCHANGED <<sigs, handled, procs, queue, sock, cause, others>>

CheckNothing ==
  /\ pc = "check" /\ sigs <= 1
  /\ ~(Sync /\ sigs = 1 /\ ~handled)
  /\ pc' = "gap"
  /\ UNCHANGED <<sigs, handled, procs, queue, sock, cause, others>>

Select ==
  /\ pc = "gap"
  /\ pc' = "select"
  /\ UNCHANGED <<sigs, handled, procs, queue, sock, cause, others>>

PipeReady == Sync /\ pipe > 0
SockReady == sock = "reset" \/ queue > 0

\* select returns; rfds says what was ready.
SelectReturns ==
  /\ pc = "select"
  /\ \/ PipeReady /\ pc' = "pipe"
     \/ ~PipeReady /\ SockReady /\ pc' = "socket"
  /\ UNCHANGED <<sigs, handled, procs, queue, sock, cause, others>>

\* The byte is 'Y', the only one anybody writes.
ReadPipe ==
  /\ pc = "pipe"
  /\ pipe' = pipe - 1
  /\ Leave("stopped")
  /\ UNCHANGED <<sigs, handled, starts, stops, others>>

\* handle_rmtfs: one request is served, or recvfrom says ENETRESET.
HandleRequest ==
  /\ pc = "socket" /\ sock = "open"
  /\ queue' = queue - 1
  /\ todo' = IF modem = "stopping" /\ todo > 0 THEN todo - 1 ELSE todo
  /\ pc' = "check"
  /\ UNCHANGED <<sigs, handled, procs, sock, cause, modem, ns, resets, stopped, failed, inOrder>>

HandleReset ==
  /\ pc = "socket" /\ sock = "reset"
  /\ Leave("reset")
  /\ UNCHANGED <<sigs, handled, procs, others>>

Main ==
  \/ RunStarts \/ RunFails \/ CheckStop \/ CheckLeave \/ CheckNothing
  \/ Select \/ SelectReturns \/ ReadPipe \/ HandleRequest \/ HandleReset

-----------------------------------------------------------------------------
(* The threads of rproc.c: they end with the process.                      *)

\* do_rproc_start: a failed write is logged.
StartWrites ==
  /\ Running /\ starts > 0
  /\ starts' = starts - 1
  /\ modem' \in {modem, IF modem = "off" THEN "on" ELSE modem}
  /\ UNCHANGED <<mainvars, sigs, stops, pipe, queue, sock, todo, ns, resets, stopped, failed, inOrder>>

\* do_rproc_stop: the first write begins the modem's shutdown and returns when
\* the modem is off, or at once when it is off already.
StopBegins ==
  /\ Running /\ stops.state > 0 /\ modem = "on"
  /\ modem' = "stopping"
  /\ UNCHANGED <<mainvars, sigs, procs, queue, sock, todo, ns, resets, stopped, failed, inOrder>>

StopReturns ==
  /\ Running /\ stops.state > 0 /\ modem = "off"
  /\ stops' = [state |-> stops.state - 1, pipe |-> stops.pipe + 1]
  /\ stopped' = TRUE
  /\ UNCHANGED <<mainvars, sigs, starts, pipe, queue, sock, modem, todo, ns, resets, failed, inOrder>>

\* The write fails, which is logged: the thread goes on as after a stop.
StopFails ==
  /\ Running /\ stops.state > 0
  /\ stops' = [state |-> stops.state - 1, pipe |-> stops.pipe + 1]
  /\ failed' = failed \cup {"write"}
  /\ UNCHANGED <<mainvars, sigs, starts, pipe, queue, sock, modem, todo, ns, resets, stopped, inOrder>>

\* Fault: main is woken before the modem is stopped; or never.
StopSignalsEarly ==
  /\ Running /\ stops.state > 0
  /\ stops' = [stops EXCEPT !.state = @ - 1]
  /\ pipe' = pipe + 1
  /\ UNCHANGED <<mainvars, sigs, starts, queue, sock, others>>

StopSignalsNobody ==
  /\ Running /\ stops.pipe > 0
  /\ stops' = [stops EXCEPT !.pipe = @ - 1]
  /\ UNCHANGED <<mainvars, sigs, starts, pipe, queue, sock, others>>

\* The second write wakes main.
StopSignals ==
  /\ Running /\ stops.pipe > 0
  /\ stops' = [stops EXCEPT !.pipe = @ - 1]
  /\ pipe' = pipe + 1
  /\ UNCHANGED <<mainvars, sigs, starts, queue, sock, others>>

\* Or it fails, and the thread ends the daemon.
StopExits ==
  /\ Running /\ stops.pipe > 0
  /\ stops' = [stops EXCEPT !.pipe = @ - 1]
  /\ pc' = "done" /\ cause' = "exit"
  /\ sock' = "closed" /\ queue' = 0
  /\ UNCHANGED <<sigs, handled, starts, pipe, others>>

-----------------------------------------------------------------------------
(* The world around the daemon.                                            *)

\* A signal interrupts select, unless another thread takes it.
Signal ==
  /\ Running /\ sigs < MaxSignals
  /\ sigs' = sigs + 1
  /\ \/ pc' = IF pc = "select" THEN "check" ELSE pc
     \/ starts + stops.state + stops.pipe > 0 /\ pc' = pc
  /\ UNCHANGED <<handled, procs, queue, sock, cause, others>>

\* The modem sends a request to the service it has found, while it runs and to
\* write what it has before it is off.
ModemRequests ==
  /\ sock = "open" /\ queue = 0
  /\ modem = "on" \/ (modem = "stopping" /\ todo > 0)
  /\ queue' = 1
  /\ UNCHANGED <<mainvars, sigs, procs, sock, others>>

\* It is down once all it had to write is written.
ModemDown ==
  /\ modem = "stopping" /\ todo = 0
  /\ modem' = "off"
  /\ UNCHANGED <<mainvars, sigs, procs, queue, sock, todo, ns, resets, stopped, failed, inOrder>>

\* The name server dies: every socket of the node learns of it.
NsDies ==
  /\ ns /\ resets < MaxResets
  /\ ns' = FALSE /\ resets' = resets + 1
  /\ sock' = IF sock = "open" THEN "reset" ELSE sock
  /\ UNCHANGED <<mainvars, sigs, procs, queue, modem, todo, stopped, failed, inOrder>>

NsStarts ==
  /\ ~ns
  /\ ns' = TRUE
  /\ UNCHANGED <<mainvars, sigs, procs, queue, sock, modem, todo, resets, stopped, failed, inOrder>>

RunInit ==
  /\ pc = "run" /\ cause = "none"
  /\ sigs = 0 /\ handled = FALSE
  /\ starts = 0 /\ stops = [state |-> 0, pipe |-> 0] /\ pipe = 0
  /\ modem = "off" /\ todo = MaxRequests
  /\ queue = 0 /\ sock = "closed"
  /\ ns = TRUE /\ resets = 0
  /\ stopped = FALSE /\ failed = {} /\ inOrder = TRUE

RunNext ==
  \/ Main
  \/ StartWrites \/ StopBegins \/ StopReturns \/ StopFails \/ StopSignals \/ StopExits
  \/ Signal \/ ModemRequests \/ ModemDown \/ NsDies \/ NsStarts

RunSpec == RunInit /\ [][RunNext]_runVars

\* Threads run, the modem pursues its shutdown and the name server is started
\* again.  Nothing makes a signal, or a request of a running modem, come.
RunFairness ==
  /\ WF_runVars(Main)
  /\ WF_runVars(StartWrites) /\ WF_runVars(StopBegins) /\ WF_runVars(StopReturns)
  /\ WF_runVars(StopSignals)
  /\ WF_runVars(modem = "stopping" /\ ModemRequests) /\ WF_runVars(ModemDown)
  /\ WF_runVars(NsStarts)

RunFairSpec == RunSpec /\ RunFairness

-----------------------------------------------------------------------------
\* A daemon that ends by the byte in the pipe has seen a write of "stop" return
\* or fail; the modem is off then, unless a write failed, some "start" was not
\* yet written when the stop was asked for, or the name server's restart made
\* run_rmtfs start the modem once more after that.
EndsAfterStop ==
  cause = "stopped" =>
    /\ stopped \/ "write" \in failed
    /\ inOrder /\ "write" \notin failed => modem = "off"

\* The modem is stopped while it can still write: once main has the stop
\* thread at work it goes on serving, so the thread ends and so does main.
StopEnds == stops.state > 0 ~> pc = "done"

\* Main, with option -s and as long as requests wake it, does not go round its
\* loop for ever after two signals, nor after one unless there was no thread to
\* stop the modem.  A signal that wakes no select is not looked at before the
\* next request.
SignalHeeded ==
  Sync /\ []<>(pc = "check") =>
    /\ ~<>(sigs > 1)
    /\ <>(sigs > 0) => <>("thread" \in failed)
=============================================================================
