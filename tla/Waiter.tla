------------------------------- MODULE Waiter -------------------------------
(***************************************************************************)
(* The event loop of the name server, qrtr/src/waiter.c: tickets for file  *)
(* descriptors and timeouts, and waiter_wait, which polls and marks the    *)
(* tickets that triggered.                                                 *)
(*                                                                         *)
(* One thread uses a waiter.  waiter_wait is modelled by its poll and, in  *)
(* the loop after it, one step per ticket and one per callback; a callback *)
(* may use the waiter, but neither adds tickets nor deletes its own, since *)
(* the loop goes on with the ticket and the pollset it has.                *)
(*                                                                         *)
(* Time is relative: `age' is the time since a ticket's start, capped once *)
(* every comparison with it is settled.                                    *)
(***************************************************************************)
EXTENDS Integers, FiniteSets, FiniteSetsExt, SequencesExt

CONSTANTS
  Tickets,     \* addresses of allocated tickets; bounds their number
  Temp,        \* the ticket on the stack of waiter_wait_timeout
  Fds,
  Intervals,   \* durations of timeouts
  Chunk,       \* the pollset is made anew at every multiple of this (32)
  MaxPoll,     \* the longest timeout of poll (2^31 - 1)
  MaxDrift,    \* bounds the time the loop over the tickets takes
  Null

ASSUME TicketsAssumption == Temp \notin Tickets /\ Null \notin Tickets \cup {Temp} \cup Fds
ASSUME NumbersAssumption ==
  /\ Intervals \subseteq Nat
  /\ Chunk \in Nat \ {0} /\ MaxPoll \in Nat \ {0} /\ MaxDrift \in Nat
  /\ Null \notin Nat
ASSUME MarkersAssumption == Null \notin [type : {"NULL", "FD", "TIMEOUT"}, arg : {Null} \cup Fds \cup Intervals,
                                        age : Nat, updated : BOOLEAN]

VARIABLES
  tickets,   \* the list of tickets
  tk,        \* the tickets by address
  count,     \* w->count
  cap,       \* descriptors the pollset has room for, Null without a pollset
  lost,      \* tickets in the list that no caller knows
  pc,        \* "idle", "poll", "scan", "callback" or "crashed"
  node,      \* the ticket the loop is at, Null after the last
  rc, cause, \* what poll returned, and the descriptor it returned for
  left,      \* how long poll will wait
  drift      \* the time since `now' was taken

vars == <<tickets, tk, count, cap, lost, pc, node, rc, cause, left, drift>>

local == <<node, rc, cause, left, drift>>

Forever == -1

Ticket(type, arg) == [type |-> type, arg |-> arg, age |-> 0, updated |-> FALSE]

\* waiter_ticket_set_null, waiter_ticket_set_fd, waiter_ticket_set_timeout.
NullTicket  == Ticket("NULL", Null)
FdTickets   == {Ticket("FD", f) : f \in Fds}
Timeouts    == {Ticket("TIMEOUT", ms) : ms \in Intervals}
NewTickets  == {NullTicket} \cup FdTickets \cup Timeouts

OfType(type) == {t \in ToSet(tickets) : tk[t].type = type}

\* The time left to a timeout when `late' has passed since now.
Due(r, late) == r.arg - (r.age - late)

-----------------------------------------------------------------------------
(* Tickets.                                                                *)

InUse(t) == tk[t] # Null /\ t \notin lost

\* The caller is outside waiter_wait, or in a callback of it.
Called == pc \in {"idle", "callback"}

\* Fault: room for the tickets there are.
RoomTight(n) == n

\* pollset_create's argument in waiter_add_null.
Room(n) == n + Chunk + 1

\* waiter_add_null, waiter_add_fd and waiter_add_timeout.
Add(t, new) ==
  /\ pc = "idle" /\ tk[t] = Null
  /\ tickets' = Append(tickets, t)
  /\ tk' = [tk EXCEPT ![t] = new]
  /\ cap' = IF count % Chunk = 0 THEN Room(count) ELSE cap
  /\ count' = count + 1
  /\ UNCHANGED <<lost, pc, local>>

\* There is no memory for the pollset: the ticket stays in the list.
AddFails(t) ==
  /\ pc = "idle" /\ tk[t] = Null
  /\ count % Chunk = 0
  /\ tickets' = Append(tickets, t)
  /\ tk' = [tk EXCEPT ![t] = NullTicket]
  /\ cap' = Null
  /\ lost' = lost \cup {t}
  /\ UNCHANGED <<count, pc, local>>

\* list_remove.
Unlinked(t) == RemoveAt(tickets, CHOOSE i \in DOMAIN tickets : tickets[i] = t)

Delete(t) ==
  /\ Called /\ InUse(t)
  /\ pc = "callback" => t # node
  /\ tickets' = Unlinked(t)
  /\ tk' = [tk EXCEPT ![t] = Null]
  /\ count' = count - 1
  /\ UNCHANGED <<cap, lost, pc, local>>

Set(t, new) ==
  /\ Called /\ InUse(t)
  /\ tk' = [tk EXCEPT ![t] = [new EXCEPT !.updated = tk[t].updated]]
  /\ UNCHANGED <<tickets, count, cap, lost, pc, local>>

\* waiter_ticket_clear.
Clear(t) ==
  /\ Called /\ InUse(t)
  /\ tk' = [tk EXCEPT ![t].updated = FALSE]
  /\ UNCHANGED <<tickets, count, cap, lost, pc, local>>

\* The first timeout of the list with the interval of timeout t.
FirstAlike(t) ==
  tickets[Min({j \in DOMAIN tickets : /\ tk[tickets[j]].type = "TIMEOUT"
                                      /\ tk[tickets[j]].arg = tk[t].arg})]

\* waiter_synchronize: each timeout hands its start on to the next one with the
\* same interval, front to back, so that all get the first one's.
Synchronize ==
  /\ Called
  /\ tk' = [t \in DOMAIN tk |-> IF t \in OfType("TIMEOUT")
                                THEN [tk[t] EXCEPT !.age = tk[FirstAlike(t)].age]
                                ELSE tk[t]]
  /\ UNCHANGED <<tickets, count, cap, lost, pc, local>>

-----------------------------------------------------------------------------
(* waiter_wait.                                                            *)

\* term_time - now.
Deadline(ts, s) ==
  Min({Due(s[t], 0) : t \in {u \in ToSet(ts) : s[u].type = "TIMEOUT"}})

\* pollset_reset of the pollset there is: nothing checks that there is one.
NoPollset == cap = Null /\ pc' = "crashed" /\ UNCHANGED <<cap, lost, local>>

\* Up to the call of poll, which is left out when a timeout is already past.
Poll(ts, s) ==
  /\ cap # Null
  /\ IF \A t \in ToSet(ts) : s[t].type # "TIMEOUT"
     THEN pc' = "poll" /\ left' = Forever /\ UNCHANGED <<node, rc>>
     ELSE IF Deadline(ts, s) > 0
     THEN pc' = "poll" /\ left' = Min({Deadline(ts, s), MaxPoll}) /\ UNCHANGED <<node, rc>>
     ELSE pc' = "scan" /\ rc' = 0 /\ node' = Head(ts) /\ left' = left
  /\ drift' = 0
  /\ UNCHANGED <<cap, lost, cause>>

Begin(ts, s) == NoPollset \/ Poll(ts, s)

Wait ==
  /\ pc = "idle"
  /\ Begin(tickets, tk)
  /\ UNCHANGED <<tickets, tk, count>>

\* waiter_wait_timeout waits with a ticket of its own.
WaitTimeout(new) ==
  /\ pc = "idle"
  /\ tickets' = Append(tickets, Temp)
  /\ tk' = [tk EXCEPT ![Temp] = new]
  /\ count' = count + 1
  /\ Begin(tickets', tk')

\* The descriptors of the pollset, in the order of the list.
Polled == SelectSeq(tickets, LAMBDA t : tk[t].type = "FD")

\* The first descriptor that poll marks POLLIN or POLLERR; Null when it marks
\* only others (POLLHUP).
FirstReady(revents) ==
  LET in == SelectSeq(Polled, LAMBDA t : revents[tk[t].arg] = "in")
  IN  IF in = <<>> THEN Null ELSE tk[Head(in)].arg

\* The loop over the tickets starts with poll's result and the time.
Scan(result) ==
  /\ pc' = "scan" /\ rc' = result
  /\ node' = IF tickets = <<>> THEN Null ELSE Head(tickets)
  /\ left' = Forever /\ drift' = 0
  /\ UNCHANGED <<tickets, tk, count, cap, lost>>

PollReady(revents) ==
  /\ pc = "poll"
  /\ \E t \in ToSet(Polled) : revents[tk[t].arg] # "none"
  /\ Scan(1) /\ cause' = FirstReady(revents)

PollTimeout == pc = "poll" /\ left = 0 /\ Scan(0) /\ cause' = cause

\* waiter_wait returns; waiter_wait_timeout takes its ticket back; its
\* result is whether tk[Temp].updated.
Return ==
  /\ pc' = "idle"
  /\ node' = Null /\ rc' = 0 /\ cause' = Null /\ left' = Forever /\ drift' = 0
  /\ IF tk[Temp] = Null
     THEN UNCHANGED <<tickets, tk, count>>
     ELSE /\ tickets' = Unlinked(Temp)
          /\ tk' = [tk EXCEPT ![Temp] = Null]
          /\ count' = count - 1
  /\ UNCHANGED <<cap, lost>>

\* poll fails, or a signal interrupts it.
PollFails == pc = "poll" /\ Return

NextOf(t) ==
  LET after == {i \in DOMAIN tickets : i > 1 /\ tickets[i - 1] = t}
  IN  IF after = {} THEN Null ELSE tickets[Min(after)]

\* Fault: a timeout that triggered before is not started again.
PastOnce(r) == r.type = "TIMEOUT" /\ ~r.updated /\ Due(r, drift) <= 0

\* The two conditions under which a ticket has triggered.
Past(r) == r.type = "TIMEOUT" /\ Due(r, drift) <= 0
Hit(r)  == r.type = "FD" /\ rc > 0 /\ cause = r.arg

\* One round of the loop: a ticket that is still marked has no callback.
ScanTicket ==
  /\ pc = "scan" /\ node # Null
  /\ LET r     == tk[node]
         fresh == (Past(r) \/ Hit(r)) /\ ~r.updated
     IN  /\ tk' = [tk EXCEPT ![node] = [r EXCEPT !.age = IF Past(r) THEN drift ELSE @,
                                               !.updated = @ \/ fresh]]
         /\ pc' = IF fresh THEN "callback" ELSE "scan"
         /\ node' = IF fresh THEN node ELSE NextOf(node)
  /\ UNCHANGED <<tickets, count, cap, lost, rc, cause, left, drift>>

CallbackReturns ==
  /\ pc = "callback"
  /\ pc' = "scan" /\ node' = NextOf(node)
  /\ UNCHANGED <<tickets, tk, count, cap, lost, rc, cause, left, drift>>

ScanEnds == pc = "scan" /\ node = Null /\ Return

-----------------------------------------------------------------------------
(* Time, and the life of a waiter.                                         *)

MaxAge == Max(Intervals) + MaxDrift

Older(r) ==
  IF r # Null /\ r.type = "TIMEOUT" /\ r.age < MaxAge THEN [r EXCEPT !.age = @ + 1] ELSE r

\* A millisecond passes.  poll waits no longer than it was told.
Tick ==
  /\ pc = "poll" => left # 0
  /\ pc \in {"scan", "callback"} => drift < MaxDrift
  /\ tk' = [t \in DOMAIN tk |-> Older(tk[t])]
  /\ left' = IF pc = "poll" /\ left > 0 THEN left - 1 ELSE left
  /\ drift' = IF pc \in {"scan", "callback"} THEN drift + 1 ELSE drift
  /\ UNCHANGED <<tickets, count, cap, lost, pc, node, rc, cause>>

\* waiter_create.
Init ==
  /\ tickets = <<>> /\ tk = [t \in Tickets \cup {Temp} |-> Null]
  /\ count = 0 /\ cap = Null /\ lost = {}
  /\ pc = "idle" /\ node = Null /\ rc = 0 /\ cause = Null /\ left = Forever /\ drift = 0

\* waiter_destroy, or the end of the crashed program: it, or the next one, may
\* make another waiter.
Destroy ==
  /\ pc \in {"idle", "crashed"}
  /\ tickets' = <<>> /\ tk' = [t \in Tickets \cup {Temp} |-> Null]
  /\ count' = 0 /\ cap' = Null /\ lost' = {}
  /\ pc' = "idle" /\ UNCHANGED local

Next ==
  \/ \E t \in Tickets :
       \/ AddFails(t) \/ Delete(t) \/ Clear(t)
       \/ \E new \in NewTickets : Add(t, new) \/ Set(t, new)
  \/ Synchronize
  \/ Wait
  \/ \E new \in Timeouts : WaitTimeout(new)
  \/ \E revents \in [Fds -> {"none", "in", "hup"}] : PollReady(revents)
  \/ PollTimeout \/ PollFails
  \/ ScanTicket \/ CallbackReturns \/ ScanEnds
  \/ Tick
  \/ Destroy

Spec == Init /\ [][Next]_vars

-----------------------------------------------------------------------------
\* The pollset has room for every descriptor waiter_wait puts into it, however
\* tickets come, go and change type: waiter_add_null makes it anew only at
\* every 32nd ticket, and nothing else looks at its size.  waiter_wait finds no
\* pollset, and crashes, only on a waiter without tickets or once some
\* waiter_add_null has failed, at the first ticket or at any 32nd one after it:
\* the old pollset is gone by then, and callers who keep their tickets and wait
\* again are not told.
PollsetFits ==
  /\ cap # Null => Cardinality(OfType("FD")) <= cap
  /\ cap = Null => ToSet(tickets) \subseteq {Temp} \/ lost # {}
  /\ pc = "crashed" => cap = Null

\* When the loop of waiter_wait is over, no timeout that was past when it
\* began is still waiting for its turn, whatever the callbacks did: the next
\* waiter_wait will look at the descriptors.  A timeout of 0 ms, which nothing
\* refuses, is the exception: it is due again as soon as it is started again,
\* and as long as it is in the list no waiter_wait polls.
NoTimerLeftDue ==
  pc = "scan" /\ node = Null =>
    \A t \in OfType("TIMEOUT") : Due(tk[t], drift) > 0 \/ tk[t].arg = 0
=============================================================================
