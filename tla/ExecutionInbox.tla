--------------------------- MODULE ExecutionInbox ---------------------------
(***************************************************************************)
(* The durable execution inbox of one device (src/src/agent/inbox.rs).     *)
(*                                                                         *)
(* Every Circle the device belongs to has one inbox: a snapshot held in    *)
(* memory by its owner, the copy of it on disk, and a latch that records   *)
(* the first failed write.  All the inboxes of the process share one       *)
(* table, the aggregate, which holds each inbox's number of pending        *)
(* entries and enforces the device's limit.  A run is named by its         *)
(* position in the snapshot: entries are appended and never removed.       *)
(*                                                                         *)
(* An operation builds the next snapshot and hands it to persist, which    *)
(* can succeed, fail and leave the old file, or fail after the rename and  *)
(* leave the new one.  A crash may happen between any two operations.      *)
(***************************************************************************)
EXTENDS Naturals, Sequences, FiniteSets, FiniteSetsExt

CONSTANTS Circles,       \* the Circles of this device
          Messages,      \* chat messages that may ask for a turn
          Agents,        \* agents configured on this device
          Roots,         \* root messages of relay cascades
          NoRoot,        \* "not charged to a cascade" (Request::relayed is false)
          Offers,        \* the requests callers may present, a subset of Request
          RelayTurns,    \* values max_relay_turns may be configured to
          AgentLimits,   \* values max_queued_per_agent may be configured to
          CircleLimit,   \* MAX_PENDING_PER_CIRCLE
          DeviceLimit,   \* MAX_PENDING_PER_DEVICE
          Ceiling,       \* RELAY_TURNS_CEILING
          MaxEntries     \* bound: entries one snapshot may grow to

\* The turns a relayed message says its cascade already took (Relay::spent).
Spent == 0 .. Ceiling

Request == [msg : Messages, agent : Agents, ambient : BOOLEAN,
            root : Roots \cup {NoRoot}, spent : Spent]

ASSUME InboxAssumption ==
  /\ IsFiniteSet(Circles)
  /\ Offers \subseteq Request
  /\ NoRoot \notin Roots
  /\ RelayTurns \subseteq Nat
  /\ AgentLimits \subseteq 1 .. CircleLimit
  /\ CircleLimit \in Nat \ {0}
  /\ DeviceLimit \in Nat
  /\ Ceiling \in Nat
  /\ MaxEntries \in Nat

VARIABLES owned,      \* owned[c]: an owner holds c's inbox open (the flock)
          mem,        \* mem[c]: the snapshot in memory, meaningful while owned
          disk,       \* disk[c]: the snapshot a reader of the file would find
          healthy,    \* healthy[c]: no write of this owner has failed
          perAgent,   \* perAgent[c]: entries one agent may have waiting
          aggregate,  \* aggregate[c]: the process-wide PENDING table
          executed    \* history: runs whose turn was handed to an agent

vars == <<owned, mem, disk, healthy, perAgent, aggregate, executed>>

Live     == {"Pending", "Running"}
Retryable == {"Failed", "Interrupted", "Expired", "Cancelled", "LegacySuppressed"}
Status   == Live \cup Retryable \cup {"Completed"}
Terminal == Status \ Live

Entry    == [req : Request, status : Status]
Snapshot == [entries : Seq(Entry), charges : [Roots -> 0 .. Ceiling]]

\* The snapshot of an inbox that was never written.
Fresh == [entries |-> <<>>, charges |-> [r \in Roots |-> 0]]

-----------------------------------------------------------------------------
(* What operations read from and do to a snapshot                          *)

\* Request::key: two requests with one key ask one agent about one message.
Key(req) == <<req.msg, req.agent>>

Relayed(req) == req.root # NoRoot

Pending(es) == {i \in DOMAIN es : es[i].status = "Pending"}

PendingOf(es, agent) == {i \in Pending(es) : es[i].req.agent = agent}

\* Fault: only what still waits counts as known.
KnownWaiting(s, req) ==
  \E i \in Pending(s.entries) : Key(s.entries[i].req) = Key(req)

Known(s, req) == \E i \in DOMAIN s.entries : Key(s.entries[i].req) = Key(req)

\* pending_count over the whole device: the sum of the table, as the number of
\* the waiting entries it stands for.
Waiting == UNION {{c} \X (1 .. aggregate[c]) : c \in Circles}
DeviceQueued == Cardinality(Waiting)

WithStatus(s, runs, status) ==
  [s EXCEPT !.entries =
     [i \in DOMAIN s.entries |->
        IF i \in runs THEN [s.entries[i] EXCEPT !.status = status]
                      ELSE s.entries[i]]]

WithEntry(s, req, status) ==
  [s EXCEPT !.entries = Append(@, [req |-> req, status |-> status])]

\* Fault: the oldest entry goes, addressed or not.
MakeRoomOldest(es, queue, incomingAmbient) ==
  IF queue = {} THEN {} ELSE {Min(queue)}

\* make_room: the pending entry of `queue` that gives way to an incoming
\* request, as a set with at most one member.  Ambient entries go first,
\* oldest first; an addressed one goes only for an addressed request.
MakeRoom(es, queue, incomingAmbient) ==
  LET ambients == {i \in queue : es[i].req.ambient}
  IN CASE ambients # {} -> {Min(ambients)}
       [] ambients = {} /\ ~incomingAmbient /\ queue # {} -> {Min(queue)}
       [] OTHER -> {}

\* What admitting req displaces: from its agent's queue, then from the
\* Circle's queue as the first displacement left it.
FromAgent(s, req, limit) ==
  LET queue == PendingOf(s.entries, req.agent)
  IN IF Cardinality(queue) < limit THEN {}
     ELSE MakeRoom(s.entries, queue, req.ambient)

FromCircle(s, req, limit) ==
  LET queue == Pending(s.entries) \ FromAgent(s, req, limit)
  IN IF Cardinality(queue) < CircleLimit THEN {}
     ELSE MakeRoom(s.entries, queue, req.ambient)

Displaced(s, req, limit) == FromAgent(s, req, limit) \cup FromCircle(s, req, limit)

\* A queue is full and nothing in it gives way to req.
Refused(s, req, limit) ==
  \/ /\ Cardinality(PendingOf(s.entries, req.agent)) >= limit
     /\ FromAgent(s, req, limit) = {}
  \/ /\ Cardinality(Pending(s.entries) \ FromAgent(s, req, limit)) >= CircleLimit
     /\ FromCircle(s, req, limit) = {}

\* Fault: one displaced turn clears the whole charge of its cascade.
RefundAll(s, runs) ==
  [r \in Roots |->
     IF \E i \in runs : s.entries[i].req.root = r THEN 0 ELSE s.charges[r]]

\* Displaced turns never launched: their cascades get the reservation back.
Refund(s, runs) ==
  [r \in Roots |->
     LET back == Cardinality({i \in runs : s.entries[i].req.root = r})
     IN IF back > s.charges[r] THEN 0 ELSE s.charges[r] - back]

Charge(charges, req) ==
  IF Relayed(req) THEN [charges EXCEPT ![req.root] = @ + 1] ELSE charges

\* Fault: the configured value is not capped.
AllowanceUncapped(max) == max

Allowance(max) == IF max < Ceiling THEN max ELSE Ceiling

\* has_budget on the wire value, and this device's own count of the cascade.
HasBudget(charges, req, max) ==
  Relayed(req) => /\ req.spent < Allowance(max)
                  /\ charges[req.root] < Allowance(max)

-----------------------------------------------------------------------------
(* Persisting                                                              *)

\* persist, and what its caller does with the result.  A write that fails
\* latches healthy; it leaves the old file, or the new one when only the
\* directory sync failed.  Memory and the aggregate follow a success only.
Committed(c, next) ==
  /\ disk' = [disk EXCEPT ![c] = next]
  /\ mem' = [mem EXCEPT ![c] = next]
  /\ aggregate' = [aggregate EXCEPT ![c] = Cardinality(Pending(next.entries))]
  /\ UNCHANGED healthy

\* Fault: a failed write is reported but does not latch.
WriteFailedUnlatched(c, next) ==
  /\ disk' \in {disk, [disk EXCEPT ![c] = next]}
  /\ UNCHANGED <<healthy, mem, aggregate>>

WriteFailed(c, next) ==
  /\ disk' \in {disk, [disk EXCEPT ![c] = next]}
  /\ healthy' = [healthy EXCEPT ![c] = FALSE]
  /\ UNCHANGED <<mem, aggregate>>

\* An operation of the owner on a healthy inbox; on an unhealthy one persist
\* bails and the operation changes nothing.
Commit(c, next) ==
  /\ Committed(c, next) \/ WriteFailed(c, next)
  /\ UNCHANGED <<owned, perAgent>>

CanWrite(c) == owned[c] /\ healthy[c]

HasSpace(c) == Len(mem[c].entries) < MaxEntries

-----------------------------------------------------------------------------
(* Admission                                                               *)

\* Fault: one entry too many.
DeviceFullLate == DeviceQueued > DeviceLimit

DeviceFull == DeviceQueued >= DeviceLimit

Full(c, req) == DeviceFull \/ Refused(mem[c], req, perAgent[c])

Refunded(c, req) == Refund(mem[c], Displaced(mem[c], req, perAgent[c]))

\* No room anywhere: the request is recorded as expired, so that it is not
\* offered again, and nothing is displaced.
AdmitExpired(c, req) ==
  /\ Full(c, req)
  /\ Commit(c, WithEntry(mem[c], req, "Expired"))

\* Room, but the cascade's budget is spent: recorded as cancelled, and what
\* would have been displaced keeps its place.
AdmitOverBudget(c, req, max) ==
  /\ ~Full(c, req)
  /\ ~HasBudget(Refunded(c, req), req, max)
  /\ Commit(c, WithEntry(mem[c], req, "Cancelled"))

AdmitPending(c, req, max) ==
  /\ ~Full(c, req)
  /\ HasBudget(Refunded(c, req), req, max)
  /\ LET out  == Displaced(mem[c], req, perAgent[c])
         kept == WithStatus(mem[c], out, "Expired")
     IN Commit(c, [WithEntry(kept, req, "Pending")
                     EXCEPT !.charges = Charge(Refunded(c, req), req)])

\* admit: a request whose key is known is a Duplicate and changes nothing.
Admit(c, req, max) ==
  /\ CanWrite(c) /\ HasSpace(c)
  /\ ~Known(mem[c], req)
  /\ \/ AdmitExpired(c, req)
     \/ AdmitOverBudget(c, req, max)
     \/ AdmitPending(c, req, max)
  /\ UNCHANGED executed

\* retry: a new attempt at the request of run i; i itself stays as it is.
Retry(c, i, max) ==
  LET s   == mem[c]
      req == s.entries[i].req
  IN /\ CanWrite(c) /\ HasSpace(c)
     /\ ~DeviceFull
     /\ s.entries[i].status \in Retryable
     /\ ~(s.entries[i].status = "LegacySuppressed" /\ req.ambient)
     /\ \A j \in DOMAIN s.entries :
          Key(s.entries[j].req) = Key(req) => s.entries[j].status \notin Live
     /\ Cardinality(PendingOf(s.entries, req.agent)) < perAgent[c]
     /\ Cardinality(Pending(s.entries)) < CircleLimit
     /\ HasBudget(s.charges, req, max)
     /\ Commit(c, [WithEntry(s, req, "Pending")
                     EXCEPT !.charges = Charge(s.charges, req)])
     /\ UNCHANGED executed

\* record_suppressed: a marker of an older version becomes an entry, so that
\* its request is known.  It is not pending: the aggregate is not touched.
RecordSuppressed(c, req) ==
  /\ CanWrite(c) /\ HasSpace(c)
  /\ ~Known(mem[c], req)
  /\ Commit(c, WithEntry(mem[c], req, "LegacySuppressed"))
  /\ UNCHANGED executed

\* set_per_agent_limit: agents.toml is read again before each admission.
SetPerAgentLimit(c, limit) ==
  /\ owned[c]
  /\ perAgent' = [perAgent EXCEPT ![c] = limit]
  /\ UNCHANGED <<owned, mem, disk, healthy, aggregate, executed>>

-----------------------------------------------------------------------------
(* Transitions of one run                                                  *)

\* Fault: the expected status is not compared.
AtAny(c, i, status) == TRUE

At(c, i, status) == mem[c].entries[i].status = status

\* run_next_cancellable claims the run before the agent is started; the turn
\* is handed over only if the claim was acknowledged.
Launch(c, i) ==
  /\ CanWrite(c) /\ At(c, i, "Pending")
  /\ LET next == WithStatus(mem[c], {i}, "Running")
     IN \/ Committed(c, next) /\ executed' = executed \cup {<<c, i>>}
        \/ WriteFailed(c, next) /\ UNCHANGED executed
  /\ UNCHANGED <<owned, perAgent>>

\* A pending run is withdrawn: refused at launch, its chain was stopped, or
\* the user cancelled it.
Cancel(c, i) ==
  /\ CanWrite(c) /\ At(c, i, "Pending")
  /\ Commit(c, WithStatus(mem[c], {i}, "Cancelled"))
  /\ UNCHANGED executed

\* The turn ended: it answered, failed, or was stopped.
Finish(c, i, status) ==
  /\ CanWrite(c) /\ At(c, i, "Running")
  /\ Commit(c, WithStatus(mem[c], {i}, status))
  /\ UNCHANGED executed

\* A run that goes back to waiting must still fit the queues.
OverCapacity(c, i) ==
  LET es == WithStatus(mem[c], {i}, "Pending").entries
  IN \/ Cardinality(Pending(es)) > CircleLimit
     \/ DeviceFull
     \/ Cardinality(PendingOf(es, es[i].req.agent)) > perAgent[c]

\* The conversation or the device was busy: no agent was started after all.
Requeue(c, i) ==
  /\ CanWrite(c) /\ At(c, i, "Running")
  /\ \/ ~OverCapacity(c, i) /\ Commit(c, WithStatus(mem[c], {i}, "Pending"))
     \/ OverCapacity(c, i) /\ Commit(c, WithStatus(mem[c], {i}, "Expired"))
  /\ executed' = executed \ {<<c, i>>}

-----------------------------------------------------------------------------
(* Opening, closing and crashing                                           *)

\* Fault: a run the last owner left running is queued again.
RecoveredRunsAgain(s) ==
  [s EXCEPT !.entries =
     [i \in DOMAIN s.entries |->
        IF s.entries[i].status = "Running"
        THEN [s.entries[i] EXCEPT !.status = "Pending"] ELSE s.entries[i]]]

\* What a new owner makes of the file: a run the last owner left running is
\* interrupted, a listening request that was waiting expires.
Recovered(s) ==
  [s EXCEPT !.entries =
     [i \in DOMAIN s.entries |->
        CASE s.entries[i].status = "Running" ->
               [s.entries[i] EXCEPT !.status = "Interrupted"]
          [] s.entries[i].status = "Pending" /\ s.entries[i].req.ambient ->
               [s.entries[i] EXCEPT !.status = "Expired"]
          [] OTHER -> s.entries[i]]]

\* Fault: the newest entries are kept.
SurplusNewest(s) ==
  LET waiting == Pending(s.entries)
      Newer(i) == {j \in waiting : j > i}
  IN {i \in waiting : Cardinality(Newer(i)) + DeviceQueued >= DeviceLimit}

\* Of what still waits, oldest first, the device keeps as much as the Circles
\* opened before left room for.  (The code sorts unaddressed entries last;
\* Recovered has expired all of those.)
Surplus(s) ==
  LET waiting == Pending(s.entries)
      Older(i) == {j \in waiting : j < i}
  IN {i \in waiting : Cardinality(Older(i)) + DeviceQueued >= DeviceLimit}

Reopened(s) == WithStatus(Recovered(s), Surplus(Recovered(s)), "Expired")

\* Inbox::open, and the limit the owner sets before anyone can reach it.
\* When the first write fails there is no owner; the file may be the new one.
Open(c, limit) ==
  /\ ~owned[c]
  /\ LET next == Reopened(disk[c])
     IN \/ /\ Committed(c, next)
           /\ owned' = [owned EXCEPT ![c] = TRUE]
           /\ perAgent' = [perAgent EXCEPT ![c] = limit]
        \/ /\ disk' = [disk EXCEPT ![c] = next]
           /\ UNCHANGED <<owned, mem, healthy, perAgent, aggregate>>
  /\ UNCHANGED executed

\* Fault: an inbox that is gone keeps its share of the device limit.
DisownedKeepsShare(S) ==
  /\ owned' = [c \in Circles |-> owned[c] /\ c \notin S]
  /\ mem' = [c \in Circles |-> IF c \in S THEN Fresh ELSE mem[c]]
  /\ healthy' = [c \in Circles |-> healthy[c] \/ c \in S]
  /\ UNCHANGED <<disk, perAgent, aggregate, executed>>

\* What is left of the inboxes in S when their owners are gone.
Disowned(S) ==
  /\ owned' = [c \in Circles |-> owned[c] /\ c \notin S]
  /\ mem' = [c \in Circles |-> IF c \in S THEN Fresh ELSE mem[c]]
  /\ healthy' = [c \in Circles |-> healthy[c] \/ c \in S]
  /\ aggregate' = [c \in Circles |-> IF c \in S THEN 0 ELSE aggregate[c]]
  /\ UNCHANGED <<disk, perAgent, executed>>

\* Drop: the reaction loop ended and its inbox went with it, after a failed
\* write in particular.
Close(c) == owned[c] /\ Disowned({c})

\* The process dies.
Crash == (\E c \in Circles : owned[c]) /\ Disowned(Circles)

-----------------------------------------------------------------------------

Init ==
  /\ owned = [c \in Circles |-> FALSE]
  /\ mem = [c \in Circles |-> Fresh]
  /\ disk = [c \in Circles |-> Fresh]
  /\ healthy = [c \in Circles |-> TRUE]
  /\ perAgent \in [Circles -> AgentLimits]
  /\ aggregate = [c \in Circles |-> 0]
  /\ executed = {}

Runs(c) == DOMAIN mem[c].entries

Next ==
  \/ \E c \in Circles, req \in Offers, max \in RelayTurns : Admit(c, req, max)
  \/ \E c \in Circles, max \in RelayTurns : \E i \in Runs(c) : Retry(c, i, max)
  \/ \E c \in Circles, req \in Offers : RecordSuppressed(c, req)
  \/ \E c \in Circles, limit \in AgentLimits : SetPerAgentLimit(c, limit)
  \/ \E c \in Circles : \E i \in Runs(c) :
       \/ Launch(c, i)
       \/ Cancel(c, i)
       \/ \E status \in {"Completed", "Failed", "Cancelled"} : Finish(c, i, status)
       \/ Requeue(c, i)
  \/ \E c \in Circles, limit \in AgentLimits : Open(c, limit)
  \/ \E c \in Circles : Close(c)
  \/ Crash

Spec == Init /\ [][Next]_vars

-----------------------------------------------------------------------------
(* Properties                                                              *)

\* The types of the state; in particular a cascade is never charged beyond
\* Ceiling, whatever max_relay_turns is set to.
TypeOK ==
  /\ owned \in [Circles -> BOOLEAN]
  /\ mem \in [Circles -> Snapshot]
  /\ disk \in [Circles -> Snapshot]
  /\ healthy \in [Circles -> BOOLEAN]
  /\ perAgent \in [Circles -> AgentLimits]
  /\ aggregate \in [Circles -> Nat]
  /\ executed \subseteq Circles \X (Nat \ {0})

\* "Records are committed before acknowledgement or launch": what a healthy
\* owner answers from is what a restart would read.
AckedIsDurable == \A c \in Circles : CanWrite(c) => disk[c] = mem[c]

\* An agent never has two live attempts at one message, in memory or in what
\* a restart would find: admit, retry, requeue and restart together.
OneLiveAttempt ==
  \A c \in Circles : \A s \in {mem[c], disk[c]} :
    \A i, j \in DOMAIN s.entries :
      /\ s.entries[i].status \in Live
      /\ s.entries[j].status \in Live
      /\ Key(s.entries[i].req) = Key(s.entries[j].req)
      => i = j

\* A run whose turn was handed to an agent never waits again, across failed
\* writes, crashes and restarts: "never automatically replayed".
NeverReplayed ==
  \A run \in executed : \A s \in {mem[run[1]], disk[run[1]]} :
    run[2] \in DOMAIN s.entries => s.entries[run[2]].status # "Pending"

\* The process-wide table counts exactly the pending entries of the open
\* inboxes; an inbox that closed or failed to open holds none of the limit.
AggregateExact ==
  \A c \in Circles :
    aggregate[c] = IF owned[c] THEN Cardinality(Pending(mem[c].entries)) ELSE 0

\* No sequence of admissions, retries, requeues and restarts overfills a
\* Circle's queue or the device's, whatever the limits were set to meanwhile.
QueuesBounded ==
  /\ DeviceQueued <= DeviceLimit
  /\ \A c \in Circles : \A s \in {mem[c], disk[c]} :
       Cardinality(Pending(s.entries)) <= CircleLimit

\* Every turn of a cascade that ran, is running or may still run is paid for,
\* so a cascade takes at most Ceiling turns on this device.  Displacement
\* gives back only what was never used.
Turns(s, r) ==
  {i \in DOMAIN s.entries :
     /\ s.entries[i].req.root = r
     /\ s.entries[i].status \in Live \cup {"Completed", "Failed", "Interrupted"}}

CascadePaid ==
  \A c \in Circles : \A s \in {mem[c], disk[c]} : \A r \in Roots :
    Cardinality(Turns(s, r)) <= s.charges[r]

\* The outcome of a run, once on disk, stays: no crash, failed write or late
\* transition takes it back, and dedup evidence is never dropped.
SettledStays ==
  [][\A c \in Circles : \A i \in DOMAIN disk[c].entries :
       disk[c].entries[i].status \in Terminal =>
         /\ i \in DOMAIN disk'[c].entries
         /\ disk'[c].entries[i] = disk[c].entries[i]]_vars

\* An addressed request expires in the queue only for another addressed
\* request, and only when no unaddressed one of its agent could go instead.
AddressedIsOwedItsTurn ==
  [][\A c \in Circles : owned[c] =>
       \A i \in DOMAIN mem[c].entries \cap DOMAIN mem'[c].entries :
         LET old == mem[c].entries
             new == mem'[c].entries
         IN /\ old[i].status = "Pending" /\ ~old[i].req.ambient
            /\ new[i].status = "Expired"
            => /\ Len(new) = Len(old) + 1
               /\ ~new[Len(new)].req.ambient
               /\ \A j \in PendingOf(new, old[i].req.agent) : ~new[j].req.ambient]_vars

\* "Pending work survives restart": a new owner expires an addressed request
\* only when the device has no room left, and never before a later one.
AddressedSurvivesRestart ==
  [][\A c \in Circles : ~owned[c] /\ owned'[c] =>
       \A i \in Pending(disk[c].entries) :
         ~disk[c].entries[i].req.ambient /\ i \notin Pending(mem'[c].entries) =>
           /\ DeviceQueued' >= DeviceLimit
           /\ \A j \in Pending(mem'[c].entries) : j < i]_vars
=============================================================================
