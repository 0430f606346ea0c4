---------------------------- MODULE ProposalLog ----------------------------
(***************************************************************************)
(* The decisions on a proposal (src/src/workspace_event.rs, network/       *)
(* event_sync.rs, network/proposal_sync.rs, proposal/sync.rs, api/         *)
(* proposals.rs).  Every device keeps a log of immutable events, which is  *)
(* the authority, and a mutable record of the proposal, which is what its  *)
(* users see and decide on.  Events travel over one stream per pair of     *)
(* devices: each end says what it has, sends what the other lacks, and     *)
(* then forwards what is appended.  Records travel with the events and,    *)
(* once per connection, on their own.                                      *)
(*                                                                         *)
(* The model follows one proposal.  Other events matter to it by their     *)
(* Lamport times only; of these the snapshot event before the creation is  *)
(* kept, and the two around a rejection or a revert are not.               *)
(***************************************************************************)
EXTENDS Integers, Sequences, FiniteSets, Functions

CONSTANTS Devices,     \* devices, numbered in the order of their peer ids
          Author,      \* the device whose engine makes the proposal
          Fast,        \* the device whose clock is ahead of the others'
          Links,       \* pairs of devices that connect, as sets
          Verdicts,    \* what users decide
          MaxDecisions,\* bound: decisions of users
          MaxFaults    \* bound: overflows, unreadable events, lost connections, restarts

ASSUME ProposalLogAssumption ==
  /\ Devices \subseteq Nat /\ IsFiniteSet(Devices)
  /\ {Author, Fast} \subseteq Devices
  /\ Links \subseteq SUBSET Devices /\ \A l \in Links : Cardinality(l) = 2
  /\ Verdicts \subseteq {"Accepted", "Rejected", "Reverted"}
  /\ {MaxDecisions, MaxFaults} \subseteq Nat

VARIABLES
  log,       \* log[d]: the events d has stored
  record,    \* record[d]: the status in d's record of the proposal
  making,    \* how far the Author's engine is with the proposal
  deciding,  \* deciding[d]: the request of a user that d handles
  up,        \* the links that are connected
  phase,     \* phase[p]: how far the end p of a stream is
  have,      \* have[p]: what that end said it has
  known,     \* known[p]: peer_known
  queue,     \* queue[p]: notifications of appended events
  lagged,    \* lagged[p]: notifications were dropped
  wire,      \* wire[p]: what is under way to that end
  bundle,    \* bundle[p]: the peer's record under way on the proposal stream
  missed,    \* links on which an event was skipped or refused
  spent      \* budgets

streams == <<phase, have, known, queue, lagged, wire>>
links == <<up, bundle, missed>>
vars == <<log, record, making, deciding, streams, links, spent>>

\* The end <<d, e>> of a stream is d's end of its stream with e.
Ends == {p \in Devices \X Devices : {p[1], p[2]} \in Links}
Other(p) == <<p[2], p[1]>>
EndsOf(d) == {p \in Ends : p[1] = d}

Statuses == {"Pending", "Accepted", "Rejected", "Reverted"}
NoRecord == "none"
Kinds == {"made", "created", "decided"}

NoEvent == [kind |-> "done"]

\* The note that the snapshot was made carries no status.
Event == [kind : Kinds, status : Statuses \cup {NoRecord}, lamport : Nat \ {0}, by : Devices]

\* ProposalStatus::rank.
Rank(s) ==
  CASE s = "Pending" -> 0 [] s = "Accepted" -> 2 [] s = "Rejected" -> 3 [] s = "Reverted" -> 4

-----------------------------------------------------------------------------
(* The log                                                                 *)

Stamps(L) == {e.lamport : e \in L}

\* Fault: the time of the last event is taken over, not passed.
StampKept(L) == IF L = {} THEN 0 ELSE CHOOSE t \in Stamps(L) : \A u \in Stamps(L) : u <= t

\* append_local's Lamport time: one above every event of the log.
NextStamp(L) == IF L = {} THEN 1 ELSE 1 + CHOOSE t \in Stamps(L) : \A u \in Stamps(L) : u <= t

\* The last component of order_key and event_key, the event's id, as the order
\* of kinds: events of one device share a Lamport time only when two tasks
\* append at once.
Turn(e) == CASE e.kind = "made" -> 0 [] e.kind = "decided" -> 1 [] e.kind = "created" -> 2

\* order_key: Lamport time, clock, peer, id.
Before(e, f) ==
  \/ e.lamport < f.lamport
  \/ /\ e.lamport = f.lamport
     /\ \/ e.by # Fast /\ f.by = Fast
        \/ (e.by = Fast) = (f.by = Fast) /\ e.by < f.by
        \/ e.by = f.by /\ Turn(e) < Turn(f)

\* Fault: of two decisions the later one stands.
BelowByTime(e, f) == Before(e, f)

\* event_key: rank, Lamport time, peer, id.
Below(e, f) ==
  \/ Rank(e.status) < Rank(f.status)
  \/ /\ Rank(e.status) = Rank(f.status)
     /\ \/ e.lamport < f.lamport
        \/ e.lamport = f.lamport /\ e.by < f.by
        \/ e.lamport = f.lamport /\ e.by = f.by /\ Turn(e) < Turn(f)

Decisions(L) == {e \in L : e.kind = "decided"}
Creations(L) == {e \in L : e.kind = "created"}
Earliest(S) == CHOOSE e \in S : \A f \in S : e = f \/ Before(e, f)
Latest(S) == CHOOSE e \in S : \A f \in S : e = f \/ Before(f, e)

\* materialize, the status of the proposal: the first creation enters it, and
\* in the order of the log an event changes it when its key exceeds all keys
\* before it.  A decision ordered before the creation raises the key only.
Status(L) ==
  IF Creations(L) = {} THEN NoRecord
  ELSE LET first == Earliest(Creations(L))
           said == Creations(L) \cup Decisions(L)
           rises == {e \in said : ~Before(e, first)
                                    /\ \A f \in said : Before(f, e) => Below(f, e)}
       IN  Latest(rises \cup {first}).status

\* Events in the order list returns them.
InOrder(S) ==
  [i \in 1 .. Cardinality(S) |-> CHOOSE e \in S : Cardinality({f \in S : Before(f, e)}) = i - 1]

-----------------------------------------------------------------------------
(* Applying                                                                *)

\* reconcile_proposals: the record takes the status of the log.
Reconciled(r, L) ==
  IF r = NoRecord \/ Status(L) = NoRecord THEN r ELSE Status(L)

\* apply_to_store and incoming_status_wins.
Merged(r, b) ==
  IF b # NoRecord /\ (r = NoRecord \/ Rank(b) > Rank(r)) THEN b ELSE r

\* envelope_for: every event carries the sender's record.
Envelope(d, e) == [event |-> e, bundle |-> record[d]]
Envelopes(d, S) == [i \in 1 .. Cardinality(S) |-> Envelope(d, InOrder(S)[i])]
Done == [event |-> NoEvent]

\* Fault: a stream subscribes when its batches are exchanged.
NotifiedLate(d, s) == [p \in Ends |-> IF p[1] = d /\ phase[p] = "live" THEN queue[p] \o s ELSE queue[p]]

\* Every live stream of d is notified of the events of sequence s.
Notified(d, s) == [p \in Ends |-> IF p[1] = d /\ phase[p] # "down" THEN queue[p] \o s ELSE queue[p]]

\* append_local_event: d appends the events of s.
Appended(d, s) ==
  /\ log' = [log EXCEPT ![d] = @ \cup Range(s)]
  /\ queue' = Notified(d, s)
  /\ UNCHANGED <<phase, have, known, lagged, wire>>

Init ==
  /\ log = [d \in Devices |-> {}] /\ record = [d \in Devices |-> NoRecord]
  /\ making = "nothing" /\ deciding = [d \in Devices |-> [step |-> "idle"]]
  /\ up = {} /\ phase = [p \in Ends |-> "down"]
  /\ have = [p \in Ends |-> {}] /\ known = [p \in Ends |-> {}]
  /\ queue = [p \in Ends |-> <<>>] /\ lagged = [p \in Ends |-> FALSE]
  /\ wire = [p \in Ends |-> <<>>] /\ bundle = [p \in Ends |-> "unsent"]
  /\ missed = {}
  /\ spent = [decisions |-> 0, faults |-> 0]

Spend(b, max) == spent[b] < max /\ spent' = [spent EXCEPT ![b] = @ + 1]

-----------------------------------------------------------------------------
(* The engine: create_proposal                                             *)

SaveProposal ==
  /\ making = "nothing"
  /\ record' = [record EXCEPT ![Author] = "Pending"]
  /\ making' = "saved"
  /\ UNCHANGED <<log, deciding, streams, links, spent>>

Snapshot(d) == [kind |-> "made", status |-> NoRecord, lamport |-> NextStamp(log[d]), by |-> d]
Creation(d, L) == [kind |-> "created", status |-> "Pending", lamport |-> NextStamp(L), by |-> d]

RecordSnapshot ==
  /\ making = "saved"
  /\ Appended(Author, <<Snapshot(Author)>>)
  /\ making' = "noted"
  /\ UNCHANGED <<record, deciding, links, spent>>

RecordCreation ==
  /\ making = "noted"
  /\ Appended(Author, <<Creation(Author, log[Author])>>)
  /\ making' = "done"
  /\ UNCHANGED <<record, deciding, links, spent>>

-----------------------------------------------------------------------------
(* A user decides: set_status                                              *)

AllowedFrom(s) == IF s = "Reverted" THEN "Accepted" ELSE "Pending"

\* The record is read and the request is allowed.
Decide(d, s) ==
  /\ deciding[d].step = "idle" /\ record[d] = AllowedFrom(s)
  /\ Spend("decisions", MaxDecisions)
  /\ deciding' = [deciding EXCEPT ![d] = [step |-> "read", status |-> s]]
  /\ UNCHANGED <<log, record, making, streams, links>>

\* The files are restored, if the change is reversed, and the record is saved.
SaveDecision(d) ==
  /\ deciding[d].step = "read"
  /\ record' = [record EXCEPT ![d] = deciding[d].status]
  /\ deciding' = [deciding EXCEPT ![d].step = "saved"]
  /\ UNCHANGED <<log, making, streams, links, spent>>

\* append_local reads the log, without a lock, and then appends.
StampDecision(d) ==
  /\ deciding[d].step = "saved"
  /\ deciding' = [deciding EXCEPT ![d] =
       [step |-> "stamped", status |-> @.status, lamport |-> NextStamp(log[d])]]
  /\ UNCHANGED <<log, record, making, streams, links, spent>>

WriteDecision(d) ==
  LET said == deciding[d]
  IN  /\ said.step = "stamped"
      /\ Appended(d, <<[kind |-> "decided", status |-> said.status, lamport |-> said.lamport, by |-> d]>>)
      /\ deciding' = [deciding EXCEPT ![d] = [step |-> "idle"]]
      /\ UNCHANGED <<record, making, links, spent>>

\* A file cannot be restored, or a snapshot or an event not be written.
FailDecision(d) ==
  /\ deciding[d].step # "idle"
  /\ Spend("faults", MaxFaults)
  /\ deciding' = [deciding EXCEPT ![d] = [step |-> "idle"]]
  /\ UNCHANGED <<log, record, making, streams, links>>

-----------------------------------------------------------------------------
(* The event stream: run_inner                                             *)

Connect(l) ==
  /\ l \in Links \ up
  /\ up' = up \cup {l}
  /\ UNCHANGED <<log, record, making, deciding, streams, bundle, missed, spent>>

\* An end subscribes, and then says what it has.
Open(p) ==
  /\ {p[1], p[2]} \in up /\ phase[p] = "down"
  /\ phase' = [phase EXCEPT ![p] = "open"]
  /\ have' = [have EXCEPT ![p] = log[p[1]]]
  /\ UNCHANGED <<log, record, making, deciding, known, queue, lagged, wire, links, spent>>

\* What an end takes the peer to have when the batches are exchanged.
KnownFirst(p) == have[Other(p)]

\* compute_wants, from the peer's side: what this end has and the peer lacks.
Batch(p) == have[p] \ have[Other(p)]

\* An end has the peer's HAVE and WANT, and sends the batch.
Greet(p) ==
  /\ phase[p] = "open" /\ phase[Other(p)] # "down"
  /\ phase' = [phase EXCEPT ![p] = "batch"]
  /\ known' = [known EXCEPT ![p] = KnownFirst(p)]
  /\ wire' = [wire EXCEPT ![Other(p)] =
       @ \o Envelopes(p[1], Batch(p)) \o <<Done>>]
  /\ UNCHANGED <<log, record, making, deciding, have, queue, lagged, links, spent>>

Arrived(p) == phase[p] \in {"batch", "live"} /\ wire[p] # <<>> /\ Head(wire[p]).event.kind # "done"

\* apply_envelope: the bundle, the event, and the records again if the event
\* is new.
Deliver(p) ==
  LET d == p[1]
      m == Head(wire[p])
      L == log[d] \cup {m.event}
      r == Merged(record[d], m.bundle)
  IN  /\ Arrived(p)
      /\ log' = [log EXCEPT ![d] = L]
      /\ record' = [record EXCEPT ![d] = IF m.event \in log[d] THEN r ELSE Reconciled(r, L)]
      /\ queue' = IF m.event \in log[d] THEN queue ELSE Notified(d, <<m.event>>)
      /\ known' = [known EXCEPT ![p] = @ \cup {m.event}]
      /\ wire' = [wire EXCEPT ![p] = Tail(@)]
      /\ UNCHANGED <<making, deciding, phase, have, lagged, links, spent>>

\* An event that cannot be stored is dropped, and not asked for again.
Refuse(p) ==
  LET m == Head(wire[p])
  IN  /\ Arrived(p)
      /\ Spend("faults", MaxFaults)
      /\ known' = [known EXCEPT ![p] = @ \cup {m.event}]
      /\ wire' = [wire EXCEPT ![p] = Tail(@)]
      /\ missed' = missed \cup {{p[1], p[2]}}
      /\ UNCHANGED <<log, record, making, deciding, phase, have, queue, lagged, up, bundle>>

\* The batch is applied, and the records are reconciled.
EndBatch(p) ==
  LET d == p[1]
  IN  /\ phase[p] = "batch" /\ wire[p] # <<>> /\ Head(wire[p]).event.kind = "done"
      /\ phase' = [phase EXCEPT ![p] = "live"]
      /\ record' = [record EXCEPT ![d] = Reconciled(@, log[d])]
      /\ wire' = [wire EXCEPT ![p] = Tail(@)]
      /\ UNCHANGED <<log, making, deciding, have, known, queue, lagged, links, spent>>

\* A notification: the event goes to the peer, unless it is known there.
Forward(p) ==
  LET e == Head(queue[p])
  IN  /\ phase[p] = "live" /\ ~lagged[p] /\ queue[p] # <<>>
      /\ queue' = [queue EXCEPT ![p] = Tail(@)]
      /\ known' = [known EXCEPT ![p] = @ \cup {e}]
      /\ wire' = IF e \in known[p] THEN wire
                 ELSE [wire EXCEPT ![Other(p)] = Append(@, Envelope(p[1], e))]
      /\ UNCHANGED <<log, record, making, deciding, phase, have, lagged, links, spent>>

\* The event cannot be read just then: it is not sent, and not tried again.
Skip(p) ==
  /\ phase[p] = "live" /\ ~lagged[p] /\ queue[p] # <<>> /\ Head(queue[p]) \notin known[p]
  /\ Spend("faults", MaxFaults)
  /\ queue' = [queue EXCEPT ![p] = Tail(@)]
  /\ missed' = missed \cup {{p[1], p[2]}}
  /\ UNCHANGED <<log, record, making, deciding, phase, have, known, lagged, wire, up, bundle>>

\* The channel carries every event of the Circle; it overflows, and the oldest
\* notifications are lost.
Overflow(p) ==
  /\ phase[p] # "down"
  /\ Spend("faults", MaxFaults)
  /\ \E n \in 0 .. Len(queue[p]) :
       queue' = [queue EXCEPT ![p] = SubSeq(@, n + 1, Len(@))]
  /\ lagged' = [lagged EXCEPT ![p] = TRUE]
  /\ UNCHANGED <<log, record, making, deciding, phase, have, known, wire, links>>

\* Fault: a receiver that lagged goes on with the notifications that are left.
CatchUpNothing(p) == {}

\* What is sent after a lag: the whole log, but for what is known to the peer.
CatchUp(p) == log[p[1]] \ known[p]

RecoverLag(p) ==
  /\ phase[p] = "live" /\ lagged[p]
  /\ lagged' = [lagged EXCEPT ![p] = FALSE]
  /\ known' = [known EXCEPT ![p] = @ \cup CatchUp(p)]
  /\ wire' = [wire EXCEPT ![Other(p)] =
       @ \o Envelopes(p[1], CatchUp(p))]
  /\ UNCHANGED <<log, record, making, deciding, phase, have, queue, links, spent>>

-----------------------------------------------------------------------------
(* The proposal stream: once per connection                                *)

\* A bundle is sent when the records of the two ends differ.
Offer(p) ==
  /\ {p[1], p[2]} \in up /\ bundle[p] = "unsent"
  /\ bundle' = [bundle EXCEPT ![p] = IF record[p[2]] = record[p[1]] THEN NoRecord ELSE record[p[2]]]
  /\ UNCHANGED <<log, record, making, deciding, streams, up, missed, spent>>

Take(p) ==
  LET d == p[1]
  IN  /\ bundle[p] \notin {"unsent", NoRecord}
      /\ record' = [record EXCEPT ![d] = Reconciled(Merged(@, bundle[p]), log[d])]
      /\ bundle' = [bundle EXCEPT ![p] = NoRecord]
      /\ UNCHANGED <<log, making, deciding, streams, up, missed, spent>>

-----------------------------------------------------------------------------
(* Failures                                                                *)

\* The streams over the links of ls end.
Cut(ls) ==
  LET cut == {p \in Ends : {p[1], p[2]} \in ls}
      Reset(f, v) == [p \in Ends |-> IF p \in cut THEN v ELSE f[p]]
  IN  /\ up' = up \ ls /\ missed' = missed \ ls
      /\ phase' = Reset(phase, "down") /\ have' = Reset(have, {}) /\ known' = Reset(known, {})
      /\ queue' = Reset(queue, <<>>) /\ lagged' = Reset(lagged, FALSE)
      /\ wire' = Reset(wire, <<>>) /\ bundle' = Reset(bundle, "unsent")

Drop(l) ==
  /\ l \in up
  /\ Spend("faults", MaxFaults)
  /\ Cut({l})
  /\ UNCHANGED <<log, record, making, deciding>>

\* backfill_proposals: a record without a creation event gets one.
Backfill(d) ==
  IF record[d] = NoRecord \/ Creations(log[d]) # {} THEN log[d]
  ELSE LET L == log[d] \cup {Snapshot(d)}
       IN  L \cup {[Creation(d, L) EXCEPT !.status = record[d]]}

\* A device stops between any two steps and starts again.
Restart(d) ==
  /\ Spend("faults", MaxFaults)
  /\ Cut({l \in Links : d \in l})
  /\ log' = [log EXCEPT ![d] = Backfill(d)]
  /\ deciding' = [deciding EXCEPT ![d] = [step |-> "idle"]]
  /\ making' = IF d = Author /\ making \in {"saved", "noted"} THEN "done" ELSE making
  /\ UNCHANGED record

Next ==
  \/ SaveProposal \/ RecordSnapshot \/ RecordCreation
  \/ \E d \in Devices :
       \/ \E s \in Verdicts : Decide(d, s)
       \/ SaveDecision(d) \/ StampDecision(d) \/ WriteDecision(d) \/ FailDecision(d)
       \/ Restart(d)
  \/ \E l \in Links : Connect(l) \/ Drop(l)
  \/ \E p \in Ends :
       \/ Open(p) \/ Greet(p) \/ Deliver(p) \/ Refuse(p) \/ EndBatch(p)
       \/ Forward(p) \/ Skip(p) \/ Overflow(p) \/ RecoverLag(p)
       \/ Offer(p) \/ Take(p)

\* The tasks of a stream run.
Fairness ==
  \A p \in Ends :
    /\ WF_vars(Open(p)) /\ WF_vars(Greet(p)) /\ WF_vars(Deliver(p)) /\ WF_vars(EndBatch(p))
    /\ WF_vars(Forward(p)) /\ WF_vars(RecoverLag(p))

Spec == Init /\ [][Next]_vars
FairSpec == Spec /\ Fairness

-----------------------------------------------------------------------------
(* Properties                                                              *)

\* The types, and what the steps rely on: times start at one, an end that
\* has not begun holds nothing, and only a stored event was ever announced.
TypeOK ==
  /\ \A d \in Devices : log[d] \subseteq Event
  /\ record \in [Devices -> Statuses \cup {NoRecord}]
  /\ making \in {"nothing", "saved", "noted", "done"}
  /\ \A d \in Devices : deciding[d].step \in {"idle", "read", "saved", "stamped"}
  /\ up \subseteq Links /\ missed \subseteq up
  /\ phase \in [Ends -> {"down", "open", "batch", "live"}]
  /\ \A p \in Ends :
       /\ have[p] \subseteq log[p[1]] /\ Range(queue[p]) \subseteq log[p[1]]
       /\ phase[p] = "down" => known[p] = {} /\ queue[p] = <<>> /\ ~lagged[p]
       /\ bundle[p] \in Statuses \cup {NoRecord, "unsent"}

Carried(p) == {wire[p][i].event : i \in 1 .. Len(wire[p])}

\* No event is stranded (event_sync.rs run_inner): once an end has answered the
\* peer's HAVE, every event of its log is with the peer, on the wire to it or
\* among the notifications still to come, or the end knows that it lagged.
\* The subscription, the HAVE, the batch, peer_known and the recovery from the
\* disk log have to meet without a gap, whatever is appended in between.
NoEventStranded ==
  \A p \in Ends :
    phase[p] \in {"batch", "live"} /\ {p[1], p[2]} \notin missed /\ ~lagged[p]
      => log[p[1]] \subseteq log[p[2]] \cup Carried(Other(p)) \cup Range(queue[p])

\* Two devices whose connection lasts, and which neither skip nor refuse an
\* event, come to hold the same log (event_sync.rs run_inner), also when a
\* notification channel overflowed, a connection was lost before, or a device
\* was started again.
LogsMeet ==
  \A l \in Links : <>[](l \in up \ missed) => <>[](\A d, e \in l : log[d] = log[e])

\* The precedence of proposals.md, from the least.
Precedence == <<"Pending", "Accepted", "Rejected", "Reverted">>
Said(L) == {e.status : e \in Creations(L) \cup Decisions(L)}
Highest(L) == Precedence[CHOOSE i \in 1 .. 4 :
                           Precedence[i] \in Said(L) /\ \A j \in i + 1 .. 4 : Precedence[j] \notin Said(L)]

\* In a log in which no decision comes before the creation, the status is the
\* decision of highest precedence (workspace_event.rs materialize), however
\* decisions made apart are ordered.
DecisionsStand ==
  \A d \in Devices :
    LET L == log[d]
    IN  Creations(L) # {} /\ (\A e \in Decisions(L) : Before(Earliest(Creations(L)), e))
          => Status(L) = Highest(L)
=============================================================================
