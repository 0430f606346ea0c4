-------------------------- MODULE ProposalEngine ---------------------------
(***************************************************************************)
(* How a device turns changes of the workspace into proposals              *)
(* (src/src/proposal/engine.rs, evidence.rs, runs.rs).  The engine keeps a *)
(* baseline, the state it has accounted for.  In idle windows it reads the *)
(* disk, records what differs from the baseline as proposals, and only     *)
(* then moves the baseline.  Writes that go through the agent client leave *)
(* evidence and become proposals of their own; changes by the interactive  *)
(* surfaces (browser editor, sync) are held until they go quiet, and are   *)
(* accepted as they are; restorations by a review fold into the baseline.  *)
(* While an agent's run calls for a review, other changes wait for it.     *)
(*                                                                         *)
(* Contents are numbers: every write makes a new one, 0 is the first.      *)
(* Event channels are sets of paths: an event arrives some time after its  *)
(* write, or not at all when the channel overflows or nobody listens.      *)
(***************************************************************************)
EXTENDS Integers, Sequences, FiniteSets

CONSTANTS Paths,       \* files
          MaxWrites,   \* bound: writes
          MaxOps,      \* bound: writes among them through the agent client
          MaxSurface,  \* bound: writes among them by interactive surfaces
          MaxEvents    \* bound: restorations, channels that overflow, failures, restarts

ASSUME ProposalEngineAssumption ==
  /\ IsFiniteSet(Paths)
  /\ {MaxWrites, MaxOps, MaxSurface, MaxEvents} \subseteq Nat

VARIABLES
  disk,       \* the workspace
  run,        \* the run that calls for a review, and whether it was consumed
  journal,    \* evidence of writes through the agent client, a file each
  order,      \* who holds WRITE_ORDER
  baseline,   \* the stored baseline
  proposals,  \* the recorded proposals, in order
  pc,         \* what the engine does
  listening,  \* it has subscribed to the channels
  base,       \* its baseline in memory
  notes,      \* dirty, rescan, interactive, interactive_fresh, interactive_baseline, expected
  window,     \* what the open window has read, and what it is yet to do
  coming,     \* watcher events under way
  told,       \* messages of the interactive surfaces under way
  announced,  \* messages of reviews under way
  slipped,    \* paths written while nobody listened, after the disk was read
  forgotten,  \* paths of changes the engine held, or read, and forgot
  overtaken,  \* paths a window read with an operation it had not consumed
  spent       \* budgets, and the contents the run wrote on its own

store == <<baseline, proposals>>
engine == <<pc, listening, base, notes, window>>
channels == <<coming, told, announced, slipped>>
ghosts == <<forgotten, overtaken>>
vars == <<disk, run, journal, order, store, engine, channels, ghosts, spent>>

Contents == 0 .. MaxWrites
Files == [Paths -> Contents]
Nothing == [p \in {} |-> 0]

\* A saved snapshot: when it was created, and what it holds.  The baseline is
\* one, and names the evidence it was last moved by.
Snapshot == [at : Nat, files : Files]
Baseline == [at : Nat, files : Files, checkpoint : Nat]

WriteEvidence == [id : Nat \ {0}, path : Paths, before : Contents, after : Contents,
                  review : BOOLEAN, completed : BOOLEAN]

Proposal == [source : {"Ambient", "Interactive", "ManagedProcess"}, from : Files, to : Snapshot,
             paths : SUBSET Paths, review : BOOLEAN, op : Nat]

Changed(f, g) == {p \in Paths : f[p] # g[p]}

Unread == [result |-> Nothing, plan |-> <<>>, through |-> FALSE, pending |-> {}, evidenced |-> {}]
Fresh == [dirty |-> {}, rescan |-> FALSE, interactive |-> {}, fresh |-> {}, burst |-> Nothing, expected |-> Nothing]

Init ==
  /\ disk = [p \in Paths |-> 0] /\ run = "none" /\ journal = {} /\ order = "free"
  /\ baseline = [at |-> 0, files |-> disk, checkpoint |-> 0] /\ proposals = <<>>
  /\ pc = "wait" /\ listening = TRUE /\ base = baseline /\ notes = Fresh /\ window = Unread
  /\ coming = {} /\ told = {} /\ announced = {} /\ slipped = {}
  /\ forgotten = {} /\ overtaken = {}
  /\ spent = [made |-> 0, ops |-> 0, surface |-> 0, events |-> 0, ofRun |-> {}]

Spend == spent.events < MaxEvents /\ spent' = [spent EXCEPT !.events = @ + 1]

-----------------------------------------------------------------------------
(* Writers                                                                 *)

NewContent == spent.made + 1
Written(p) == disk' = [disk EXCEPT ![p] = NewContent]

\* An editor or a shell writes p; byRun: the agent of the run does.
Write(p, byRun) ==
  /\ spent.made < MaxWrites /\ (byRun => run = "open")
  /\ Written(p) /\ coming' = coming \cup {p}
  /\ spent' = [spent EXCEPT !.made = @ + 1, !.ofRun = IF byRun THEN @ \cup {NewContent} ELSE @]
  /\ UNCHANGED <<run, journal, order, store, engine, told, announced, slipped, ghosts>>

\* write_ordered, for a session that calls for a review or not: evidence, file, evidence completed, under WRITE_ORDER.
ClientWrite(p, review) ==
  /\ order = "free" /\ (review => run = "open") /\ spent.made < MaxWrites /\ spent.ops < MaxOps
  /\ order' = "client"
  /\ journal' = journal \cup {[id |-> spent.ops + 1, path |-> p, before |-> disk[p],
                               after |-> NewContent, review |-> review, completed |-> FALSE]}
  /\ Written(p) /\ coming' = coming \cup {p}
  /\ spent' = [spent EXCEPT !.made = @ + 1, !.ops = @ + 1]
  /\ UNCHANGED <<run, store, engine, told, announced, slipped, ghosts>>

ClientDone ==
  /\ order = "client"
  /\ order' = "free"
  /\ journal' = {[e EXCEPT !.completed = @ \/ e.id = spent.ops] : e \in journal}
  /\ UNCHANGED <<disk, run, store, engine, channels, ghosts, spent>>

\* flush_file and the file operations of the API: the file, then a message.
SurfaceWrite(p) ==
  /\ spent.made < MaxWrites /\ spent.surface < MaxSurface
  /\ Written(p) /\ told' = told \cup {p}
  /\ spent' = [spent EXCEPT !.made = @ + 1, !.surface = @ + 1]
  /\ UNCHANGED <<run, journal, order, store, engine, coming, announced, slipped, ghosts>>

\* A review puts a path back as it was, where nothing was written since.
Restore(p) ==
  /\ \E i \in DOMAIN proposals :
       /\ p \in proposals[i].paths /\ disk[p] = proposals[i].to.files[p]
       /\ disk' = [disk EXCEPT ![p] = proposals[i].from[p]]
       /\ announced' = announced \cup {[path |-> p, content |-> proposals[i].from[p]]}
  /\ coming' = coming \cup {p}
  /\ Spend
  /\ UNCHANGED <<run, journal, order, store, engine, told, slipped, ghosts>>

\* RunLease: a run that calls for a review begins and ends.
OpenRun ==
  /\ run = "none" /\ run' = "open"
  /\ UNCHANGED <<disk, journal, order, store, engine, channels, ghosts, spent>>

FinishRun ==
  /\ run = "open" /\ order # "client" /\ run' = "finished"
  /\ UNCHANGED <<disk, journal, order, store, engine, channels, ghosts, spent>>

-----------------------------------------------------------------------------
(* The engine listens                                                      *)

HearWatcher(p) ==
  /\ pc = "wait" /\ p \in coming
  /\ coming' = coming \ {p}
  /\ notes' = [notes EXCEPT !.dirty = @ \cup {p}]
  /\ UNCHANGED <<disk, run, journal, order, store, pc, listening, base, window, told, announced,
                 slipped, ghosts, spent>>

HearSurface(p) ==
  /\ pc = "wait" /\ p \in told
  /\ told' = told \ {p}
  /\ notes' = [notes EXCEPT !.interactive = @ \cup {p}, !.fresh = @ \cup {p},
                            !.burst = IF @ = Nothing THEN base.files ELSE @]
  /\ UNCHANGED <<disk, run, journal, order, store, pc, listening, base, window, coming, announced,
                 slipped, ghosts, spent>>

HearReview(a) ==
  /\ pc = "wait" /\ a \in announced
  /\ announced' = announced \ {a}
  /\ notes' = [notes EXCEPT !.expected =
       [p \in DOMAIN @ \cup {a.path} |-> IF p = a.path THEN a.content ELSE @[p]]]
  /\ UNCHANGED <<disk, run, journal, order, store, pc, listening, base, window, coming, told,
                 slipped, ghosts, spent>>

\* Fault: a channel that lagged is read on.
LaggedOn == notes

\* A channel lagged: the next window reads the whole workspace.
Lagged == [notes EXCEPT !.rescan = TRUE]

Lag ==
  /\ pc = "wait"
  /\ Spend
  /\ \/ coming # {} /\ coming' = {} /\ UNCHANGED <<told, announced>>
     \/ told # {} /\ told' = {} /\ UNCHANGED <<coming, announced>>
     \/ announced # {} /\ announced' = {} /\ UNCHANGED <<coming, told>>
  /\ notes' = Lagged
  /\ UNCHANGED <<disk, run, journal, order, store, pc, listening, base, window, slipped, ghosts>>

\* Until the engine subscribes, events pass it by.
Missed(p) ==
  slipped' = IF window.result # Nothing /\ window.result[p] # disk[p] THEN slipped \cup {p} ELSE slipped

PassBy(p) ==
  /\ ~listening
  /\ \/ p \in coming /\ coming' = coming \ {p} /\ Missed(p) /\ UNCHANGED <<told, announced>>
     \/ p \in told /\ told' = told \ {p} /\ Missed(p) /\ UNCHANGED <<coming, announced>>
     \/ \E a \in announced : a.path = p /\ announced' = announced \ {a} /\ UNCHANGED <<coming, told, slipped>>
  /\ UNCHANGED <<disk, run, journal, order, store, engine, ghosts, spent>>

-----------------------------------------------------------------------------
(* consume_write_evidence                                                  *)

outside == <<disk, run, coming, told, announced, slipped, spent>>

\* recover_unadvanced_baseline: the newest result a stopped run recorded.
Unadvanced == {i \in DOMAIN proposals : proposals[i].source # "ManagedProcess" /\ proposals[i].to.at > baseline.at}

Recovered ==
  IF Unadvanced = {} THEN baseline
  ELSE LET newest == CHOOSE i \in Unadvanced : \A k \in Unadvanced : proposals[k].to.at <= proposals[i].to.at
       IN  [at |-> proposals[newest].to.at, files |-> proposals[newest].to.files, checkpoint |-> 0]

Recover ==
  /\ pc = "recover" /\ pc' = "consume"
  /\ baseline' = Recovered /\ base' = Recovered
  /\ UNCHANGED <<outside, journal, order, proposals, listening, notes, window, ghosts>>

\* The idle timer fires.
Idle ==
  /\ pc = "wait" /\ pc' = "consume"
  /\ UNCHANGED <<outside, journal, order, store, listening, base, notes, window, ghosts>>

\* The journal is read under the locks; what the baseline holds is dropped.
\* Held changes of the paths in it will be nobody's (EndEvidence).
TakeEvidence ==
  LET done == {e \in journal : e.completed}
      held == {e \in done : e.id <= base.checkpoint /\ \E o \in done : o.id = base.checkpoint}
  IN  /\ pc = "consume" /\ order = "free"
      /\ order' = "engine" /\ pc' = "evidence"
      /\ journal' = journal \ held
      /\ window' = [window EXCEPT !.pending = done \ held, !.evidenced = {e.path : e \in done}]
      /\ forgotten' = forgotten \cup (notes.interactive \cap window'.evidenced)
      /\ UNCHANGED <<outside, store, listening, base, notes, overtaken>>

ReviewRequired == run \in {"open", "finished"}
\* In the order they were made.
Operation == CHOOSE e \in window.pending : \A o \in window.pending : e.id <= o.id
Consuming == pc = "evidence" /\ window.pending # {}
Recorded == {proposals[i].op : i \in DOMAIN proposals}

\* An edit by others came between the baseline and the operation.
HasGap == base.files[Operation.path] # Operation.before

\* It becomes a proposal of its own; its snapshot is a copy of the baseline.
RecordGap ==
  LET gap == [base.files EXCEPT ![Operation.path] = Operation.before]
  IN  /\ Consuming /\ HasGap
      /\ proposals' = Append(proposals,
           [source |-> "Ambient", from |-> base.files, to |-> [at |-> base.at, files |-> gap],
            paths |-> {Operation.path}, review |-> Operation.review \/ ReviewRequired, op |-> 0])
      /\ base' = [base EXCEPT !.files = gap, !.checkpoint = 0]
      /\ UNCHANGED <<outside, journal, order, baseline, pc, listening, notes, window, ghosts>>

RecordOperation ==
  LET e == Operation
  IN  /\ Consuming /\ ~HasGap /\ e.id \notin Recorded
      /\ proposals' = Append(proposals,
           [source |-> "ManagedProcess", from |-> [base.files EXCEPT ![e.path] = e.before],
            to |-> [at |-> base.at, files |-> [base.files EXCEPT ![e.path] = e.after]],
            paths |-> {e.path}, review |-> e.review, op |-> e.id])
      /\ UNCHANGED <<outside, journal, order, baseline, pc, listening, base, notes, window, ghosts>>

\* The baseline moves past the operation, and the evidence goes.
AdoptOperation ==
  LET e == Operation
  IN  /\ Consuming /\ ~HasGap /\ e.id \in Recorded
      /\ base' = [base EXCEPT !.files[e.path] = e.after, !.checkpoint = e.id]
      /\ baseline' = base'
      /\ pc' = "remove"
      /\ UNCHANGED <<outside, journal, order, proposals, listening, notes, window, ghosts>>

RemoveEvidence ==
  /\ pc = "remove"
  /\ journal' = {e \in journal : e.id # Operation.id}
  /\ window' = [window EXCEPT !.pending = @ \ {Operation}]
  /\ pc' = "evidence"
  /\ UNCHANGED <<outside, order, store, listening, base, notes, ghosts>>

\* Interactive paths that were evidenced are nobody's; scan_started is noted.
EndEvidence ==
  /\ pc = "evidence" /\ window.pending = {}
  /\ order' = "free" /\ pc' = "scan"
  /\ notes' = [notes EXCEPT !.interactive = @ \ window.evidenced, !.fresh = @ \ window.evidenced]
  /\ window' = [window EXCEPT !.through = run = "finished"]
  /\ UNCHANGED <<outside, journal, store, listening, base, ghosts>>

-----------------------------------------------------------------------------
(* The window                                                              *)

\* Fault: the end of a run is no reason to read everything.
NeverFinishing == FALSE

\* A run that ended is to be consumed.
Finishing == run = "finished"

\* snapshot_workspace or snapshot_dirty.
Read ==
  IF notes.rescan \/ Finishing THEN disk
  ELSE [p \in Paths |-> IF p \in notes.dirty \cup notes.interactive THEN disk[p] ELSE base.files[p]]

\* Fault: a path a review announced folds, whatever it holds.
Announced(p) == p \in DOMAIN notes.expected

\* A change that lands on the content a review announced folds.
Restored(p) == p \in DOMAIN notes.expected /\ notes.expected[p] = Read[p]

\* classify_window, on what was read.
Since == IF notes.burst = Nothing THEN base.files ELSE notes.burst
Coalescing == notes.fresh \cap notes.interactive
Settled == {p \in Changed(Since, Read) : p \in notes.interactive \ Coalescing /\ ~Restored(p)}
AgentPaths == {p \in Changed(base.files, Read) : p \notin notes.interactive /\ ~Restored(p)}

Planned(s, from, paths) ==
  IF paths = {} THEN <<>> ELSE <<[source |-> s, from |-> from, paths |-> paths]>>

Scan ==
  LET quiet == Read = base.files /\ Read = Since
  IN  /\ pc = "scan"
      /\ window' = [window EXCEPT
           !.result = Read,
           !.plan = IF quiet THEN <<>>
                    ELSE Planned("Interactive", Since, Settled) \o Planned("Ambient", base.files, AgentPaths)]
      /\ notes' = IF quiet THEN Fresh
                  ELSE [Fresh EXCEPT !.interactive = Coalescing,
                                     !.burst = IF Coalescing = {} THEN Nothing ELSE notes.burst]
      /\ pc' = IF quiet THEN "close" ELSE "record"
      /\ overtaken' = overtaken \cup {e.path : e \in journal}
      /\ UNCHANGED <<outside, journal, order, store, listening, base, forgotten>>

\* create_proposal, for each of the plan.
Record ==
  LET next == Head(window.plan)
  IN  /\ pc = "record" /\ window.plan # <<>>
      /\ proposals' = Append(proposals,
           [source |-> next.source, from |-> next.from, to |-> [at |-> base.at + 1, files |-> window.result],
            paths |-> next.paths, review |-> next.source = "Ambient" /\ ReviewRequired, op |-> 0])
      /\ window' = [window EXCEPT !.plan = Tail(@)]
      /\ UNCHANGED <<outside, journal, order, baseline, pc, listening, base, notes, ghosts>>

\* Fault: the baseline is moved in memory only.
AdoptInMemory ==
  /\ pc = "record" /\ window.plan = <<>>
  /\ base' = [at |-> base.at + 1, files |-> window.result, checkpoint |-> 0] /\ pc' = "close"
  /\ UNCHANGED <<outside, journal, order, store, listening, notes, window, ghosts>>

Adopt ==
  /\ pc = "record" /\ window.plan = <<>>
  /\ baseline' = [at |-> base.at + 1, files |-> window.result, checkpoint |-> 0]
  /\ base' = baseline' /\ pc' = "close"
  /\ UNCHANGED <<outside, journal, order, proposals, listening, notes, window, ghosts>>

\* consume_finished: runs that ended before the scan; the engine listens.
Close ==
  /\ pc = "close"
  /\ run' = IF window.through THEN "consumed" ELSE run
  /\ pc' = "wait" /\ listening' = TRUE /\ window' = Unread
  /\ UNCHANGED <<disk, journal, order, store, base, notes, channels, ghosts, spent>>

\* Changes that only the engine's memory knows to be unrecorded: those it holds,
\* and the second proposal of a window whose first is recorded.
AtRisk ==
  notes.interactive \cup
  UNION {window.plan[i].paths : i \in {k \in DOMAIN window.plan :
           \/ window.plan[k].source = "Interactive"
           \/ Unadvanced # {}}}

\* The engine fails, or the device stops and with it a write in progress.  Held
\* changes, and the rest of a plan that was begun, are forgotten.
Stop(device) ==
  /\ Spend
  /\ order' = IF device \/ order = "engine" THEN "free" ELSE order
  /\ pc' = "recover" /\ listening' = FALSE
  /\ notes' = [Fresh EXCEPT !.rescan = TRUE] /\ window' = Unread
  /\ IF device THEN coming' = {} /\ told' = {} /\ announced' = {}
     ELSE UNCHANGED <<coming, told, announced>>
  /\ slipped' = {} /\ base' = baseline
  /\ forgotten' = forgotten \cup AtRisk
  /\ UNCHANGED <<disk, run, journal, store, overtaken>>

Next ==
  \/ \E p \in Paths :
       \/ \E b \in BOOLEAN : Write(p, b) \/ ClientWrite(p, b)
       \/ SurfaceWrite(p) \/ Restore(p)
       \/ HearWatcher(p) \/ HearSurface(p) \/ PassBy(p)
  \/ \E a \in announced : HearReview(a)
  \/ ClientDone \/ OpenRun \/ FinishRun \/ Lag
  \/ Recover \/ Idle \/ TakeEvidence \/ RecordGap \/ RecordOperation \/ AdoptOperation
  \/ RemoveEvidence \/ EndEvidence \/ Scan \/ Record \/ Adopt \/ Close
  \/ \E b \in BOOLEAN : Stop(b)

\* The engine's loop runs; a message that has come is received before the idle
\* timer, which starts again after every message, fires.
Fairness ==
  /\ WF_vars(ClientDone) /\ SF_vars(\E p \in Paths : HearWatcher(p)) /\ SF_vars(\E p \in Paths : HearSurface(p))
  /\ WF_vars(Recover \/ Idle \/ TakeEvidence \/ RecordGap \/ RecordOperation \/ AdoptOperation
             \/ RemoveEvidence \/ EndEvidence \/ Scan \/ Record \/ Adopt \/ Close)

Spec == Init /\ [][Next]_vars
FairSpec == Spec /\ Fairness

-----------------------------------------------------------------------------
(* Properties                                                              *)

\* The types, and the order of the snapshots: what is read or recorded is
\* never older than the stored baseline.
TypeOK ==
  /\ disk \in Files /\ run \in {"none", "open", "finished", "consumed"}
  /\ journal \subseteq WriteEvidence
  /\ order \in {"free", "client", "engine"} /\ (pc \in {"evidence", "remove"} <=> order = "engine")
  /\ baseline \in Baseline /\ base \in Baseline /\ baseline.at <= base.at
  /\ \A i \in DOMAIN proposals : proposals[i] \in Proposal /\ proposals[i].to.at <= base.at + 1
  /\ notes.fresh \subseteq notes.interactive /\ (notes.interactive = {} \/ notes.burst \in Files)
  /\ (pc = "wait" => listening /\ base.files = baseline.files)

\* The contents of p a reader of the history comes to from the first.
ComesTo(p, c) ==
  \A C \in SUBSET Contents :
    0 \in C /\ (\A i \in DOMAIN proposals :
                p \in proposals[i].paths /\ proposals[i].from[p] \in C => proposals[i].to.files[p] \in C)
      => c \in C

\* No change is lost (engine.rs: "noisy but never lossy"): whatever a restart
\* would take for accounted is recorded, change by change, over failures at any
\* step, operations that overtake the scan, and reviews.  Held changes are not
\* yet recorded; and three ways to forget one are known: a stop while changes
\* are held, or between two proposals of one window, and an operation on a file
\* with held changes.
NeverLossy == \A p \in Paths \ (forgotten \cup AtRisk) : ComesTo(p, Recovered.files[p])

\* What the run wrote on its own waits for a review (runs.rs consume_finished,
\* engine.rs run): the first ambient proposal with it is never accepted as it
\* is, however late its events come and whenever the run ends.  Not so when an
\* operation overtakes a window: the next one takes what was there before for a
\* change by others, at a time when the run is consumed.
ReviewGated ==
  \A i \in DOMAIN proposals : \A p \in proposals[i].paths :
    LET c == proposals[i].to.files[p]
        first == \A k \in 1 .. i - 1 : p \notin proposals[k].paths \/ proposals[k].to.files[p] # c
    IN  c \in spent.ofRun /\ proposals[i].source = "Ambient" /\ first /\ p \notin forgotten \cup overtaken
          => proposals[i].review

\* When writes end, the baseline comes to agree with the disk, and the evidence
\* is consumed (engine.rs run), also after a channel that lagged; a path that
\* is written between the first scan and the subscription is left out.
AllRecorded ==
  <>[](/\ \A p \in Paths \ (slipped \cup overtaken) : baseline.files[p] = disk[p]
       /\ \A e \in journal : ~e.completed)
=============================================================================
