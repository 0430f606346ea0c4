------------------------ MODULE ProposalEngineProofs ------------------------
(***************************************************************************)
(* Proofs about ProposalEngine for any files and budgets: what a restart   *)
(* takes for accounted is recorded change by change, and what a run wrote  *)
(* waits for its review.                                                   *)
(***************************************************************************)
EXTENDS ProposalEngine, SequenceTheorems, NaturalsInduction, WellFoundedInduction, TLAPS

-----------------------------------------------------------------------------
(* Types                                                                   *)

Plan == [source : {"Interactive", "Ambient"}, from : Files, paths : SUBSET Paths]

Evidence == SUBSET WriteEvidence

Notes == [dirty : SUBSET Paths, rescan : BOOLEAN, interactive : SUBSET Paths, fresh : SUBSET Paths,
          burst : Files \cup {Nothing}, expected : UNION {[S -> Contents] : S \in SUBSET Paths}]

Window == [result : Files \cup {Nothing}, plan : Seq(Plan), through : BOOLEAN,
           pending : Evidence, evidenced : SUBSET Paths]

Spent == [made : Contents, ops : Nat, surface : Nat, events : Nat, ofRun : SUBSET Contents]

StoreOK ==
  /\ disk \in Files /\ baseline \in Baseline /\ base \in Baseline
  /\ proposals \in Seq(Proposal)
  /\ journal \in Evidence

LoopOK ==
  /\ run \in {"none", "open", "finished", "consumed"}
  /\ order \in {"free", "client", "engine"} /\ listening \in BOOLEAN
  /\ pc \in {"recover", "wait", "consume", "evidence", "remove", "scan", "record", "close"}
  /\ notes \in Notes /\ window \in Window

RestOK ==
  /\ spent \in Spent
  /\ announced \in SUBSET [path : Paths, content : Contents]
  /\ coming \in SUBSET Paths /\ told \in SUBSET Paths /\ slipped \in SUBSET Paths
  /\ forgotten \in SUBSET Paths /\ overtaken \in SUBSET Paths

Types == StoreOK /\ LoopOK /\ RestOK

\* The places of the loop, and what each may find.
Phases ==
  /\ pc \in {"evidence", "remove"} <=> order = "engine"
  /\ pc = "wait" => listening /\ window = Unread
  /\ pc # "record" => window.plan = <<>>
  /\ pc = "record" => window.result \in Files
  /\ window.pending \subseteq journal
  /\ pc \notin {"evidence", "remove"} => window.pending = {}
  /\ pc = "remove" => window.pending # {}
  /\ window.through => run = "finished" /\ pc \in {"scan", "record", "close"}

\* The baseline in memory is the stored one, but for a gap that was recorded.
InStep ==
  /\ base.at = baseline.at
  /\ base.files = baseline.files \/ (Consuming /\ ~HasGap)

\* Held changes have a burst to be compared with; those of paths with evidence
\* are given up.
Held ==
  /\ notes.fresh \subseteq notes.interactive
  /\ notes.interactive = {} \/ notes.burst \in Files
  /\ pc = "recover" => notes.interactive = {}
  /\ \A e \in window.pending : e.path \in window.evidenced
  /\ notes.interactive \cap window.evidenced \subseteq forgotten

LEMMA LeastMember ==
  ASSUME NEW S \in SUBSET Nat, S # {}
  PROVE  \E x \in S : \A y \in S : x <= y
<1> DEFINE less == {ss \in Nat \X Nat : ss[1] < ss[2]}
<1>1. IsWellFoundedOn(less, Nat)
  BY NatLessThanWellFounded DEF OpToRel
<1>2. PICK x \in S : \A y \in S : ~ (<<y, x>> \in less)
  BY <1>1, WFMin
<1>3. ASSUME NEW y \in S PROVE x <= y
  <2>1. y < x => <<y, x>> \in less
    OBVIOUS
  <2>2. QED
    BY <1>2, <2>1
<1>4. QED
  BY <1>3

\* The evidence consumed next is pending, and none is older.
LEMMA OperationPends ==
  ASSUME window \in Window, window.pending # {}
  PROVE  /\ Operation \in window.pending /\ Operation \in WriteEvidence
         /\ \A o \in window.pending : Operation.id <= o.id
<1> DEFINE Ids == {e.id : e \in window.pending}
<1>1. window.pending \subseteq WriteEvidence
  BY DEF Window, Evidence
<1>2. Ids \in SUBSET Nat /\ Ids # {}
  BY <1>1 DEF WriteEvidence
<1>3. PICK x \in Ids : \A y \in Ids : x <= y
  <2> HIDE DEF Ids
  <2> QED
    BY <1>2, LeastMember
<1>4. \E e \in window.pending : \A o \in window.pending : e.id <= o.id
  BY <1>3
<1>5. QED
  BY <1>1, <1>4 DEF Operation

\* A proposal more is one at the end.
LEMMA OneMore ==
  ASSUME NEW S, NEW s \in Seq(S), NEW x \in S
  PROVE  /\ Append(s, x) \in Seq(S)
         /\ DOMAIN s \subseteq DOMAIN Append(s, x)
         /\ \A i \in DOMAIN s : Append(s, x)[i] = s[i]
         /\ \A i \in DOMAIN Append(s, x) : i \in DOMAIN s \/ (Append(s, x)[i] = x /\ i = Len(s) + 1)
         /\ Len(s) + 1 \in DOMAIN Append(s, x) /\ Append(s, x)[Len(s) + 1] = x
         /\ DOMAIN s = 1 .. Len(s) /\ Len(s) \in Nat
OBVIOUS

LEMMA NothingYet ==
  /\ Unread \in Window /\ Fresh \in Notes /\ [Fresh EXCEPT !.rescan = TRUE] \in Notes
<1>1. <<>> \in Seq(Plan)
  OBVIOUS
<1>2. Nothing \in [{} -> Contents]
  BY DEF Nothing
<1>3. Unread \in Window
  BY <1>1 DEF Unread, Window, Evidence
<1>4. Nothing \in UNION {[S -> Contents] : S \in SUBSET Paths}
  BY <1>2
<1>5. QED
  BY <1>3, <1>4 DEF Fresh, Notes

\* What is recorded are proposals.
LEMMA ProposalsAre ==
  ASSUME Types
  PROVE  /\ \A i \in DOMAIN proposals : proposals[i] \in Proposal
         /\ \A i \in DOMAIN proposals : /\ proposals[i].from \in Files /\ proposals[i].to.files \in Files
                                        /\ proposals[i].to.at \in Nat /\ proposals[i].paths \subseteq Paths
                                        /\ proposals[i].op \in Nat
<1>1. proposals \in Seq(Proposal)
  BY DEF Types, StoreOK
<1>2. \A i \in DOMAIN proposals : proposals[i] \in Proposal
  BY <1>1
<1>3. \A x \in Proposal : /\ x.from \in Files /\ x.to.files \in Files /\ x.to.at \in Nat
                          /\ x.paths \subseteq Paths /\ x.op \in Nat
  BY DEF Proposal, Snapshot
<1>4. QED
  BY <1>2, <1>3

\* What a restart takes for accounted is the baseline or a recorded result.
LEMMA RecoveredIs ==
  ASSUME Types, \A i, k \in Unadvanced : proposals[i].to.at = proposals[k].to.at
  PROVE  /\ Recovered \in Baseline
         /\ Unadvanced = {} => Recovered = baseline
         /\ Unadvanced # {} => \E i \in Unadvanced :
              Recovered = [at |-> proposals[i].to.at, files |-> proposals[i].to.files, checkpoint |-> 0]
<1> DEFINE newest == CHOOSE i \in Unadvanced : \A k \in Unadvanced : proposals[k].to.at <= proposals[i].to.at
<1>1. CASE Unadvanced = {}
  BY <1>1 DEF Recovered, Types, StoreOK
<1>2. CASE Unadvanced # {}
  <2>1. \A i \in Unadvanced : proposals[i] \in Proposal /\ proposals[i].to.at \in Nat
    BY ProposalsAre DEF Unadvanced
  <2>2. \E i \in Unadvanced : \A k \in Unadvanced : proposals[k].to.at <= proposals[i].to.at
    <3>1. PICK i \in Unadvanced : TRUE
      BY <1>2
    <3>2. ASSUME NEW k \in Unadvanced PROVE proposals[k].to.at <= proposals[i].to.at
      BY <2>1, <3>1
    <3>3. QED
      BY <3>1, <3>2
  <2>3. newest \in Unadvanced
    BY <2>2
  <2>4. Recovered = [at |-> proposals[newest].to.at, files |-> proposals[newest].to.files, checkpoint |-> 0]
    BY <1>2 DEF Recovered
  <2>5. Recovered \in Baseline
    <3> HIDE DEF newest
    <3> QED
      BY <2>1, <2>3, <2>4 DEF Proposal, Snapshot, Baseline
  <2>6. QED
    BY <1>2, <2>3, <2>4, <2>5
<1>3. QED
  BY <1>1, <1>2

\* Results recorded, but not yet moved into the baseline, are of one window.
Newer == {i \in DOMAIN proposals : proposals[i].to.at > baseline.at}

Ordered ==
  /\ \A i \in Newer : proposals[i].source # "ManagedProcess" /\ proposals[i].to.at = baseline.at + 1
  /\ pc \notin {"record", "recover"} => Newer = {}
  /\ pc = "record" => \A i \in Newer : proposals[i].to.files = window.result
  /\ \A i, k \in Newer : proposals[i].to.files = proposals[k].to.files

\* Evidence is known by its id, and so is the proposal an operation became.
Evidenced ==
  /\ \A e \in journal : e.id <= spent.ops
  /\ \A e, f \in journal : e.id = f.id => e = f
  /\ \A i \in DOMAIN proposals : proposals[i].op <= spent.ops
  /\ \A i \in DOMAIN proposals : \A e \in journal : proposals[i].op = e.id =>
       /\ proposals[i].paths = {e.path} /\ proposals[i].from[e.path] = e.before
       /\ proposals[i].to.files[e.path] = e.after

LEMMA NewerRecovers ==
  ASSUME Types, Ordered
  PROVE  /\ Recovered \in Baseline /\ Unadvanced = Newer
         /\ Newer = {} => Recovered = baseline
         /\ \A i \in Newer : Recovered = [at |-> baseline.at + 1, files |-> proposals[i].to.files, checkpoint |-> 0]
<1>1. Unadvanced = Newer
  BY DEF Unadvanced, Newer, Ordered
<1>2. \A i, k \in Unadvanced : proposals[i].to.at = proposals[k].to.at
  BY <1>1 DEF Ordered
<1>3. QED
  BY <1>1, <1>2, RecoveredIs DEF Ordered

\* What a window reads is the workspace; of its plan a part may be missing.
LEMMA ReadIs ==
  ASSUME Types
  PROVE  /\ Read \in Files
         /\ \A p \in Paths : Read[p] = disk[p] \/ Read[p] = base.files[p]
         /\ \A p \in notes.interactive : Read[p] = disk[p]
         /\ Finishing => Read = disk
<1>1. disk \in Files /\ base.files \in Files
  BY DEF Types, StoreOK, Baseline
<1>2. notes.interactive \subseteq Paths
  BY DEF Types, LoopOK, Notes
<1>3. QED
  BY <1>1, <1>2 DEF Read, Files

LEMMA PlannedIs ==
  ASSUME NEW f \in Files, NEW g \in Files, NEW P \in SUBSET Paths, NEW Q \in SUBSET Paths
  PROVE  LET plan == Planned("Interactive", f, P) \o Planned("Ambient", g, Q)
         IN  /\ plan \in Seq(Plan)
             /\ \A i \in DOMAIN plan : \/ plan[i] = [source |-> "Interactive", from |-> f, paths |-> P]
                                       \/ plan[i] = [source |-> "Ambient", from |-> g, paths |-> Q]
             /\ UNION {plan[i].paths : i \in DOMAIN plan} = P \cup Q
             /\ P # {} => \E i \in DOMAIN plan : plan[i] = [source |-> "Interactive", from |-> f, paths |-> P]
             /\ Q # {} => \E i \in DOMAIN plan : plan[i] = [source |-> "Ambient", from |-> g, paths |-> Q]
<1> DEFINE a == [source |-> "Interactive", from |-> f, paths |-> P]
           b == [source |-> "Ambient", from |-> g, paths |-> Q]
           s == Planned("Interactive", f, P)
           t == Planned("Ambient", g, Q)
<1>1. a \in Plan /\ b \in Plan
  BY DEF Plan
<1>2. /\ s \in Seq(Plan) /\ Len(s) \in {0, 1} /\ (Len(s) = 0 <=> P = {})
      /\ \A i \in 1 .. Len(s) : s[i] = a
  <2>1. CASE P = {}
    BY <2>1 DEF Planned
  <2>2. CASE P # {}
    BY <1>1, <2>2 DEF Planned
  <2>3. QED
    BY <2>1, <2>2
<1>3. /\ t \in Seq(Plan) /\ Len(t) \in {0, 1} /\ (Len(t) = 0 <=> Q = {})
      /\ \A i \in 1 .. Len(t) : t[i] = b
  <2>1. CASE Q = {}
    BY <2>1 DEF Planned
  <2>2. CASE Q # {}
    BY <1>1, <2>2 DEF Planned
  <2>3. QED
    BY <2>1, <2>2
<1>4. a.paths = P /\ b.paths = Q
  OBVIOUS
<1> HIDE DEF a, b, s, t
<1>5. /\ s \o t \in Seq(Plan) /\ Len(s \o t) = Len(s) + Len(t)
      /\ \A i \in 1 .. Len(s) + Len(t) : (s \o t)[i] = IF i <= Len(s) THEN s[i] ELSE t[i - Len(s)]
  BY <1>2, <1>3, ConcatProperties
<1>6. DOMAIN (s \o t) = 1 .. Len(s) + Len(t)
  BY <1>5
<1>7. \A i \in DOMAIN (s \o t) : (s \o t)[i] = a \/ (s \o t)[i] = b
  BY <1>2, <1>3, <1>5, <1>6
<1>8. P # {} => \E i \in DOMAIN (s \o t) : (s \o t)[i] = a
  BY <1>2, <1>3, <1>5, <1>6
<1>9. Q # {} => \E i \in DOMAIN (s \o t) : (s \o t)[i] = b
  <2>1. Q # {} => Len(s) + 1 \in DOMAIN (s \o t) /\ (s \o t)[Len(s) + 1] = t[1]
    BY <1>2, <1>3, <1>5, <1>6
  <2>2. QED
    BY <2>1, <1>3
<1> DEFINE all == UNION {(s \o t)[i].paths : i \in DOMAIN (s \o t)}
<1>10. all = P \cup Q
  <2>1. ASSUME NEW p \in all PROVE p \in P \cup Q
    BY <1>4, <1>7
  <2>2. ASSUME NEW p \in P PROVE p \in all
    BY <1>4, <1>8
  <2>3. ASSUME NEW p \in Q PROVE p \in all
    BY <1>4, <1>9
  <2>4. QED
    BY <2>1, <2>2, <2>3
<1>11. QED
  BY <1>5, <1>7, <1>8, <1>9, <1>10 DEF a, b, s, t

\* What a window's plan is for.
PlanSays(plan, f, P, g, Q) ==
  /\ \A i \in DOMAIN plan : \/ plan[i] = [source |-> "Interactive", from |-> f, paths |-> P]
                            \/ plan[i] = [source |-> "Ambient", from |-> g, paths |-> Q]
  /\ P # {} => \E i \in DOMAIN plan : plan[i] = [source |-> "Interactive", from |-> f, paths |-> P]
  /\ Q # {} => \E i \in DOMAIN plan : plan[i] = [source |-> "Ambient", from |-> g, paths |-> Q]

\* Each entry of a plan is one of two, and each stands there if it has a path.
LEMMA PlannedSays ==
  ASSUME NEW f \in Files, NEW g \in Files, NEW P \in SUBSET Paths, NEW Q \in SUBSET Paths
  PROVE  PlanSays(Planned("Interactive", f, P) \o Planned("Ambient", g, Q), f, P, g, Q)
<1> DEFINE plan == Planned("Interactive", f, P) \o Planned("Ambient", g, Q)
<1>1. /\ \A i \in DOMAIN plan : \/ plan[i] = [source |-> "Interactive", from |-> f, paths |-> P]
                                \/ plan[i] = [source |-> "Ambient", from |-> g, paths |-> Q]
      /\ P # {} => \E i \in DOMAIN plan : plan[i] = [source |-> "Interactive", from |-> f, paths |-> P]
      /\ Q # {} => \E i \in DOMAIN plan : plan[i] = [source |-> "Ambient", from |-> g, paths |-> Q]
  BY PlannedIs
<1> HIDE DEF plan
<1>2. PlanSays(plan, f, P, g, Q)
  BY <1>1 DEF PlanSays
<1>3. QED
  BY <1>2 DEF plan

-----------------------------------------------------------------------------
(* The steps                                                               *)

WriterStep ==
  \/ \E p \in Paths : SurfaceWrite(p) \/ Restore(p) \/ \E b \in BOOLEAN : Write(p, b) \/ ClientWrite(p, b)
  \/ ClientDone \/ OpenRun \/ FinishRun

ListenStep ==
  \/ \E p \in Paths : HearWatcher(p) \/ HearSurface(p) \/ PassBy(p)
  \/ \E a \in announced : HearReview(a)
  \/ Lag

EvidenceStep == TakeEvidence \/ RecordGap \/ RecordOperation \/ AdoptOperation \/ RemoveEvidence \/ EndEvidence

WindowStep == Scan \/ Record \/ Adopt \/ Close

LEMMA StepIs ==
  ASSUME [Next]_vars
  PROVE  \/ WriterStep \/ ListenStep \/ EvidenceStep \/ WindowStep
         \/ Recover \/ Idle \/ (\E b \in BOOLEAN : Stop(b)) \/ UNCHANGED vars
BY DEF Next, WriterStep, ListenStep, EvidenceStep, WindowStep

\* Writers leave the engine alone, and what the engine hears is no write.
LEMMA WritersLeave ==
  ASSUME WriterStep
  PROVE  UNCHANGED <<store, engine, ghosts, told, slipped>> \/ UNCHANGED <<store, engine, ghosts, announced, slipped>>
BY DEF WriterStep, SurfaceWrite, Restore, Write, ClientWrite, ClientDone, OpenRun, FinishRun, channels

LEMMA ListenersLeave ==
  ASSUME ListenStep
  PROVE  UNCHANGED <<disk, run, journal, order, store, pc, listening, base, window, ghosts>>
BY DEF ListenStep, HearWatcher, HearSurface, PassBy, HearReview, Lag, engine

LEMMA EngineLeaves ==
  ASSUME EvidenceStep \/ WindowStep \/ Recover \/ Idle
  PROVE  /\ UNCHANGED <<disk, channels>> /\ UNCHANGED spent
         /\ ~Close => UNCHANGED run
         /\ ~EvidenceStep => UNCHANGED <<journal, order>> /\ UNCHANGED forgotten
BY DEF EvidenceStep, WindowStep, TakeEvidence, RecordGap, RecordOperation, AdoptOperation, RemoveEvidence,
  EndEvidence, Scan, Record, Adopt, Close, Recover, Idle, outside, channels, ghosts

-----------------------------------------------------------------------------
(* Types are kept                                                          *)

LEMMA SpentMore ==
  ASSUME ProposalEngineAssumption, spent \in Spent
  PROVE  /\ spent.events + 1 \in Nat /\ [spent EXCEPT !.events = @ + 1] \in Spent
         /\ spent.made < MaxWrites =>
              /\ NewContent \in Contents
              /\ [spent EXCEPT !.made = @ + 1, !.surface = @ + 1] \in Spent
              /\ [spent EXCEPT !.made = @ + 1, !.ops = @ + 1] \in Spent
              /\ \A X \in SUBSET Contents : [spent EXCEPT !.made = @ + 1, !.ofRun = X] \in Spent
<1>1. /\ spent.made \in Contents /\ spent.ops \in Nat /\ spent.surface \in Nat /\ spent.events \in Nat
      /\ spent.ofRun \subseteq Contents
  BY DEF Spent
<1>2. spent.made < MaxWrites => spent.made + 1 \in Contents
  BY <1>1 DEF ProposalEngineAssumption, Contents
<1>3. spent.ops + 1 \in Nat /\ spent.surface + 1 \in Nat /\ spent.events + 1 \in Nat
  BY <1>1
<1>4. QED
  BY <1>2, <1>3 DEF Spent, NewContent

\* What writers make are files, and evidence of them.
LEMMA WritersStore ==
  ASSUME ProposalEngineAssumption, Types, WriterStep
  PROVE  StoreOK' /\ LoopOK' /\ RestOK'
<1> USE DEF Types, StoreOK, LoopOK, RestOK, store, engine, channels, ghosts, Contents
<1>0. \A p \in Paths : spent.made < MaxWrites /\ Written(p) => disk' \in Files
  BY SpentMore DEF Written, Files
<1>1. ASSUME NEW p \in Paths, NEW b \in BOOLEAN, Write(p, b) PROVE StoreOK' /\ LoopOK' /\ RestOK'
  <2>1. disk' \in Files /\ coming' \in SUBSET Paths
    BY <1>0, <1>1 DEF Write
  <2>2. spent' \in Spent
    <3> DEFINE X == IF b THEN spent.ofRun \cup {NewContent} ELSE spent.ofRun
    <3>1. spent.ofRun \subseteq Contents
      BY DEF Spent
    <3>2. spent' = [spent EXCEPT !.made = @ + 1, !.ofRun = X]
      BY <1>1 DEF Write
    <3>3. X \in SUBSET Contents
      BY <1>1, <3>1, SpentMore DEF Write
    <3> HIDE DEF X
    <3>4. QED
      BY <1>1, <3>2, <3>3, SpentMore DEF Write
  <2>3. QED
    BY <1>1, <2>1, <2>2 DEF Write
<1>2. ASSUME NEW p \in Paths, NEW b \in BOOLEAN, ClientWrite(p, b) PROVE StoreOK' /\ LoopOK' /\ RestOK'
  <2>1. disk' \in Files /\ coming' \in SUBSET Paths
    BY <1>0, <1>2 DEF ClientWrite
  <2>2. spent' \in Spent
    BY <1>2, SpentMore DEF ClientWrite
  <2>3. disk[p] \in Contents /\ spent.ops + 1 \in Nat \ {0}
    BY DEF Files, Spent
  <2>4. journal' \in Evidence
    <3> DEFINE e == [id |-> spent.ops + 1, path |-> p, before |-> disk[p], after |-> NewContent,
                     review |-> b, completed |-> FALSE]
    <3>1. NewContent \in Contents
      BY <1>2, SpentMore DEF ClientWrite
    <3>2. e \in WriteEvidence
      <4> HIDE DEF Contents
      <4> QED
        BY <2>3, <3>1 DEF WriteEvidence
    <3>3. journal' = journal \cup {e}
      BY <1>2 DEF ClientWrite
    <3> HIDE DEF e
    <3>4. QED
      BY <3>2, <3>3 DEF Evidence
  <2>5. QED
    BY <1>2, <2>1, <2>2, <2>4 DEF ClientWrite
<1>3. ASSUME NEW p \in Paths, SurfaceWrite(p) PROVE StoreOK' /\ LoopOK' /\ RestOK'
  <2>1. disk' \in Files /\ told' \in SUBSET Paths
    BY <1>0, <1>3 DEF SurfaceWrite
  <2>2. spent' \in Spent
    BY <1>3, SpentMore DEF SurfaceWrite
  <2>3. QED
    BY <1>3, <2>1, <2>2 DEF SurfaceWrite
<1>4. ASSUME NEW p \in Paths, Restore(p) PROVE StoreOK' /\ LoopOK' /\ RestOK'
  <2>1. PICK i \in DOMAIN proposals :
          /\ disk' = [disk EXCEPT ![p] = proposals[i].from[p]]
          /\ announced' = announced \cup {[path |-> p, content |-> proposals[i].from[p]]}
    BY <1>4 DEF Restore
  <2>2. proposals[i].from[p] \in Contents
    BY ProposalsAre DEF Files
  <2>3. disk' \in Files /\ announced' \in SUBSET [path : Paths, content : Contents]
    BY <2>1, <2>2 DEF Files
  <2>4. spent' \in Spent /\ coming' \in SUBSET Paths
    BY <1>4, SpentMore DEF Restore, Spend
  <2>5. QED
    BY <1>4, <2>3, <2>4 DEF Restore
<1>5. CASE ClientDone
  <2>1. journal' \in Evidence
    BY <1>5 DEF ClientDone, Evidence, WriteEvidence
  <2>2. QED
    BY <1>5, <2>1 DEF ClientDone
<1>6. CASE OpenRun
  BY <1>6 DEF OpenRun
<1>7. CASE FinishRun
  BY <1>7 DEF FinishRun
<1>8. QED
  BY <1>1, <1>2, <1>3, <1>4, <1>5, <1>6, <1>7 DEF WriterStep

LEMMA ListenersStore ==
  ASSUME ProposalEngineAssumption, Types, Phases, ListenStep
  PROVE  StoreOK' /\ LoopOK' /\ RestOK'
<1> USE DEF Types, StoreOK, LoopOK, RestOK, store, engine, channels, ghosts, Contents
<1>1. ASSUME NEW p \in Paths, HearWatcher(p) PROVE StoreOK' /\ LoopOK' /\ RestOK'
  BY <1>1 DEF HearWatcher, Notes
<1>2. ASSUME NEW p \in Paths, HearSurface(p) PROVE StoreOK' /\ LoopOK' /\ RestOK'
  BY <1>2 DEF HearSurface, Notes, Baseline
<1>3. ASSUME NEW p \in Paths, PassBy(p) PROVE StoreOK' /\ LoopOK' /\ RestOK'
  BY <1>3 DEF PassBy, Missed
<1>4. ASSUME NEW a \in announced, HearReview(a) PROVE StoreOK' /\ LoopOK' /\ RestOK'
  <2>1. a.path \in Paths /\ a.content \in Contents
    OBVIOUS
  <2>2. PICK S \in SUBSET Paths : notes.expected \in [S -> Contents]
    BY DEF Notes
  <2> DEFINE new == [p \in DOMAIN notes.expected \cup {a.path} |-> IF p = a.path THEN a.content ELSE notes.expected[p]]
  <2>3. new \in [S \cup {a.path} -> Contents]
    BY <2>1, <2>2
  <2>4. notes' = [notes EXCEPT !.expected = new]
    BY <1>4 DEF HearReview
  <2> HIDE DEF new
  <2>5. new \in UNION {[T -> Contents] : T \in SUBSET Paths}
    <3>1. S \cup {a.path} \in SUBSET Paths
      BY <2>1
    <3>2. QED
      BY <2>3, <3>1
  <2>6. notes' \in Notes
    BY <2>4, <2>5 DEF Notes
  <2>7. announced' \in SUBSET [path : Paths, content : Contents]
    BY <1>4 DEF HearReview
  <2>8. QED
    BY <1>4, <2>6, <2>7 DEF HearReview
<1>5. CASE Lag
  <2>1. notes' \in Notes
    BY <1>5 DEF Lag, Lagged, Notes
  <2>2. spent' \in Spent
    BY <1>5, SpentMore DEF Lag, Spend
  <2>3. /\ coming' \in SUBSET Paths /\ told' \in SUBSET Paths
        /\ announced' \in SUBSET [path : Paths, content : Contents]
    BY <1>5 DEF Lag
  <2>4. QED
    BY <1>5, <2>1, <2>2, <2>3 DEF Lag
<1>6. QED
  BY <1>1, <1>2, <1>3, <1>4, <1>5 DEF ListenStep

\* What each step records.
GapRecord ==
  [source |-> "Ambient", from |-> base.files,
   to |-> [at |-> base.at, files |-> [base.files EXCEPT ![Operation.path] = Operation.before]],
   paths |-> {Operation.path}, review |-> Operation.review \/ ReviewRequired, op |-> 0]

OperationRecord ==
  [source |-> "ManagedProcess", from |-> [base.files EXCEPT ![Operation.path] = Operation.before],
   to |-> [at |-> base.at, files |-> [base.files EXCEPT ![Operation.path] = Operation.after]],
   paths |-> {Operation.path}, review |-> Operation.review, op |-> Operation.id]

WindowRecord(x) ==
  [source |-> x.source, from |-> x.from, to |-> [at |-> base.at + 1, files |-> window.result],
   paths |-> x.paths, review |-> x.source = "Ambient" /\ ReviewRequired, op |-> 0]

LEMMA GapRecorded ==
  ASSUME Types, RecordGap
  PROVE  /\ GapRecord \in Proposal /\ proposals' = Append(proposals, GapRecord)
         /\ Operation \in window.pending /\ Operation \in WriteEvidence /\ base'.files = GapRecord.to.files
         /\ GapRecord.to.files[Operation.path] = Operation.before /\ base' \in Baseline /\ base'.at = base.at
         /\ \A p \in Paths : p # Operation.path => base'.files[p] = base.files[p]
<1>1. Operation \in window.pending /\ Operation \in WriteEvidence
  BY OperationPends DEF RecordGap, Consuming, Types, LoopOK
<1>2. base \in Baseline /\ base.files \in Files
  BY DEF Types, StoreOK, Baseline
<1>3. PICK gap \in Files : gap = [base.files EXCEPT ![Operation.path] = Operation.before]
  BY <1>1, <1>2 DEF Files, WriteEvidence
<1>4. PICK x \in BOOLEAN : x = (Operation.review \/ ReviewRequired)
  OBVIOUS
<1>5. GapRecord = [source |-> "Ambient", from |-> base.files, to |-> [at |-> base.at, files |-> gap],
                   paths |-> {Operation.path}, review |-> x, op |-> 0]
  BY <1>3, <1>4 DEF GapRecord
<1>6. GapRecord \in Proposal
  BY <1>1, <1>2, <1>3, <1>5 DEF Proposal, Snapshot, Baseline, WriteEvidence
<1>7. proposals' = Append(proposals, GapRecord)
  BY DEF RecordGap, GapRecord
<1>8. base' \in Baseline /\ base'.files = gap /\ base'.at = base.at
  BY <1>2, <1>3 DEF RecordGap, Baseline
<1>9. gap[Operation.path] = Operation.before /\ \A p \in Paths : p # Operation.path => gap[p] = base.files[p]
  BY <1>1, <1>2, <1>3 DEF Files, WriteEvidence
<1>10. QED
  BY <1>1, <1>5, <1>6, <1>7, <1>8, <1>9

LEMMA OperationRecorded ==
  ASSUME Types, RecordOperation
  PROVE  /\ OperationRecord \in Proposal /\ proposals' = Append(proposals, OperationRecord)
         /\ Operation \in window.pending /\ Operation \in WriteEvidence
         /\ OperationRecord.to.files[Operation.path] = Operation.after
         /\ OperationRecord.from[Operation.path] = Operation.before
         /\ base.files[Operation.path] = Operation.before
<1>1. Operation \in window.pending /\ Operation \in WriteEvidence
  BY OperationPends DEF RecordOperation, Consuming, Types, LoopOK
<1>2. base \in Baseline /\ base.files \in Files
  BY DEF Types, StoreOK, Baseline
<1>3. /\ [base.files EXCEPT ![Operation.path] = Operation.before] \in Files
      /\ [base.files EXCEPT ![Operation.path] = Operation.after] \in Files
  BY <1>1, <1>2 DEF Files, WriteEvidence
<1>4. OperationRecord \in Proposal
  BY <1>1, <1>2, <1>3 DEF OperationRecord, Proposal, Snapshot, Baseline, WriteEvidence
<1>5. proposals' = Append(proposals, OperationRecord)
  BY DEF RecordOperation, OperationRecord
<1>6. /\ OperationRecord.to.files[Operation.path] = Operation.after
      /\ OperationRecord.from[Operation.path] = Operation.before
  BY <1>1, <1>2 DEF OperationRecord, Files, WriteEvidence
<1>7. QED
  BY <1>1, <1>4, <1>5, <1>6 DEF RecordOperation, HasGap

LEMMA WindowRecorded ==
  ASSUME Types, Phases, Record
  PROVE  LET x == Head(window.plan)
         IN  /\ WindowRecord(x) \in Proposal /\ proposals' = Append(proposals, WindowRecord(x))
             /\ 1 \in DOMAIN window.plan /\ x = window.plan[1] /\ window'.result = window.result /\ window.result \in Files
             /\ \A i \in DOMAIN window'.plan : i + 1 \in DOMAIN window.plan /\ window'.plan[i] = window.plan[i + 1]
             /\ \A i \in DOMAIN window.plan : i = 1 \/ (i - 1 \in DOMAIN window'.plan /\ window'.plan[i - 1] = window.plan[i])
             /\ UNCHANGED <<window.through, window.pending, window.evidenced>>
             /\ window' \in Window
<1> DEFINE x == Head(window.plan)
<1>1. window.plan \in Seq(Plan) /\ window.plan # <<>> /\ window.result \in Files /\ window \in Window
  BY DEF Record, Window, Phases, Types, LoopOK
<1>2. x \in Plan /\ Tail(window.plan) \in Seq(Plan) /\ Len(Tail(window.plan)) = Len(window.plan) - 1
      /\ \A i \in 1 .. Len(Tail(window.plan)) : Tail(window.plan)[i] = window.plan[i + 1]
  BY <1>1, HeadTailProperties
<1>3. Len(window.plan) \in Nat /\ DOMAIN window.plan = 1 .. Len(window.plan) /\ Len(window.plan) # 0
      /\ DOMAIN Tail(window.plan) = 1 .. Len(window.plan) - 1
  BY <1>1, <1>2
<1>4. PICK r \in BOOLEAN : r = (x.source = "Ambient" /\ ReviewRequired)
  OBVIOUS
<1>5. base.at + 1 \in Nat
  BY DEF Types, StoreOK, Baseline
<1> DEFINE new == [source |-> x.source, from |-> x.from, to |-> [at |-> base.at + 1, files |-> window.result],
                   paths |-> x.paths, review |-> r, op |-> 0]
<1>6. new \in Proposal /\ new = WindowRecord(x)
  BY <1>1, <1>2, <1>4, <1>5 DEF Proposal, Snapshot, Plan, WindowRecord
<1>7. proposals' = Append(proposals, WindowRecord(x))
  BY DEF Record, WindowRecord
<1>8. window' = [window EXCEPT !.plan = Tail(@)]
  BY DEF Record
<1>9. window'.plan = Tail(window.plan) /\ window' \in Window
      /\ UNCHANGED <<window.result, window.through, window.pending, window.evidenced>>
  BY <1>1, <1>2, <1>8 DEF Window
<1>10. x = window.plan[1]
  BY <1>1
<1> HIDE DEF x, new
<1>11. \A i \in DOMAIN window'.plan : i + 1 \in DOMAIN window.plan /\ window'.plan[i] = window.plan[i + 1]
  BY <1>2, <1>3, <1>9
<1>12. ASSUME NEW i \in DOMAIN window.plan, i # 1
       PROVE  i - 1 \in DOMAIN window'.plan /\ window'.plan[i - 1] = window.plan[i]
  <2>1. i \in Nat /\ i - 1 \in 1 .. Len(window.plan) - 1 /\ (i - 1) + 1 = i
    BY <1>3, <1>12
  <2>2. Tail(window.plan)[i - 1] = window.plan[(i - 1) + 1]
    BY <1>2, <2>1
  <2>3. QED
    BY <1>3, <1>9, <2>1, <2>2
<1>13. QED
  BY <1>1, <1>3, <1>6, <1>7, <1>9, <1>10, <1>11, <1>12 DEF x

LEMMA EvidenceStore ==
  ASSUME Types, Phases, EvidenceStep
  PROVE  StoreOK' /\ LoopOK' /\ RestOK'
<1> USE DEF Types, StoreOK, LoopOK, RestOK, store, engine, channels, ghosts, outside
<1>1. CASE TakeEvidence
  <2>1. journal' \in Evidence /\ window'.evidenced \subseteq Paths /\ window' \in Window
    <3> DEFINE done == {e \in journal : e.completed}
               held == {e \in done : e.id <= base.checkpoint /\ \E o \in done : o.id = base.checkpoint}
    <3>1. done \subseteq journal /\ {e.path : e \in done} \subseteq Paths
      BY DEF Evidence, WriteEvidence
    <3>2. /\ journal' = journal \ held
          /\ window' = [window EXCEPT !.pending = done \ held, !.evidenced = {e.path : e \in done}]
      BY <1>1 DEF TakeEvidence
    <3> HIDE DEF done, held
    <3>3. QED
      BY <3>1, <3>2 DEF Window, Evidence
  <2>2. forgotten' \in SUBSET Paths
    BY <1>1, <2>1 DEF TakeEvidence
  <2>3. QED
    BY <1>1, <2>1, <2>2 DEF TakeEvidence
<1>2. CASE RecordGap
  <2>1. proposals' \in Seq(Proposal) /\ base' \in Baseline
    BY <1>2, GapRecorded
  <2>2. QED
    BY <1>2, <2>1 DEF RecordGap
<1>3. CASE RecordOperation
  <2>1. proposals' \in Seq(Proposal)
    BY <1>3, OperationRecorded
  <2>2. QED
    BY <1>3, <2>1 DEF RecordOperation
<1>4. CASE AdoptOperation
  <2>1. Operation \in WriteEvidence
    BY <1>4, OperationPends DEF AdoptOperation, Consuming
  <2>2. base' \in Baseline
    BY <1>4, <2>1 DEF AdoptOperation, Baseline, Files, WriteEvidence
  <2>3. QED
    BY <1>4, <2>2 DEF AdoptOperation
<1>5. CASE RemoveEvidence
  <2>1. journal' \in Evidence
    BY <1>5 DEF RemoveEvidence, Evidence
  <2>2. window' \in Window
    BY <1>5 DEF RemoveEvidence, Window, Evidence
  <2>3. QED
    BY <1>5, <2>1, <2>2 DEF RemoveEvidence
<1>6. CASE EndEvidence
  <2>1. window' \in Window
    BY <1>6 DEF EndEvidence, Window
  <2>2. notes' \in Notes
    BY <1>6 DEF EndEvidence, Notes
  <2>3. QED
    BY <1>6, <2>1, <2>2 DEF EndEvidence
<1>7. QED
  BY <1>1, <1>2, <1>3, <1>4, <1>5, <1>6 DEF EvidenceStep

\* A window plans what was settled from the burst on, and the rest from the baseline on.
LEMMA ScanPlans ==
  ASSUME Types, Held, Scan
  PROVE  /\ window'.result = Read /\ window' \in Window
         /\ \/ window'.plan = <<>> /\ Read = base.files /\ Read = Since
            \/ window'.plan = Planned("Interactive", Since, Settled) \o Planned("Ambient", base.files, AgentPaths)
         /\ Since \in Files /\ Settled \subseteq Paths /\ AgentPaths \subseteq Paths
<1>1. base.files \in Files
  BY DEF Types, StoreOK, Baseline
<1>2. Since \in Files
  BY <1>1 DEF Since, Types, LoopOK, Notes
<1>3. Settled \subseteq Paths /\ AgentPaths \subseteq Paths
  BY DEF Settled, AgentPaths, Changed
<1>4. window \in Window /\ Read \in Files
  BY ReadIs DEF Types, LoopOK
<1> DEFINE whole == Planned("Interactive", Since, Settled) \o Planned("Ambient", base.files, AgentPaths)
           quiet == Read = base.files /\ Read = Since
           plan == IF quiet THEN <<>> ELSE whole
<1>5. whole \in Seq(Plan)
  BY <1>1, <1>2, <1>3, PlannedIs
<1>6. window' = [window EXCEPT !.result = Read, !.plan = plan]
  BY DEF Scan
<1> HIDE DEF whole
<1>7. plan \in Seq(Plan) /\ ((plan = <<>> /\ quiet) \/ plan = whole)
  BY <1>5
<1> HIDE DEF plan, quiet
<1>8. window'.plan = plan /\ window'.result = Read /\ window' \in Window
  BY <1>4, <1>6, <1>7 DEF Window
<1>9. QED
  BY <1>2, <1>3, <1>7, <1>8 DEF quiet, whole

LEMMA WindowStore ==
  ASSUME Types, Phases, Held, WindowStep
  PROVE  StoreOK' /\ LoopOK' /\ RestOK'
<1> USE DEF Types, StoreOK, LoopOK, RestOK, store, engine, channels, ghosts, outside
<1>1. CASE Scan
  <2>1. window' \in Window
    BY <1>1, ScanPlans
  <2>2. notes' \in Notes
    <3>1. notes.burst \in Files \cup {Nothing} /\ Coalescing \subseteq Paths
      BY DEF Notes, Coalescing
    <3>2. Fresh \in Notes
      BY NothingYet
    <3>3. \A P \in SUBSET Paths, B \in Files \cup {Nothing} : [Fresh EXCEPT !.interactive = P, !.burst = B] \in Notes
      BY <3>2 DEF Notes
    <3>4. Nothing \in Files \cup {Nothing}
      OBVIOUS
    <3>5. QED
      BY <1>1, <3>1, <3>2, <3>3, <3>4 DEF Scan
  <2>3. overtaken' \in SUBSET Paths
    BY <1>1 DEF Scan, Evidence, WriteEvidence
  <2>4. pc' \in {"close", "record"}
    BY <1>1 DEF Scan
  <2>5. QED
    BY <1>1, <2>1, <2>2, <2>3, <2>4 DEF Scan
<1>2. CASE Record
  <2>1. proposals' \in Seq(Proposal) /\ window' \in Window
    BY <1>2, WindowRecorded
  <2>2. QED
    BY <1>2, <2>1 DEF Record
<1>3. CASE Adopt
  BY <1>3 DEF Adopt, Baseline, Phases
<1>4. CASE Close
  BY <1>4, NothingYet DEF Close
<1>5. QED
  BY <1>1, <1>2, <1>3, <1>4 DEF WindowStep

\* What is planned are parts of a window.
LEMMA PlansAre ==
  ASSUME Types
  PROVE  \A i \in DOMAIN window.plan :
           /\ window.plan[i] \in Plan /\ window.plan[i].paths \subseteq Paths
           /\ window.plan[i].source \in {"Interactive", "Ambient"} /\ window.plan[i].from \in Files
<1>1. window.plan \in Seq(Plan)
  BY DEF Types, LoopOK, Window
<1>2. \A i \in DOMAIN window.plan : window.plan[i] \in Plan
  BY <1>1
<1>3. \A x \in Plan : x.paths \subseteq Paths /\ x.source \in {"Interactive", "Ambient"} /\ x.from \in Files
  BY DEF Plan
<1>4. QED
  BY <1>2, <1>3

LEMMA RiskIsOfPaths ==
  ASSUME Types
  PROVE  AtRisk \subseteq Paths
<1>1. notes.interactive \subseteq Paths
  BY DEF Types, LoopOK, Notes
<1>2. QED
  BY <1>1, PlansAre DEF AtRisk

LEMMA StopStore ==
  ASSUME ProposalEngineAssumption, Types, NEW b \in BOOLEAN, Stop(b)
  PROVE  StoreOK' /\ LoopOK' /\ RestOK'
<1>1. notes' \in Notes /\ window' \in Window
  BY NothingYet DEF Stop
<1>2. forgotten' \in SUBSET Paths
  BY RiskIsOfPaths DEF Stop, Types, RestOK
<1>3. spent' \in Spent
  BY SpentMore DEF Stop, Spend, Types, RestOK
<1>4. /\ coming' \in SUBSET Paths /\ told' \in SUBSET Paths
      /\ announced' \in SUBSET [path : Paths, content : Contents]
  BY DEF Stop, Types, RestOK
<1>5. QED
  BY <1>1, <1>2, <1>3, <1>4 DEF Stop, Types, StoreOK, LoopOK, RestOK, store

LEMMA TypesStep ==
  ASSUME ProposalEngineAssumption, Types, Phases, Held, Ordered, [Next]_vars
  PROVE  Types'
<1>1. CASE Recover
  BY <1>1, NewerRecovers DEF Recover, Types, StoreOK, LoopOK, RestOK, outside, ghosts
<1>2. CASE Idle
  BY <1>2 DEF Idle, Types, StoreOK, LoopOK, RestOK, outside, store, ghosts
<1>3. CASE UNCHANGED vars
  BY <1>3 DEF vars, Types, StoreOK, LoopOK, RestOK, store, engine, channels, ghosts
<1>4. QED
  BY <1>1, <1>2, <1>3, StepIs, WritersStore, ListenersStore, EvidenceStore, WindowStore, StopStore DEF Types

-----------------------------------------------------------------------------
(* The places of the loop                                                  *)

LEMMA WritersPhases ==
  ASSUME ProposalEngineAssumption, Types, Phases, WriterStep
  PROVE  Phases'
<1> USE DEF Phases, store, engine, ghosts
<1>1. UNCHANGED <<pc, listening, window>>
  BY WritersLeave
<1>2. ASSUME NEW p \in Paths, NEW b \in BOOLEAN, Write(p, b) PROVE Phases'
  BY <1>1, <1>2 DEF Write
<1>3. ASSUME NEW p \in Paths, NEW b \in BOOLEAN, ClientWrite(p, b) PROVE Phases'
  BY <1>1, <1>3 DEF ClientWrite
<1>4. ASSUME NEW p \in Paths, SurfaceWrite(p) PROVE Phases'
  BY <1>1, <1>4 DEF SurfaceWrite
<1>5. ASSUME NEW p \in Paths, Restore(p) PROVE Phases'
  BY <1>1, <1>5 DEF Restore
<1>6. CASE ClientDone
  <2>1. window.pending = {} /\ pc \notin {"evidence", "remove"}
    BY <1>6 DEF ClientDone
  <2>2. UNCHANGED run /\ order' = "free"
    BY <1>6 DEF ClientDone
  <2>3. QED
    BY <1>1, <2>1, <2>2
<1>7. CASE OpenRun
  BY <1>1, <1>7 DEF OpenRun
<1>8. CASE FinishRun
  BY <1>1, <1>8 DEF FinishRun
<1>9. QED
  BY <1>2, <1>3, <1>4, <1>5, <1>6, <1>7, <1>8 DEF WriterStep

LEMMA PhasesStep ==
  ASSUME ProposalEngineAssumption, Types, Phases, Held, Ordered, Evidenced, [Next]_vars
  PROVE  Phases'
<1> USE DEF Phases, Types, LoopOK, outside, store, engine, ghosts, channels
<1>1. CASE TakeEvidence
  BY <1>1 DEF TakeEvidence, Window
<1>2. CASE RecordGap
  BY <1>2 DEF RecordGap, Consuming
<1>3. CASE RecordOperation
  BY <1>3 DEF RecordOperation, Consuming
<1>4. CASE AdoptOperation
  BY <1>4 DEF AdoptOperation, Consuming
<1>5. CASE RemoveEvidence
  <2>1. Operation \in window.pending /\ window'.pending = window.pending \ {Operation}
    BY <1>5, OperationPends DEF RemoveEvidence, Window
  <2>2. window'.pending \subseteq journal'
    BY <1>5, <2>1 DEF RemoveEvidence, Evidenced
  <2>3. UNCHANGED <<window.plan, window.result, window.through>>
    BY <1>5 DEF RemoveEvidence, Window
  <2>4. QED
    BY <1>5, <2>2, <2>3 DEF RemoveEvidence
<1>6. CASE EndEvidence
  BY <1>6 DEF EndEvidence, Window
<1>7. CASE Scan
  BY <1>7, ScanPlans, ReadIs DEF Scan, Window
<1>8. CASE Record
  BY <1>8 DEF Record, Window
<1>9. CASE Adopt
  BY <1>9 DEF Adopt
<1>10. CASE Close
  BY <1>10 DEF Close, Unread
<1>11. CASE Recover
  BY <1>11 DEF Recover
<1>12. CASE Idle
  BY <1>12 DEF Idle
<1>13. ASSUME NEW b \in BOOLEAN, Stop(b) PROVE Phases'
  BY <1>13 DEF Stop, Unread
<1>14. CASE ListenStep
  BY <1>14, ListenersLeave
<1>15. CASE UNCHANGED vars
  BY <1>15 DEF vars
<1>16. QED
  BY <1>1, <1>2, <1>3, <1>4, <1>5, <1>6, <1>7, <1>8, <1>9, <1>10, <1>11, <1>12, <1>13, <1>14, <1>15,
     StepIs, WritersPhases DEF EvidenceStep, WindowStep

LEMMA HeldStep ==
  ASSUME ProposalEngineAssumption, Types, Phases, Held, Ordered, [Next]_vars
  PROVE  Held'
<1> USE DEF Phases, Held, Types, LoopOK, outside, store, engine, ghosts, channels
<1>1. CASE TakeEvidence
  BY <1>1 DEF TakeEvidence, Window
<1>2. CASE RecordGap \/ RecordOperation \/ AdoptOperation \/ Adopt \/ Recover \/ Idle
  BY <1>2 DEF RecordGap, RecordOperation, AdoptOperation, Adopt, Recover, Idle
<1>3. CASE RemoveEvidence
  BY <1>3 DEF RemoveEvidence, Window
<1>4. CASE EndEvidence
  BY <1>4 DEF EndEvidence, Window, Notes
<1>5. CASE Scan
  BY <1>5 DEF Scan, Window, Notes, Fresh, Coalescing
<1>6. CASE Record
  BY <1>6 DEF Record, Window
<1>7. CASE Close
  BY <1>7 DEF Close, Unread
<1>8. ASSUME NEW b \in BOOLEAN, Stop(b) PROVE Held'
  BY <1>8 DEF Stop, Unread, Fresh
<1>9. CASE WriterStep
  BY <1>9, WritersLeave
<1>10. ASSUME NEW p \in Paths, HearSurface(p) PROVE Held'
  <2>1. window = Unread /\ base.files \in Files
    BY <1>10 DEF HearSurface, StoreOK, Baseline
  <2>2. notes'.burst \in Files
    BY <1>10, <2>1 DEF HearSurface, Notes
  <2>3. /\ notes'.interactive = notes.interactive \cup {p} /\ notes'.fresh = notes.fresh \cup {p}
    BY <1>10 DEF HearSurface, Notes
  <2>4. QED
    BY <1>10, <2>1, <2>2, <2>3 DEF HearSurface, Unread
<1>11. CASE ListenStep /\ ~\E p \in Paths : HearSurface(p)
  <2>1. UNCHANGED <<notes.interactive, notes.fresh, notes.burst>>
    BY <1>11 DEF ListenStep, HearWatcher, PassBy, HearReview, Lag, Lagged, Notes
  <2>2. QED
    BY <1>11, <2>1, ListenersLeave
<1>12. CASE UNCHANGED vars
  BY <1>12 DEF vars
<1>13. QED
  BY <1>1, <1>2, <1>3, <1>4, <1>5, <1>6, <1>7, <1>8, <1>9, <1>10, <1>11, <1>12, StepIs
  DEF EvidenceStep, WindowStep

\* The baseline in memory is the stored one, but for a gap that was recorded.
LEMMA InStepStep ==
  ASSUME ProposalEngineAssumption, Types, Phases, Held, Ordered, InStep, [Next]_vars
  PROVE  InStep'
<1> USE DEF InStep, Consuming, HasGap, Types, LoopOK, outside, store, engine, ghosts, channels
<1>1. CASE TakeEvidence
  BY <1>1 DEF TakeEvidence
<1>2. CASE RecordGap
  <2>3. base'.files[Operation.path] = Operation.before /\ base'.at = base.at
    BY <1>2, GapRecorded
  <2>4. Operation' = Operation /\ window' = window
    BY <1>2 DEF RecordGap, Operation
  <2>5. QED
    BY <1>2, <2>3, <2>4 DEF RecordGap
<1>3. CASE RecordOperation
  BY <1>3 DEF RecordOperation, Operation
<1>4. CASE AdoptOperation
  BY <1>4 DEF AdoptOperation, StoreOK, Baseline
<1>5. CASE RemoveEvidence
  BY <1>5, Zenon DEF RemoveEvidence
<1>6. CASE EndEvidence
  BY <1>6 DEF EndEvidence
<1>7. CASE Scan \/ Record \/ Close \/ Idle
  BY <1>7 DEF Scan, Record, Close, Idle, Phases
<1>8. CASE Adopt \/ Recover
  BY <1>8 DEF Adopt, Recover
<1>9. ASSUME NEW b \in BOOLEAN, Stop(b) PROVE InStep'
  BY <1>9 DEF Stop
<1>10. CASE WriterStep \/ ListenStep \/ UNCHANGED vars
  <2>1. UNCHANGED <<base, baseline, window, pc>>
    BY <1>10, WritersLeave, ListenersLeave DEF vars
  <2>2. Operation' = Operation
    BY <2>1 DEF Operation
  <2>3. QED
    BY <2>1, <2>2
<1>11. QED
  BY <1>1, <1>2, <1>3, <1>4, <1>5, <1>6, <1>7, <1>8, <1>9, <1>10, StepIs DEF EvidenceStep, WindowStep

-----------------------------------------------------------------------------
(* The record                                                              *)

\* A proposal recorded with the baseline's time is none that a restart takes
\* for a moved baseline.
LEMMA RecordedBefore ==
  ASSUME Types, Ordered, InStep, pc # "record", NEW x \in Proposal, x.to.at = base.at, proposals' = Append(proposals, x),
         UNCHANGED <<baseline, pc>>, window'.result = window.result
  PROVE  Ordered' /\ Newer' = Newer
<1>1. proposals \in Seq(Proposal) /\ baseline.at \in Nat
  BY DEF Types, StoreOK, Baseline
<1>2. /\ \A i \in DOMAIN proposals : i \in DOMAIN proposals' /\ proposals'[i] = proposals[i]
      /\ \A i \in DOMAIN proposals' : i \in DOMAIN proposals \/ proposals'[i] = x
  BY <1>1, OneMore
<1>3. Newer' = Newer
  BY <1>1, <1>2 DEF Newer, InStep
<1>4. \A i \in Newer : proposals'[i] = proposals[i]
  BY <1>2 DEF Newer
<1>5. ASSUME NEW i \in Newer'
      PROVE  /\ proposals'[i].source # "ManagedProcess" /\ proposals'[i].to.at = baseline'.at + 1
             /\ \A k \in Newer' : proposals'[i].to.files = proposals'[k].to.files
  <2>1. i \in Newer /\ proposals'[i] = proposals[i] /\ baseline' = baseline
    BY <1>3, <1>4
  <2>2. proposals[i].source # "ManagedProcess" /\ proposals[i].to.at = baseline.at + 1
    BY <2>1 DEF Ordered
  <2>3. ASSUME NEW k \in Newer' PROVE proposals'[i].to.files = proposals'[k].to.files
    <3>1. k \in Newer /\ proposals'[k] = proposals[k]
      BY <1>3, <1>4
    <3>2. QED
      BY <2>1, <3>1 DEF Ordered
  <2>4. QED
    BY <2>1, <2>2, <2>3
<1>6. pc' # "record" /\ (pc' \notin {"record", "recover"} => Newer' = {})
  BY <1>3 DEF Ordered
<1>7. QED
  BY <1>3, <1>5, <1>6 DEF Ordered

LEMMA OrderedStep ==
  ASSUME ProposalEngineAssumption, Types, Phases, Held, Ordered, InStep, [Next]_vars
  PROVE  Ordered'
<1> USE DEF outside, store, engine, ghosts, channels
<1>1. CASE RecordGap
  <2>1. pc # "record" /\ UNCHANGED <<baseline, pc, window>>
    BY <1>1 DEF RecordGap, Consuming
  <2>2. GapRecord.to.at = base.at
    BY DEF GapRecord
  <2>3. QED
    BY <1>1, <2>1, <2>2, GapRecorded, RecordedBefore
<1>2. CASE RecordOperation
  <2>1. pc # "record" /\ UNCHANGED <<baseline, pc, window>>
    BY <1>2 DEF RecordOperation, Consuming
  <2>2. OperationRecord.to.at = base.at
    BY DEF OperationRecord
  <2>3. QED
    BY <1>2, <2>1, <2>2, OperationRecorded, RecordedBefore
<1>3. CASE Record
  <2> DEFINE x == WindowRecord(Head(window.plan))
  <2>1. x \in Proposal /\ proposals' = Append(proposals, x) /\ UNCHANGED window.result /\ window.plan \in Seq(Plan)
        /\ Head(window.plan) \in Plan
    BY <1>3, WindowRecorded, PlansAre DEF Types, LoopOK, Window
  <2>2. x.to = [at |-> base.at + 1, files |-> window.result] /\ x.source # "ManagedProcess"
    BY <2>1 DEF WindowRecord, Plan
  <2>3. UNCHANGED <<baseline, pc>> /\ pc = "record" /\ baseline.at \in Nat /\ base.at = baseline.at
    BY <1>3 DEF Record, Types, StoreOK, Baseline, InStep
  <2> HIDE DEF x
  <2>4. /\ \A i \in DOMAIN proposals : proposals'[i] = proposals[i]
        /\ \A i \in DOMAIN proposals' : i \in DOMAIN proposals \/ proposals'[i] = x
    BY <2>1, OneMore DEF Types, StoreOK
  <2>5. ASSUME NEW i \in Newer'
        PROVE  /\ proposals'[i].source # "ManagedProcess" /\ proposals'[i].to.at = baseline'.at + 1
               /\ proposals'[i].to.files = window'.result
    <3>1. CASE i \in DOMAIN proposals
      <4>1. i \in Newer
        BY <2>3, <2>4, <2>5, <3>1 DEF Newer
      <4>2. QED
        BY <2>1, <2>3, <2>4, <3>1, <4>1 DEF Ordered
    <3>2. CASE proposals'[i] = x
      BY <2>1, <2>2, <2>3, <3>2
    <3>3. QED
      BY <2>4, <2>5, <3>1, <3>2 DEF Newer
  <2>6. QED
    BY <2>3, <2>5 DEF Ordered
<1>4. CASE Adopt
  <2>1. baseline'.at = baseline.at + 1 /\ baseline.at \in Nat /\ pc' = "close" /\ UNCHANGED proposals
    BY <1>4 DEF Adopt, InStep, Types, StoreOK, Baseline
  <2>2. Newer' = {}
    BY <2>1, ProposalsAre DEF Newer, Ordered
  <2>3. QED
    BY <2>2 DEF Ordered
<1>5. CASE Recover
  <2>1. UNCHANGED proposals /\ baseline' = Recovered /\ pc' = "consume" /\ baseline.at \in Nat
    BY <1>5 DEF Recover, Types, StoreOK, Baseline
  <2>2. Newer' = {}
    <3>1. CASE Newer = {}
      BY <2>1, <3>1, NewerRecovers DEF Newer
    <3>2. CASE Newer # {}
      <4>1. baseline'.at = baseline.at + 1
        BY <2>1, <3>2, NewerRecovers
      <4>2. QED
        BY <2>1, <4>1, ProposalsAre DEF Newer, Ordered
    <3>3. QED
      BY <3>1, <3>2
  <2>3. QED
    BY <2>2 DEF Ordered
<1>6. CASE AdoptOperation
  <2>1. baseline'.at = baseline.at /\ UNCHANGED proposals /\ pc = "evidence" /\ pc' = "remove"
    BY <1>6 DEF AdoptOperation, Consuming, InStep, Types, StoreOK, Baseline
  <2>2. Newer' = Newer
    BY <2>1 DEF Newer
  <2>3. QED
    BY <2>1, <2>2 DEF Ordered
<1>7. CASE Scan
  <2>1. UNCHANGED <<proposals, baseline>> /\ Newer = {}
    BY <1>7 DEF Scan, Ordered
  <2>2. Newer' = {}
    BY <2>1 DEF Newer
  <2>3. QED
    BY <2>2 DEF Ordered
<1>8. CASE TakeEvidence \/ RemoveEvidence \/ EndEvidence \/ Idle \/ Close
  <2>1. UNCHANGED <<proposals, baseline>> /\ Newer = {}
    BY <1>8 DEF TakeEvidence, RemoveEvidence, EndEvidence, Idle, Close, Ordered
  <2>2. Newer' = {}
    BY <2>1 DEF Newer
  <2>3. QED
    BY <2>2 DEF Ordered
<1>9. ASSUME NEW b \in BOOLEAN, Stop(b) PROVE Ordered'
  <2>1. UNCHANGED <<proposals, baseline>> /\ pc' = "recover"
    BY <1>9 DEF Stop
  <2>2. Newer' = Newer
    BY <2>1 DEF Newer
  <2>3. QED
    BY <2>1, <2>2 DEF Ordered
<1>10. CASE WriterStep \/ ListenStep \/ UNCHANGED vars
  <2>1. UNCHANGED <<proposals, baseline, window, pc>>
    BY <1>10, WritersLeave, ListenersLeave DEF vars
  <2>2. Newer' = Newer
    BY <2>1 DEF Newer
  <2>3. QED
    BY <2>1, <2>2 DEF Ordered
<1>11. QED
  BY <1>1, <1>2, <1>3, <1>4, <1>5, <1>6, <1>7, <1>8, <1>9, <1>10, StepIs DEF EvidenceStep, WindowStep

-----------------------------------------------------------------------------
(* Evidence                                                                *)

\* Evidence that goes, or that others know nothing new of, changes nothing.
LEMMA EvidencedLess ==
  ASSUME Evidenced, journal' \subseteq journal, UNCHANGED proposals, spent'.ops = spent.ops
  PROVE  Evidenced'
BY DEF Evidenced

\* A proposal more, of no operation or of one that is pending.
LEMMA EvidencedMore ==
  ASSUME Types, Evidenced, NEW x \in Proposal, proposals' = Append(proposals, x), UNCHANGED journal, UNCHANGED spent,
         \A e \in journal : x.op = e.id =>
           x.paths = {e.path} /\ x.from[e.path] = e.before /\ x.to.files[e.path] = e.after,
         x.op <= spent.ops
  PROVE  Evidenced'
<1>1. /\ \A i \in DOMAIN proposals : proposals'[i] = proposals[i]
      /\ \A i \in DOMAIN proposals' : i \in DOMAIN proposals \/ proposals'[i] = x
  BY OneMore DEF Types, StoreOK
<1>2. \A i \in DOMAIN proposals' : proposals'[i].op <= spent'.ops
  BY <1>1 DEF Evidenced
<1>3. ASSUME NEW i \in DOMAIN proposals', NEW e \in journal', proposals'[i].op = e.id
      PROVE  /\ proposals'[i].paths = {e.path} /\ proposals'[i].from[e.path] = e.before
             /\ proposals'[i].to.files[e.path] = e.after
  <2>1. CASE i \in DOMAIN proposals
    BY <1>1, <1>3, <2>1 DEF Evidenced
  <2>2. CASE proposals'[i] = x
    BY <1>3, <2>2
  <2>3. QED
    BY <1>1, <2>1, <2>2
<1>4. QED
  BY <1>2, <1>3 DEF Evidenced

LEMMA EvidencedStep ==
  ASSUME ProposalEngineAssumption, Types, Phases, Held, Evidenced, [Next]_vars
  PROVE  Evidenced'
<1> USE DEF outside, store, engine, ghosts, channels
<1>1. journal \subseteq WriteEvidence /\ spent.ops \in Nat /\ \A e \in journal : e.id \in Nat \ {0}
  BY DEF Types, StoreOK, RestOK, Spent, Evidence, WriteEvidence
<1>2. ASSUME NEW p \in Paths, NEW b \in BOOLEAN, ClientWrite(p, b) PROVE Evidenced'
  <2> DEFINE e == [id |-> spent.ops + 1, path |-> p, before |-> disk[p], after |-> NewContent,
                   review |-> b, completed |-> FALSE]
  <2>1. journal' = journal \cup {e} /\ spent'.ops = spent.ops + 1 /\ UNCHANGED proposals
    BY <1>2 DEF ClientWrite, Types, RestOK, Spent
  <2>2. e.id = spent.ops + 1
    OBVIOUS
  <2> HIDE DEF e
  <2>3. \A o \in journal : o.id <= spent.ops /\ o.id # e.id
    BY <1>1, <2>2 DEF Evidenced
  <2>4. \A i \in DOMAIN proposals : proposals[i].op <= spent'.ops /\ proposals[i].op # e.id
    BY <1>1, <2>1, <2>2, ProposalsAre DEF Evidenced
  <2>5. \A o \in journal' : o.id <= spent'.ops
    BY <1>1, <2>1, <2>2, <2>3
  <2>6. \A o, u \in journal' : o.id = u.id => o = u
    BY <2>1, <2>3 DEF Evidenced
  <2>7. QED
    BY <2>1, <2>4, <2>5, <2>6 DEF Evidenced
<1>3. CASE ClientDone
  <2>1. journal' = {[e EXCEPT !.completed = @ \/ e.id = spent.ops] : e \in journal} /\ UNCHANGED <<proposals, spent>>
    BY <1>3 DEF ClientDone
  <2>2. ASSUME NEW o \in journal'
        PROVE  \E e \in journal : /\ o = [e EXCEPT !.completed = @ \/ e.id = spent.ops]
                                  /\ o.id = e.id /\ o.path = e.path /\ o.before = e.before /\ o.after = e.after
    BY <1>1, <2>1 DEF WriteEvidence
  <2>3. \A o, u \in journal' : o.id = u.id => o = u
    BY <2>2 DEF Evidenced
  <2>4. \A o \in journal' : o.id <= spent'.ops
    BY <2>1, <2>2 DEF Evidenced
  <2>5. QED
    BY <2>1, <2>2, <2>3, <2>4 DEF Evidenced
<1>4. ASSUME NEW p \in Paths, NEW b \in BOOLEAN, Write(p, b) PROVE Evidenced'
  <2>1. spent'.ops = spent.ops
    BY <1>4 DEF Write, Types, RestOK, Spent
  <2>2. QED
    BY <1>4, <2>1, EvidencedLess DEF Write
<1>5. ASSUME NEW p \in Paths, SurfaceWrite(p) \/ Restore(p) PROVE Evidenced'
  <2>1. spent'.ops = spent.ops /\ UNCHANGED <<journal, proposals>>
    BY <1>5 DEF SurfaceWrite, Restore, Spend, Types, RestOK, Spent
  <2>2. QED
    BY <2>1, EvidencedLess
<1>6. CASE OpenRun \/ FinishRun \/ UNCHANGED vars
  BY <1>6, EvidencedLess DEF OpenRun, FinishRun, vars
<1>7. CASE ListenStep
  <2>1. spent'.ops = spent.ops
    BY <1>7 DEF ListenStep, HearWatcher, HearSurface, PassBy, HearReview, Lag, Spend, Types, RestOK, Spent
  <2>2. QED
    BY <1>7, <2>1, ListenersLeave, EvidencedLess
<1>8. CASE RecordGap
  <2>1. GapRecord.op = 0
    BY DEF GapRecord
  <2>2. UNCHANGED <<journal, spent>>
    BY <1>8 DEF RecordGap
  <2>3. QED
    BY <1>1, <1>8, <2>1, <2>2, GapRecorded, EvidencedMore
<1>9. CASE RecordOperation
  <2>1. OperationRecord.op = Operation.id /\ OperationRecord.paths = {Operation.path}
    BY DEF OperationRecord
  <2>2. UNCHANGED <<journal, spent>>
    BY <1>9 DEF RecordOperation
  <2>3. Operation \in journal
    BY <1>9, OperationRecorded DEF Phases
  <2>4. \A e \in journal : Operation.id = e.id => e = Operation
    BY <2>3 DEF Evidenced
  <2>5. OperationRecord.op <= spent.ops
    BY <2>1, <2>3 DEF Evidenced
  <2>6. QED
    BY <1>9, <2>1, <2>2, <2>4, <2>5, OperationRecorded, EvidencedMore
<1>10. CASE Record
  <2>1. WindowRecord(Head(window.plan)).op = 0
    BY DEF WindowRecord
  <2>2. UNCHANGED <<journal, spent>>
    BY <1>10 DEF Record
  <2>3. QED
    BY <1>1, <1>10, <2>1, <2>2, WindowRecorded, EvidencedMore
<1>11. CASE TakeEvidence \/ RemoveEvidence
  <2>1. journal' \subseteq journal /\ UNCHANGED <<proposals, spent>>
    BY <1>11 DEF TakeEvidence, RemoveEvidence
  <2>2. QED
    BY <2>1, EvidencedLess
<1>12. CASE AdoptOperation \/ EndEvidence \/ Scan \/ Adopt \/ Close \/ Recover \/ Idle
  <2>1. UNCHANGED <<journal, proposals, spent>>
    BY <1>12 DEF AdoptOperation, EndEvidence, Scan, Adopt, Close, Recover, Idle
  <2>2. QED
    BY <2>1, EvidencedLess
<1>13. ASSUME NEW b \in BOOLEAN, Stop(b) PROVE Evidenced'
  <2>1. spent'.ops = spent.ops /\ UNCHANGED <<journal, proposals>>
    BY <1>13 DEF Stop, Spend, Types, RestOK, Spent
  <2>2. QED
    BY <2>1, EvidencedLess
<1>14. QED
  BY <1>2, <1>3, <1>4, <1>5, <1>6, <1>7, <1>8, <1>9, <1>10, <1>11, <1>12, <1>13, StepIs
  DEF WriterStep, EvidenceStep, WindowStep

-----------------------------------------------------------------------------
(* Contents                                                                *)

\* Nothing is known of contents that were not written yet.
Upto(f, n) == \A p \in Paths : f[p] <= n

PastDisk ==
  /\ \A c \in spent.ofRun : 0 < c /\ c <= spent.made
  /\ Upto(disk, spent.made)
  /\ \A e \in journal : e.before <= spent.made /\ e.after <= spent.made

PastStore ==
  /\ Upto(base.files, spent.made) /\ Upto(baseline.files, spent.made)
  /\ \A i \in DOMAIN proposals : Upto(proposals[i].from, spent.made) /\ Upto(proposals[i].to.files, spent.made)

PastWindow ==
  /\ window.result # Nothing => Upto(window.result, spent.made)
  /\ \A i \in DOMAIN window.plan : Upto(window.plan[i].from, spent.made)
  /\ notes.burst # Nothing => Upto(notes.burst, spent.made)

Past == PastDisk /\ PastStore /\ PastWindow

LEMMA ContentsAre ==
  ASSUME ProposalEngineAssumption
  PROVE  /\ Contents \subseteq Nat /\ \A f \in Files, p \in Paths : f[p] \in Contents /\ f[p] \in Nat
         /\ \A f \in Files, m, n \in Nat : Upto(f, n) /\ n <= m => Upto(f, m)
<1>1. Contents \subseteq Nat
  BY DEF Contents, ProposalEngineAssumption
<1>2. \A f \in Files, p \in Paths : f[p] \in Contents
  BY DEF Files
<1>3. \A f \in Files, p \in Paths : f[p] \in Nat
  BY <1>1, <1>2
<1>4. ASSUME NEW f \in Files, NEW m \in Nat, NEW n \in Nat, Upto(f, n), n <= m PROVE Upto(f, m)
  BY <1>3, <1>4 DEF Upto
<1>5. QED
  BY <1>1, <1>2, <1>3, <1>4

\* A write is new, and what was known stays known.
LEMMA PastLater ==
  ASSUME ProposalEngineAssumption, Types, Past, NEW m \in Nat, spent.made <= m
  PROVE  /\ Upto(disk, m) /\ Upto(base.files, m) /\ Upto(baseline.files, m)
         /\ \A c \in spent.ofRun : 0 < c /\ c <= m
         /\ \A e \in journal : e.before <= m /\ e.after <= m
         /\ \A i \in DOMAIN proposals : Upto(proposals[i].from, m) /\ Upto(proposals[i].to.files, m)
         /\ window.result # Nothing => Upto(window.result, m)
         /\ \A i \in DOMAIN window.plan : Upto(window.plan[i].from, m)
         /\ notes.burst # Nothing => Upto(notes.burst, m)
<1>1. spent.made \in Nat /\ spent.ofRun \subseteq Nat
  BY ContentsAre DEF Types, RestOK, Spent
<1>2. disk \in Files /\ base.files \in Files /\ baseline.files \in Files
  BY DEF Types, StoreOK, Baseline
<1>3. window.result \in Files \cup {Nothing} /\ notes.burst \in Files \cup {Nothing}
  BY DEF Types, LoopOK, Window, Notes
<1>4. \A e \in journal : e.before \in Nat /\ e.after \in Nat
  <2>1. \A e \in journal : e.before \in Contents /\ e.after \in Contents
    BY DEF Types, StoreOK, Evidence, WriteEvidence
  <2>2. QED
    BY <2>1, ContentsAre
<1>5. \A e \in journal : e.before <= m /\ e.after <= m
  BY <1>1, <1>4 DEF Past, PastDisk
<1>6. \A c \in spent.ofRun : 0 < c /\ c <= m
  BY <1>1 DEF Past, PastDisk
<1>7. \A i \in DOMAIN proposals : Upto(proposals[i].from, m) /\ Upto(proposals[i].to.files, m)
  BY <1>1, ProposalsAre, ContentsAre DEF Past, PastStore
<1>8. \A i \in DOMAIN window.plan : Upto(window.plan[i].from, m)
  BY <1>1, PlansAre, ContentsAre DEF Past, PastWindow
<1>9. QED
  BY <1>1, <1>2, <1>3, <1>5, <1>6, <1>7, <1>8, ContentsAre DEF Past, PastDisk, PastStore, PastWindow

LEMMA WritersPast ==
  ASSUME ProposalEngineAssumption, Types, Past, WriterStep
  PROVE  Past'
<1> USE DEF store, engine
<1>1. spent.made \in Nat /\ spent.made + 1 \in Nat /\ disk \in Files /\ spent.ofRun \subseteq Nat
  BY ContentsAre DEF Types, StoreOK, RestOK, Spent
<1>2. UNCHANGED <<baseline, proposals, base, window, notes>>
  BY WritersLeave
<1>3. \A p \in Paths : Written(p) => Upto(disk', spent.made + 1)
  BY <1>1, PastLater DEF Written, NewContent, Upto, Files
<1>4. spent'.made \in Nat /\ spent.made <= spent'.made
  <2>1. \A p \in Paths, b \in BOOLEAN : Write(p, b) => spent'.made = spent.made + 1
    BY DEF Write, Types, RestOK, Spent
  <2>2. \A p \in Paths, b \in BOOLEAN : ClientWrite(p, b) => spent'.made = spent.made + 1
    BY DEF ClientWrite, Types, RestOK, Spent
  <2>3. \A p \in Paths : SurfaceWrite(p) => spent'.made = spent.made + 1
    BY DEF SurfaceWrite, Types, RestOK, Spent
  <2>4. \A p \in Paths : Restore(p) => spent'.made = spent.made
    BY DEF Restore, Spend, Types, RestOK, Spent
  <2>5. ClientDone \/ OpenRun \/ FinishRun => spent' = spent
    BY DEF ClientDone, OpenRun, FinishRun
  <2>6. spent'.made = spent.made \/ spent'.made = spent.made + 1
    BY <2>1, <2>2, <2>3, <2>4, <2>5 DEF WriterStep
  <2>7. QED
    BY <1>1, <2>6
<1>5. (PastStore /\ PastWindow)'
  BY <1>2, <1>4, PastLater DEF PastStore, PastWindow
<1>6. ASSUME NEW p \in Paths, NEW b \in BOOLEAN, Write(p, b) PROVE PastDisk'
  <2>1. /\ spent'.made = spent.made + 1 /\ spent'.ofRun \subseteq spent.ofRun \cup {spent.made + 1}
        /\ UNCHANGED journal /\ Upto(disk', spent.made + 1)
    BY <1>3, <1>6 DEF Write, Types, RestOK, Spent, NewContent
  <2>2. QED
    BY <1>1, <1>4, <2>1, PastLater DEF PastDisk
<1>7. ASSUME NEW p \in Paths, NEW b \in BOOLEAN, ClientWrite(p, b) PROVE PastDisk'
  <2>1. /\ spent'.made = spent.made + 1 /\ spent'.ofRun = spent.ofRun /\ Upto(disk', spent.made + 1)
    BY <1>3, <1>7 DEF ClientWrite, Types, RestOK, Spent
  <2>2. \A e \in journal' : e \in journal \/ (e.before = disk[p] /\ e.after = spent.made + 1)
    BY <1>7 DEF ClientWrite, NewContent
  <2>3. disk[p] <= spent.made + 1
    BY <1>1, <1>4, <2>1, PastLater DEF Upto
  <2>4. \A e \in journal : e.before <= spent.made + 1 /\ e.after <= spent.made + 1
    BY <1>1, <1>4, <2>1, PastLater
  <2>5. \A e \in journal' : e.before <= spent'.made /\ e.after <= spent'.made
    BY <1>1, <2>1, <2>2, <2>3, <2>4
  <2>6. QED
    BY <1>4, <2>1, <2>5, PastLater DEF PastDisk
<1>8. ASSUME NEW p \in Paths, SurfaceWrite(p) PROVE PastDisk'
  <2>1. /\ spent'.made = spent.made + 1 /\ spent'.ofRun = spent.ofRun
        /\ UNCHANGED journal /\ Upto(disk', spent.made + 1)
    BY <1>3, <1>8 DEF SurfaceWrite, Types, RestOK, Spent
  <2>2. QED
    BY <1>4, <2>1, PastLater DEF PastDisk
<1>9. ASSUME NEW p \in Paths, Restore(p) PROVE PastDisk'
  <2>1. PICK i \in DOMAIN proposals : disk' = [disk EXCEPT ![p] = proposals[i].from[p]]
    BY <1>9 DEF Restore
  <2>2. proposals[i].from[p] <= spent.made
    BY DEF Past, PastStore, Upto
  <2>3. Upto(disk', spent.made)
    BY <1>1, <2>1, <2>2 DEF Past, PastDisk, Upto, Files
  <2>4. spent'.made = spent.made /\ spent'.ofRun = spent.ofRun /\ UNCHANGED journal
    BY <1>9 DEF Restore, Spend, Types, RestOK, Spent
  <2>5. QED
    BY <2>3, <2>4 DEF Past, PastDisk
<1>10. ASSUME ClientDone PROVE PastDisk'
  <2>1. \A o \in journal' : \E e \in journal : o.before = e.before /\ o.after = e.after
    BY <1>10 DEF ClientDone, Types, StoreOK, Evidence, WriteEvidence
  <2>2. UNCHANGED <<disk, spent>>
    BY <1>10 DEF ClientDone
  <2>3. QED
    BY <2>1, <2>2 DEF Past, PastDisk
<1>11. ASSUME OpenRun \/ FinishRun PROVE PastDisk'
  BY <1>11 DEF OpenRun, FinishRun, Past, PastDisk
<1>12. QED
  BY <1>5, <1>6, <1>7, <1>8, <1>9, <1>10, <1>11 DEF WriterStep, Past

\* The engine writes nothing, and records what it read.
LEMMA PastMore ==
  ASSUME Types, PastStore, NEW x \in Proposal, proposals' = Append(proposals, x), UNCHANGED <<spent, baseline>>,
         Upto(x.from, spent.made), Upto(x.to.files, spent.made), Upto(base'.files, spent.made)
  PROVE  PastStore'
<1>1. /\ \A i \in DOMAIN proposals : proposals'[i] = proposals[i]
      /\ \A i \in DOMAIN proposals' : i \in DOMAIN proposals \/ proposals'[i] = x
  BY OneMore DEF Types, StoreOK
<1>2. ASSUME NEW i \in DOMAIN proposals'
      PROVE Upto(proposals'[i].from, spent.made) /\ Upto(proposals'[i].to.files, spent.made)
  BY <1>1 DEF PastStore
<1>3. QED
  BY <1>2 DEF PastStore

LEMMA PastStep ==
  ASSUME ProposalEngineAssumption, Types, Phases, Held, Ordered, InStep, Past, [Next]_vars
  PROVE  Past'
<1> USE DEF outside, store, engine, ghosts, channels
<1>1. /\ spent.made \in Nat /\ disk \in Files /\ base.files \in Files /\ baseline.files \in Files
      /\ \A e \in journal : e \in WriteEvidence
  BY ContentsAre DEF Types, StoreOK, RestOK, Spent, Baseline, Evidence
<1>2. ASSUME window.pending # {}
      PROVE  /\ Operation \in journal /\ Operation.path \in Paths
             /\ Operation.before <= spent.made /\ Operation.after <= spent.made
             /\ Upto([base.files EXCEPT ![Operation.path] = Operation.before], spent.made)
             /\ Upto([base.files EXCEPT ![Operation.path] = Operation.after], spent.made)
  <2>1. Operation \in journal /\ Operation.path \in Paths
    BY <1>1, <1>2, OperationPends DEF Phases, Types, LoopOK, WriteEvidence
  <2>2. Operation.before <= spent.made /\ Operation.after <= spent.made
    BY <2>1 DEF Past, PastDisk
  <2>3. Upto(base.files, spent.made)
    BY DEF Past, PastStore
  <2>4. QED
    BY <1>1, <2>1, <2>2, <2>3 DEF Upto, Files
<1>3. CASE RecordGap
  <2>1. UNCHANGED <<disk, spent, journal, window, notes, baseline>> /\ window.pending # {}
    BY <1>3 DEF RecordGap, Consuming
  <2>2. Upto(GapRecord.from, spent.made) /\ Upto(GapRecord.to.files, spent.made)
    BY <1>2, <2>1 DEF GapRecord, Past, PastStore
  <2>3. PastStore'
    BY <1>3, <2>1, <2>2, GapRecorded, PastMore DEF Past
  <2>4. QED
    BY <2>1, <2>3 DEF Past, PastDisk, PastWindow
<1>4. CASE RecordOperation
  <2>1. UNCHANGED <<disk, spent, journal, window, notes, base, baseline>> /\ window.pending # {}
    BY <1>4 DEF RecordOperation, Consuming
  <2>2. Upto(OperationRecord.from, spent.made) /\ Upto(OperationRecord.to.files, spent.made)
    BY <1>2, <2>1 DEF OperationRecord
  <2>3. Upto(base'.files, spent.made)
    BY <2>1 DEF Past, PastStore
  <2>4. PastStore'
    BY <1>4, <2>1, <2>2, <2>3, OperationRecorded, PastMore DEF Past
  <2>5. QED
    BY <2>1, <2>4 DEF Past, PastDisk, PastWindow
<1>5. CASE AdoptOperation
  <2>1. /\ UNCHANGED <<disk, spent, journal, window, notes, proposals>> /\ window.pending # {} /\ baseline' = base'
        /\ base' = [base EXCEPT !.files[Operation.path] = Operation.after, !.checkpoint = Operation.id]
    BY <1>5 DEF AdoptOperation, Consuming
  <2>2. base'.files = [base.files EXCEPT ![Operation.path] = Operation.after]
    BY <2>1 DEF Types, StoreOK, Baseline
  <2>3. QED
    BY <1>2, <2>1, <2>2 DEF Past, PastDisk, PastStore, PastWindow
<1>6. CASE TakeEvidence \/ RemoveEvidence
  <2>1. journal' \subseteq journal /\ UNCHANGED <<disk, spent, notes, proposals, base, baseline>>
    BY <1>6 DEF TakeEvidence, RemoveEvidence
  <2>2. UNCHANGED <<window.result, window.plan>>
    BY <1>6 DEF TakeEvidence, RemoveEvidence, Types, LoopOK, Window
  <2>3. QED
    BY <2>1, <2>2 DEF Past, PastDisk, PastStore, PastWindow
<1>7. CASE EndEvidence
  <2>1. /\ UNCHANGED <<disk, spent, journal, proposals, base, baseline>>
        /\ UNCHANGED <<window.result, window.plan, notes.burst>>
    BY <1>7 DEF EndEvidence, Types, LoopOK, Window, Notes
  <2>2. QED
    BY <2>1 DEF Past, PastDisk, PastStore, PastWindow
<1>8. CASE Scan
  <2>1. UNCHANGED <<disk, spent, journal, proposals, base, baseline>>
    BY <1>8 DEF Scan
  <2>2. Upto(base.files, spent.made) /\ Upto(disk, spent.made) /\ Upto(Since, spent.made)
    BY DEF Since, Past, PastDisk, PastStore, PastWindow
  <2>3. Upto(Read, spent.made)
    BY <2>2, ReadIs DEF Upto
  <2>4. \A i \in DOMAIN window'.plan : Upto(window'.plan[i].from, spent.made)
    <3>1. CASE window'.plan = <<>>
      BY <3>1
    <3>2. CASE window'.plan = Planned("Interactive", Since, Settled) \o Planned("Ambient", base.files, AgentPaths)
      <4> DEFINE plan == Planned("Interactive", Since, Settled) \o Planned("Ambient", base.files, AgentPaths)
      <4>3. \A i \in DOMAIN plan : \/ plan[i] = [source |-> "Interactive", from |-> Since, paths |-> Settled]
                                   \/ plan[i] = [source |-> "Ambient", from |-> base.files, paths |-> AgentPaths]
        BY <1>1, <1>8, ScanPlans, PlannedIs
      <4> HIDE DEF plan
      <4>4. window'.plan = plan
        BY <3>2 DEF plan
      <4>1. \A i \in DOMAIN window'.plan : window'.plan[i].from = Since \/ window'.plan[i].from = base.files
        BY <4>3, <4>4
      <4>2. QED
        BY <2>2, <4>1
    <3>3. QED
      BY <1>8, <3>1, <3>2, ScanPlans
  <2>5. notes'.burst = Nothing \/ notes'.burst = notes.burst
    BY <1>8 DEF Scan, Fresh
  <2>6. QED
    BY <1>8, <2>1, <2>3, <2>4, <2>5, ScanPlans DEF Past, PastDisk, PastStore, PastWindow
<1>9. CASE Record
  <2> DEFINE x == WindowRecord(Head(window.plan))
  <2>1. /\ x \in Proposal /\ proposals' = Append(proposals, x) /\ x.from = window.plan[1].from
        /\ 1 \in DOMAIN window.plan /\ x.to.files = window.result /\ window'.result = window.result
        /\ window.result \in Files
    BY <1>9, WindowRecorded DEF WindowRecord
  <2>2. UNCHANGED <<disk, spent, journal, notes, base, baseline>>
    BY <1>9 DEF Record
  <2>3. Upto(x.from, spent.made) /\ Upto(x.to.files, spent.made) /\ Upto(base'.files, spent.made)
    <3>1. Upto(window.result, spent.made)
      BY <2>1 DEF Past, PastWindow, Upto, Nothing, Files
    <3>2. QED
      BY <2>1, <2>2, <3>1 DEF Past, PastStore, PastWindow
  <2> HIDE DEF x
  <2>4. PastStore'
    BY <2>1, <2>2, <2>3, PastMore DEF Past
  <2>5. \A i \in DOMAIN window'.plan : Upto(window'.plan[i].from, spent.made)
    BY <1>9, WindowRecorded DEF Past, PastWindow
  <2>6. QED
    BY <2>1, <2>2, <2>4, <2>5 DEF Past, PastDisk, PastWindow
<1>10. CASE Adopt
  <2>1. /\ UNCHANGED <<disk, spent, journal, window, notes, proposals>> /\ baseline' = base'
        /\ base'.files = window.result /\ window.result \in Files
    BY <1>10 DEF Adopt, Phases
  <2>2. Upto(window.result, spent.made)
    BY <2>1 DEF Past, PastWindow, Upto, Nothing, Files
  <2>3. QED
    BY <2>1, <2>2 DEF Past, PastDisk, PastStore, PastWindow
<1>11. CASE Recover
  <2>1. UNCHANGED <<disk, spent, journal, window, notes, proposals>> /\ baseline' = Recovered /\ base' = Recovered
    BY <1>11 DEF Recover
  <2>2. Upto(Recovered.files, spent.made)
    <3>1. CASE Newer = {}
      BY <3>1, NewerRecovers DEF Past, PastStore
    <3>2. CASE Newer # {}
      BY <3>2, NewerRecovers DEF Past, PastStore, Newer
    <3>3. QED
      BY <3>1, <3>2
  <2>3. QED
    BY <2>1, <2>2 DEF Past, PastDisk, PastStore, PastWindow
<1>12. CASE Idle \/ UNCHANGED vars
  BY <1>12 DEF Idle, vars, Past, PastDisk, PastStore, PastWindow
<1>13. CASE Close
  BY <1>13 DEF Close, Unread, Past, PastDisk, PastStore, PastWindow
<1>14. ASSUME NEW b \in BOOLEAN, Stop(b) PROVE Past'
  <2>1. /\ UNCHANGED <<disk, journal, proposals, baseline>> /\ base' = baseline /\ window' = Unread
        /\ notes'.burst = Nothing /\ spent'.made = spent.made /\ spent'.ofRun = spent.ofRun
    BY <1>14 DEF Stop, Fresh, Spend, Types, RestOK, Spent
  <2>2. QED
    BY <2>1 DEF Unread, Past, PastDisk, PastStore, PastWindow
<1>15. CASE ListenStep
  <2>1. UNCHANGED <<disk, journal, proposals, base, baseline, window>>
    BY <1>15, ListenersLeave
  <2>2. spent'.made = spent.made /\ spent'.ofRun = spent.ofRun
    BY <1>15 DEF ListenStep, HearWatcher, HearSurface, PassBy, HearReview, Lag, Spend, Types, RestOK, Spent
  <2>3. notes'.burst = notes.burst \/ notes'.burst = base.files
    BY <1>15 DEF ListenStep, HearWatcher, HearSurface, PassBy, HearReview, Lag, Lagged, Types, LoopOK, Notes
  <2>4. QED
    BY <2>1, <2>2, <2>3 DEF Past, PastDisk, PastStore, PastWindow
<1>16. QED
  BY <1>3, <1>4, <1>5, <1>6, <1>7, <1>8, <1>9, <1>10, <1>11, <1>12, <1>13, <1>14, <1>15,
     StepIs, WritersPast DEF EvidenceStep, WindowStep

-----------------------------------------------------------------------------
(* What each step leaves alone                                             *)

Stopping == \E b \in BOOLEAN : Stop(b)

LEMMA WritersLeaveNotes ==
  ASSUME Types, WriterStep \/ UNCHANGED vars
  PROVE  /\ UNCHANGED <<proposals, base, baseline, notes, window, pc, forgotten, overtaken>>
         /\ (\E p \in Paths : Restore(p)) \/ UNCHANGED announced
<1>1. UNCHANGED <<proposals, base, baseline, notes, window, pc, forgotten, overtaken>>
  BY WritersLeave DEF store, engine, ghosts, vars
<1>2. (\E p \in Paths : Restore(p)) \/ UNCHANGED announced
  BY DEF WriterStep, Write, ClientWrite, SurfaceWrite, ClientDone, OpenRun, FinishRun, vars, channels
<1>3. QED
  BY <1>1, <1>2

LEMMA ListenersLeaveNotes ==
  ASSUME Types, ListenStep
  PROVE  /\ UNCHANGED <<proposals, base, baseline, window, pc, forgotten, overtaken, run, disk, journal>>
         /\ announced' \subseteq announced
         /\ (\E p \in Paths : HearSurface(p)) \/ UNCHANGED <<notes.interactive, notes.fresh, notes.burst>>
         /\ (\E a \in announced : HearReview(a)) \/ UNCHANGED notes.expected
<1>1. UNCHANGED <<proposals, base, baseline, window, pc, forgotten, overtaken, run, disk, journal>>
  BY ListenersLeave DEF store, ghosts
<1>2. announced' \subseteq announced
  BY DEF ListenStep, HearWatcher, HearSurface, PassBy, HearReview, Lag
<1>3. /\ (\E p \in Paths : HearSurface(p)) \/ UNCHANGED <<notes.interactive, notes.fresh, notes.burst>>
      /\ (\E a \in announced : HearReview(a)) \/ UNCHANGED notes.expected
  BY DEF ListenStep, HearWatcher, HearSurface, PassBy, HearReview, Lag, Lagged, Types, LoopOK, Notes, engine
<1>4. QED
  BY <1>1, <1>2, <1>3

LEMMA EvidenceLeavesNotes ==
  ASSUME Types, EvidenceStep
  PROVE  /\ UNCHANGED <<window.plan, window.result, notes.burst, notes.expected, announced, overtaken, run, disk, spent>>
         /\ RecordGap \/ RecordOperation \/ UNCHANGED proposals
         /\ EndEvidence \/ UNCHANGED notes
         /\ RecordGap \/ AdoptOperation \/ UNCHANGED base
         /\ AdoptOperation \/ UNCHANGED baseline
         /\ forgotten \subseteq forgotten' /\ journal' \subseteq journal
         /\ pc \in {"consume", "evidence", "remove"} /\ pc' \in {"evidence", "remove", "scan"}
<1> USE DEF outside, store, engine, ghosts, channels, Types, LoopOK, Consuming
<1>1. CASE TakeEvidence
  BY <1>1 DEF TakeEvidence, Window
<1>2. CASE RecordGap
  BY <1>2 DEF RecordGap
<1>3. CASE RecordOperation
  BY <1>3 DEF RecordOperation
<1>4. CASE AdoptOperation
  BY <1>4 DEF AdoptOperation
<1>5. CASE RemoveEvidence
  BY <1>5 DEF RemoveEvidence, Window
<1>6. CASE EndEvidence
  BY <1>6 DEF EndEvidence, Window, Notes
<1>7. QED
  BY <1>1, <1>2, <1>3, <1>4, <1>5, <1>6 DEF EvidenceStep

LEMMA Leaves ==
  ASSUME Types, [Next]_vars
  PROVE  /\ RecordGap \/ RecordOperation \/ Record \/ UNCHANGED proposals
         /\ Scan \/ Record \/ Close \/ Stopping \/ UNCHANGED <<window.plan, window.result>>
         /\ (\E p \in Paths : HearSurface(p)) \/ EndEvidence \/ Scan \/ Stopping
            \/ UNCHANGED <<notes.interactive, notes.fresh, notes.burst>>
         /\ (\E a \in announced : HearReview(a)) \/ Scan \/ Stopping \/ UNCHANGED notes.expected
         /\ RecordGap \/ AdoptOperation \/ Adopt \/ Recover \/ Stopping \/ UNCHANGED base
         /\ AdoptOperation \/ Adopt \/ Recover \/ UNCHANGED baseline
         /\ (\E p \in Paths : Restore(p)) \/ announced' \subseteq announced
         /\ forgotten \subseteq forgotten' /\ overtaken \subseteq overtaken'
<1> USE DEF outside, store, engine, ghosts, channels
<1>1. CASE WriterStep \/ UNCHANGED vars
  BY <1>1, WritersLeaveNotes
<1>2. CASE ListenStep
  BY <1>2, ListenersLeaveNotes
<1>3. CASE EvidenceStep
  BY <1>3, EvidenceLeavesNotes
<1>4. CASE Scan
  BY <1>4 DEF Scan
<1>5. CASE Record
  BY <1>5 DEF Record
<1>6. CASE Adopt \/ Close \/ Recover \/ Idle
  BY <1>6 DEF Adopt, Close, Recover, Idle
<1>7. ASSUME NEW b \in BOOLEAN, Stop(b)
      PROVE  /\ UNCHANGED <<proposals, baseline>> /\ announced' \subseteq announced
             /\ forgotten \subseteq forgotten' /\ UNCHANGED overtaken
  BY <1>7 DEF Stop
<1>8. QED
  BY <1>1, <1>2, <1>3, <1>4, <1>5, <1>6, <1>7, StepIs DEF WindowStep, Stopping

-----------------------------------------------------------------------------
(* Where the history leads                                                 *)

\* Content c of p follows from the first one by the changes s.
Leads(s, p, c) ==
  \A C \in SUBSET Contents :
    0 \in C /\ (\A i \in DOMAIN s : p \in s[i].paths /\ s[i].from[p] \in C => s[i].to.files[p] \in C)
      => c \in C

\* A proposal more takes nothing away, and leads from what it changes.
LEMMA LeadsMore ==
  ASSUME NEW s \in Seq(Proposal), NEW x \in Proposal
  PROVE  /\ \A p, c : Leads(s, p, c) => Leads(Append(s, x), p, c)
         /\ \A p \in x.paths : Leads(s, p, x.from[p]) => Leads(Append(s, x), p, x.to.files[p])
         /\ \A p, c : p \notin x.paths => (Leads(Append(s, x), p, c) <=> Leads(s, p, c))
<1> DEFINE t == Append(s, x)
<1>1. /\ DOMAIN s \subseteq DOMAIN t /\ \A i \in DOMAIN s : t[i] = s[i]
      /\ \A i \in DOMAIN t : i \in DOMAIN s \/ t[i] = x
      /\ \E i \in DOMAIN t : t[i] = x
  BY OneMore
<1> HIDE DEF t
<1>2. ASSUME NEW p, NEW c, Leads(s, p, c) PROVE Leads(t, p, c)
  BY <1>1, <1>2 DEF Leads
<1>3. ASSUME NEW p \in x.paths, Leads(s, p, x.from[p]) PROVE Leads(t, p, x.to.files[p])
  <2> SUFFICES ASSUME NEW C \in SUBSET Contents, 0 \in C,
                      \A i \in DOMAIN t : p \in t[i].paths /\ t[i].from[p] \in C => t[i].to.files[p] \in C
               PROVE  x.to.files[p] \in C
    BY DEF Leads
  <2>1. x.from[p] \in C
    BY <1>1, <1>3 DEF Leads
  <2>2. QED
    BY <1>1, <2>1
<1>4. ASSUME NEW p, NEW c, p \notin x.paths, Leads(t, p, c) PROVE Leads(s, p, c)
  BY <1>1, <1>4 DEF Leads
<1>5. QED
  BY <1>2, <1>3, <1>4 DEF t

\* What leads to a change leads past it.
LEMMA LeadsPast ==
  ASSUME NEW s, NEW i \in DOMAIN s, NEW p \in s[i].paths, Leads(s, p, s[i].from[p])
  PROVE  Leads(s, p, s[i].to.files[p])
BY DEF Leads

\* What follows from the first content is the first, or was told by a proposal.
LEMMA LeadsTold ==
  ASSUME ProposalEngineAssumption, NEW s \in Seq(Proposal), NEW p \in Paths, NEW c \in Contents, c # 0, Leads(s, p, c)
  PROVE  \E i \in DOMAIN s : p \in s[i].paths /\ s[i].to.files[p] = c
<1> SUFFICES ASSUME \A i \in DOMAIN s : ~(p \in s[i].paths /\ s[i].to.files[p] = c)
             PROVE  FALSE
  OBVIOUS
<1>1. 0 \in Contents
  BY DEF Contents, ProposalEngineAssumption
<1>2. \A i \in DOMAIN s : s[i].to.files[p] \in Contents
  <2>1. \A i \in DOMAIN s : s[i] \in Proposal
    OBVIOUS
  <2>2. \A x \in Proposal : x.to.files \in Files
    BY DEF Proposal, Snapshot
  <2>3. QED
    BY <2>1, <2>2, ContentsAre
<1>3. \A C \in SUBSET Contents :
        0 \in C /\ (\A i \in DOMAIN s : p \in s[i].paths /\ s[i].from[p] \in C => s[i].to.files[p] \in C) => c \in C
  BY DEF Leads
<1>4. Contents \ {c} \in SUBSET Contents /\ 0 \in Contents \ {c}
  BY <1>1
<1>5. c \in Contents \ {c}
  BY <1>2, <1>3, <1>4
<1>6. QED
  BY <1>5

LEMMA StepLeads ==
  ASSUME Types, Phases, [Next]_vars
  PROVE  \A p, c : Leads(proposals, p, c) => Leads(proposals', p, c)
<1>1. proposals \in Seq(Proposal)
  BY DEF Types, StoreOK
<1>2. UNCHANGED proposals \/ \E x \in Proposal : proposals' = Append(proposals, x)
  BY Leaves, GapRecorded, OperationRecorded, WindowRecorded
<1>3. CASE UNCHANGED proposals
  BY <1>3
<1>4. ASSUME NEW x \in Proposal, proposals' = Append(proposals, x), NEW p, NEW c, Leads(proposals, p, c)
      PROVE  Leads(proposals', p, c)
  BY <1>1, <1>4, LeadsMore
<1>5. QED
  BY <1>2, <1>3, <1>4

-----------------------------------------------------------------------------
(* Nothing is lost: the invariant                                          *)

InPlan(p) == \E i \in DOMAIN window.plan : p \in window.plan[i].paths
HeldInPlan(p) == \E i \in DOMAIN window.plan : p \in window.plan[i].paths /\ window.plan[i].source = "Interactive"

\* Every change that is recorded starts at a content the history leads to; so
\* do reviews, the burst of held changes, and what a window is yet to record.
Sourced ==
  \A i \in DOMAIN proposals : \A p \in proposals[i].paths :
    p \notin forgotten => Leads(proposals, p, proposals[i].from[p])

Heard ==
  /\ \A a \in announced : a.path \notin forgotten => Leads(proposals, a.path, a.content)
  /\ \A p \in DOMAIN notes.expected : p \notin forgotten => Leads(proposals, p, notes.expected[p])

BurstLeads ==
  notes.burst # Nothing => \A p \in Paths : p \notin forgotten => Leads(proposals, p, notes.burst[p])

PlanLeads ==
  \A i \in DOMAIN window.plan : \A p \in window.plan[i].paths :
    p \notin forgotten => Leads(proposals, p, window.plan[i].from[p])

\* What a window read follows from the history, but where changes are held or
\* still to be recorded; and so does the baseline, where none are held.
ResultLeads ==
  pc = "record" => \A p \in Paths :
    p \notin forgotten \cup notes.interactive /\ ~InPlan(p) => Leads(proposals, p, window.result[p])

BaseLeads ==
  pc # "recover" /\ Newer = {} => \A p \in Paths :
    p \notin forgotten \cup notes.interactive /\ ~HeldInPlan(p) =>
      Leads(proposals, p, base.files[p]) /\ Leads(proposals, p, baseline.files[p])

RecoveredLeads ==
  pc = "recover" => \A p \in Paths : p \notin forgotten => Leads(proposals, p, Recovered.files[p])

\* What is held is not being recorded.
Apart == \A i \in DOMAIN window.plan : window.plan[i].paths \cap notes.interactive = {}

\* Where the baseline of a held path was never recorded, the disk did not go
\* back to a content that was: only a review puts an old content back, and it
\* starts from a recorded one.
Unwritten(p, c) == Leads(proposals, p, c) \/ ~Leads(proposals, p, disk[p])

Untold ==
  \A p \in notes.interactive : p \notin forgotten =>
    Unwritten(p, base.files[p]) /\ (pc = "record" => Unwritten(p, window.result[p]))

Basics == Types /\ Phases /\ Held /\ Ordered /\ InStep /\ Evidenced /\ Past

Lossless ==
  /\ Sourced /\ Heard /\ BurstLeads /\ PlanLeads /\ ResultLeads /\ BaseLeads /\ RecoveredLeads
  /\ Apart /\ Untold

LEMMA RecordLeads ==
  ASSUME Types, NEW x \in Proposal, proposals' = Append(proposals, x)
  PROVE  /\ \A p, c : Leads(proposals, p, c) => Leads(proposals', p, c)
         /\ \A p \in x.paths : Leads(proposals, p, x.from[p]) => Leads(proposals', p, x.to.files[p])
         /\ \A p, c : p \notin x.paths => (Leads(proposals', p, c) <=> Leads(proposals, p, c))
         /\ \A i \in DOMAIN proposals : i \in DOMAIN proposals' /\ proposals'[i] = proposals[i]
         /\ \A i \in DOMAIN proposals' : i \in DOMAIN proposals \/ (proposals'[i] = x /\ i = Len(proposals) + 1)
         /\ DOMAIN proposals = 1 .. Len(proposals) /\ Len(proposals) \in Nat
         /\ Len(proposals) + 1 \in DOMAIN proposals' /\ proposals'[Len(proposals) + 1] = x
<1>1. proposals \in Seq(Proposal)
  BY DEF Types, StoreOK
<1>2. QED
  BY <1>1, LeadsMore, OneMore

\* The path of the operation that is consumed is not held, and the baseline of
\* it is recorded, or forgotten.
LEMMA OperationLeads ==
  ASSUME Basics, Lossless, Consuming
  PROVE  /\ Operation \in journal /\ Operation.path \in Paths /\ Newer = {}
         /\ \A p \in Paths : ~InPlan(p) /\ ~HeldInPlan(p)
         /\ Operation.path \notin forgotten =>
              /\ Operation.path \notin notes.interactive
              /\ Leads(proposals, Operation.path, base.files[Operation.path])
<1>1. Operation \in window.pending /\ Operation \in WriteEvidence
  BY OperationPends DEF Basics, Types, LoopOK, Consuming
<1>2. Operation \in journal /\ Operation.path \in Paths /\ Operation.path \in window.evidenced
  BY <1>1 DEF Basics, Phases, Held, WriteEvidence
<1>3. Newer = {} /\ window.plan = <<>>
  BY DEF Basics, Ordered, Phases, Consuming
<1>4. \A p \in Paths : ~InPlan(p) /\ ~HeldInPlan(p)
  BY <1>3 DEF InPlan, HeldInPlan
<1>5. Operation.path \notin forgotten => Operation.path \notin notes.interactive
  BY <1>2 DEF Basics, Held
<1>6. QED
  BY <1>2, <1>3, <1>4, <1>5 DEF Lossless, BaseLeads, Consuming

\* A window reads held changes as they are on the disk.
LEMMA BurstIs ==
  ASSUME Types, Held, NEW p \in notes.interactive
  PROVE  p \in Paths /\ Read[p] = disk[p] /\ Since = notes.burst /\ notes.burst # Nothing
<1>1. p \in Paths
  BY DEF Types, LoopOK, Notes
<1>2. notes.burst \in Files
  BY DEF Held
<1>3. notes.burst # Nothing
  BY <1>1, <1>2 DEF Files, Nothing
<1>4. QED
  BY <1>1, <1>3, ReadIs DEF Since

\* What the plan of a window says.
LEMMA WindowPlans ==
  ASSUME Types, Held, Scan
  PROVE  LET quiet == Read = base.files /\ Read = Since
         IN  /\ window'.result = Read
             /\ pc' = IF quiet THEN "close" ELSE "record"
             /\ notes'.interactive = IF quiet THEN {} ELSE Coalescing
             /\ \A i \in DOMAIN window'.plan :
                  \/ window'.plan[i] = [source |-> "Interactive", from |-> Since, paths |-> Settled]
                  \/ window'.plan[i] = [source |-> "Ambient", from |-> base.files, paths |-> AgentPaths]
             /\ quiet => window'.plan = <<>>
             /\ ~quiet => \A p \in Settled : \E i \in DOMAIN window'.plan :
                  window'.plan[i] = [source |-> "Interactive", from |-> Since, paths |-> Settled]
             /\ ~quiet => \A p \in AgentPaths : \E i \in DOMAIN window'.plan :
                  window'.plan[i] = [source |-> "Ambient", from |-> base.files, paths |-> AgentPaths]
<1> DEFINE plan == Planned("Interactive", Since, Settled) \o Planned("Ambient", base.files, AgentPaths)
           quiet == Read = base.files /\ Read = Since
<1>1. base.files \in Files /\ window \in Window
  BY DEF Types, StoreOK, Baseline, LoopOK
<1>2. PlanSays(plan, Since, Settled, base.files, AgentPaths)
  <2>1. Since \in Files /\ Settled \in SUBSET Paths /\ AgentPaths \in SUBSET Paths
    BY ScanPlans
  <2>2. base.files \in Files
    BY <1>1
  <2> HIDE DEF quiet
  <2>3. QED
    BY <2>1, <2>2, PlannedSays
<1>3. window' = [window EXCEPT !.result = Read, !.plan = IF quiet THEN <<>> ELSE plan]
  BY DEF Scan
<1>4. /\ pc' = IF quiet THEN "close" ELSE "record"
      /\ notes'.interactive = IF quiet THEN {} ELSE Coalescing
  BY DEF Scan, Fresh
<1> HIDE DEF plan, quiet
<1>5. window'.result = Read /\ window'.plan = IF quiet THEN <<>> ELSE plan
  BY <1>1, <1>3 DEF Window
<1>6. CASE quiet
  BY <1>4, <1>5, <1>6 DEF quiet
<1>7. CASE ~quiet
  <2>1. window'.plan = plan
    BY <1>5, <1>7
  <2>2. QED
    BY <1>2, <1>4, <1>5, <1>7, <2>1 DEF quiet, PlanSays
<1>8. QED
  BY <1>6, <1>7

LEMMA SourcedStep ==
  ASSUME ProposalEngineAssumption, Basics, Lossless, [Next]_vars
  PROVE  Sourced'
<1> USE DEF Basics
<1>1. forgotten \subseteq forgotten'
  BY Leaves
<1>2. ASSUME NEW x \in Proposal, proposals' = Append(proposals, x),
             \A p \in x.paths : p \notin forgotten => Leads(proposals, p, x.from[p])
      PROVE  Sourced'
  <2>1. ASSUME NEW i \in DOMAIN proposals', NEW p \in proposals'[i].paths, p \notin forgotten
        PROVE  Leads(proposals', p, proposals'[i].from[p])
    <3>1. CASE i \in DOMAIN proposals
      BY <1>2, <2>1, <3>1, RecordLeads DEF Lossless, Sourced
    <3>2. CASE proposals'[i] = x
      BY <1>2, <2>1, <3>2, RecordLeads
    <3>3. QED
      BY <1>2, <3>1, <3>2, RecordLeads
  <2>2. QED
    BY <1>1, <2>1 DEF Sourced
<1>3. CASE RecordGap
  <2>1. GapRecord.paths = {Operation.path} /\ GapRecord.from = base.files
    BY DEF GapRecord
  <2>2. Consuming
    BY <1>3 DEF RecordGap
  <2>3. QED
    BY <1>2, <1>3, <2>1, <2>2, GapRecorded, OperationLeads
<1>4. CASE RecordOperation
  <2>1. OperationRecord.paths = {Operation.path}
    BY DEF OperationRecord
  <2>2. Consuming
    BY <1>4 DEF RecordOperation
  <2>3. QED
    BY <1>2, <1>4, <2>1, <2>2, OperationRecorded, OperationLeads
<1>5. CASE Record
  <2>1. /\ WindowRecord(Head(window.plan)).paths = window.plan[1].paths
        /\ WindowRecord(Head(window.plan)).from = window.plan[1].from
        /\ 1 \in DOMAIN window.plan
    BY <1>5, WindowRecorded DEF WindowRecord
  <2>2. QED
    BY <1>2, <1>5, <2>1, WindowRecorded DEF Lossless, PlanLeads
<1>6. CASE UNCHANGED proposals
  BY <1>1, <1>6 DEF Lossless, Sourced
<1>7. QED
  BY <1>3, <1>4, <1>5, <1>6, Leaves

LEMMA HeardStep ==
  ASSUME ProposalEngineAssumption, Basics, Lossless, [Next]_vars
  PROVE  Heard'
<1> USE DEF Basics
<1>1. forgotten \subseteq forgotten' /\ \A p, c : Leads(proposals, p, c) => Leads(proposals', p, c)
  BY Leaves, StepLeads
<1>2. ASSUME NEW a \in announced', a.path \notin forgotten PROVE Leads(proposals, a.path, a.content)
  <2>1. CASE a \in announced
    BY <1>2, <2>1 DEF Lossless, Heard
  <2>2. ASSUME NEW p \in Paths, Restore(p), a \notin announced PROVE Leads(proposals, a.path, a.content)
    <3>1. PICK i \in DOMAIN proposals : p \in proposals[i].paths /\ a = [path |-> p, content |-> proposals[i].from[p]]
      BY <2>2 DEF Restore
    <3>2. QED
      BY <1>2, <3>1 DEF Lossless, Sourced
  <2>3. QED
    BY <2>1, <2>2, Leaves
<1>3. ASSUME NEW p \in DOMAIN notes'.expected, p \notin forgotten PROVE Leads(proposals, p, notes'.expected[p])
  <2>1. ASSUME NEW a \in announced, HearReview(a) PROVE Leads(proposals, p, notes'.expected[p])
    <3> DEFINE new == [q \in DOMAIN notes.expected \cup {a.path} |->
                         IF q = a.path THEN a.content ELSE notes.expected[q]]
    <3>1. notes' = [notes EXCEPT !.expected = new]
      BY <2>1 DEF HearReview
    <3>2. p \in DOMAIN new => \/ (p = a.path /\ new[p] = a.content)
                             \/ (p \in DOMAIN notes.expected /\ new[p] = notes.expected[p])
      OBVIOUS
    <3> HIDE DEF new
    <3>3. notes'.expected = new
      BY <3>1 DEF Types, LoopOK, Notes
    <3>4. QED
      BY <1>3, <3>2, <3>3 DEF Lossless, Heard
  <2>2. CASE Scan \/ Stopping
    <3>1. notes'.expected = Nothing
      <4>1. Scan => notes'.expected = Nothing
        BY DEF Scan, Fresh
      <4>2. Stopping => notes'.expected = Nothing
        BY DEF Stopping, Stop, Fresh
      <4>3. QED
        BY <2>2, <4>1, <4>2
    <3>2. QED
      BY <3>1 DEF Nothing
  <2>3. CASE UNCHANGED notes.expected
    BY <1>3, <2>3 DEF Lossless, Heard
  <2>4. QED
    BY <2>1, <2>2, <2>3, Leaves
<1>4. QED
  BY <1>1, <1>2, <1>3 DEF Heard

LEMMA BurstStep ==
  ASSUME ProposalEngineAssumption, Basics, Lossless, [Next]_vars
  PROVE  BurstLeads'
<1> USE DEF Basics
<1>1. forgotten \subseteq forgotten' /\ \A p, c : Leads(proposals, p, c) => Leads(proposals', p, c)
  BY Leaves, StepLeads
<1>2. ASSUME NEW p \in Paths, p \notin forgotten, notes'.burst # Nothing PROVE Leads(proposals, p, notes'.burst[p])
  <2>1. CASE notes'.burst = notes.burst
    BY <1>2, <2>1 DEF Lossless, BurstLeads
  <2>2. ASSUME NEW q \in Paths, HearSurface(q), notes.burst = Nothing PROVE Leads(proposals, p, notes'.burst[p])
    <3>1. notes'.burst = base.files /\ pc = "wait"
      BY <2>2 DEF HearSurface, Types, LoopOK, Notes
    <3>2. notes.interactive = {}
      BY <2>2, BurstIs
    <3>3. Newer = {} /\ ~HeldInPlan(p)
      BY <3>1 DEF Ordered, Phases, HeldInPlan
    <3>4. QED
      BY <1>2, <3>1, <3>2, <3>3 DEF Lossless, BaseLeads
  <2>3. ASSUME NEW q \in Paths, HearSurface(q), notes.burst # Nothing PROVE notes'.burst = notes.burst
    BY <2>3 DEF HearSurface, Types, LoopOK, Notes
  <2>4. CASE EndEvidence \/ Scan \/ Stopping
    <3>1. notes'.burst \in {notes.burst, Nothing}
      <4>1. EndEvidence => notes'.burst = notes.burst
        BY DEF EndEvidence, Types, LoopOK, Notes
      <4>2. Scan => notes'.burst = Nothing \/ notes'.burst = notes.burst
        BY DEF Scan, Fresh
      <4>3. Stopping => notes'.burst = Nothing
        BY DEF Stopping, Stop, Fresh
      <4>4. QED
        BY <2>4, <4>1, <4>2, <4>3
    <3>2. QED
      BY <1>2, <2>1, <3>1
  <2>5. QED
    BY <2>1, <2>2, <2>3, <2>4, Leaves
<1>3. QED
  BY <1>1, <1>2 DEF BurstLeads

LEMMA PlanLeadsStep ==
  ASSUME ProposalEngineAssumption, Basics, Lossless, [Next]_vars
  PROVE  PlanLeads'
<1> USE DEF Basics
<1>1. forgotten \subseteq forgotten' /\ \A p, c : Leads(proposals, p, c) => Leads(proposals', p, c)
  BY Leaves, StepLeads
<1>2. ASSUME NEW i \in DOMAIN window'.plan, NEW p \in window'.plan[i].paths, p \notin forgotten
      PROVE  Leads(proposals, p, window'.plan[i].from[p])
  <2>1. CASE Scan
    <3>1. CASE window'.plan[i] = [source |-> "Interactive", from |-> Since, paths |-> Settled]
      <4>1. p \in notes.interactive
        BY <1>2, <3>1 DEF Settled
      <4>2. QED
        BY <1>2, <3>1, <4>1, BurstIs DEF Lossless, BurstLeads
    <3>2. CASE window'.plan[i] = [source |-> "Ambient", from |-> base.files, paths |-> AgentPaths]
      <4>1. p \in Paths /\ p \notin notes.interactive
        BY <1>2, <3>2 DEF AgentPaths, Changed
      <4>2. Newer = {} /\ ~HeldInPlan(p) /\ pc # "recover"
        BY <2>1 DEF Ordered, Phases, HeldInPlan, Scan
      <4>3. QED
        BY <1>2, <3>2, <4>1, <4>2 DEF Lossless, BaseLeads
    <3>3. QED
      BY <2>1, <3>1, <3>2, WindowPlans
  <2>2. CASE Record
    BY <1>2, <2>2, WindowRecorded DEF Lossless, PlanLeads
  <2>3. CASE Close \/ Stopping
    BY <1>2, <2>3 DEF Close, Stopping, Stop, Unread
  <2>4. CASE UNCHANGED <<window.plan, window.result>>
    BY <1>2, <2>4 DEF Lossless, PlanLeads
  <2>5. QED
    BY <2>1, <2>2, <2>3, <2>4, Leaves
<1>3. QED
  BY <1>1, <1>2 DEF PlanLeads

LEMMA ApartStep ==
  ASSUME ProposalEngineAssumption, Basics, Lossless, [Next]_vars
  PROVE  Apart'
<1> USE DEF Basics
<1>1. CASE Scan
  <2>1. ASSUME NEW i \in DOMAIN window'.plan, NEW p \in window'.plan[i].paths PROVE p \notin notes'.interactive
    <3>1. p \in Settled \/ p \in AgentPaths
      BY <1>1, <2>1, WindowPlans
    <3>2. p \notin Coalescing
      BY <3>1 DEF Settled, AgentPaths, Coalescing
    <3>3. QED
      BY <1>1, <3>2, WindowPlans
  <2>2. QED
    BY <2>1 DEF Apart
<1>2. CASE Record
  <2>1. UNCHANGED notes
    BY <1>2 DEF Record
  <2>2. QED
    BY <1>2, <2>1, WindowRecorded DEF Lossless, Apart
<1>3. CASE Close \/ Stopping
  BY <1>3 DEF Close, Stopping, Stop, Unread, Apart
<1>4. ASSUME NEW p \in Paths, HearSurface(p) PROVE Apart'
  BY <1>4 DEF HearSurface, Phases, Unread, Apart
<1>5. CASE UNCHANGED <<window.plan, window.result>> /\ EndEvidence
  <2>1. notes'.interactive \subseteq notes.interactive
    BY <1>5 DEF EndEvidence, Types, LoopOK, Notes
  <2>2. QED
    BY <1>5, <2>1 DEF Lossless, Apart
<1>6. CASE UNCHANGED <<window.plan, window.result>> /\ UNCHANGED <<notes.interactive, notes.fresh, notes.burst>>
  BY <1>6 DEF Lossless, Apart
<1>7. QED
  BY <1>1, <1>2, <1>3, <1>4, <1>5, <1>6, Leaves

\* What a window finds follows from the history, or is planned.
LEMMA ScanLeads ==
  ASSUME Basics, Lossless, Scan, NEW p \in Paths, p \notin forgotten
  PROVE  /\ Newer = {} /\ base.files = baseline.files /\ ~HeldInPlan(p) /\ pc = "scan"
         /\ p \notin notes.interactive => Leads(proposals, p, base.files[p])
         /\ p \notin notes.interactive /\ p \notin AgentPaths => Leads(proposals, p, Read[p])
         /\ p \in notes.interactive /\ Read = Since => Leads(proposals, p, Read[p])
         /\ p \in notes.interactive /\ p \notin Coalescing /\ p \notin Settled => Leads(proposals, p, Read[p])
<1> USE DEF Basics
<1>1. pc = "scan" /\ Newer = {} /\ base.files = baseline.files /\ ~HeldInPlan(p)
  BY DEF Scan, Ordered, InStep, Consuming, Phases, HeldInPlan
<1>2. p \notin notes.interactive => Leads(proposals, p, base.files[p])
  BY <1>1 DEF Lossless, BaseLeads
<1>3. Restored(p) => Leads(proposals, p, Read[p])
  BY DEF Restored, Lossless, Heard
<1>4. p \in notes.interactive => Leads(proposals, p, Since[p])
  BY BurstIs DEF Lossless, BurstLeads
<1>5. p \notin notes.interactive /\ p \notin AgentPaths => Restored(p) \/ Read[p] = base.files[p]
  BY DEF AgentPaths, Changed
<1>6. p \in notes.interactive /\ p \notin Coalescing /\ p \notin Settled => Restored(p) \/ Read[p] = Since[p]
  BY DEF Settled, Changed
<1>7. QED
  BY <1>1, <1>2, <1>3, <1>4, <1>5, <1>6

LEMMA ResultStep ==
  ASSUME ProposalEngineAssumption, Basics, Lossless, [Next]_vars
  PROVE  ResultLeads'
<1> USE DEF Basics
<1>1. forgotten \subseteq forgotten' /\ \A p, c : Leads(proposals, p, c) => Leads(proposals', p, c)
  BY Leaves, StepLeads
<1>2. ASSUME Scan, NEW p \in Paths, p \notin forgotten, pc' = "record", p \notin notes'.interactive, ~InPlan(p)'
      PROVE  Leads(proposals, p, window'.result[p])
  <2>1. window'.result = Read /\ notes'.interactive = Coalescing
    BY <1>2, WindowPlans
  <2>2. p \notin Settled /\ p \notin AgentPaths
    BY <1>2, WindowPlans DEF InPlan
  <2>3. QED
    BY <1>2, <2>1, <2>2, ScanLeads
<1>3. ASSUME Record, NEW p \in Paths, p \notin forgotten, pc = "record", p \notin notes.interactive, ~InPlan(p)'
      PROVE  Leads(proposals', p, window'.result[p])
  <2> DEFINE x == WindowRecord(Head(window.plan))
  <2>1. /\ x \in Proposal /\ proposals' = Append(proposals, x) /\ x.from = window.plan[1].from
        /\ x.paths = window.plan[1].paths /\ 1 \in DOMAIN window.plan /\ x.to.files = window.result
        /\ window'.result = window.result
    BY <1>3, WindowRecorded DEF WindowRecord
  <2> HIDE DEF x
  <2>2. CASE p \in x.paths
    <3>1. Leads(proposals, p, x.from[p])
      BY <1>3, <2>1, <2>2 DEF Lossless, PlanLeads
    <3>2. QED
      BY <2>1, <2>2, <3>1, RecordLeads
  <2>3. CASE p \notin x.paths
    <3>1. ~InPlan(p)
      BY <1>3, <2>1, <2>3, WindowRecorded DEF InPlan
    <3>2. QED
      BY <1>1, <1>3, <2>1, <3>1 DEF Lossless, ResultLeads
  <2>4. QED
    BY <2>2, <2>3
<1>4. CASE Scan
  BY <1>1, <1>2, <1>4 DEF ResultLeads
<1>5. CASE Record
  <2>1. UNCHANGED <<pc, notes, forgotten>>
    BY <1>5 DEF Record, ghosts
  <2>2. QED
    BY <1>3, <1>5, <2>1 DEF ResultLeads
<1>6. CASE WriterStep \/ UNCHANGED vars
  BY <1>1, <1>6, WritersLeaveNotes DEF Lossless, ResultLeads, InPlan
<1>7. CASE ListenStep
  <2>1. pc = "record" => notes'.interactive = notes.interactive
    BY <1>7, ListenersLeaveNotes DEF HearSurface
  <2>2. QED
    BY <1>1, <1>7, <2>1, ListenersLeaveNotes DEF Lossless, ResultLeads, InPlan
<1>8. CASE EvidenceStep
  BY <1>8, EvidenceLeavesNotes DEF ResultLeads
<1>9. CASE Adopt \/ Close \/ Recover \/ Idle \/ Stopping
  BY <1>9 DEF Adopt, Close, Recover, Idle, Stopping, Stop, ResultLeads
<1>10. QED
  BY <1>4, <1>5, <1>6, <1>7, <1>8, <1>9, StepIs DEF WindowStep, Stopping

\* A restart takes for accounted what the history leads to, but for what was
\* at risk.
LEMMA RecoveryLeads ==
  ASSUME Basics, Lossless
  PROVE  \A p \in Paths : p \notin forgotten \cup AtRisk => Leads(proposals, p, Recovered.files[p])
<1> USE DEF Basics
<1> SUFFICES ASSUME NEW p \in Paths, p \notin forgotten \cup AtRisk
             PROVE  Leads(proposals, p, Recovered.files[p])
  OBVIOUS
<1>1. p \notin notes.interactive /\ ~HeldInPlan(p) /\ (Newer # {} => ~InPlan(p))
  BY NewerRecovers DEF AtRisk, HeldInPlan, InPlan
<1>2. CASE pc = "recover"
  BY <1>2 DEF Lossless, RecoveredLeads
<1>3. CASE pc # "recover" /\ Newer = {}
  BY <1>1, <1>3, NewerRecovers DEF Lossless, BaseLeads
<1>4. CASE pc # "recover" /\ Newer # {}
  <2>1. pc = "record" /\ \A i \in Newer : proposals[i].to.files = window.result
    BY <1>4 DEF Ordered
  <2>2. Recovered.files = window.result
    BY <1>4, <2>1, NewerRecovers
  <2>3. QED
    BY <1>1, <1>4, <2>1, <2>2 DEF Lossless, ResultLeads
<1>5. QED
  BY <1>2, <1>3, <1>4

LEMMA RecoveredStep ==
  ASSUME ProposalEngineAssumption, Basics, Lossless, [Next]_vars
  PROVE  RecoveredLeads'
<1> USE DEF Basics
<1>1. ASSUME UNCHANGED <<proposals, baseline>> PROVE Recovered' = Recovered
  BY <1>1 DEF Recovered, Unadvanced
<1>2. CASE WriterStep \/ ListenStep \/ UNCHANGED vars
  <2>1. UNCHANGED <<proposals, baseline, pc, forgotten>>
    BY <1>2, WritersLeaveNotes, ListenersLeaveNotes
  <2>2. QED
    BY <1>1, <2>1 DEF Lossless, RecoveredLeads
<1>3. CASE Stopping
  <2>1. UNCHANGED <<proposals, baseline>> /\ forgotten' = forgotten \cup AtRisk
    BY <1>3 DEF Stopping, Stop, store
  <2>2. QED
    BY <1>1, <2>1, RecoveryLeads DEF RecoveredLeads
<1>4. CASE EvidenceStep
  BY <1>4, EvidenceLeavesNotes DEF RecoveredLeads
<1>5. CASE Scan \/ Record \/ Adopt \/ Close \/ Recover \/ Idle
  BY <1>5 DEF Scan, Record, Adopt, Close, Recover, Idle, RecoveredLeads
<1>6. QED
  BY <1>2, <1>3, <1>4, <1>5, StepIs DEF WindowStep, Stopping

LEMMA BaseStep ==
  ASSUME ProposalEngineAssumption, Basics, Lossless, [Next]_vars
  PROVE  BaseLeads'
<1> USE DEF Basics
<1>1. forgotten \subseteq forgotten' /\ \A p, c : Leads(proposals, p, c) => Leads(proposals', p, c)
  BY Leaves, StepLeads
<1>2. CASE WriterStep \/ UNCHANGED vars
  <2>1. UNCHANGED <<proposals, base, baseline, notes, window, pc, forgotten>>
    BY <1>2, WritersLeaveNotes
  <2>2. Newer' = Newer
    BY <2>1 DEF Newer
  <2>3. QED
    BY <2>1, <2>2 DEF Lossless, BaseLeads, HeldInPlan
<1>3. CASE ListenStep
  <2>1. UNCHANGED <<proposals, base, baseline, window, pc, forgotten>>
    BY <1>3, ListenersLeaveNotes
  <2>2. Newer' = Newer
    BY <2>1 DEF Newer
  <2>3. \A q \in Paths : HearSurface(q) => notes.interactive \subseteq notes'.interactive
    BY DEF HearSurface, Types, LoopOK, Notes
  <2>4. notes.interactive \subseteq notes'.interactive
    BY <1>3, <2>3, ListenersLeaveNotes
  <2>5. QED
    BY <2>1, <2>2, <2>4 DEF Lossless, BaseLeads, HeldInPlan
<1>4. ASSUME EvidenceStep, NEW p \in Paths, p \notin forgotten' \cup notes'.interactive
      PROVE  Leads(proposals, p, base.files[p]) /\ Leads(proposals, p, baseline.files[p])
  <2>1. pc # "recover" /\ Newer = {} /\ ~HeldInPlan(p)
    BY <1>4, EvidenceLeavesNotes DEF Ordered, Phases, HeldInPlan
  <2>2. EndEvidence => notes.interactive \ window.evidenced \subseteq notes'.interactive
    BY DEF EndEvidence, Types, LoopOK, Notes
  <2>3. p \notin notes.interactive
    BY <1>1, <1>4, <2>2, EvidenceLeavesNotes DEF Held
  <2>4. QED
    BY <1>1, <1>4, <2>1, <2>3 DEF Lossless, BaseLeads
<1>5. CASE RecordGap
  <2>1. baseline' = baseline /\ Consuming /\ GapRecord.paths = {Operation.path} /\ GapRecord.from = base.files
    BY <1>5 DEF RecordGap, GapRecord
  <2>2. ASSUME NEW p \in Paths, p \notin forgotten' \cup notes'.interactive
        PROVE  Leads(proposals', p, base'.files[p]) /\ Leads(proposals', p, baseline'.files[p])
    <3>1. Leads(proposals, p, base.files[p]) /\ Leads(proposals, p, baseline.files[p])
      BY <1>4, <1>5, <2>2 DEF EvidenceStep
    <3>2. CASE p = Operation.path
      BY <1>1, <1>5, <2>1, <3>1, <3>2, GapRecorded, RecordLeads
    <3>3. CASE p # Operation.path
      BY <1>1, <1>5, <2>1, <3>1, <3>3, GapRecorded
    <3>4. QED
      BY <3>2, <3>3
  <2>3. QED
    BY <2>2 DEF BaseLeads
<1>6. CASE AdoptOperation
  <2>1. /\ Consuming /\ ~HasGap /\ UNCHANGED proposals /\ Operation.id \in Recorded /\ baseline' = base'
        /\ base' = [base EXCEPT !.files[Operation.path] = Operation.after, !.checkpoint = Operation.id]
    BY <1>6 DEF AdoptOperation
  <2>2. base.files \in Files /\ base'.files = [base.files EXCEPT ![Operation.path] = Operation.after]
    BY <2>1 DEF Types, StoreOK, Baseline
  <2>3. ASSUME NEW p \in Paths, p \notin forgotten' \cup notes'.interactive
        PROVE  Leads(proposals, p, base'.files[p])
    <3>1. CASE p = Operation.path
      <4>1. PICK i \in DOMAIN proposals : proposals[i].op = Operation.id
        BY <2>1 DEF Recorded
      <4>2. Operation \in journal
        BY <2>1, OperationLeads
      <4>3. p \in proposals[i].paths /\ proposals[i].to.files[p] = Operation.after
        BY <3>1, <4>1, <4>2 DEF Evidenced
      <4>4. Leads(proposals, p, proposals[i].from[p])
        BY <1>1, <2>3, <4>3 DEF Lossless, Sourced
      <4>5. Leads(proposals, p, Operation.after)
        BY <4>3, <4>4, LeadsPast
      <4>6. QED
        BY <2>2, <3>1, <4>5 DEF Files
    <3>2. CASE p # Operation.path
      BY <1>4, <1>6, <2>2, <2>3, <3>2 DEF EvidenceStep, Files
    <3>3. QED
      BY <3>1, <3>2
  <2>4. QED
    BY <2>1, <2>3 DEF BaseLeads
<1>7. CASE EvidenceStep /\ ~RecordGap /\ ~AdoptOperation
  BY <1>1, <1>4, <1>7, EvidenceLeavesNotes DEF BaseLeads
<1>8. CASE Scan
  <2>1. UNCHANGED <<proposals, base, baseline>>
    BY <1>8 DEF Scan, store
  <2>2. ASSUME NEW p \in Paths, p \notin forgotten, p \notin notes'.interactive, ~HeldInPlan(p)'
        PROVE  Leads(proposals, p, base.files[p])
    <3>1. CASE p \notin notes.interactive
      BY <1>8, <2>2, <3>1, ScanLeads
    <3>2. CASE p \in notes.interactive
      <4>1. CASE Read = base.files /\ Read = Since
        BY <1>8, <2>2, <3>2, <4>1, ScanLeads
      <4>2. CASE ~(Read = base.files /\ Read = Since)
        <5>1. p \notin Coalescing /\ p \notin Settled
          BY <1>8, <2>2, <4>2, WindowPlans DEF HeldInPlan
        <5>2. Leads(proposals, p, disk[p])
          BY <1>8, <2>2, <3>2, <5>1, ScanLeads, BurstIs
        <5>3. QED
          BY <2>2, <3>2, <5>2 DEF Lossless, Untold, Unwritten
      <4>3. QED
        BY <4>1, <4>2
    <3>3. QED
      BY <3>1, <3>2
  <2>3. QED
    BY <1>1, <1>8, <2>1, <2>2, ScanLeads DEF BaseLeads
<1>9. CASE Record
  <2> DEFINE x == WindowRecord(Head(window.plan))
  <2>1. x \in Proposal /\ proposals' = Append(proposals, x) /\ x.to.at = base.at + 1
    BY <1>9, WindowRecorded DEF WindowRecord
  <2>2. baseline' = baseline /\ base.at = baseline.at /\ baseline.at \in Nat
    BY <1>9 DEF Record, InStep, Types, StoreOK, Baseline
  <2> HIDE DEF x
  <2>3. Len(proposals) + 1 \in Newer'
    BY <2>1, <2>2, RecordLeads DEF Newer
  <2>4. QED
    BY <2>3 DEF BaseLeads
<1>10. CASE Adopt
  <2>1. /\ UNCHANGED <<proposals, notes, forgotten>> /\ baseline' = base' /\ base'.files = window.result
        /\ pc = "record" /\ window.plan = <<>>
    BY <1>10 DEF Adopt, ghosts
  <2>2. \A p \in Paths : ~InPlan(p)
    BY <2>1 DEF InPlan
  <2>3. QED
    BY <2>1, <2>2 DEF Lossless, ResultLeads, BaseLeads
<1>11. CASE Close \/ Idle
  <2>1. /\ UNCHANGED <<proposals, notes, forgotten, base, baseline>> /\ pc # "recover" /\ pc # "record"
    BY <1>11 DEF Close, Idle, ghosts, store
  <2>2. Newer = {} /\ \A p \in Paths : ~HeldInPlan(p)
    BY <2>1 DEF Ordered, Phases, HeldInPlan
  <2>3. QED
    BY <2>1, <2>2 DEF Lossless, BaseLeads
<1>12. CASE Recover
  <2>1. UNCHANGED <<proposals, forgotten>> /\ pc = "recover" /\ base' = Recovered /\ baseline' = Recovered
    BY <1>12 DEF Recover, ghosts
  <2>2. QED
    BY <2>1 DEF Lossless, RecoveredLeads, BaseLeads
<1>13. CASE Stopping
  BY <1>13 DEF Stopping, Stop, BaseLeads
<1>14. QED
  BY <1>2, <1>3, <1>5, <1>6, <1>7, <1>8, <1>9, <1>10, <1>11, <1>12, <1>13, StepIs DEF WindowStep, Stopping

\* A new content was recorded by none.
LEMMA NewIsUntold ==
  ASSUME ProposalEngineAssumption, Basics, spent.made < MaxWrites, NEW p \in Paths
  PROVE  ~Leads(proposals, p, NewContent) /\ disk[p] \in Nat
<1> USE DEF Basics
<1>1. spent.made \in Nat /\ NewContent \in Contents /\ NewContent = spent.made + 1
  BY SpentMore, ContentsAre DEF Types, RestOK, Spent, NewContent
<1>2. \A i \in DOMAIN proposals : proposals[i].to.files[p] \in Nat /\ proposals[i].to.files[p] <= spent.made
  BY ProposalsAre, ContentsAre DEF Past, PastStore, Upto
<1>3. \A i \in DOMAIN proposals : proposals[i].to.files[p] # NewContent
  BY <1>1, <1>2
<1>4. NewContent # 0 /\ proposals \in Seq(Proposal)
  BY <1>1 DEF Types, StoreOK
<1>5. ~Leads(proposals, p, NewContent)
  BY <1>1, <1>3, <1>4, LeadsTold
<1>6. disk[p] \in Nat
  BY ContentsAre DEF Types, StoreOK
<1>7. QED
  BY <1>5, <1>6

LEMMA UntoldStep ==
  ASSUME ProposalEngineAssumption, Basics, Lossless, [Next]_vars
  PROVE  Untold'
<1> USE DEF Basics
<1>1. forgotten \subseteq forgotten' /\ notes.interactive \subseteq Paths /\ disk \in Files
  BY Leaves DEF Types, LoopOK, Notes, StoreOK
<1>2. CASE WriterStep \/ UNCHANGED vars
  <2>1. UNCHANGED <<proposals, base, notes, window, pc, forgotten>>
    BY <1>2, WritersLeaveNotes
  <2>2. ASSUME NEW p \in notes.interactive, p \notin forgotten, NEW c, Unwritten(p, c) PROVE Unwritten(p, c)'
    <3>1. ASSUME NEW q \in Paths, spent.made < MaxWrites, Written(q) PROVE Unwritten(p, c)'
      <4>1. CASE p = q
        <5>1. disk'[p] = NewContent
          BY <1>1, <3>1, <4>1 DEF Written, Files
        <5>2. QED
          BY <1>1, <2>1, <3>1, <5>1, NewIsUntold DEF Unwritten
      <4>2. CASE p # q
        <5>1. disk'[p] = disk[p]
          BY <1>1, <3>1, <4>2 DEF Written, Files
        <5>2. QED
          BY <2>1, <2>2, <5>1 DEF Unwritten
      <4>3. QED
        BY <4>1, <4>2
    <3>2. ASSUME NEW q \in Paths, Restore(q) PROVE Unwritten(p, c)'
      <4>1. PICK i \in DOMAIN proposals : /\ q \in proposals[i].paths /\ disk[q] = proposals[i].to.files[q]
                                          /\ disk' = [disk EXCEPT ![q] = proposals[i].from[q]]
        BY <3>2 DEF Restore
      <4>2. CASE p = q
        <5>1. Leads(proposals, p, disk[p])
          BY <2>2, <4>1, <4>2, LeadsPast DEF Lossless, Sourced
        <5>2. QED
          BY <2>1, <2>2, <5>1 DEF Unwritten
      <4>3. CASE p # q
        <5>1. disk'[p] = disk[p]
          BY <1>1, <4>1, <4>3 DEF Files
        <5>2. QED
          BY <2>1, <2>2, <5>1 DEF Unwritten
      <4>4. QED
        BY <4>2, <4>3
    <3>3. CASE UNCHANGED disk
      BY <2>1, <2>2, <3>3 DEF Unwritten
    <3>4. \/ UNCHANGED disk \/ (\E q \in Paths : Restore(q))
          \/ \E q \in Paths : spent.made < MaxWrites /\ Written(q)
      BY <1>2 DEF WriterStep, Write, ClientWrite, SurfaceWrite, ClientDone, OpenRun, FinishRun, vars
    <3>5. QED
      BY <3>1, <3>2, <3>3, <3>4
  <2>3. QED
    BY <2>1, <2>2 DEF Lossless, Untold
<1>3. ASSUME UNCHANGED <<proposals, disk>>, NEW p, NEW c, Unwritten(p, c) PROVE Unwritten(p, c)'
  BY <1>3 DEF Unwritten
<1>4. CASE ListenStep
  <2>1. UNCHANGED <<proposals, base, window, pc, forgotten, disk>>
    BY <1>4, ListenersLeaveNotes
  <2>2. ASSUME NEW q \in Paths, HearSurface(q) PROVE Untold'
    <3>1. pc = "wait" /\ notes'.interactive = notes.interactive \cup {q}
      BY <2>2 DEF HearSurface, Types, LoopOK, Notes
    <3>2. Newer = {} /\ ~HeldInPlan(q)
      BY <3>1 DEF Ordered, Phases, HeldInPlan
    <3>3. q \notin notes.interactive /\ q \notin forgotten => Unwritten(q, base.files[q])
      BY <3>1, <3>2 DEF Lossless, BaseLeads, Unwritten
    <3>4. \A p \in notes'.interactive : p \notin forgotten => Unwritten(p, base.files[p])
      BY <3>1, <3>3 DEF Lossless, Untold
    <3>5. QED
      BY <1>3, <2>1, <3>1, <3>4 DEF Untold
  <2>3. CASE UNCHANGED <<notes.interactive, notes.fresh, notes.burst>>
    BY <1>3, <2>1, <2>3 DEF Lossless, Untold
  <2>4. QED
    BY <1>4, <2>2, <2>3, ListenersLeaveNotes
<1>5. CASE EvidenceStep
  <2>1. disk' = disk /\ notes'.interactive \subseteq notes.interactive /\ pc' # "record"
    BY <1>5, EvidenceLeavesNotes DEF EndEvidence, Types, LoopOK, Notes
  <2>2. ASSUME NEW p \in notes.interactive, p \notin forgotten PROVE Unwritten(p, base.files[p])'
    <3>1. Unwritten(p, base.files[p]) /\ p \in Paths
      BY <1>1, <2>2 DEF Lossless, Untold
    <3>2. Consuming => p # Operation.path
      BY <2>2, OperationLeads
    <3>3. CASE RecordGap
      <4>1. Consuming /\ GapRecord.paths = {Operation.path}
        BY <3>3 DEF RecordGap, GapRecord
      <4>2. base'.files[p] = base.files[p] /\ p \notin GapRecord.paths
        BY <3>1, <3>2, <3>3, <4>1, GapRecorded
      <4>3. \A c : Leads(proposals', p, c) <=> Leads(proposals, p, c)
        BY <3>3, <4>2, GapRecorded, RecordLeads
      <4>4. QED
        BY <2>1, <3>1, <4>2, <4>3 DEF Unwritten
    <3>4. CASE RecordOperation
      <4>1. Consuming /\ OperationRecord.paths = {Operation.path} /\ base' = base
        BY <3>4 DEF RecordOperation, OperationRecord
      <4>2. p \notin OperationRecord.paths
        BY <3>2, <4>1
      <4>3. \A c : Leads(proposals', p, c) <=> Leads(proposals, p, c)
        BY <3>4, <4>2, OperationRecorded, RecordLeads
      <4>4. QED
        BY <2>1, <3>1, <4>1, <4>3 DEF Unwritten
    <3>5. CASE AdoptOperation
      <4>1. /\ Consuming /\ UNCHANGED proposals
            /\ base' = [base EXCEPT !.files[Operation.path] = Operation.after, !.checkpoint = Operation.id]
        BY <3>5 DEF AdoptOperation
      <4>2. base'.files = [base.files EXCEPT ![Operation.path] = Operation.after] /\ base.files \in Files
        BY <4>1 DEF Types, StoreOK, Baseline
      <4>3. base'.files[p] = base.files[p]
        BY <3>1, <3>2, <4>1, <4>2 DEF Files
      <4>4. QED
        BY <2>1, <3>1, <4>1, <4>3 DEF Unwritten
    <3>6. CASE UNCHANGED <<proposals, base>>
      BY <2>1, <3>1, <3>6 DEF Unwritten
    <3>7. QED
      BY <1>5, <3>3, <3>4, <3>5, <3>6, EvidenceLeavesNotes
  <2>3. QED
    BY <1>1, <2>1, <2>2 DEF Untold
<1>6. CASE Scan
  <2>1. UNCHANGED <<proposals, disk, base, forgotten>> /\ window'.result = Read
    BY <1>6, ScanPlans DEF Scan, outside, store
  <2>2. notes'.interactive \subseteq notes.interactive
    BY <1>6, WindowPlans DEF Coalescing
  <2>3. \A p \in notes.interactive : Unwritten(p, Read[p])
    BY BurstIs DEF Unwritten
  <2>4. QED
    BY <1>3, <2>1, <2>2, <2>3 DEF Lossless, Untold
<1>7. CASE Record
  <2> DEFINE x == WindowRecord(Head(window.plan))
  <2>1. /\ x \in Proposal /\ proposals' = Append(proposals, x) /\ x.paths = window.plan[1].paths
        /\ 1 \in DOMAIN window.plan /\ window'.result = window.result
    BY <1>7, WindowRecorded DEF WindowRecord
  <2>2. UNCHANGED <<disk, base, notes, pc, forgotten>>
    BY <1>7 DEF Record, outside, ghosts
  <2> HIDE DEF x
  <2>3. ASSUME NEW p \in notes.interactive, NEW c, Unwritten(p, c) PROVE Unwritten(p, c)'
    <3>1. p \notin x.paths
      BY <2>1, <2>3 DEF Lossless, Apart
    <3>2. QED
      BY <2>1, <2>2, <2>3, <3>1, RecordLeads DEF Unwritten
  <2>4. QED
    BY <2>1, <2>2, <2>3 DEF Lossless, Untold
<1>8. CASE Adopt
  <2>1. UNCHANGED <<proposals, disk, notes, forgotten>> /\ pc = "record" /\ pc' = "close" /\ base'.files = window.result
    BY <1>8 DEF Adopt, outside, ghosts
  <2>2. QED
    BY <1>3, <2>1 DEF Lossless, Untold
<1>9. CASE Close \/ Idle
  <2>1. UNCHANGED <<proposals, disk, notes, forgotten, base>> /\ pc' # "record"
    BY <1>9 DEF Close, Idle, outside, ghosts, store
  <2>2. QED
    BY <1>3, <2>1 DEF Lossless, Untold
<1>10. CASE Recover \/ Stopping
  <2>1. notes'.interactive = {}
    BY <1>10 DEF Recover, Stopping, Stop, Fresh, Held
  <2>2. QED
    BY <2>1 DEF Untold
<1>11. QED
  BY <1>2, <1>4, <1>5, <1>6, <1>7, <1>8, <1>9, <1>10, StepIs DEF WindowStep, Stopping

LEMMA LosslessStep ==
  ASSUME ProposalEngineAssumption, Basics, Lossless, [Next]_vars
  PROVE  Lossless'
BY SourcedStep, HeardStep, BurstStep, PlanLeadsStep, ResultStep, BaseStep, RecoveredStep, ApartStep, UntoldStep
DEF Lossless

-----------------------------------------------------------------------------
(* A run's writes wait for its review: the invariant                       *)

\* Content c of p may yet be found: it is on the disk, or evidence speaks of it.
Live(p, c) == disk[p] = c \/ \E e \in journal : e.path = p /\ e.before = c

\* The open window is going to record c, in a proposal that waits for the
\* review or is accepted as the interactive surfaces' change.
WillTell(p, c) ==
  \E i \in DOMAIN window.plan :
    /\ p \in window.plan[i].paths /\ window.result[p] = c
    /\ run = "consumed" => window.plan[i].source = "Interactive"

\* Once a run is consumed, or the window that consumes it was read, what the run
\* wrote on its own and can still be found is recorded, or planned.
Consumed == run = "consumed" \/ (window.through /\ pc \in {"record", "close"})

ToldBefore ==
  Consumed => \A p \in Paths : \A c \in spent.ofRun :
    p \notin forgotten \cup overtaken \cup notes.interactive /\ Live(p, c) => Leads(proposals, p, c) \/ WillTell(p, c)

PlanTold ==
  run = "consumed" => \A i \in DOMAIN window.plan : \A p \in window.plan[i].paths :
    p \notin forgotten \cup overtaken /\ window.plan[i].source = "Ambient" /\ window.result[p] \in spent.ofRun
      => Leads(proposals, p, window.result[p])

Reviewing ==
  /\ run = "none" => spent.ofRun = {}
  /\ ToldBefore /\ PlanTold

LEMMA WritersReview ==
  ASSUME ProposalEngineAssumption, Basics, Lossless, Reviewing, WriterStep \/ UNCHANGED vars
  PROVE  Reviewing'
<1> USE DEF Basics
<1>1. UNCHANGED <<proposals, notes, window, pc, forgotten, overtaken>>
  BY WritersLeaveNotes
<1>2. disk \in Files /\ spent.made \in Nat /\ spent.ofRun \subseteq Nat /\ journal \subseteq WriteEvidence
  BY ContentsAre DEF Types, StoreOK, RestOK, Spent, Evidence
<1>3. ASSUME UNCHANGED <<run, spent.ofRun>>,
             \A p \in Paths, c \in spent.ofRun : p \notin forgotten /\ Live(p, c)' => Live(p, c) \/ Leads(proposals, p, c)
      PROVE  Reviewing'
  <2>1. \A p, c : WillTell(p, c)' = WillTell(p, c)
    BY <1>1, <1>3 DEF WillTell
  <2>2. ToldBefore'
    BY <1>1, <1>3, <2>1 DEF Reviewing, ToldBefore, Consumed
  <2>3. PlanTold'
    BY <1>1, <1>3 DEF Reviewing, PlanTold
  <2>4. QED
    BY <1>3, <2>2, <2>3 DEF Reviewing
<1>4. \A c \in spent.ofRun : c # NewContent
  BY <1>2 DEF Past, PastDisk, NewContent
<1>5. ASSUME NEW p \in Paths, NEW b \in BOOLEAN, Write(p, b) PROVE Reviewing'
  <2>1. CASE b
    <3>1. run = "open" /\ run' = "open"
      BY <1>5, <2>1 DEF Write
    <3>2. ~Consumed'
      BY <1>1, <3>1 DEF Consumed, Phases
    <3>3. QED
      BY <3>1, <3>2 DEF Reviewing, ToldBefore, PlanTold
  <2>2. CASE ~b
    <3>1. UNCHANGED <<run, journal>> /\ spent'.ofRun = spent.ofRun /\ Written(p)
      BY <1>5, <2>2 DEF Write, Types, RestOK, Spent
    <3>2. \A q \in Paths, c \in spent.ofRun : Live(q, c)' => Live(q, c)
      BY <1>2, <1>4, <3>1 DEF Live, Written, Files
    <3>3. QED
      BY <1>3, <3>1, <3>2
  <2>3. QED
    BY <2>1, <2>2
<1>6. ASSUME NEW p \in Paths, NEW b \in BOOLEAN, ClientWrite(p, b) PROVE Reviewing'
  <2>1. UNCHANGED run /\ spent'.ofRun = spent.ofRun /\ Written(p)
    BY <1>6 DEF ClientWrite, Types, RestOK, Spent
  <2>2. \A e \in journal' : e \in journal \/ (e.path = p /\ e.before = disk[p])
    BY <1>6 DEF ClientWrite
  <2>3. \A q \in Paths, c \in spent.ofRun : Live(q, c)' => Live(q, c)
    BY <1>2, <1>4, <2>1, <2>2 DEF Live, Written, Files
  <2>4. QED
    BY <1>3, <2>1, <2>3
<1>7. ASSUME NEW p \in Paths, SurfaceWrite(p) PROVE Reviewing'
  <2>1. UNCHANGED <<run, journal>> /\ spent'.ofRun = spent.ofRun /\ Written(p)
    BY <1>7 DEF SurfaceWrite, Types, RestOK, Spent
  <2>2. \A q \in Paths, c \in spent.ofRun : Live(q, c)' => Live(q, c)
    BY <1>2, <1>4, <2>1 DEF Live, Written, Files
  <2>3. QED
    BY <1>3, <2>1, <2>2
<1>8. ASSUME NEW p \in Paths, Restore(p) PROVE Reviewing'
  <2>1. UNCHANGED <<run, journal>> /\ spent'.ofRun = spent.ofRun
    BY <1>8 DEF Restore, Spend, Types, RestOK, Spent
  <2>2. PICK i \in DOMAIN proposals : p \in proposals[i].paths /\ disk' = [disk EXCEPT ![p] = proposals[i].from[p]]
    BY <1>8 DEF Restore
  <2>3. ASSUME NEW q \in Paths, NEW c \in spent.ofRun, q \notin forgotten, Live(q, c)'
        PROVE  Live(q, c) \/ Leads(proposals, q, c)
    <3>1. CASE q = p /\ disk'[p] = c
      <4>1. c = proposals[i].from[p]
        BY <1>2, <2>2, <3>1 DEF Files
      <4>2. QED
        BY <2>2, <2>3, <3>1, <4>1 DEF Lossless, Sourced
    <3>2. CASE ~(q = p /\ disk'[p] = c)
      BY <1>2, <2>1, <2>2, <2>3, <3>2 DEF Live, Files
    <3>3. QED
      BY <3>1, <3>2
  <2>4. QED
    BY <1>3, <2>1, <2>3
<1>9. CASE ClientDone
  <2>1. \A o \in journal' : \E e \in journal : o.path = e.path /\ o.before = e.before
    BY <1>2, <1>9 DEF ClientDone, WriteEvidence
  <2>2. UNCHANGED <<disk, run, spent>>
    BY <1>9 DEF ClientDone
  <2>3. QED
    BY <1>3, <2>1, <2>2 DEF Live
<1>10. CASE OpenRun
  <2>1. run = "none" /\ run' = "open" /\ UNCHANGED spent
    BY <1>10 DEF OpenRun
  <2>2. ~Consumed'
    BY <1>1, <2>1 DEF Consumed, Phases
  <2>3. QED
    BY <2>1, <2>2 DEF Reviewing, ToldBefore, PlanTold
<1>11. CASE FinishRun
  <2>1. run = "open" /\ run' = "finished" /\ UNCHANGED spent
    BY <1>11 DEF FinishRun
  <2>2. ~Consumed'
    BY <1>1, <2>1 DEF Consumed, Phases
  <2>3. QED
    BY <2>1, <2>2 DEF Reviewing, ToldBefore, PlanTold
<1>12. CASE UNCHANGED vars
  BY <1>3, <1>12 DEF vars, Live
<1>13. QED
  BY <1>5, <1>6, <1>7, <1>8, <1>9, <1>10, <1>11, <1>12 DEF WriterStep

LEMMA ListenersReview ==
  ASSUME ProposalEngineAssumption, Basics, Lossless, Reviewing, ListenStep
  PROVE  Reviewing'
<1> USE DEF Basics
<1>1. UNCHANGED <<proposals, window, pc, forgotten, overtaken, run, disk, journal>>
  BY ListenersLeaveNotes
<1>2. spent'.ofRun = spent.ofRun
  BY DEF ListenStep, HearWatcher, HearSurface, PassBy, HearReview, Lag, Spend, Types, RestOK, Spent
<1>3. \A q \in Paths : HearSurface(q) => notes.interactive \subseteq notes'.interactive
  BY DEF HearSurface, Types, LoopOK, Notes
<1>4. notes.interactive \subseteq notes'.interactive
  BY <1>3, ListenersLeaveNotes
<1>5. QED
  BY <1>1, <1>2, <1>4 DEF Reviewing, ToldBefore, PlanTold, Consumed, Live, WillTell

LEMMA EvidenceReview ==
  ASSUME ProposalEngineAssumption, Basics, Lossless, Reviewing, EvidenceStep
  PROVE  Reviewing'
<1> USE DEF Basics
<1>1. /\ UNCHANGED <<overtaken, run, disk, spent, window.plan, window.result>>
      /\ forgotten \subseteq forgotten' /\ journal' \subseteq journal
      /\ pc \notin {"record", "close"} /\ pc' \notin {"record", "close"} /\ window.plan = <<>>
  BY EvidenceLeavesNotes DEF Phases
<1>2. \A p, c : Leads(proposals, p, c) => Leads(proposals', p, c)
  BY StepLeads, StepIs DEF EvidenceStep, Next
<1>3. \A p \in Paths : p \notin forgotten' \cup notes'.interactive => p \notin notes.interactive
  <2>1. EndEvidence => notes.interactive \ window.evidenced \subseteq notes'.interactive
    BY DEF EndEvidence, Types, LoopOK, Notes
  <2>2. QED
    BY <1>1, <2>1, EvidenceLeavesNotes DEF Held
<1>4. ToldBefore'
  <2>1. ASSUME run = "consumed", NEW p \in Paths, NEW c \in spent.ofRun, Live(p, c)',
               p \notin forgotten' \cup overtaken' \cup notes'.interactive
        PROVE  Leads(proposals', p, c)
    <3>1. Live(p, c)
      BY <1>1, <2>1 DEF Live
    <3>2. ~WillTell(p, c)
      BY <1>1 DEF WillTell
    <3>3. QED
      BY <1>1, <1>2, <1>3, <2>1, <3>1, <3>2 DEF Reviewing, ToldBefore, Consumed
  <2>2. QED
    BY <1>1, <2>1 DEF ToldBefore, Consumed
<1>5. PlanTold'
  BY <1>1 DEF PlanTold
<1>6. QED
  BY <1>1, <1>4, <1>5 DEF Reviewing

LEMMA ScanReview ==
  ASSUME ProposalEngineAssumption, Basics, Lossless, Reviewing, Scan
  PROVE  Reviewing'
<1> USE DEF Basics
<1>1. /\ UNCHANGED <<proposals, run, disk, spent, journal, forgotten>> /\ pc = "scan" /\ window.plan = <<>>
      /\ \A e \in journal : e.path \in overtaken'
      /\ overtaken \subseteq overtaken'
  BY DEF Scan, outside, store, Phases
<1>2. window'.through = window.through /\ window'.result = Read
  BY WindowPlans DEF Scan, Types, LoopOK, Window
<1>3. \A p \in Paths : \A c : ~WillTell(p, c)
  BY <1>1 DEF WillTell
<1>4. ASSUME NEW p \in Paths, NEW c \in spent.ofRun, run = "consumed", p \notin forgotten \cup overtaken' \cup notes.interactive,
             Live(p, c)
      PROVE  Leads(proposals, p, c)
  BY <1>1, <1>3, <1>4 DEF Reviewing, ToldBefore, Consumed
<1>5. ASSUME NEW p \in Paths, NEW c \in spent.ofRun, Consumed', Live(p, c)',
             p \notin forgotten' \cup overtaken' \cup notes'.interactive
      PROVE  Leads(proposals', p, c) \/ WillTell(p, c)'
  <2>1. disk[p] = c /\ Live(p, c)
    BY <1>1, <1>5 DEF Live
  <2>2. p \notin forgotten
    BY <1>1, <1>5
  <2>3. CASE p \in notes.interactive
    <3>1. Read[p] = c
      BY <2>1, <2>3, BurstIs
    <3>2. CASE Read = Since \/ p \notin Settled
      <4>1. Read = Since \/ p \notin Coalescing
        BY <1>5, WindowPlans
      <4>2. QED
        BY <1>1, <2>2, <2>3, <3>1, <3>2, <4>1, ScanLeads
    <3>3. CASE Read # Since /\ p \in Settled
      <4>1. PICK i \in DOMAIN window'.plan : window'.plan[i] = [source |-> "Interactive", from |-> Since, paths |-> Settled]
        BY <3>3, WindowPlans
      <4>2. QED
        BY <1>2, <3>1, <3>3, <4>1 DEF WillTell
    <3>4. QED
      BY <3>2, <3>3
  <2>4. CASE p \notin notes.interactive /\ run = "consumed"
    BY <1>1, <1>4, <1>5, <2>1, <2>2, <2>4
  <2>5. CASE p \notin notes.interactive /\ run # "consumed"
    <3>1. window.through /\ run = "finished"
      BY <1>1, <1>2, <1>5, <2>5 DEF Consumed, Phases
    <3>2. Read[p] = c
      BY <2>1, <3>1, ReadIs DEF Finishing
    <3>3. CASE Read = base.files \/ p \notin AgentPaths
      BY <1>1, <2>2, <2>5, <3>2, <3>3, ScanLeads
    <3>4. CASE Read # base.files /\ p \in AgentPaths
      <4>1. PICK i \in DOMAIN window'.plan : window'.plan[i] = [source |-> "Ambient", from |-> base.files, paths |-> AgentPaths]
        BY <3>4, WindowPlans
      <4>2. QED
        BY <1>1, <1>2, <2>5, <3>2, <3>4, <4>1 DEF WillTell
    <3>5. QED
      BY <3>3, <3>4
  <2>6. QED
    BY <2>3, <2>4, <2>5
<1>6. ASSUME run = "consumed", NEW i \in DOMAIN window'.plan, NEW p \in window'.plan[i].paths,
             p \notin forgotten \cup overtaken', window'.plan[i].source = "Ambient", Read[p] \in spent.ofRun
      PROVE  Leads(proposals, p, Read[p])
  <2>1. window'.plan[i] = [source |-> "Ambient", from |-> base.files, paths |-> AgentPaths]
    BY <1>6, WindowPlans
  <2>2. p \in Paths /\ p \notin notes.interactive /\ Read[p] # base.files[p]
    BY <1>6, <2>1 DEF AgentPaths, Changed
  <2>3. Live(p, Read[p])
    BY <2>2, ReadIs DEF Live
  <2>4. QED
    BY <1>4, <1>6, <2>2, <2>3
<1>7. PlanTold'
  <2>1. ASSUME run' = "consumed", NEW i \in DOMAIN window'.plan, NEW p \in window'.plan[i].paths,
               p \notin forgotten' \cup overtaken', window'.plan[i].source = "Ambient",
               window'.result[p] \in spent'.ofRun
        PROVE  Leads(proposals', p, window'.result[p])
    <3>1. run = "consumed" /\ p \notin forgotten \cup overtaken' /\ Read[p] \in spent.ofRun
      BY <1>1, <1>2, <2>1
    <3>2. Leads(proposals, p, Read[p])
      BY <1>6, <2>1, <3>1
    <3>3. QED
      BY <1>1, <1>2, <3>2
  <2>2. QED
    BY <2>1 DEF PlanTold
<1>8. ToldBefore'
  BY <1>1, <1>5 DEF ToldBefore
<1>9. QED
  BY <1>1, <1>7, <1>8 DEF Reviewing

LEMMA RecordReview ==
  ASSUME ProposalEngineAssumption, Basics, Lossless, Reviewing, Record
  PROVE  Reviewing'
<1> USE DEF Basics
<1> DEFINE x == WindowRecord(Head(window.plan))
<1>1. /\ x \in Proposal /\ proposals' = Append(proposals, x) /\ x.from = window.plan[1].from
      /\ x.paths = window.plan[1].paths /\ 1 \in DOMAIN window.plan /\ x.to.files = window.result
      /\ window'.result = window.result /\ window'.through = window.through
  BY WindowRecorded DEF WindowRecord
<1>2. UNCHANGED <<disk, run, journal, notes, pc, forgotten, overtaken, spent>>
  BY DEF Record, outside, ghosts
<1> HIDE DEF x
<1>3. /\ \A p, c : Leads(proposals, p, c) => Leads(proposals', p, c)
      /\ \A p \in x.paths : Leads(proposals, p, x.from[p]) => Leads(proposals', p, x.to.files[p])
  BY <1>1, RecordLeads
<1>4. ASSUME NEW p \in Paths, NEW c, p \notin forgotten, WillTell(p, c)
      PROVE  Leads(proposals', p, c) \/ WillTell(p, c)'
  <2>1. PICK i \in DOMAIN window.plan : /\ p \in window.plan[i].paths /\ window.result[p] = c
                                        /\ run = "consumed" => window.plan[i].source = "Interactive"
    BY <1>4 DEF WillTell
  <2>2. CASE i = 1
    <3>1. p \in x.paths /\ Leads(proposals, p, x.from[p])
      BY <1>1, <1>4, <2>1, <2>2 DEF Lossless, PlanLeads
    <3>2. QED
      BY <1>1, <1>3, <2>1, <3>1
  <2>3. CASE i # 1
    <3>1. i - 1 \in DOMAIN window'.plan /\ window'.plan[i - 1] = window.plan[i]
      BY <2>3, WindowRecorded
    <3>2. QED
      BY <1>1, <1>2, <2>1, <3>1 DEF WillTell
  <2>4. QED
    BY <2>2, <2>3
<1>5. ToldBefore'
  <2>1. Consumed' = Consumed /\ \A p, c : Live(p, c)' = Live(p, c)
    BY <1>1, <1>2 DEF Consumed, Live
  <2>2. QED
    BY <1>2, <1>3, <1>4, <2>1 DEF Reviewing, ToldBefore
<1>6. PlanTold'
  BY <1>1, <1>2, <1>3, WindowRecorded DEF Reviewing, PlanTold
<1>7. QED
  BY <1>2, <1>5, <1>6 DEF Reviewing

LEMMA CloseReview ==
  ASSUME ProposalEngineAssumption, Basics, Lossless, Reviewing, Close
  PROVE  Reviewing'
<1> USE DEF Basics
<1>1. /\ UNCHANGED <<proposals, disk, journal, notes, forgotten, overtaken, spent>> /\ pc = "close" /\ pc' = "wait"
      /\ window' = Unread /\ run' = (IF window.through THEN "consumed" ELSE run) /\ window.plan = <<>>
  BY DEF Close, ghosts, store, Phases
<1>2. Consumed' => Consumed
  BY <1>1 DEF Consumed, Unread
<1>3. \A p, c : ~WillTell(p, c) /\ Live(p, c)' = Live(p, c)
  BY <1>1 DEF WillTell, Live
<1>4. ToldBefore' /\ PlanTold'
  BY <1>1, <1>2, <1>3 DEF Reviewing, ToldBefore, PlanTold, Unread
<1>5. QED
  BY <1>1, <1>4 DEF Reviewing

LEMMA ReviewingStep ==
  ASSUME ProposalEngineAssumption, Basics, Lossless, Reviewing, [Next]_vars
  PROVE  Reviewing'
<1> USE DEF Basics
<1>1. CASE Adopt
  <2>1. /\ UNCHANGED <<proposals, run, disk, journal, notes, window, forgotten, overtaken, spent>>
        /\ pc = "record" /\ pc' = "close"
    BY <1>1 DEF Adopt, outside, ghosts
  <2>2. QED
    BY <2>1 DEF Reviewing, ToldBefore, PlanTold, Consumed, Live, WillTell
<1>2. CASE Recover \/ Idle
  <2>1. /\ UNCHANGED <<proposals, run, disk, journal, notes, window, forgotten, overtaken, spent>>
        /\ pc' = "consume"
    BY <1>2 DEF Recover, Idle, outside, ghosts, store
  <2>2. QED
    BY <2>1 DEF Reviewing, ToldBefore, PlanTold, Consumed, Live, WillTell
<1>3. CASE Stopping
  <2>1. /\ UNCHANGED <<proposals, run, disk, journal, overtaken>> /\ spent'.ofRun = spent.ofRun
        /\ window' = Unread /\ forgotten' = forgotten \cup AtRisk
    BY <1>3 DEF Stopping, Stop, store, Spend, Types, RestOK, Spent
  <2>2. \A p \in Paths : \A c : run = "consumed" /\ p \notin AtRisk => p \notin notes.interactive /\ ~WillTell(p, c)
    BY DEF AtRisk, WillTell
  <2>3. ToldBefore'
    BY <2>1, <2>2 DEF Reviewing, ToldBefore, Consumed, Live, Unread
  <2>4. QED
    BY <2>1, <2>3 DEF Reviewing, PlanTold, Unread
<1>4. QED
  BY <1>1, <1>2, <1>3, StepIs, WritersReview, ListenersReview, EvidenceReview, ScanReview, RecordReview, CloseReview
  DEF WindowStep, Stopping

\* A proposal more, that waits for the review or tells nothing new of the run.
LEMMA GatedMore ==
  ASSUME ProposalEngineAssumption, Basics, ReviewGated, NEW x \in Proposal, proposals' = Append(proposals, x),
         UNCHANGED <<spent, overtaken>>, forgotten \subseteq forgotten',
         x.source = "Ambient" /\ ~x.review => \A p \in x.paths :
           p \notin forgotten \cup overtaken /\ x.to.files[p] \in spent.ofRun => Leads(proposals, p, x.to.files[p])
  PROVE  ReviewGated'
<1> USE DEF Basics
<1>1. proposals \in Seq(Proposal) /\ \A c \in spent.ofRun : c # 0 /\ c \in Contents
  BY ContentsAre DEF Types, StoreOK, RestOK, Spent, Past, PastDisk
<1>2. ASSUME NEW i \in DOMAIN proposals', NEW p \in proposals'[i].paths,
             proposals'[i].to.files[p] \in spent.ofRun, proposals'[i].source = "Ambient",
             \A k \in 1 .. i - 1 : p \notin proposals'[k].paths \/ proposals'[k].to.files[p] # proposals'[i].to.files[p],
             p \notin forgotten' \cup overtaken
      PROVE  proposals'[i].review
  <2>1. CASE i \in DOMAIN proposals
    <3>1. proposals'[i] = proposals[i] /\ \A k \in 1 .. i - 1 : proposals'[k] = proposals[k]
      BY <2>1, RecordLeads
    <3>2. \A k \in 1 .. i - 1 : p \notin proposals[k].paths \/ proposals[k].to.files[p] # proposals[i].to.files[p]
      BY <1>2, <3>1
    <3>3. QED
      BY <1>2, <2>1, <3>1, <3>2 DEF ReviewGated
  <2>2. CASE proposals'[i] = x /\ i = Len(proposals) + 1
    <3>1. SUFFICES ASSUME ~x.review PROVE FALSE
      BY <2>2
    <3>2. Leads(proposals, p, x.to.files[p]) /\ p \in Paths
      BY <1>2, <2>2, <3>1 DEF Proposal
    <3>3. PICK k \in DOMAIN proposals : p \in proposals[k].paths /\ proposals[k].to.files[p] = x.to.files[p]
      BY <1>1, <1>2, <2>2, <3>2, LeadsTold
    <3>4. k \in 1 .. i - 1 /\ proposals'[k] = proposals[k]
      BY <2>2, RecordLeads
    <3>5. QED
      BY <1>2, <2>2, <3>3, <3>4
  <2>3. QED
    BY <2>1, <2>2, RecordLeads
<1>3. QED
  BY <1>2 DEF ReviewGated

LEMMA GatedStep ==
  ASSUME ProposalEngineAssumption, Basics, Lossless, Reviewing, ReviewGated, [Next]_vars
  PROVE  ReviewGated'
<1> USE DEF Basics
<1>1. forgotten \subseteq forgotten' /\ overtaken \subseteq overtaken'
  BY Leaves
<1>2. CASE UNCHANGED proposals
  <2>1. spent'.ofRun = spent.ofRun \/ spent'.ofRun = spent.ofRun \cup {spent.made + 1}
    <3>1. \A p \in Paths, b \in BOOLEAN :
            Write(p, b) => spent'.ofRun = spent.ofRun \/ spent'.ofRun = spent.ofRun \cup {spent.made + 1}
      BY DEF Write, NewContent, Types, RestOK, Spent
    <3>2. \A p \in Paths, b \in BOOLEAN : ClientWrite(p, b) => spent'.ofRun = spent.ofRun
      BY DEF ClientWrite, Types, RestOK, Spent
    <3>3. \A p \in Paths : SurfaceWrite(p) \/ Restore(p) => spent'.ofRun = spent.ofRun
      BY DEF SurfaceWrite, Restore, Spend, Types, RestOK, Spent
    <3>4. ClientDone \/ OpenRun \/ FinishRun => spent' = spent
      BY DEF ClientDone, OpenRun, FinishRun
    <3>5. WriterStep => spent'.ofRun = spent.ofRun \/ spent'.ofRun = spent.ofRun \cup {spent.made + 1}
      BY <3>1, <3>2, <3>3, <3>4 DEF WriterStep
    <3>6. ListenStep => spent'.ofRun = spent.ofRun
      BY DEF ListenStep, HearWatcher, HearSurface, PassBy, HearReview, Lag, Spend, Types, RestOK, Spent
    <3>7. EvidenceStep \/ WindowStep \/ Recover \/ Idle => spent' = spent
      BY EngineLeaves
    <3>8. \A b \in BOOLEAN : Stop(b) => spent'.ofRun = spent.ofRun
      BY DEF Stop, Spend, Types, RestOK, Spent
    <3>9. QED
      BY <3>5, <3>6, <3>7, <3>8, StepIs DEF vars
  <2>2. spent.made \in Nat
    BY ContentsAre DEF Types, RestOK, Spent
  <2>3. ASSUME NEW i \in DOMAIN proposals, NEW p \in proposals[i].paths, proposals[i].to.files[p] \in spent'.ofRun
        PROVE  proposals[i].to.files[p] \in spent.ofRun
    <3>1. proposals[i].to.files[p] \in Nat /\ proposals[i].to.files[p] <= spent.made
      BY ProposalsAre, ContentsAre DEF Past, PastStore, Upto
    <3>2. QED
      BY <2>1, <2>2, <2>3, <3>1
  <2>4. QED
    BY <1>1, <1>2, <2>3 DEF ReviewGated
<1>3. CASE RecordGap
  <2>1. /\ Consuming /\ UNCHANGED <<spent, overtaken>> /\ GapRecord.paths = {Operation.path}
        /\ GapRecord.to.files[Operation.path] = Operation.before
    BY <1>3, GapRecorded DEF RecordGap, outside, ghosts, GapRecord
  <2>2. ASSUME ~GapRecord.review, Operation.path \notin forgotten \cup overtaken, Operation.before \in spent.ofRun
        PROVE  Leads(proposals, Operation.path, Operation.before)
    <3>1. run = "consumed"
      BY <2>2 DEF GapRecord, ReviewRequired, Types, LoopOK, Reviewing
    <3>2. Operation \in journal /\ Operation.path \in Paths /\ Operation.path \notin notes.interactive
      BY <2>1, <2>2, OperationLeads
    <3>3. Live(Operation.path, Operation.before)
      BY <3>2 DEF Live
    <3>4. ~WillTell(Operation.path, Operation.before)
      BY <2>1 DEF Consuming, Phases, WillTell
    <3>5. QED
      BY <2>2, <3>1, <3>2, <3>3, <3>4 DEF Reviewing, ToldBefore, Consumed
  <2>3. QED
    BY <1>1, <1>3, <2>1, <2>2, GapRecorded, GatedMore
<1>4. CASE RecordOperation
  <2>1. UNCHANGED <<spent, overtaken>> /\ OperationRecord.source # "Ambient"
    BY <1>4 DEF RecordOperation, outside, ghosts, OperationRecord
  <2>2. QED
    BY <1>1, <1>4, <2>1, OperationRecorded, GatedMore
<1>5. CASE Record
  <2> DEFINE x == WindowRecord(Head(window.plan))
  <2>1. /\ x \in Proposal /\ proposals' = Append(proposals, x) /\ x.source = window.plan[1].source
        /\ x.paths = window.plan[1].paths /\ 1 \in DOMAIN window.plan /\ x.to.files = window.result
        /\ x.review = (x.source = "Ambient" /\ ReviewRequired)
    BY <1>5, WindowRecorded DEF WindowRecord
  <2>2. UNCHANGED <<spent, overtaken>>
    BY <1>5 DEF Record, outside, ghosts
  <2> HIDE DEF x
  <2>3. ASSUME x.source = "Ambient", ~x.review, NEW p \in x.paths, p \notin forgotten \cup overtaken,
               x.to.files[p] \in spent.ofRun
        PROVE  Leads(proposals, p, x.to.files[p])
    <3>1. run = "consumed"
      BY <2>1, <2>3 DEF ReviewRequired, Types, LoopOK, Reviewing
    <3>2. QED
      BY <2>1, <2>3, <3>1 DEF Reviewing, PlanTold
  <2>4. QED
    BY <1>1, <2>1, <2>2, <2>3, GatedMore
<1>6. QED
  BY <1>2, <1>3, <1>4, <1>5, Leaves

-----------------------------------------------------------------------------
(* The theorems                                                            *)

IInv == Basics /\ Lossless /\ Reviewing /\ ReviewGated

LEMMA InitIInv ==
  ASSUME ProposalEngineAssumption, Init
  PROVE  IInv
<1>1. 0 \in Contents /\ Contents \subseteq Nat
  BY ContentsAre DEF Contents, ProposalEngineAssumption
<1>2. disk \in Files /\ \A p \in Paths : disk[p] = 0
  BY <1>1 DEF Init, Files
<1>3. baseline \in Baseline /\ base = baseline /\ baseline.files = disk
  BY <1>2 DEF Init, Baseline
<1>4. proposals = <<>> /\ journal = {} /\ window = Unread /\ notes = Fresh /\ pc = "wait" /\ announced = {}
  BY DEF Init
<1>5. Unread.plan = <<>> /\ Unread.result = Nothing /\ Unread.pending = {} /\ Unread.evidenced = {} /\ ~Unread.through
  BY DEF Unread
<1>6. Fresh.interactive = {} /\ Fresh.fresh = {} /\ Fresh.burst = Nothing /\ Fresh.expected = Nothing
  BY DEF Fresh
<1>7. spent \in Spent /\ spent.ofRun = {} /\ spent.made = 0
  BY <1>1 DEF Init, Spent
<1>8. Types
  <2>1. proposals \in Seq(Proposal)
    BY <1>4
  <2>2. window \in Window /\ notes \in Notes
    BY <1>4, NothingYet
  <2>3. QED
    BY <1>2, <1>3, <1>4, <1>7, <2>1, <2>2 DEF Init, Types, StoreOK, LoopOK, RestOK, Evidence
<1>9. Phases /\ Held
  BY <1>4, <1>5, <1>6 DEF Init, Phases, Held
<1>10. Newer = {} /\ DOMAIN proposals = {}
  BY <1>4 DEF Newer
<1>11. Ordered /\ InStep /\ Evidenced
  BY <1>3, <1>4, <1>10 DEF Ordered, InStep, Evidenced
<1>12. Past
  BY <1>2, <1>3, <1>4, <1>5, <1>6, <1>7, <1>10 DEF Past, PastDisk, PastStore, PastWindow, Upto
<1>13. \A p : Leads(proposals, p, 0)
  BY DEF Leads
<1>14. DOMAIN window.plan = {} /\ DOMAIN notes.expected = {}
  BY <1>4, <1>5, <1>6 DEF Nothing
<1>15. Lossless
  BY <1>2, <1>3, <1>4, <1>6, <1>10, <1>13, <1>14
  DEF Lossless, Sourced, Heard, BurstLeads, PlanLeads, ResultLeads, BaseLeads, RecoveredLeads, Apart, Untold
<1>16. Reviewing
  BY <1>7 DEF Init, Reviewing, ToldBefore, PlanTold
<1>17. ReviewGated
  BY <1>10 DEF ReviewGated
<1>18. QED
  BY <1>8, <1>9, <1>11, <1>12, <1>15, <1>16, <1>17 DEF IInv, Basics

LEMMA IInvStep ==
  ASSUME ProposalEngineAssumption, IInv, [Next]_vars
  PROVE  IInv'
<1>1. Basics /\ Lossless /\ Reviewing /\ ReviewGated
  BY DEF IInv
<1>2. Types /\ Phases /\ Held /\ Ordered /\ InStep /\ Evidenced /\ Past
  BY <1>1 DEF Basics
<1>3. Basics'
  BY <1>2, TypesStep, PhasesStep, HeldStep, OrderedStep, InStepStep, EvidencedStep, PastStep DEF Basics
<1>4. QED
  BY <1>1, <1>3, LosslessStep, ReviewingStep, GatedStep DEF IInv

\* The invariant of the engine: types, the places of its loop, the order of the
\* snapshots, the evidence, what the history leads to, and what the run is yet
\* to have reviewed.
THEOREM EngineInvariant == Spec => []IInv
<1>1. Init => IInv
  BY InitIInv, ProposalEngineAssumption
<1>2. IInv /\ [Next]_vars => IInv'
  BY IInvStep, ProposalEngineAssumption
<1>3. QED
  BY <1>1, <1>2, PTL DEF Spec

\* The types, and the order of the snapshots (engine.rs consume_window): the
\* baseline in memory is never older than the stored one, and no recorded
\* result is more than one window ahead of it.
THEOREM TypeCorrect == Spec => []TypeOK
<1>1. ASSUME IInv PROVE TypeOK
  <2>1. Basics
    BY <1>1 DEF IInv
  <2>2. base.at = baseline.at /\ base.at \in Nat
    BY <2>1 DEF Basics, InStep, Types, StoreOK, Baseline
  <2>3. \A i \in DOMAIN proposals : proposals[i] \in Proposal /\ proposals[i].to.at <= base.at + 1
    <3>1. \A i \in DOMAIN proposals : proposals[i] \in Proposal /\ proposals[i].to.at \in Nat
      BY <2>1, ProposalsAre DEF Basics
    <3>2. \A i \in DOMAIN proposals : proposals[i].to.at > baseline.at => proposals[i].to.at = baseline.at + 1
      BY <2>1 DEF Basics, Ordered, Newer
    <3>3. QED
      BY <2>2, <3>1, <3>2
  <2>4. pc = "wait" => listening /\ base.files = baseline.files
    BY <2>1 DEF Basics, Phases, InStep, Consuming
  <2>5. notes.fresh \subseteq notes.interactive /\ (notes.interactive = {} \/ notes.burst \in Files)
    BY <2>1 DEF Basics, Held
  <2>6. disk \in Files /\ run \in {"none", "open", "finished", "consumed"} /\ journal \subseteq WriteEvidence
        /\ order \in {"free", "client", "engine"} /\ (pc \in {"evidence", "remove"} <=> order = "engine")
        /\ baseline \in Baseline /\ base \in Baseline
    BY <2>1 DEF Basics, Types, StoreOK, LoopOK, Phases, Evidence
  <2>7. QED
    BY <2>2, <2>3, <2>4, <2>5, <2>6 DEF TypeOK
<1>2. QED
  BY <1>1, EngineInvariant, PTL

\* No change is lost (engine.rs: "noisy but never lossy"): whatever a restart
\* takes for accounted follows from the first content by recorded changes, but
\* for the paths of changes the engine held or read and forgot, or is holding.
THEOREM ChangesAreNeverLost == Spec => []NeverLossy
<1>1. ASSUME IInv PROVE NeverLossy
  BY <1>1, RecoveryLeads DEF IInv, NeverLossy, ComesTo, Leads
<1>2. QED
  BY <1>1, EngineInvariant, PTL

\* What the run wrote on its own waits for a review (runs.rs consume_finished,
\* engine.rs run): the first ambient proposal with it is never accepted as it
\* is, whenever the run ends, but where an operation overtook a window.
THEOREM ReviewIsGated == Spec => []ReviewGated
<1>1. ASSUME IInv PROVE ReviewGated
  BY <1>1 DEF IInv
<1>2. QED
  BY <1>1, EngineInvariant, PTL
=============================================================================
