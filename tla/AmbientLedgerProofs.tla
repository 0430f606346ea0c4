------------------------ MODULE AmbientLedgerProofs ------------------------
(***************************************************************************)
(* Proofs about AmbientLedger for any agents, limits and numbers of        *)
(* restarts and mishaps: what the ledger holds agrees with what was done,  *)
(* a message that was given up aloud starts no turn, and the turns one     *)
(* message costs are bounded.                                              *)
(***************************************************************************)
EXTENDS AmbientLedger, FiniteSetTheorems, SequenceTheorems, TLAPS

-----------------------------------------------------------------------------
(* Types                                                                   *)

\* Finitely many runs <<agent, place>>.
RunSets == {S \in SUBSET (Listeners \X Nat) : IsFiniteSet(S)}

Seen == [fresh : BOOLEAN, answered : BOOLEAN, offered : SUBSET Listeners,
         executed : Nat, expired : Nat, unstarted : RunSets]

Drain == [step : {"idle", "read", "offering", "requeueing", "announcing"},
          seen : Seen, agents : SUBSET Listeners, runs : RunSets, put : BOOLEAN]

RoomOK ==
  /\ here \in BOOLEAN /\ answered \in BOOLEAN /\ noticed \in BOOLEAN
  /\ held \in SUBSET Hold /\ quiet \in SUBSET Listeners

LedgerOK ==
  /\ decision \in Decision \cup {Undecided}
  /\ file \in [exists : BOOLEAN, lines : Seq(Decision)]

RunsOK ==
  /\ runs \in [Listeners -> Seq(Status)]
  /\ \A a \in Listeners : \A i \in Indices(a) : i # Len(runs[a]) => runs[a][i] \notin Live

RestOK ==
  /\ drain \in Drain
  /\ used \in [restarts : Nat, retries : Nat, lost : Nat, claims : Nat]
  /\ cut \in SUBSET {"offer", "notice", "line", "transcript"}

Types == RoomOK /\ LedgerOK /\ RunsOK /\ RestOK

-----------------------------------------------------------------------------
(* The invariant                                                           *)

\* No line and no part of the transcript was lost.
Clean == cut \cap {"line", "transcript"} = {}

\* Where the drain stands, the decision it acts on stands in memory.
DrainDecided ==
  /\ ~At("idle") => here
  /\ At("read") => decision = IF drain.seen.fresh THEN Undecided ELSE "offered"
  /\ At("offering") \/ At("requeueing") => decision = "offered"
  /\ At("announcing") => decision = "givenUp"

\* The ledger's file ends with the decision, and runs and notices have one.
LedgerTrue ==
  Clean =>
    /\ decision # Undecided => /\ here /\ file.exists
                               /\ file.lines # <<>> /\ Last(file.lines) = decision
    /\ decision = Undecided => \A a \in Listeners : runs[a] = <<>>
    /\ noticed => decision = "givenUp"

\* The turns a message cost or may cost yet, the ones the drain is about to
\* add included.
Costs == Started \cup {"pending"}
Failures == {"failed", "interrupted"}

AttemptsSeen ==
  used.retries = 0 /\ Reopened =>
    /\ \A a \in Listeners : ~Has(a, Settling)
    /\ drain.seen.executed = Count(Failures)
    /\ drain.seen.offered # {}
    /\ drain.seen.expired = Cardinality(drain.seen.unstarted)

AttemptsBounded ==
  Clean /\ used.retries = 0 =>
    Count(Costs) + Cardinality(drain.agents) + Cardinality(drain.runs) <= TurnLimit

Invariant == Types /\ DrainDecided /\ LedgerTrue /\ AttemptsSeen /\ AttemptsBounded

-----------------------------------------------------------------------------
(* Counting runs                                                           *)

\* Whose place it is.
LEMMA SlotsAre ==
  ASSUME NEW S, NEW k
  PROVE  k \in Slots(S) <=> \E a \in Listeners : \E i \in Indices(a) :
                              k = <<a, i>> /\ runs[a][i] \in S
BY DEF Slots

\* There are finitely many of them.
LEMMA SlotsFinite ==
  ASSUME RunsOK, NEW S
  PROVE  /\ IsFiniteSet(Slots(S)) /\ Count(S) = Cardinality(Slots(S)) /\ Count(S) \in Nat
         /\ Slots(S) \in RunSets
<1> DEFINE column(a) == {<<a, i>> : i \in Indices(a)}
           columns == {column(a) : a \in Listeners}
           all == UNION columns
<1>1. \A T \in columns : IsFiniteSet(T)
  <2>1. SUFFICES ASSUME NEW a \in Listeners PROVE IsFiniteSet(column(a))
    OBVIOUS
  <2>2. IsFiniteSet(Indices(a))
    <3>1. Len(runs[a]) \in Nat
      BY DEF RunsOK
    <3>2. QED
      BY <3>1, FS_Interval DEF Indices
  <2> DEFINE f == [i \in Indices(a) |-> <<a, i>>]
  <2>3. f \in Surjection(Indices(a), column(a))
    BY DEF Surjection
  <2>4. QED
    BY <2>2, <2>3, FS_Surjection
<1>2. IsFiniteSet(columns)
  <2> DEFINE g == [a \in Listeners |-> column(a)]
  <2>1. g \in Surjection(Listeners, columns)
    BY DEF Surjection
  <2>2. QED
    BY <2>1, AmbientAssumption, FS_Surjection
<1>3. IsFiniteSet(all)
  BY <1>1, <1>2, FS_UNION
<1>4. Slots(S) \in SUBSET all
  BY DEF Slots
<1>5. IsFiniteSet(Slots(S))
  BY <1>3, <1>4, FS_Subset
<1>6. Count(S) = Cardinality(Slots(S))
  BY DEF Count
<1>7. Slots(S) \in SUBSET (Listeners \X Nat)
  <2>1. SUFFICES ASSUME NEW k \in Slots(S) PROVE k \in Listeners \X Nat
    OBVIOUS
  <2>2. PICK a \in Listeners : \E i \in Indices(a) : k = <<a, i>>
    BY SlotsAre
  <2>3. Len(runs[a]) \in Nat
    BY DEF RunsOK
  <2>4. QED
    BY <2>2, <2>3 DEF Indices
<1>8. QED
  BY <1>5, <1>6, <1>7, FS_CardinalityType DEF RunSets

\* A step that makes no new place of a kind does not raise its count; one that
\* makes one raises it by one at most.
LEMMA CountStep ==
  ASSUME RunsOK, RunsOK', NEW S
  PROVE  /\ Count(S) \in Nat /\ Count(S)' \in Nat
         /\ Slots(S)' \subseteq Slots(S) => Count(S)' <= Count(S)
         /\ \A x : Slots(S)' \subseteq Slots(S) \cup {x} => Count(S)' <= Count(S) + 1
<1>1. IsFiniteSet(Slots(S)) /\ Count(S) = Cardinality(Slots(S)) /\ Count(S) \in Nat
  BY SlotsFinite
<1>2. IsFiniteSet(Slots(S)') /\ Count(S)' = Cardinality(Slots(S)') /\ Count(S)' \in Nat
  <2>1. RunsOK => IsFiniteSet(Slots(S)) /\ Count(S) = Cardinality(Slots(S)) /\ Count(S) \in Nat
    BY SlotsFinite
  <2>2. (RunsOK => IsFiniteSet(Slots(S)) /\ Count(S) = Cardinality(Slots(S)) /\ Count(S) \in Nat)'
    BY SlotsFinite, PTL
  <2>3. QED
    BY <2>2
<1>3. ASSUME Slots(S)' \subseteq Slots(S) PROVE Count(S)' <= Count(S)
  BY <1>1, <1>2, <1>3, FS_Subset
<1>4. ASSUME NEW x, Slots(S)' \subseteq Slots(S) \cup {x} PROVE Count(S)' <= Count(S) + 1
  <2>1. /\ IsFiniteSet(Slots(S) \cup {x})
        /\ Cardinality(Slots(S) \cup {x}) \in {Count(S), Count(S) + 1}
    BY <1>1, FS_AddElement
  <2>2. Cardinality(Slots(S)') <= Cardinality(Slots(S) \cup {x})
    BY <1>4, <2>1, FS_Subset
  <2>3. QED
    BY <1>1, <1>2, <2>1, <2>2
<1>5. QED
  BY <1>1, <1>2, <1>3, <1>4

-----------------------------------------------------------------------------
(* How runs change                                                         *)

\* No new place of a kind, where every entry of the kind was one before.
LEMMA NoNewPlace ==
  ASSUME NEW S,
         \A a \in Listeners : \A i \in 1 .. Len(runs'[a]) :
           runs'[a][i] \in S => i \in 1 .. Len(runs[a]) /\ runs[a][i] \in S
  PROVE  Slots(S)' \subseteq Slots(S)
BY DEF Slots, Indices

\* A run's last entry changes its state; the entries before it ended already.
LEMMA TurnRuns ==
  ASSUME RunsOK, NEW a \in Listeners, NEW from \in Live, NEW st \in Status,
         LastIs(a, from), runs' = WithLast(a, st)
  PROVE  /\ RunsOK'
         /\ \A b \in Listeners : Len(runs'[b]) = Len(runs[b])
         /\ \A S : from \in S \/ st \notin S => Slots(S)' \subseteq Slots(S)
<1> DEFINE n == Len(runs[a])
<1>1. runs \in [Listeners -> Seq(Status)] /\ runs[a] \in Seq(Status) /\ n \in Nat
  BY DEF RunsOK
<1>2. runs[a] # <<>> /\ runs[a][n] = from /\ n \in 1 .. n
  BY <1>1 DEF LastIs, Last
<1>3. runs' = [runs EXCEPT ![a] = [runs[a] EXCEPT ![n] = st]]
  BY DEF WithLast
<1> DEFINE later == [runs[a] EXCEPT ![n] = st]
<1>4. /\ later \in Seq(Status) /\ Len(later) = n
      /\ later[n] = st /\ \A i \in 1 .. n : i # n => later[i] = runs[a][i]
  BY <1>1, <1>2
<1> HIDE DEF n, later
<1>5. /\ runs' \in [Listeners -> Seq(Status)]
      /\ runs'[a] = later /\ \A b \in Listeners : b # a => runs'[b] = runs[b]
  BY <1>1, <1>3, <1>4 DEF later
<1>6. \A b \in Listeners : Len(runs'[b]) = Len(runs[b])
  BY <1>4, <1>5 DEF n
<1>7. RunsOK'
  <2>1. ASSUME NEW b \in Listeners, NEW i \in 1 .. Len(runs'[b]), i # Len(runs'[b])
        PROVE  runs'[b][i] \notin Live
    <3>1. CASE b = a
      BY <1>4, <1>5, <2>1, <3>1 DEF RunsOK, Indices, n
    <3>2. CASE b # a
      BY <1>5, <2>1, <3>2 DEF RunsOK, Indices
    <3>3. QED
      BY <3>1, <3>2
  <2>2. QED
    BY <1>5, <2>1 DEF RunsOK, Indices
<1>8. ASSUME NEW S, from \in S \/ st \notin S PROVE Slots(S)' \subseteq Slots(S)
  <2>1. ASSUME NEW b \in Listeners, NEW i \in 1 .. Len(runs'[b]), runs'[b][i] \in S
        PROVE  i \in 1 .. Len(runs[b]) /\ runs[b][i] \in S
    <3>1. CASE b = a
      <4>1. i \in 1 .. n
        BY <1>4, <1>5, <2>1, <3>1
      <4>2. CASE i = n
        BY <1>2, <1>4, <1>5, <1>8, <2>1, <3>1, <4>2 DEF n
      <4>3. CASE i # n
        BY <1>4, <1>5, <2>1, <3>1, <4>1, <4>3 DEF n
      <4>4. QED
        BY <4>2, <4>3
    <3>2. CASE b # a
      BY <1>5, <2>1, <3>2
    <3>3. QED
      BY <3>1, <3>2
  <2>2. QED
    BY <2>1, NoNewPlace
<1>9. QED
  BY <1>6, <1>7, <1>8

\* An entry is added for an agent that has no live one.
LEMMA AddRuns ==
  ASSUME RunsOK, NEW a \in Listeners, NEW st \in Status, ~IsLive(a),
         runs' = [runs EXCEPT ![a] = Append(@, st)]
  PROVE  /\ RunsOK'
         /\ \A S : Slots(S)' \subseteq Slots(S) \cup {<<a, Len(runs[a]) + 1>>}
         /\ \A S : st \notin S => Slots(S)' \subseteq Slots(S)
<1> DEFINE n == Len(runs[a])
           later == Append(runs[a], st)
<1>1. runs \in [Listeners -> Seq(Status)] /\ runs[a] \in Seq(Status) /\ n \in Nat
  BY DEF RunsOK
<1>2. /\ later \in Seq(Status) /\ Len(later) = n + 1
      /\ later[n + 1] = st /\ \A i \in 1 .. n : later[i] = runs[a][i]
  BY <1>1
<1>3. runs' = [runs EXCEPT ![a] = later]
  OBVIOUS
<1>4. n # 0 => runs[a][n] \notin Live
  BY <1>1 DEF IsLive, Last
<1> HIDE DEF n, later
<1>5. /\ runs' \in [Listeners -> Seq(Status)]
      /\ runs'[a] = later /\ \A b \in Listeners : b # a => runs'[b] = runs[b]
  BY <1>1, <1>2, <1>3
<1>6. \A i \in 1 .. (n + 1) : i \in 1 .. n \/ i = n + 1
  BY <1>1
<1>7. RunsOK'
  <2>1. ASSUME NEW b \in Listeners, NEW i \in 1 .. Len(runs'[b]), i # Len(runs'[b])
        PROVE  runs'[b][i] \notin Live
    <3>1. CASE b = a
      <4>1. i \in 1 .. n
        BY <1>2, <1>5, <1>6, <2>1, <3>1
      <4>2. runs[a][i] \notin Live
        BY <1>1, <1>4, <4>1 DEF RunsOK, Indices, n
      <4>3. QED
        BY <1>2, <1>5, <3>1, <4>1, <4>2
    <3>2. CASE b # a
      BY <1>5, <2>1, <3>2 DEF RunsOK, Indices
    <3>3. QED
      BY <3>1, <3>2
  <2>2. QED
    BY <1>5, <2>1 DEF RunsOK, Indices
<1>8. ASSUME NEW S, NEW b \in Listeners, NEW i \in 1 .. Len(runs'[b]), runs'[b][i] \in S
      PROVE  \/ i \in 1 .. Len(runs[b]) /\ runs[b][i] \in S
             \/ <<b, i>> = <<a, n + 1>> /\ st \in S
  <2>1. CASE b = a
    <3>1. i \in 1 .. n \/ i = n + 1
      BY <1>2, <1>5, <1>6, <1>8, <2>1
    <3>2. QED
      BY <1>2, <1>5, <1>8, <2>1, <3>1 DEF n
  <2>2. CASE b # a
    BY <1>5, <1>8, <2>2
  <2>3. QED
    BY <2>1, <2>2
<1>9. ASSUME NEW S PROVE Slots(S)' \subseteq Slots(S) \cup {<<a, n + 1>>}
  BY <1>8 DEF Slots, Indices
<1>10. ASSUME NEW S, st \notin S PROVE Slots(S)' \subseteq Slots(S)
  BY <1>8, <1>10 DEF Slots, Indices
<1>11. QED
  BY <1>7, <1>9, <1>10 DEF n

\* A restart ends what was live; nothing costs more than before.
LEMMA RestartRuns ==
  ASSUME RunsOK,
         runs' = [a \in Listeners |-> [i \in Indices(a) |-> AfterRestart(runs[a][i])]]
  PROVE  /\ RunsOK'
         /\ \A S : (\A s \in Status : AfterRestart(s) \in S => s \in S) => Slots(S)' \subseteq Slots(S)
         /\ \A a \in Listeners : Len(runs'[a]) = Len(runs[a])
         /\ \A a \in Listeners : runs[a] = <<>> => runs'[a] = <<>>
<1>1. runs \in [Listeners -> Seq(Status)] /\ \A a \in Listeners : Len(runs[a]) \in Nat
  BY DEF RunsOK
<1>2. ASSUME NEW s \in Status
      PROVE  AfterRestart(s) \in Status \ Live
  BY DEF AfterRestart, Status, Live
<1>3. ASSUME NEW a \in Listeners
      PROVE  /\ runs'[a] \in Seq(Status) /\ Len(runs'[a]) = Len(runs[a])
             /\ \A i \in 1 .. Len(runs[a]) : runs[a][i] \in Status /\ runs'[a][i] = AfterRestart(runs[a][i])
  <2>1. runs'[a] = [i \in 1 .. Len(runs[a]) |-> AfterRestart(runs[a][i])]
    BY DEF Indices
  <2>2. \A i \in 1 .. Len(runs[a]) : runs[a][i] \in Status
    BY <1>1
  <2>3. runs'[a] \in [1 .. Len(runs[a]) -> Status]
    BY <1>2, <2>1, <2>2
  <2>4. QED
    BY <1>1, <2>1, <2>2, <2>3
<1>4. runs' \in [Listeners -> Seq(Status)]
  BY <1>3
<1>5. RunsOK'
  BY <1>2, <1>3, <1>4 DEF RunsOK, Indices
<1>6. ASSUME NEW S, \A s \in Status : AfterRestart(s) \in S => s \in S
      PROVE  Slots(S)' \subseteq Slots(S)
  <2>1. ASSUME NEW a \in Listeners, NEW i \in 1 .. Len(runs'[a]), runs'[a][i] \in S
        PROVE  i \in 1 .. Len(runs[a]) /\ runs[a][i] \in S
    <3>1. i \in 1 .. Len(runs[a])
      BY <1>3
    <3>2. runs[a][i] \in Status /\ runs'[a][i] = AfterRestart(runs[a][i])
      BY <1>3, <3>1
    <3>3. QED
      BY <1>6, <2>1, <3>1, <3>2
  <2>2. QED
    BY <2>1, NoNewPlace
<1>7. \A a \in Listeners : runs[a] = <<>> => runs'[a] = <<>>
  BY <1>1, <1>3
<1>8. \A a \in Listeners : Len(runs'[a]) = Len(runs[a])
  BY <1>3
<1>9. QED
  BY <1>5, <1>6, <1>7, <1>8

-----------------------------------------------------------------------------
(* How the ledger and the bounds change                                    *)

\* What one more line does: the file ends with it, or the loss is recorded.
LEMMA LineAppended ==
  ASSUME Types, NEW d \in Decision, AppendLine(d)
  PROVE  /\ file' \in [exists : BOOLEAN, lines : Seq(Decision)]
         /\ used' \in [restarts : Nat, retries : Nat, lost : Nat, claims : Nat]
         /\ used'.retries = used.retries
         /\ cut' \in SUBSET {"offer", "notice", "line", "transcript"}
         /\ Clean' => Clean /\ file'.exists /\ file'.lines # <<>> /\ Last(file'.lines) = d
<1>1. /\ file.lines \in Seq(Decision)
      /\ used \in [restarts : Nat, retries : Nat, lost : Nat, claims : Nat]
      /\ cut \in SUBSET {"offer", "notice", "line", "transcript"}
  BY DEF Types, LedgerOK, RestOK
<1>2. CASE file' = [exists |-> TRUE, lines |-> Append(file.lines, d)] /\ UNCHANGED <<used, cut>>
  <2> DEFINE more == Append(file.lines, d)
  <2>1. more \in Seq(Decision) /\ more # <<>> /\ Last(more) = d
    BY <1>1 DEF Last
  <2> HIDE DEF more
  <2>2. file'.exists = TRUE /\ file'.lines = more /\ file' = [exists |-> TRUE, lines |-> more]
    BY <1>2 DEF more
  <2>3. QED
    BY <1>1, <1>2, <2>1, <2>2 DEF Clean
<1>3. CASE Mishap("lost") /\ cut' = cut \cup {"line"} /\ UNCHANGED file
  <2>1. used' = [used EXCEPT !.lost = used.lost + 1]
    BY <1>3 DEF Mishap
  <2>2. /\ used' \in [restarts : Nat, retries : Nat, lost : Nat, claims : Nat]
        /\ used'.retries = used.retries
    BY <1>1, <2>1
  <2>3. file' \in [exists : BOOLEAN, lines : Seq(Decision)]
    BY <1>3 DEF Types, LedgerOK
  <2>4. ~Clean' /\ cut' \in SUBSET {"offer", "notice", "line", "transcript"}
    BY <1>1, <1>3 DEF Clean
  <2>5. QED
    BY <2>2, <2>3, <2>4
<1>4. QED
  BY <1>2, <1>3 DEF AppendLine

\* A ledger's file with other lines.
LEMMA FileWithLines ==
  ASSUME NEW f \in [exists : BOOLEAN, lines : Seq(Decision)], NEW l \in Seq(Decision)
  PROVE  /\ [f EXCEPT !.lines = l] \in [exists : BOOLEAN, lines : Seq(Decision)]
         /\ [f EXCEPT !.lines = l].exists = f.exists
         /\ [f EXCEPT !.lines = l].lines = l
OBVIOUS

\* What the ledger holds once it is loaded: the last line, of a message that
\* is there, and a file that ends with it.
LEMMA LedgerLoaded ==
  ASSUME LedgerOK, NEW present \in BOOLEAN
  PROVE  /\ Loaded(present).d \in Decision \cup {Undecided}
         /\ Loaded(present).f \in [exists : BOOLEAN, lines : Seq(Decision)]
         /\ Loaded(present).d # Undecided =>
              /\ present /\ Loaded(present).f.exists
              /\ Loaded(present).f.lines # <<>> /\ Last(Loaded(present).f.lines) = Loaded(present).d
         /\ present /\ file.exists /\ file.lines # <<>> => Loaded(present).d = Last(file.lines)
<1>1. file \in [exists : BOOLEAN, lines : Seq(Decision)] /\ file.lines \in Seq(Decision)
  BY DEF LedgerOK
<1>2. \A d \in Decision : /\ <<d>> \in Seq(Decision) /\ <<d>> # <<>> /\ Last(<<d>>) = d
  BY DEF Last
<1>3. Undecided \notin Decision /\ "preActivation" \in Decision
  BY DEF Undecided, Decision
<1>4. CASE ~file.exists /\ present
  <2>1. Loaded(present) = [d |-> "preActivation", f |-> [exists |-> TRUE, lines |-> <<"preActivation">>]]
    BY <1>4 DEF Loaded
  <2> DEFINE one == <<"preActivation">>
  <2>2. one \in Seq(Decision) /\ one # <<>> /\ Last(one) = "preActivation"
    BY <1>2, <1>3
  <2> HIDE DEF one
  <2>3. /\ Loaded(present).d = "preActivation" /\ Loaded(present).f = [exists |-> TRUE, lines |-> one]
        /\ Loaded(present).f.lines = one /\ Loaded(present).f.exists
    BY <2>1 DEF one
  <2>4. QED
    BY <1>3, <1>4, <2>2, <2>3
<1>5. CASE ~file.exists /\ ~present
  BY <1>1, <1>5 DEF Loaded
<1>6. CASE file.exists /\ present /\ file.lines # <<>>
  <2> DEFINE last == Last(file.lines)
             one == <<last>>
  <2>1. Loaded(present) = [d |-> last, f |-> [file EXCEPT !.lines = one]]
    BY <1>6 DEF Loaded
  <2>2. last \in Decision
    BY <1>1, <1>6 DEF Last
  <2>3. one \in Seq(Decision) /\ one # <<>> /\ Last(one) = last
    BY <1>2, <2>2
  <2> HIDE DEF one, last
  <2> DEFINE cleared == [file EXCEPT !.lines = one]
  <2>8. /\ cleared \in [exists : BOOLEAN, lines : Seq(Decision)]
        /\ cleared.lines = one /\ cleared.exists
    BY <1>1, <1>6, <2>3, FileWithLines
  <2> HIDE DEF cleared
  <2>9. Loaded(present).d = last /\ Loaded(present).f = cleared
    BY <2>1 DEF cleared
  <2>10. /\ Loaded(present).d = last
        /\ Loaded(present).f \in [exists : BOOLEAN, lines : Seq(Decision)]
        /\ Loaded(present).f.lines = one /\ Loaded(present).f.exists
    BY <2>8, <2>9
  <2>6. last = Last(file.lines)
    BY DEF last
  <2>7. QED
    BY <1>6, <2>2, <2>3, <2>10, <2>6
<1>7. CASE file.exists /\ (~present \/ file.lines = <<>>)
  <2>1. Loaded(present) = [d |-> Undecided, f |-> [file EXCEPT !.lines = <<>>]]
    BY <1>1, <1>7 DEF Loaded
  <2> DEFINE none == [file EXCEPT !.lines = <<>>]
  <2>0. <<>> \in Seq(Decision)
    OBVIOUS
  <2>2. none \in [exists : BOOLEAN, lines : Seq(Decision)]
    BY <1>1, <2>0, FileWithLines
  <2> HIDE DEF none
  <2>3. Loaded(present).d = Undecided /\ Loaded(present).f = none
    BY <2>1 DEF none
  <2>4. QED
    BY <1>7, <2>2, <2>3
<1>8. QED
  BY <1>4, <1>5, <1>6, <1>7

-----------------------------------------------------------------------------
(* How a step moves                                                        *)

\* A run's last entry goes from a live state to another; nothing else changes.
Turned(a, from, st) ==
  /\ LastIs(a, from) /\ runs' = WithLast(a, st)
  /\ UNCHANGED <<room, surroundings, ledger, drain, used, cut>>

\* The steps of the worker and of users that turn a run.
LEMMA TurnsAre ==
  ASSUME NEW a \in Listeners,
         Launch(a) \/ Withdraw(a) \/ Displace(a) \/ End(a) \/ Busy(a)
  PROVE  \E from \in Live, st \in Status : Turned(a, from, st)
<1>1. \A from \in Live, st \in Status : Turn(a, from, st) => Turned(a, from, st)
  BY DEF Turn, Turned
<1>2. "pending" \in Live /\ "running" \in Live
  BY DEF Live
<1>3. \A st \in {"pending", "running", "completed", "failed", "cancelled", "expired"} : st \in Status
  BY DEF Status
<1>4. CASE Launch(a)
  BY <1>1, <1>2, <1>3, <1>4 DEF Launch
<1>5. CASE Withdraw(a)
  BY <1>1, <1>2, <1>3, <1>5 DEF Withdraw
<1>6. CASE Displace(a)
  BY <1>1, <1>2, <1>3, <1>6 DEF Displace
<1>7. CASE End(a)
  BY <1>1, <1>2, <1>3, <1>7 DEF End
<1>8. CASE Busy(a)
  BY <1>1, <1>2, <1>3, <1>8 DEF Busy
<1>9. QED
  BY <1>4, <1>5, <1>6, <1>7, <1>8

\* The steps of the room: nothing the drain has decided or made changes.
Around ==
  \/ Arrive \/ AnsweredElsewhere \/ Claim
  \/ \E h \in Hold : Release(h)
  \/ \E a \in Listeners : Quieten(a) \/ Reply(a)

LEMMA AroundKeeps ==
  ASSUME Types, Around
  PROVE  /\ RoomOK' /\ used' \in [restarts : Nat, retries : Nat, lost : Nat, claims : Nat]
         /\ used'.retries = used.retries
         /\ here => here'
         /\ UNCHANGED <<noticed, decision, file, runs, drain, cut>>
<1>1. RoomOK /\ used \in [restarts : Nat, retries : Nat, lost : Nat, claims : Nat]
  BY DEF Types, RestOK
<1>2. CASE Claim
  <2>1. used' = [used EXCEPT !.claims = used.claims + 1]
    BY <1>2 DEF Claim, Mishap
  <2>2. /\ used' \in [restarts : Nat, retries : Nat, lost : Nat, claims : Nat]
        /\ used'.retries = used.retries
    BY <1>1, <2>1
  <2>3. QED
    BY <1>1, <1>2, <2>2 DEF Claim, RoomOK, Hold, room, ledger
<1>3. CASE Arrive
  BY <1>1, <1>3 DEF Arrive, RoomOK, surroundings, ledger
<1>4. CASE AnsweredElsewhere
  BY <1>1, <1>4 DEF AnsweredElsewhere, RoomOK, surroundings, ledger
<1>5. ASSUME NEW h \in Hold, Release(h) PROVE RoomOK' /\ UNCHANGED <<room, ledger, runs, drain, used, cut>>
  BY <1>1, <1>5 DEF Release, RoomOK, room, ledger
<1>6. ASSUME NEW a \in Listeners, Quieten(a) PROVE RoomOK' /\ UNCHANGED <<room, ledger, runs, drain, used, cut>>
  BY <1>1, <1>6 DEF Quieten, RoomOK, room, ledger
<1>7. ASSUME NEW a \in Listeners, Reply(a)
      PROVE  RoomOK' /\ UNCHANGED <<here, noticed, ledger, runs, drain, used, cut>>
  BY <1>1, <1>7 DEF Reply, RoomOK, surroundings, ledger
<1>8. QED
  BY <1>1, <1>2, <1>3, <1>4, <1>5, <1>6, <1>7 DEF Around, room, ledger

\* Every step is one of these.
LEMMA StepsAre ==
  ASSUME [Next]_vars
  PROVE  \/ Around \/ OtherDecision \/ UNCHANGED vars
         \/ \E a \in Listeners : \E from \in Live, st \in Status : Turned(a, from, st)
         \/ \E a \in Listeners : UserRetry(a) \/ Dispatch(a) \/ Refuse(a)
         \/ \E k \in drain.runs : Requeue(k) \/ RefuseRequeue(k)
         \/ Read \/ Decline \/ Leave \/ LeaveReopened \/ GiveUp \/ PutBack
         \/ \E S \in SUBSET Listeners : Offer(S) \/ OfferAgain(S)
         \/ Announce \/ Throttle \/ Restart
<1>1. CASE Room
  BY <1>1 DEF Room, Around
<1>2. CASE Proceed
  BY <1>2 DEF Proceed, DecideFresh, DecideReopened
<1>3. CASE \E a \in Listeners : \/ Launch(a) \/ Withdraw(a) \/ Displace(a) \/ End(a) \/ Busy(a)
  BY <1>3, TurnsAre
<1>4. CASE \E a \in Listeners : Quieten(a) \/ Reply(a)
  BY <1>4 DEF Around
<1>5. CASE \E h \in Hold : Release(h)
  BY <1>5 DEF Around
<1>6. QED
  BY <1>1, <1>2, <1>3, <1>4, <1>5 DEF Next

-----------------------------------------------------------------------------
(* Types are kept                                                          *)

\* The drain at its ends.
LEMMA DrainsEnd ==
  /\ Idle \in Drain /\ Idle.step = "idle" /\ Idle.agents = {} /\ Idle.runs = {}
  /\ Announcing \in Drain /\ Announcing.step = "announcing"
  /\ Announcing.agents = {} /\ Announcing.runs = {}
<1>1. {} \in RunSets
  BY FS_EmptySet DEF RunSets
<1>2. Nothing \in Seen
  BY <1>1 DEF Nothing, Seen
<1>3. Idle \in Drain /\ Idle.step = "idle" /\ Idle.agents = {} /\ Idle.runs = {}
  BY <1>1, <1>2 DEF Idle, Drain
<1>4. QED
  BY <1>3 DEF Announcing, Drain

\* What a drain reads.
LEMMA ReadingOK ==
  ASSUME Types
  PROVE  /\ Reading \in Seen
         /\ Reading.fresh = (decision = Undecided) /\ Reading.executed = Count(Failures)
         /\ Reading.expired = Cardinality(Reading.unstarted)
<1>1. /\ Count({"failed", "interrupted"}) \in Nat /\ Count({"expired"}) \in Nat
      /\ Slots({"expired"}) \in RunSets /\ Count({"expired"}) = Cardinality(Slots({"expired"}))
  BY SlotsFinite DEF Types
<1>2. answered \in BOOLEAN
  BY DEF Types, RoomOK
<1>3. QED
  BY <1>1, <1>2 DEF Reading, Seen, Failures

\* One agent fewer, or the end.
LEMMA OfferedOne ==
  ASSUME drain \in Drain, NEW a \in drain.agents
  PROVE  /\ Offered(a) \in Drain
         /\ Offered(a) = Idle \/ Offered(a).step = drain.step
         /\ Offered(a).agents \subseteq drain.agents \ {a}
         /\ Offered(a).runs \subseteq drain.runs
<1>1. CASE drain.agents = {a}
  BY <1>1, DrainsEnd DEF Offered
<1>2. CASE drain.agents # {a}
  <2> DEFINE fewer == [drain EXCEPT !.agents = drain.agents \ {a}]
  <2>1. Offered(a) = fewer
    BY <1>2 DEF Offered
  <2>2. /\ fewer \in Drain /\ fewer.step = drain.step
        /\ fewer.agents = drain.agents \ {a} /\ fewer.runs = drain.runs
    BY DEF Drain
  <2> HIDE DEF fewer
  <2>3. QED
    BY <2>1, <2>2
<1>3. QED
  BY <1>1, <1>2

\* One run fewer, or the end.
LEMMA ConsideredOne ==
  ASSUME drain \in Drain, NEW k \in drain.runs,
         NEW rest \in Drain, rest.step = drain.step,
         rest.agents = drain.agents, rest.runs = drain.runs
  PROVE  /\ Considered(k, rest) \in Drain
         /\ Considered(k, rest) = Idle \/ Considered(k, rest).step = drain.step
         /\ Considered(k, rest).agents \subseteq drain.agents
         /\ Considered(k, rest).runs \subseteq drain.runs \ {k}
<1>1. CASE drain.runs = {k}
  BY <1>1, DrainsEnd DEF Considered
<1>2. CASE drain.runs # {k}
  <2> DEFINE fewer == [rest EXCEPT !.runs = rest.runs \ {k}]
  <2>1. Considered(k, rest) = fewer
    BY <1>2 DEF Considered
  <2>2. drain.runs \in SUBSET (Listeners \X Nat) /\ IsFiniteSet(drain.runs)
    BY DEF Drain, RunSets
  <2>3. rest.runs \ {k} \in RunSets
    BY <2>2, FS_RemoveElement DEF RunSets
  <2>4. /\ fewer \in Drain /\ fewer.step = rest.step
        /\ fewer.agents = rest.agents /\ fewer.runs = rest.runs \ {k}
    BY <2>3 DEF Drain
  <2> HIDE DEF fewer
  <2>5. QED
    BY <2>1, <2>4
<1>3. QED
  BY <1>1, <1>2

\* A run of the drain is a listener's.
LEMMA RunsOfListeners ==
  ASSUME drain \in Drain, NEW k \in drain.runs
  PROVE  k[1] \in Listeners
BY DEF Drain, RunSets

\* How each step of the drain leaves it.
LEMMA DrainMoves ==
  ASSUME Types
  PROVE  /\ Read => /\ drain' \in Drain /\ drain'.step = "read"
                    /\ drain'.agents = {} /\ drain'.runs = {} /\ drain'.seen = Reading
         /\ Decline \/ Leave \/ LeaveReopened \/ Announce \/ Throttle \/ Restart => drain' = Idle
         /\ GiveUp => drain' = Announcing
         /\ PutBack => /\ drain' \in Drain /\ drain'.step = "requeueing"
                       /\ drain'.agents = {} /\ drain'.runs = drain.seen.unstarted
         /\ \A S \in SUBSET Listeners : Offer(S) \/ OfferAgain(S) =>
              /\ drain' \in Drain /\ drain'.step = "offering"
              /\ drain'.agents = S /\ drain'.runs = {}
         /\ \A a \in Listeners : Dispatch(a) \/ Refuse(a) =>
              /\ drain' \in Drain /\ a \in drain.agents /\ drain'.agents \subseteq drain.agents \ {a}
              /\ drain'.runs \subseteq drain.runs
              /\ drain' = Idle \/ drain'.step = drain.step
         /\ \A k \in drain.runs : Requeue(k) =>
              /\ drain' \in Drain /\ drain'.runs \subseteq drain.runs \ {k}
              /\ drain'.agents \subseteq drain.agents
              /\ drain' = Idle \/ drain'.step = drain.step
         /\ \A k \in drain.runs : RefuseRequeue(k) =>
              /\ drain' \in Drain /\ drain'.runs \subseteq drain.runs
              /\ drain'.agents \subseteq drain.agents
              /\ drain' \in {Idle, Announcing} \/ drain'.step = drain.step
<1>1. drain \in Drain /\ drain.seen \in Seen /\ Reading \in Seen
  BY ReadingOK DEF Types, RestOK, Drain
<1>2. ASSUME Read
      PROVE  /\ drain' \in Drain /\ drain'.step = "read" /\ drain'.agents = {} /\ drain'.runs = {}
             /\ drain'.seen = Reading
  <2>1. drain' = [Idle EXCEPT !.step = "read", !.seen = Reading]
    BY <1>2 DEF Read
  <2>2. QED
    BY <1>1, <2>1, DrainsEnd DEF Drain
<1>3. ASSUME Decline \/ Leave \/ LeaveReopened \/ Announce \/ Throttle \/ Restart PROVE drain' = Idle
  BY <1>3 DEF Decline, Leave, LeaveReopened, Announce, Throttle, Restart
<1>4. ASSUME GiveUp PROVE drain' = Announcing
  BY <1>4 DEF GiveUp
<1>5. ASSUME PutBack
      PROVE  /\ drain' \in Drain /\ drain'.step = "requeueing"
             /\ drain'.agents = {} /\ drain'.runs = drain.seen.unstarted
  <2>1. drain' = [Idle EXCEPT !.step = "requeueing", !.runs = drain.seen.unstarted]
    BY <1>5 DEF PutBack
  <2>2. drain.seen.unstarted \in RunSets
    BY <1>1 DEF Seen
  <2>3. QED
    BY <2>1, <2>2, DrainsEnd DEF Drain
<1>6. ASSUME NEW S \in SUBSET Listeners, Offer(S) \/ OfferAgain(S)
      PROVE  /\ drain' \in Drain /\ drain'.step = "offering"
             /\ drain'.agents = S /\ drain'.runs = {}
  <2>1. drain' = [Idle EXCEPT !.step = "offering", !.agents = S]
    BY <1>6 DEF Offer, OfferAgain
  <2>2. QED
    BY <2>1, DrainsEnd DEF Drain
<1>7. ASSUME NEW a \in Listeners, Dispatch(a) \/ Refuse(a)
      PROVE  /\ drain' \in Drain /\ a \in drain.agents /\ drain'.agents \subseteq drain.agents \ {a}
             /\ drain'.runs \subseteq drain.runs
             /\ drain' = Idle \/ drain'.step = drain.step
  <2>1. drain' = Offered(a) /\ a \in drain.agents
    BY <1>7 DEF Dispatch, Refuse
  <2>2. QED
    BY <1>1, <2>1, OfferedOne
<1>8. ASSUME NEW k \in drain.runs, Requeue(k)
      PROVE  /\ drain' \in Drain /\ drain'.runs \subseteq drain.runs \ {k}
             /\ drain'.agents \subseteq drain.agents
             /\ drain' = Idle \/ drain'.step = drain.step
  <2> DEFINE put == [drain EXCEPT !.put = TRUE]
  <2>1. put \in Drain /\ put.agents = drain.agents /\ put.runs = drain.runs /\ put.step = drain.step
    BY <1>1 DEF Drain
  <2>2. drain' = Considered(k, put)
    BY <1>8 DEF Requeue
  <2> HIDE DEF put
  <2>3. QED
    BY <1>1, <2>1, <2>2, ConsideredOne
<1>9. ASSUME NEW k \in drain.runs, RefuseRequeue(k)
      PROVE  /\ drain' \in Drain /\ drain'.runs \subseteq drain.runs
             /\ drain'.agents \subseteq drain.agents
             /\ drain' \in {Idle, Announcing} \/ drain'.step = drain.step
  <2>1. drain' = Announcing \/ drain' = Considered(k, drain)
    BY <1>9 DEF RefuseRequeue
  <2>2. QED
    BY <1>1, <2>1, ConsideredOne, DrainsEnd
<1>10. QED
  BY <1>2, <1>3, <1>4, <1>5, <1>6, <1>7, <1>8, <1>9

\* A decision that is settled keeps the ledger's types.
LEMMA SettleOK ==
  ASSUME Types, NEW d \in Decision, Settle(d)
  PROVE  /\ LedgerOK' /\ decision' = d
         /\ used' \in [restarts : Nat, retries : Nat, lost : Nat, claims : Nat]
         /\ used'.retries = used.retries
         /\ cut' \in SUBSET {"offer", "notice", "line", "transcript"}
         /\ Clean' => Clean /\ file'.exists /\ file'.lines # <<>> /\ Last(file'.lines) = d
<1>1. AppendLine(d) /\ decision' = d
  BY DEF Settle
<1>2. QED
  BY <1>1, LineAppended DEF LedgerOK

\* The types survive every step.
LEMMA TypesStep ==
  ASSUME Types, [Next]_vars
  PROVE  Types'
<1>1. RoomOK /\ LedgerOK /\ RunsOK /\ drain \in Drain
      /\ used \in [restarts : Nat, retries : Nat, lost : Nat, claims : Nat]
      /\ cut \in SUBSET {"offer", "notice", "line", "transcript"}
  BY DEF Types, RestOK
<1>2. CASE Around
  BY <1>1, <1>2, AroundKeeps DEF Types, LedgerOK, RunsOK, RestOK, Indices
<1>3. CASE OtherDecision
  <2>1. file' = [exists |-> TRUE, lines |-> file.lines]
    BY <1>1, <1>3 DEF OtherDecision, LedgerOK
  <2>2. LedgerOK'
    BY <1>1, <1>3, <2>1 DEF OtherDecision, LedgerOK
  <2>3. QED
    BY <1>1, <1>3, <2>2 DEF OtherDecision, Types, RoomOK, RunsOK, RestOK, Indices, room, surroundings
<1>4. CASE UNCHANGED vars
  BY <1>4 DEF vars, Types, RoomOK, LedgerOK, RunsOK, RestOK, Indices
<1>5. ASSUME NEW a \in Listeners, NEW from \in Live, NEW st \in Status, Turned(a, from, st) PROVE Types'
  <2>1. RunsOK'
    BY <1>1, <1>5, TurnRuns DEF Turned
  <2>2. QED
    BY <1>1, <1>5, <2>1 DEF Turned, Types, RoomOK, LedgerOK, RestOK, room, surroundings, ledger
<1>6. ASSUME NEW a \in Listeners, UserRetry(a) PROVE Types'
  <2>1. ~IsLive(a) /\ runs' = [runs EXCEPT ![a] = Append(@, "pending")]
    BY <1>6 DEF UserRetry
  <2>2. RunsOK'
    BY <1>1, <2>1, AddRuns DEF Status
  <2>3. used' = [used EXCEPT !.retries = used.retries + 1]
    BY <1>6 DEF UserRetry, Mishap
  <2>4. used' \in [restarts : Nat, retries : Nat, lost : Nat, claims : Nat]
    BY <1>1, <2>3
  <2>5. QED
    BY <1>1, <1>6, <2>2, <2>4 DEF UserRetry, Types, RoomOK, LedgerOK, RestOK, room, surroundings, ledger
<1>7. ASSUME NEW a \in Listeners, Dispatch(a) PROVE Types'
  <2>1. RunsOK'
    <3>1. CASE UNCHANGED runs
      BY <1>1, <3>1 DEF RunsOK, Indices
    <3>2. ASSUME runs[a] = <<>>, NEW st \in {"pending", "expired", "cancelled"},
                 runs' = [runs EXCEPT ![a] = <<st>>]
          PROVE  RunsOK'
      <4>1. ~IsLive(a) /\ runs' = [runs EXCEPT ![a] = Append(@, st)]
        BY <3>2 DEF IsLive
      <4>2. st \in Status
        BY DEF Status
      <4>3. QED
        BY <1>1, <4>1, <4>2, AddRuns
    <3>3. QED
      BY <1>7, <3>1, <3>2 DEF Dispatch
  <2>2. drain' \in Drain
    BY <1>7, DrainMoves
  <2>3. QED
    BY <1>1, <1>7, <2>1, <2>2 DEF Dispatch, Types, RoomOK, LedgerOK, RestOK, room, surroundings, ledger
<1>8. ASSUME NEW k \in drain.runs, Requeue(k) PROVE Types'
  <2>0. k[1] \in Listeners
    BY <1>1, RunsOfListeners
  <2>1. ~IsLive(k[1]) /\ runs' = [runs EXCEPT ![k[1]] = Append(@, "pending")]
    BY <1>8 DEF Requeue
  <2>2. RunsOK'
    BY <1>1, <2>0, <2>1, AddRuns DEF Status
  <2>3. drain' \in Drain
    BY <1>8, DrainMoves
  <2>4. QED
    BY <1>1, <1>8, <2>2, <2>3 DEF Requeue, Types, RoomOK, LedgerOK, RestOK, room, surroundings, ledger
<1>9. ASSUME NEW k \in drain.runs, RefuseRequeue(k) PROVE Types'
  <2>1. drain' \in Drain
    BY <1>9, DrainMoves
  <2>2. RoomOK' /\ RunsOK'
    BY <1>1, <1>9 DEF RefuseRequeue, RoomOK, RunsOK, Indices, room, surroundings
  <2>3. CASE Settle("givenUp")
    BY <2>1, <2>2, <2>3, SettleOK DEF Types, RestOK, Decision
  <2>4. CASE UNCHANGED <<ledger, used, cut>>
    BY <1>1, <2>1, <2>2, <2>4 DEF Types, RestOK, LedgerOK, ledger
  <2>5. QED
    BY <1>9, <2>3, <2>4 DEF RefuseRequeue
<1>18. ASSUME NEW a \in Listeners, Refuse(a) PROVE Types'
  <2>1. drain' \in Drain
    BY <1>18, DrainMoves
  <2>2. cut' \in SUBSET {"offer", "notice", "line", "transcript"}
    BY <1>1, <1>18 DEF Refuse
  <2>3. QED
    BY <1>1, <1>18, <2>1, <2>2 DEF Refuse, Types, RoomOK, LedgerOK, RunsOK, RestOK, Indices, room, surroundings, ledger
<1>10. CASE Decline
  <2>1. Settle("declined") /\ RoomOK' /\ RunsOK' /\ drain' \in Drain
    BY <1>1, <1>10, DrainMoves, DrainsEnd DEF Decline, RoomOK, RunsOK, Indices, room, surroundings
  <2>2. QED
    BY <2>1, SettleOK DEF Types, RestOK, Decision
<1>11. CASE GiveUp
  <2>1. Settle("givenUp") /\ RoomOK' /\ RunsOK' /\ drain' \in Drain
    BY <1>1, <1>11, DrainMoves, DrainsEnd DEF GiveUp, RoomOK, RunsOK, Indices, room, surroundings
  <2>2. QED
    BY <2>1, SettleOK DEF Types, RestOK, Decision
<1>12. ASSUME NEW S \in SUBSET Listeners, Offer(S) PROVE Types'
  <2>1. Settle("offered") /\ RoomOK' /\ RunsOK' /\ drain' \in Drain
    BY <1>1, <1>12, DrainMoves DEF Offer, RoomOK, RunsOK, Indices, room, surroundings
  <2>2. QED
    BY <2>1, SettleOK DEF Types, RestOK, Decision
<1>13. ASSUME Read \/ Leave \/ LeaveReopened \/ PutBack \/ \E S \in SUBSET Listeners : OfferAgain(S)
       PROVE  Types'
  <2>1. drain' \in Drain
    BY <1>13, DrainMoves, DrainsEnd
  <2>2. UNCHANGED <<room, surroundings, ledger, runs, used, cut>>
    BY <1>13 DEF Read, Leave, LeaveReopened, PutBack, OfferAgain
  <2>3. QED
    BY <1>1, <2>1, <2>2 DEF Types, RoomOK, LedgerOK, RunsOK, RestOK, Indices, room, surroundings, ledger
<1>14. CASE Announce
  <2>1. drain' \in Drain
    BY <1>14, DrainMoves, DrainsEnd
  <2>2. QED
    BY <1>1, <1>14, <2>1 DEF Announce, Types, RoomOK, LedgerOK, RunsOK, RestOK, Indices, surroundings, ledger
<1>15. CASE Throttle
  <2>1. drain' \in Drain
    BY <1>15, DrainMoves, DrainsEnd
  <2>2. QED
    BY <1>1, <1>15, <2>1 DEF Throttle, Types, RoomOK, LedgerOK, RunsOK, RestOK, Indices, room, surroundings, ledger
<1>16. CASE Restart
  <2>1. drain' \in Drain /\ RunsOK'
    BY <1>1, <1>16, DrainMoves, DrainsEnd, RestartRuns DEF Restart
  <2>2. used' = [used EXCEPT !.restarts = used.restarts + 1]
    BY <1>16 DEF Restart
  <2>3. used' \in [restarts : Nat, retries : Nat, lost : Nat, claims : Nat]
    BY <1>1, <2>2
  <2>4. RoomOK' /\ cut' \in SUBSET {"offer", "notice", "line", "transcript"}
    BY <1>1, <1>16 DEF Restart, RoomOK, surroundings
  <2>5. here' \in BOOLEAN /\ decision' = Loaded(here').d /\ file' = Loaded(here').f
    BY <1>16, <2>4 DEF Restart, RoomOK
  <2>6. LedgerOK'
    BY <1>1, <2>5, LedgerLoaded DEF LedgerOK
  <2>7. QED
    BY <2>1, <2>3, <2>4, <2>6 DEF Types, RestOK
<1>19. QED
  BY <1>2, <1>3, <1>4, <1>5, <1>6, <1>7, <1>8, <1>9, <1>10, <1>11, <1>12, <1>13, <1>14, <1>15, <1>16, <1>18, StepsAre

-----------------------------------------------------------------------------
(* The drain and the decision                                              *)

\* What was lost stays lost, and a user's retry stays counted.
LEMMA LossesStand ==
  ASSUME Types, [Next]_vars
  PROVE  /\ Clean' => Clean
         /\ used'.retries = 0 => used.retries = 0
<1>1. /\ used \in [restarts : Nat, retries : Nat, lost : Nat, claims : Nat]
      /\ RunsOK
  BY DEF Types, RestOK
<1>2. CASE Around
  BY <1>2, AroundKeeps DEF Clean
<1>3. ASSUME UNCHANGED <<used, cut>> PROVE (Clean' => Clean) /\ used'.retries = used.retries
  BY <1>3 DEF Clean
<1>4. CASE OtherDecision \/ UNCHANGED vars
  BY <1>3, <1>4 DEF OtherDecision, vars
<1>5. ASSUME NEW a \in Listeners, NEW from \in Live, NEW st \in Status, Turned(a, from, st)
      PROVE  (Clean' => Clean) /\ used'.retries = used.retries
  BY <1>3, <1>5 DEF Turned
<1>6. ASSUME NEW a \in Listeners, UserRetry(a) PROVE (Clean' => Clean) /\ used'.retries # 0
  <2>1. used' = [used EXCEPT !.retries = used.retries + 1] /\ UNCHANGED cut
    BY <1>6 DEF UserRetry, Mishap
  <2>2. used'.retries = used.retries + 1 /\ used.retries \in Nat
    BY <1>1, <2>1
  <2>3. QED
    BY <2>1, <2>2 DEF Clean
<1>7. ASSUME (\E a \in Listeners : Dispatch(a) \/ Refuse(a)) \/ \E k \in drain.runs : Requeue(k)
      PROVE  (Clean' => Clean) /\ used'.retries = used.retries
  BY <1>7 DEF Dispatch, Refuse, Requeue, Clean
<1>8. ASSUME NEW d \in Decision, Settle(d) PROVE (Clean' => Clean) /\ used'.retries = used.retries
  BY <1>8, SettleOK
<1>9. ASSUME NEW k \in drain.runs, RefuseRequeue(k)
      PROVE  (Clean' => Clean) /\ used'.retries = used.retries
  BY <1>3, <1>8, <1>9 DEF RefuseRequeue, Decision
<1>10. CASE Decline \/ GiveUp \/ \E S \in SUBSET Listeners : Offer(S)
  BY <1>8, <1>10 DEF Decline, GiveUp, Offer, Decision
<1>11. ASSUME Read \/ Leave \/ LeaveReopened \/ PutBack \/ Announce \/ \E S \in SUBSET Listeners : OfferAgain(S)
       PROVE  (Clean' => Clean) /\ used'.retries = used.retries
  BY <1>3, <1>11 DEF Read, Leave, LeaveReopened, PutBack, Announce, OfferAgain
<1>12. CASE Throttle
  BY <1>12 DEF Throttle, Clean
<1>13. CASE Restart
  <2>1. used' = [used EXCEPT !.restarts = used.restarts + 1]
    BY <1>13 DEF Restart
  <2>2. used'.retries = used.retries
    BY <1>1, <2>1
  <2>3. Clean' => Clean
    BY <1>13 DEF Restart, Clean
  <2>4. QED
    BY <2>2, <2>3
<1>14. QED
  BY <1>2, <1>4, <1>5, <1>6, <1>7, <1>9, <1>10, <1>11, <1>12, <1>13, StepsAre

\* While the drain is at work the decision it acts on is not changed by others.
LEMMA DrainDecidedStep ==
  ASSUME Types, DrainDecided, [Next]_vars
  PROVE  DrainDecided'
<1> USE DEF At
<1>1. drain \in Drain /\ here \in BOOLEAN
  BY DEF Types, RestOK, RoomOK
<1>2. CASE Around
  BY <1>2, AroundKeeps DEF DrainDecided
<1>3. CASE OtherDecision \/ UNCHANGED vars
  BY <1>3 DEF OtherDecision, vars, DrainDecided, room
<1>4. ASSUME NEW a \in Listeners, NEW from \in Live, NEW st \in Status, Turned(a, from, st) PROVE DrainDecided'
  BY <1>4 DEF Turned, DrainDecided, room, ledger
<1>5. ASSUME NEW a \in Listeners, UserRetry(a) PROVE DrainDecided'
  BY <1>5 DEF UserRetry, DrainDecided, room, ledger
<1>6. ASSUME drain' = Idle PROVE DrainDecided'
  BY <1>6, DrainsEnd DEF DrainDecided
<1>7. ASSUME NEW a \in Listeners, Dispatch(a) \/ Refuse(a) PROVE DrainDecided'
  <2>1. UNCHANGED <<here, decision>> /\ drain.step = "offering"
    BY <1>7 DEF Dispatch, Refuse, room, ledger
  <2>2. drain' = Idle \/ drain'.step = drain.step
    BY <1>7, DrainMoves
  <2>3. QED
    BY <1>6, <2>1, <2>2 DEF DrainDecided
<1>8. ASSUME NEW k \in drain.runs, Requeue(k) PROVE DrainDecided'
  <2>1. UNCHANGED <<here, decision>> /\ drain.step = "requeueing"
    BY <1>8 DEF Requeue, room, ledger
  <2>2. drain' = Idle \/ drain'.step = drain.step
    BY <1>8, DrainMoves
  <2>3. QED
    BY <1>6, <2>1, <2>2 DEF DrainDecided
<1>9. ASSUME NEW k \in drain.runs, RefuseRequeue(k) PROVE DrainDecided'
  <2>1. UNCHANGED here /\ drain.step = "requeueing"
    BY <1>9 DEF RefuseRequeue, room
  <2>2. CASE Settle("givenUp") /\ drain' = Announcing
    BY <2>1, <2>2, DrainsEnd DEF Settle, DrainDecided
  <2>3. CASE drain' = Considered(k, drain) /\ UNCHANGED <<ledger, used, cut>>
    <3>1. drain' = Idle \/ drain'.step = drain.step
      BY <1>1, <2>3, ConsideredOne
    <3>2. QED
      BY <1>6, <2>1, <2>3, <3>1 DEF DrainDecided, ledger
  <2>4. QED
    BY <1>9, <2>2, <2>3 DEF RefuseRequeue
<1>10. CASE Decline \/ Leave \/ LeaveReopened \/ Announce \/ Throttle \/ Restart
  BY <1>6, <1>10, DrainMoves
<1>11. CASE GiveUp
  BY <1>11, DrainsEnd DEF GiveUp, Reopened, Settle, DrainDecided, room
<1>12. CASE Read
  <2>1. drain'.step = "read" /\ drain'.agents = {} /\ drain'.seen = Reading
    BY <1>12, DrainMoves
  <2>2. Reading.fresh = (decision = Undecided)
    BY ReadingOK
  <2>3. UNCHANGED <<here, decision>> /\ here /\ (decision = Undecided \/ decision = "offered")
    BY <1>12 DEF Read, room, ledger
  <2>4. QED
    BY <2>1, <2>2, <2>3 DEF DrainDecided
<1>13. CASE PutBack
  <2>1. drain'.step = "requeueing"
    BY <1>13, DrainMoves
  <2>2. QED
    BY <1>13, <2>1 DEF PutBack, Reopened, DrainDecided, room, ledger
<1>14. ASSUME NEW S \in SUBSET Listeners, Offer(S) \/ OfferAgain(S) PROVE DrainDecided'
  <2>1. drain'.step = "offering"
    BY <1>14, DrainMoves
  <2>2. UNCHANGED here /\ drain.step = "read"
    BY <1>14 DEF Offer, OfferAgain, Fresh, Reopened, room
  <2>3. decision' = "offered"
    BY <1>14 DEF Offer, OfferAgain, Reopened, Settle, DrainDecided, ledger
  <2>4. QED
    BY <2>1, <2>2, <2>3 DEF DrainDecided
<1>15. QED
  BY <1>2, <1>3, <1>4, <1>5, <1>7, <1>8, <1>9, <1>10, <1>11, <1>12, <1>13, <1>14, StepsAre

\* Without a loss the ledger's file ends with the decision in memory, whatever
\* was settled, restarted or made since.
LEMMA LedgerTrueStep ==
  ASSUME Types, DrainDecided, LedgerTrue, [Next]_vars
  PROVE  LedgerTrue'
<1> SUFFICES ASSUME Clean'
             PROVE  /\ decision' # Undecided => /\ here' /\ file'.exists
                                                /\ file'.lines # <<>> /\ Last(file'.lines) = decision'
                    /\ decision' = Undecided => \A a \in Listeners : runs'[a] = <<>>
                    /\ noticed' => decision' = "givenUp"
  BY DEF LedgerTrue
<1> DEFINE Goal == /\ decision' # Undecided => /\ here' /\ file'.exists
                                               /\ file'.lines # <<>> /\ Last(file'.lines) = decision'
                   /\ decision' = Undecided => \A a \in Listeners : runs'[a] = <<>>
                   /\ noticed' => decision' = "givenUp"
<1>1. Clean
  BY LossesStand
<1>2. /\ decision # Undecided => /\ here /\ file.exists
                                 /\ file.lines # <<>> /\ Last(file.lines) = decision
      /\ decision = Undecided => \A a \in Listeners : runs[a] = <<>>
      /\ noticed => decision = "givenUp"
  BY <1>1 DEF LedgerTrue
<1>3. ASSUME UNCHANGED <<decision, file, noticed>>, here => here', decision # Undecided \/ UNCHANGED runs
      PROVE  Goal
  BY <1>2, <1>3
<1>4. CASE Around
  BY <1>3, <1>4, AroundKeeps
<1>5. CASE UNCHANGED vars
  BY <1>3, <1>5 DEF vars
<1>6. CASE OtherDecision
  BY <1>2, <1>6 DEF OtherDecision, room
<1>7. ASSUME NEW a \in Listeners, runs[a] # <<>> PROVE decision # Undecided
  BY <1>2, <1>7
<1>8. ASSUME NEW a \in Listeners, NEW from \in Live, NEW st \in Status, Turned(a, from, st) PROVE Goal
  BY <1>3, <1>7, <1>8 DEF Turned, LastIs, room, ledger
<1>9. ASSUME NEW a \in Listeners, UserRetry(a) PROVE Goal
  <2>1. runs[a] # <<>>
    BY <1>9 DEF UserRetry, Has, Indices
  <2>2. QED
    BY <1>3, <1>7, <1>9, <2>1 DEF UserRetry, room, ledger
<1>10. ASSUME (\E a \in Listeners : Dispatch(a) \/ Refuse(a)) \/ \E k \in drain.runs : Requeue(k)
       PROVE  Goal
  <2>1. decision = "offered"
    BY <1>10 DEF Dispatch, Refuse, Requeue, DrainDecided
  <2>2. QED
    BY <1>3, <1>10, <2>1 DEF Dispatch, Refuse, Requeue, room, ledger, Undecided
<1>11. ASSUME NEW d \in Decision, Settle(d), here', noticed' => d = "givenUp" PROVE Goal
  <2>1. d # Undecided
    BY DEF Decision, Undecided
  <2>2. QED
    BY <1>11, <2>1, SettleOK
<1>12. ASSUME NEW k \in drain.runs, RefuseRequeue(k) PROVE Goal
  <2>1. CASE Settle("givenUp")
    BY <1>11, <1>12, <2>1 DEF RefuseRequeue, DrainDecided, At, room, Decision
  <2>2. CASE UNCHANGED ledger
    BY <1>3, <1>12, <2>2 DEF RefuseRequeue, room, ledger
  <2>3. QED
    BY <1>12, <2>1, <2>2 DEF RefuseRequeue
<1>13. ASSUME Decline \/ \E S \in SUBSET Listeners : Offer(S) PROVE Goal
  <2>1. PICK d \in Decision : Settle(d) /\ UNCHANGED <<here, noticed>> /\ Fresh
    BY <1>13 DEF Decline, Offer, Decision, room
  <2>2. decision = Undecided /\ here
    BY <2>1 DEF Fresh, DrainDecided, At
  <2>3. ~noticed
    BY <1>2, <2>2 DEF Undecided
  <2>4. QED
    BY <1>11, <2>1, <2>2, <2>3
<1>14. CASE GiveUp
  BY <1>11, <1>14 DEF GiveUp, Reopened, DrainDecided, At, room, Decision
<1>15. ASSUME Read \/ Leave \/ LeaveReopened \/ PutBack \/ Throttle \/ \E S \in SUBSET Listeners : OfferAgain(S)
       PROVE  Goal
  BY <1>3, <1>15 DEF Read, Leave, LeaveReopened, PutBack, Throttle, OfferAgain, room, ledger
<1>16. CASE Announce
  <2>1. decision = "givenUp"
    BY <1>16 DEF Announce, DrainDecided
  <2>2. QED
    BY <1>2, <1>16, <2>1 DEF Announce, Undecided, ledger
<1>17. CASE Restart
  <2>1. PICK kept \in BOOLEAN :
          /\ here' = (here /\ kept) /\ noticed' = (noticed /\ kept)
          /\ decision' = Loaded(here').d /\ file' = Loaded(here').f
          /\ here /\ ~kept => "transcript" \in cut'
    BY <1>17 DEF Restart
  <2>2. here => kept
    BY <2>1 DEF Clean
  <2>3. here' = here /\ (noticed' => noticed) /\ here' \in BOOLEAN
    BY <2>1, <2>2 DEF Types, RoomOK
  <2>4. decision' # Undecided => /\ here' /\ file'.exists
                                 /\ file'.lines # <<>> /\ Last(file'.lines) = decision'
    BY <2>1, <2>3, LedgerLoaded DEF Types
  <2>5. decision # Undecided => decision' = decision
    BY <1>2, <2>1, <2>3, LedgerLoaded DEF Types
  <2>6. decision = Undecided => \A a \in Listeners : runs'[a] = <<>>
    <3>1. RunsOK /\ runs' = [a \in Listeners |-> [i \in Indices(a) |-> AfterRestart(runs[a][i])]]
      BY <1>17 DEF Restart, Types
    <3>2. \A a \in Listeners : runs[a] = <<>> => runs'[a] = <<>>
      BY <3>1, RestartRuns
    <3>3. QED
      BY <1>2, <3>2
  <2>7. noticed' => decision' = "givenUp"
    BY <1>2, <2>3, <2>5 DEF Undecided
  <2>8. QED
    BY <2>4, <2>5, <2>6, <2>7
<1>18. QED
  BY <1>4, <1>5, <1>6, <1>8, <1>9, <1>10, <1>12, <1>13, <1>14, <1>15, <1>16, <1>17, StepsAre

\* A run that ended never lives again, so what the drain read of a message
\* whose runs all came to nothing stays so until the drain acts on it.
LEMMA AttemptsSeenStep ==
  ASSUME Types, DrainDecided, AttemptsSeen, [Next]_vars
  PROVE  AttemptsSeen'
<1> SUFFICES ASSUME used'.retries = 0, Reopened'
             PROVE  /\ \A a \in Listeners : ~Has(a, Settling)'
                    /\ drain'.seen.executed = Count(Failures)'
                    /\ drain'.seen.offered # {}
                    /\ drain'.seen.expired = Cardinality(drain'.seen.unstarted)
  BY DEF AttemptsSeen
<1> DEFINE Goal == /\ \A a \in Listeners : ~Has(a, Settling)'
                   /\ drain'.seen.executed = Count(Failures)'
                   /\ drain'.seen.offered # {}
                   /\ drain'.seen.expired = Cardinality(drain'.seen.unstarted)
<1>0. used.retries = 0
  BY LossesStand
<1>1. ASSUME UNCHANGED <<drain, runs>> PROVE Goal
  BY <1>0, <1>1 DEF AttemptsSeen, Reopened, At, Has, Indices, Count, Slots
<1>2. CASE Around \/ OtherDecision \/ UNCHANGED vars
  BY <1>1, <1>2, AroundKeeps DEF OtherDecision, vars
<1>3. ASSUME NEW a \in Listeners, NEW from \in Live, NEW st \in Status, Turned(a, from, st) PROVE FALSE
  <2>1. Reopened /\ LastIs(a, from)
    BY <1>3 DEF Turned, Reopened, At
  <2>2. ~Has(a, Settling)
    BY <1>0, <2>1 DEF AttemptsSeen
  <2>3. runs[a] \in Seq(Status)
    BY DEF Types, RunsOK
  <2>4. Len(runs[a]) \in Indices(a) /\ runs[a][Len(runs[a])] = from
    BY <2>1, <2>3 DEF LastIs, Last, Indices
  <2>5. QED
    BY <2>2, <2>4 DEF Has, Settling
<1>4. ASSUME NEW a \in Listeners, UserRetry(a) PROVE FALSE
  <2>1. used' = [used EXCEPT !.retries = used.retries + 1]
    BY <1>4 DEF UserRetry, Mishap
  <2>2. QED
    BY <1>0, <2>1 DEF Types, RestOK
<1>5. ASSUME \/ \E a \in Listeners : Dispatch(a) \/ Refuse(a)
             \/ \E k \in drain.runs : Requeue(k) \/ RefuseRequeue(k)
      PROVE  FALSE
  <2>1. drain.step \in {"offering", "requeueing"}
    BY <1>5 DEF Dispatch, Refuse, Requeue, RefuseRequeue, At
  <2>2. drain' \in {Idle, Announcing} \/ drain'.step = drain.step
    BY <1>5, DrainMoves
  <2>3. QED
    BY <2>1, <2>2, DrainsEnd DEF Reopened, At
<1>6. CASE Decline \/ Leave \/ LeaveReopened \/ Announce \/ Throttle \/ Restart
  BY <1>6, DrainMoves, DrainsEnd DEF Reopened, At
<1>7. CASE GiveUp \/ PutBack \/ \E S \in SUBSET Listeners : Offer(S) \/ OfferAgain(S)
  BY <1>7, DrainMoves, DrainsEnd DEF Reopened, At
<1>8. CASE Read
  <2>1. /\ drain'.seen = Reading /\ Reading.executed = Count(Failures)
        /\ Reading.fresh = (decision = Undecided) /\ Reading.expired = Cardinality(Reading.unstarted)
    BY <1>8, DrainMoves, ReadingOK
  <2>2. Reopens
    BY <1>8, <2>1 DEF Read, Reopened
  <2>3. UNCHANGED runs
    BY <1>8 DEF Read
  <2>4. Reading.offered # {}
    BY <2>2 DEF Reopens, Reading
  <2>5. QED
    BY <2>1, <2>2, <2>3, <2>4 DEF Reopens, Has, Indices, Count, Slots
<1>9. QED
  BY <1>2, <1>3, <1>4, <1>5, <1>6, <1>7, <1>8, StepsAre

-----------------------------------------------------------------------------
(* How many turns a message costs                                          *)

\* The counts are natural numbers.
LEMMA CountsAreNat ==
  ASSUME Types
  PROVE  /\ \A S : Count(S) \in Nat
         /\ \A A \in SUBSET Listeners : /\ IsFiniteSet(A) /\ Cardinality(A) \in Nat
                                        /\ Cardinality(A) <= Cardinality(Listeners)
                                        /\ Cardinality({}) = 0
         /\ Cardinality(Listeners) \in Nat /\ MaxAttempts \in Nat /\ MaxAttempts > 0
         /\ drain.agents \in SUBSET Listeners
         /\ IsFiniteSet(drain.runs) /\ Cardinality(drain.runs) \in Nat
<1>1. \A S : Count(S) \in Nat
  BY SlotsFinite DEF Types
<1>2. IsFiniteSet(Listeners) /\ MaxAttempts \in Nat \ {0}
  BY AmbientAssumption
<1>3. \A A \in SUBSET Listeners : IsFiniteSet(A) /\ Cardinality(A) <= Cardinality(Listeners)
  BY <1>2, FS_Subset
<1>4. Cardinality({}) = 0
  BY FS_EmptySet
<1>5. drain.agents \in SUBSET Listeners /\ IsFiniteSet(drain.runs)
  BY DEF Types, RestOK, Drain, RunSets
<1>6. QED
  BY <1>1, <1>2, <1>3, <1>4, <1>5, FS_CardinalityType

\* The limit is at least either of its parts, and the part of a reopened message
\* leaves room for all listeners but one.
LEMMA LimitIs ==
  /\ TurnLimit \in Nat /\ Cardinality(Listeners) <= TurnLimit
  /\ (MaxAttempts - 1) + (Cardinality(Listeners) - 1) <= TurnLimit
  /\ \A n \in Nat : n < ExpiredLimit * Cardinality(Listeners) => (MaxAttempts - 1) + n <= TurnLimit
<1> DEFINE L == Cardinality(Listeners)
           E == ExpiredLimit * L
<1>1. L \in Nat /\ L >= 1
  <2>1. IsFiniteSet(Listeners) /\ Listeners # {}
    BY AmbientAssumption
  <2>2. QED
    BY <2>1, FS_CardinalityType, FS_EmptySet
<1>2. MaxAttempts \in Nat /\ MaxAttempts >= 1 /\ ExpiredLimit \in Nat /\ ExpiredLimit >= 1
  BY AmbientAssumption
<1>3. E \in Nat /\ E >= L
  BY <1>1, <1>2
<1>4. TurnLimit = IF (MaxAttempts - 1) + (E - 1) < L THEN L ELSE (MaxAttempts - 1) + (E - 1)
  BY DEF TurnLimit
<1> HIDE DEF E, L
<1>5. /\ TurnLimit \in Nat /\ L <= TurnLimit /\ (MaxAttempts - 1) + (L - 1) <= TurnLimit
      /\ \A n \in Nat : n < E => (MaxAttempts - 1) + n <= TurnLimit
  BY <1>1, <1>2, <1>3, <1>4
<1>6. QED
  BY <1>5 DEF E, L

\* No more turns than before, and no more agents and runs about to be admitted.
LEMMA NoMore ==
  ASSUME Types, Types', AttemptsBounded, Clean' => Clean, used'.retries = 0 => used.retries = 0,
         Slots(Costs)' \subseteq Slots(Costs), drain'.agents \subseteq drain.agents,
         drain'.runs \subseteq drain.runs
  PROVE  AttemptsBounded'
<1> SUFFICES ASSUME Clean', used'.retries = 0
             PROVE  Count(Costs)' + Cardinality(drain'.agents) + Cardinality(drain'.runs) <= TurnLimit
  BY DEF AttemptsBounded
<1>1. Count(Costs) + Cardinality(drain.agents) + Cardinality(drain.runs) <= TurnLimit
  BY DEF AttemptsBounded
<1>2. Count(Costs)' <= Count(Costs) /\ Count(Costs) \in Nat /\ Count(Costs)' \in Nat
  BY CountStep DEF Types
<1>3. IsFiniteSet(drain.agents) /\ IsFiniteSet(drain.runs)
  BY CountsAreNat
<1>4. /\ IsFiniteSet(drain'.agents) /\ Cardinality(drain'.agents) <= Cardinality(drain.agents)
      /\ IsFiniteSet(drain'.runs) /\ Cardinality(drain'.runs) <= Cardinality(drain.runs)
  BY <1>3, FS_Subset
<1>5. /\ Cardinality(drain'.agents) \in Nat /\ Cardinality(drain.agents) \in Nat
      /\ Cardinality(drain'.runs) \in Nat /\ Cardinality(drain.runs) \in Nat
  BY <1>3, <1>4, FS_CardinalityType
<1>6. QED
  BY <1>1, <1>2, <1>4, <1>5, LimitIs

\* A set that loses an element has one fewer at least.
LEMMA OneFewer ==
  ASSUME NEW S, IsFiniteSet(S), NEW x \in S, NEW T, T \subseteq S \ {x}
  PROVE  /\ IsFiniteSet(T) /\ Cardinality(T) \in Nat /\ Cardinality(S) \in Nat
         /\ Cardinality(T) <= Cardinality(S) - 1
<1>1. IsFiniteSet(S \ {x}) /\ Cardinality(S \ {x}) = Cardinality(S) - 1
  BY FS_RemoveElement
<1>2. IsFiniteSet(T) /\ Cardinality(T) <= Cardinality(S \ {x})
  BY <1>1, FS_Subset
<1>3. QED
  BY <1>1, <1>2, FS_CardinalityType

\* The agent the drain admits, or the run it puts back, was counted before.
LEMMA AdmittedWasCounted ==
  ASSUME Types, Types', AttemptsBounded, Clean' => Clean, used'.retries = 0 => used.retries = 0,
         NEW x, Slots(Costs)' \subseteq Slots(Costs) \cup {x},
         drain'.agents \subseteq drain.agents, drain'.runs \subseteq drain.runs,
         \/ \E a \in drain.agents : drain'.agents \subseteq drain.agents \ {a}
         \/ \E k \in drain.runs : drain'.runs \subseteq drain.runs \ {k}
  PROVE  AttemptsBounded'
<1> SUFFICES ASSUME Clean', used'.retries = 0
             PROVE  Count(Costs)' + Cardinality(drain'.agents) + Cardinality(drain'.runs) <= TurnLimit
  BY DEF AttemptsBounded
<1>1. Count(Costs) + Cardinality(drain.agents) + Cardinality(drain.runs) <= TurnLimit
  BY DEF AttemptsBounded
<1>2. Count(Costs)' <= Count(Costs) + 1 /\ Count(Costs) \in Nat /\ Count(Costs)' \in Nat
  BY CountStep DEF Types
<1>3. IsFiniteSet(drain.agents) /\ IsFiniteSet(drain.runs)
  BY CountsAreNat
<1>4. /\ IsFiniteSet(drain'.agents) /\ Cardinality(drain'.agents) <= Cardinality(drain.agents)
      /\ IsFiniteSet(drain'.runs) /\ Cardinality(drain'.runs) <= Cardinality(drain.runs)
  BY <1>3, FS_Subset
<1>5. /\ Cardinality(drain'.agents) \in Nat /\ Cardinality(drain.agents) \in Nat
      /\ Cardinality(drain'.runs) \in Nat /\ Cardinality(drain.runs) \in Nat
  BY <1>3, <1>4, FS_CardinalityType
<1>6. \/ Cardinality(drain'.agents) <= Cardinality(drain.agents) - 1
      \/ Cardinality(drain'.runs) <= Cardinality(drain.runs) - 1
  BY <1>3, OneFewer
<1>7. QED
  BY <1>1, <1>2, <1>4, <1>5, <1>6, LimitIs

\* Agents or runs are taken up within the limit.
LEMMA TakenWithinLimit ==
  ASSUME Types, UNCHANGED runs,
         Count(Costs) + Cardinality(drain'.agents) + Cardinality(drain'.runs) <= TurnLimit
  PROVE  AttemptsBounded'
<1>1. Count(Costs)' = Count(Costs)
  BY DEF Count, Slots, Indices
<1>2. QED
  BY <1>1 DEF AttemptsBounded, TurnLimit

\* Where the drain found the message reopened and attempts left, the runs that
\* cost a turn are those it counted.
LEMMA ReopenedCosts ==
  ASSUME Types, AttemptsSeen, Reopened, used.retries = 0, ~Spent(drain.seen)
  PROVE  /\ Count(Costs) \in Nat /\ Count(Costs) <= MaxAttempts - 1
         /\ Cardinality(drain.seen.unstarted) \in Nat
         /\ Cardinality(drain.seen.unstarted) < ExpiredLimit * Cardinality(Listeners)
         /\ drain.seen.offered # {} /\ drain.seen.offered \subseteq Listeners
<1>1. \A a \in Listeners : ~Has(a, Settling)
  BY DEF AttemptsSeen
<1>2. /\ drain.seen.executed = Count(Failures) /\ drain.seen.offered # {}
      /\ drain.seen.expired = Cardinality(drain.seen.unstarted)
  BY DEF AttemptsSeen
<1>3. Slots(Costs) = Slots(Failures)
  <2>1. ASSUME NEW a \in Listeners, NEW i \in Indices(a)
        PROVE  runs[a][i] \in Costs <=> runs[a][i] \in Failures
    <3>1. runs[a][i] \notin Settling
      BY <1>1 DEF Has
    <3>2. QED
      BY <3>1 DEF Costs, Started, Failures, Settling, Live
  <2>2. QED
    BY <2>1 DEF Slots
<1>4. Count(Costs) = Count(Failures)
  BY <1>3, SlotsFinite DEF Types
<1>5. Count(Failures) \in Nat /\ MaxAttempts \in Nat
  BY CountsAreNat
<1>6. ~(Count(Failures) >= MaxAttempts)
  BY <1>2 DEF Spent
<1>7. drain.seen.expired \in Nat /\ drain.seen.offered \subseteq Listeners
  BY DEF Types, RestOK, Drain, Seen
<1>8. Cardinality(drain.seen.unstarted) < ExpiredLimit * Cardinality(Listeners)
  <2> DEFINE E == ExpiredLimit * Cardinality(Listeners)
  <2>1. ~(drain.seen.expired >= E)
    BY DEF Spent
  <2>2. ExpiredLimit \in Nat /\ Cardinality(Listeners) \in Nat
    BY AmbientAssumption, CountsAreNat
  <2>3. E \in Nat
    BY <2>2
  <2> HIDE DEF E
  <2>4. Cardinality(drain.seen.unstarted) < E
    BY <1>2, <1>7, <2>1, <2>3
  <2>5. QED
    BY <2>4 DEF E
<1>9. QED
  BY <1>2, <1>4, <1>5, <1>6, <1>7, <1>8

\* The turns of a message and the agents about to get one stay within bounds.
LEMMA AttemptsBoundedStep ==
  ASSUME Types, DrainDecided, LedgerTrue, AttemptsSeen, AttemptsBounded, Types', [Next]_vars
  PROVE  AttemptsBounded'
<1>0. (Clean' => Clean) /\ (used'.retries = 0 => used.retries = 0)
  BY LossesStand
<1>1. ASSUME UNCHANGED runs, drain'.agents \subseteq drain.agents, drain'.runs \subseteq drain.runs
      PROVE  AttemptsBounded'
  <2>1. Slots(Costs)' \subseteq Slots(Costs)
    BY <1>1 DEF Slots, Indices
  <2>2. QED
    BY <1>0, <1>1, <2>1, NoMore
<1>2. CASE Around \/ OtherDecision \/ UNCHANGED vars
  BY <1>1, <1>2, AroundKeeps DEF OtherDecision, vars
<1>3. ASSUME NEW a \in Listeners, NEW from \in Live, NEW st \in Status, Turned(a, from, st)
      PROVE  AttemptsBounded'
  <2>1. from \in Costs
    BY DEF Live, Costs, Started
  <2>2. Slots(Costs)' \subseteq Slots(Costs)
    BY <1>3, <2>1, TurnRuns DEF Types, Turned
  <2>3. QED
    BY <1>0, <1>3, <2>2, NoMore DEF Turned
<1>4. ASSUME NEW a \in Listeners, UserRetry(a) PROVE AttemptsBounded'
  <2>1. used' = [used EXCEPT !.retries = used.retries + 1]
    BY <1>4 DEF UserRetry, Mishap
  <2>2. used'.retries # 0
    BY <2>1 DEF Types, RestOK
  <2>3. QED
    BY <2>2 DEF AttemptsBounded
<1>5. ASSUME NEW a \in Listeners, Dispatch(a) PROVE AttemptsBounded'
  <2>1. /\ a \in drain.agents /\ drain'.agents \subseteq drain.agents \ {a}
        /\ drain'.runs \subseteq drain.runs
    BY <1>5, DrainMoves
  <2>2. CASE UNCHANGED runs
    BY <1>1, <2>1, <2>2
  <2>3. ASSUME runs[a] = <<>>, NEW st \in {"pending", "expired", "cancelled"},
               runs' = [runs EXCEPT ![a] = <<st>>]
        PROVE  AttemptsBounded'
    <3>1. ~IsLive(a) /\ runs' = [runs EXCEPT ![a] = Append(@, st)] /\ st \in Status
      BY <2>3 DEF IsLive, Status
    <3>2. Slots(Costs)' \subseteq Slots(Costs) \cup {<<a, Len(runs[a]) + 1>>}
      BY <3>1, AddRuns DEF Types
    <3>3. QED
      BY <1>0, <2>1, <3>2, AdmittedWasCounted
  <2>4. QED
    BY <1>5, <2>2, <2>3 DEF Dispatch
<1>6. ASSUME NEW k \in drain.runs, Requeue(k) PROVE AttemptsBounded'
  <2>0. k[1] \in Listeners
    BY RunsOfListeners DEF Types, RestOK
  <2>1. drain'.runs \subseteq drain.runs \ {k} /\ drain'.agents \subseteq drain.agents
    BY <1>6, DrainMoves
  <2>2. ~IsLive(k[1]) /\ runs' = [runs EXCEPT ![k[1]] = Append(@, "pending")] /\ "pending" \in Status
    BY <1>6 DEF Requeue, Status
  <2>3. Slots(Costs)' \subseteq Slots(Costs) \cup {<<k[1], Len(runs[k[1]]) + 1>>}
    BY <2>0, <2>2, AddRuns DEF Types
  <2>4. QED
    BY <1>0, <2>1, <2>3, AdmittedWasCounted
<1>7. ASSUME \/ \E a \in Listeners : Refuse(a)
             \/ \E k \in drain.runs : RefuseRequeue(k)
      PROVE  AttemptsBounded'
  BY <1>1, <1>7, DrainMoves DEF RefuseRequeue, Refuse
<1>8. ASSUME drain'.agents = {}, drain'.runs = {}, UNCHANGED runs PROVE AttemptsBounded'
  BY <1>1, <1>8
<1>9. CASE Decline \/ Leave \/ LeaveReopened \/ Announce \/ Throttle
  <2>1. drain' = Idle /\ UNCHANGED runs
    BY <1>9 DEF Decline, Leave, LeaveReopened, Announce, Throttle
  <2>2. QED
    BY <1>8, <2>1, DrainsEnd
<1>10. CASE GiveUp \/ Read
  <2>1. drain'.agents = {} /\ drain'.runs = {}
    BY <1>10, DrainMoves, DrainsEnd
  <2>2. QED
    BY <1>8, <1>10, <2>1 DEF GiveUp, Read
<1>15. CASE PutBack
  <2>1. Reopened /\ ~Spent(drain.seen) /\ UNCHANGED <<runs, used>>
    BY <1>15 DEF PutBack, Exhausted
  <2>2. drain'.agents = {} /\ drain'.runs = drain.seen.unstarted
    BY <1>15, DrainMoves
  <2>3. CASE used.retries = 0
    <3>1. /\ Count(Costs) \in Nat /\ Count(Costs) <= MaxAttempts - 1
          /\ Cardinality(drain'.runs) \in Nat
          /\ Cardinality(drain'.runs) < ExpiredLimit * Cardinality(Listeners)
      BY <2>1, <2>2, <2>3, ReopenedCosts
    <3>2. (MaxAttempts - 1) + Cardinality(drain'.runs) <= TurnLimit
      BY <3>1, LimitIs
    <3>3. Cardinality(drain'.agents) = 0
      BY <2>2, FS_EmptySet
    <3>4. TurnLimit \in Nat /\ MaxAttempts \in Nat
      BY LimitIs, CountsAreNat
    <3>5. Count(Costs) + Cardinality(drain'.agents) + Cardinality(drain'.runs) <= TurnLimit
      BY <3>1, <3>2, <3>3, <3>4
    <3>6. QED
      BY <2>1, <3>5, TakenWithinLimit
  <2>4. CASE used.retries # 0
    BY <2>1, <2>4 DEF AttemptsBounded
  <2>5. QED
    BY <2>3, <2>4
<1>11. ASSUME NEW S \in SUBSET Listeners, OfferAgain(S) PROVE AttemptsBounded'
  <2>1. Reopened /\ ~Spent(drain.seen) /\ UNCHANGED <<runs, used>> /\ S \subseteq Untried(drain.seen)
    BY <1>11 DEF OfferAgain, Choices
  <2>2. drain'.agents = S /\ drain'.runs = {}
    BY <1>11, DrainMoves
  <2>3. CASE used.retries = 0
    <3>1. /\ Count(Costs) \in Nat /\ Count(Costs) <= MaxAttempts - 1
          /\ drain.seen.offered # {} /\ drain.seen.offered \subseteq Listeners
      BY <2>1, <2>3, ReopenedCosts
    <3>2. PICK a \in Listeners : a \notin S
      BY <2>1, <3>1 DEF Untried
    <3>3. Cardinality(S) \in Nat /\ Cardinality(S) <= Cardinality(Listeners) - 1
      BY <3>2, AmbientAssumption, OneFewer
    <3>4. Cardinality(drain'.runs) = 0
      BY <2>2, FS_EmptySet
    <3>5. TurnLimit \in Nat /\ MaxAttempts \in Nat /\ Cardinality(Listeners) \in Nat
      BY LimitIs, CountsAreNat
    <3>6. Count(Costs) + Cardinality(drain'.agents) + Cardinality(drain'.runs) <= TurnLimit
      BY <2>2, <3>1, <3>3, <3>4, <3>5, LimitIs
    <3>7. QED
      BY <2>1, <3>6, TakenWithinLimit
  <2>4. CASE used.retries # 0
    BY <2>1, <2>4 DEF AttemptsBounded
  <2>5. QED
    BY <2>3, <2>4
<1>12. ASSUME NEW S \in SUBSET Listeners, Offer(S) PROVE AttemptsBounded'
  <2>1. CASE ~Clean
    BY <1>0, <2>1 DEF AttemptsBounded
  <2>2. CASE Clean
    <3>1. decision = Undecided /\ UNCHANGED runs
      BY <1>12 DEF Offer, Fresh, DrainDecided
    <3>2. \A a \in Listeners : runs[a] = <<>>
      BY <2>2, <3>1 DEF LedgerTrue
    <3>3. Slots(Costs) = {}
      BY <3>2 DEF Slots, Indices
    <3>4. Count(Costs) = 0
      BY <3>3, SlotsFinite, FS_EmptySet DEF Types
    <3>5. drain'.agents = S /\ drain'.runs = {}
      BY <1>12, DrainMoves
    <3>6. Cardinality(S) \in Nat /\ Cardinality(S) <= Cardinality(Listeners)
      BY CountsAreNat
    <3>7. Cardinality({}) = 0
      BY FS_EmptySet
    <3>8. Count(Costs) + Cardinality(drain'.agents) + Cardinality(drain'.runs) <= TurnLimit
      BY <3>4, <3>5, <3>6, <3>7, LimitIs, CountsAreNat
    <3>9. QED
      BY <3>1, <3>8, TakenWithinLimit
  <2>3. QED
    BY <2>1, <2>2
<1>13. CASE Restart
  <2>1. \A s \in Status : AfterRestart(s) \in Costs => s \in Costs
    BY DEF Status, AfterRestart, Live, Costs, Started
  <2>2. Slots(Costs)' \subseteq Slots(Costs)
    BY <1>13, <2>1, RestartRuns DEF Restart, Types
  <2>3. drain'.agents \subseteq drain.agents /\ drain'.runs \subseteq drain.runs
    BY <1>13, DrainsEnd DEF Restart
  <2>4. QED
    BY <1>0, <2>2, <2>3, NoMore
<1>16. QED
  BY <1>2, <1>3, <1>4, <1>5, <1>6, <1>7, <1>9, <1>10, <1>11, <1>12, <1>13, <1>15, StepsAre

-----------------------------------------------------------------------------
(* The theorems                                                            *)

\* The invariant holds of a device that starts.
LEMMA InitInvariant ==
  ASSUME Init
  PROVE  Invariant
<1>1. runs = [a \in Listeners |-> <<>>] /\ drain = Idle /\ cut = {} /\ decision = Undecided
      /\ used = [restarts |-> 0, retries |-> 0, lost |-> 0, claims |-> 0]
      /\ file \in [exists : BOOLEAN, lines : {<<>>}]
  BY DEF Init
<1>2. RunsOK
  <2>1. <<>> \in Seq(Status)
    OBVIOUS
  <2>2. QED
    BY <1>1, <2>1 DEF RunsOK, Indices
<1>3. RestOK
  BY <1>1, DrainsEnd DEF RestOK
<1>4. LedgerOK
  <2>1. <<>> \in Seq(Decision)
    OBVIOUS
  <2>2. QED
    BY <1>1, <2>1 DEF LedgerOK
<1>5. RoomOK
  BY AmbientAssumption DEF Init, RoomOK, Hold
<1>6. Types
  BY <1>2, <1>3, <1>4, <1>5 DEF Types
<1>7. DrainDecided /\ AttemptsSeen
  BY <1>1, DrainsEnd DEF DrainDecided, AttemptsSeen, Reopened, At
<1>8. LedgerTrue
  BY <1>1 DEF LedgerTrue, Init
<1>9. AttemptsBounded
  <2>1. Slots(Costs) = {}
    BY <1>1 DEF Slots, Indices
  <2>2. Count(Costs) = 0
    BY <1>6, <2>1, SlotsFinite, FS_EmptySet DEF Types
  <2>3. Cardinality(drain.agents) = 0 /\ Cardinality(drain.runs) = 0
    BY <1>1, DrainsEnd, FS_EmptySet
  <2>4. QED
    BY <2>2, <2>3, LimitIs DEF AttemptsBounded
<1>10. QED
  BY <1>6, <1>7, <1>8, <1>9 DEF Invariant

\* The invariant is inductive.
THEOREM InvariantHolds == Spec => []Invariant
<1>1. Init => Invariant
  BY InitInvariant
<1>2. Invariant /\ [Next]_vars => Invariant'
  BY TypesStep, DrainDecidedStep, LedgerTrueStep, AttemptsSeenStep, AttemptsBoundedStep DEF Invariant
<1>3. QED
  BY <1>1, <1>2, PTL DEF Spec

\* Every variable keeps its type: only the newest run of an agent is ever live.
THEOREM TypeCorrect == Spec => []TypeOK
<1>1. Types => TypeOK
  <2>1. SUFFICES ASSUME Types PROVE TypeOK
    OBVIOUS
  <2>2. file.exists \in BOOLEAN /\ \A i \in 1 .. Len(file.lines) : file.lines[i] \in Decision
    BY <2>1 DEF Types, LedgerOK
  <2>3. ASSUME NEW a \in Listeners, NEW i \in Indices(a)
        PROVE  runs[a][i] \in (IF i = Len(runs[a]) THEN Status ELSE Status \ Live)
    BY <2>1 DEF Types, RunsOK, Indices
  <2>4. QED
    BY <2>1, <2>2, <2>3 DEF TypeOK, Types, RoomOK, LedgerOK, RestOK, Drain, RunSets
<1>2. QED
  BY <1>1, InvariantHolds, PTL DEF Invariant

\* However often the device restarts and puts runs back, no more turns start on
\* one message than one of every listener, or than one short of the attempts
\* allowed and one for each run but one of the rounds that may expire
\* (ambient_max_attempts and EXPIRED_REQUEUE_LIMIT, reaction.rs).
THEOREM TurnsAreBounded == Spec => []TurnsBounded
<1>1. Types /\ AttemptsBounded => TurnsBounded
  <2>1. SUFFICES ASSUME Types, AttemptsBounded, used.retries = 0, Clean
                 PROVE  Count(Started) <= TurnLimit
    BY DEF TurnsBounded, Clean
  <2>2. Count(Costs) + Cardinality(drain.agents) + Cardinality(drain.runs) <= TurnLimit
    BY <2>1 DEF AttemptsBounded
  <2>3. Slots(Started) \subseteq Slots(Costs)
    BY DEF Slots, Costs
  <2>4. Count(Started) <= Count(Costs)
    BY <2>1, <2>3, SlotsFinite, FS_Subset DEF Types
  <2>5. Count(Started) \in Nat /\ Count(Costs) \in Nat
    BY <2>1, CountsAreNat
  <2>6. Cardinality(drain.agents) \in Nat /\ Cardinality(drain.runs) \in Nat
    BY <2>1, CountsAreNat
  <2>7. QED
    BY <2>2, <2>4, <2>5, <2>6, LimitIs
<1>2. QED
  BY <1>1, InvariantHolds, PTL DEF Invariant

\* Once the room was told that no agent could answer, the device starts nothing
\* more on the message of its own accord (announce_unanswered).
THEOREM NoticeIsFinal == Spec => NoTurnAfterNotice
<1>1. Invariant /\ [Next]_vars =>
        [noticed /\ cut \cap {"line", "transcript"} = {} => \A a \in Listeners : ~Added(a)]_vars
  <2>1. SUFFICES ASSUME Invariant, [Next]_vars, noticed, Clean, NEW a \in Listeners, Added(a)
                 PROVE  FALSE
    BY DEF Clean
  <2>2. Types /\ decision = "givenUp"
    BY <2>1 DEF Invariant, LedgerTrue
  <2>3. ASSUME \A b \in Listeners : Len(runs'[b]) = Len(runs[b]) PROVE FALSE
    <3>1. Len(runs[a]) \in Nat
      BY <2>2 DEF Types, RunsOK
    <3>2. QED
      BY <2>1, <2>3, <3>1 DEF Added
  <2>4. ASSUME UNCHANGED runs PROVE FALSE
    BY <2>3, <2>4
  <2>5. CASE Around \/ OtherDecision \/ UNCHANGED vars
    BY <2>2, <2>4, <2>5, AroundKeeps DEF OtherDecision, vars
  <2>6. ASSUME NEW b \in Listeners, NEW from \in Live, NEW st \in Status, Turned(b, from, st) PROVE FALSE
    BY <2>2, <2>3, <2>6, TurnRuns DEF Turned, Types
  <2>7. ASSUME NEW b \in Listeners, UserRetry(b) PROVE FALSE
    <3>1. used' = [used EXCEPT !.retries = used.retries + 1]
      BY <2>7 DEF UserRetry, Mishap
    <3>2. used'.retries # used.retries
      BY <2>2, <3>1 DEF Types, RestOK
    <3>3. QED
      BY <2>1, <3>2 DEF Added
  <2>8. ASSUME (\E b \in Listeners : Dispatch(b)) \/ \E k \in drain.runs : Requeue(k) PROVE FALSE
    BY <2>1, <2>2, <2>8 DEF Dispatch, Requeue, Invariant, DrainDecided
  <2>9. CASE \/ Read \/ Decline \/ Leave \/ LeaveReopened \/ GiveUp \/ PutBack \/ Announce \/ Throttle
             \/ \E S \in SUBSET Listeners : Offer(S) \/ OfferAgain(S)
             \/ \E b \in Listeners : Refuse(b)
             \/ \E k \in drain.runs : RefuseRequeue(k)
    BY <2>4, <2>9 DEF Refuse, Read, Decline, Leave, LeaveReopened, GiveUp, PutBack, Announce, Throttle,
                      Offer, OfferAgain, RefuseRequeue
  <2>10. CASE Restart
    <3>0. RunsOK /\ runs' = [b \in Listeners |-> [i \in Indices(b) |-> AfterRestart(runs[b][i])]]
      BY <2>2, <2>10 DEF Restart, Types
    <3>1. \A b \in Listeners : Len(runs'[b]) = Len(runs[b])
      BY <3>0, RestartRuns
    <3>2. QED
      BY <2>3, <3>1
  <2>11. QED
    BY <2>1, <2>5, <2>6, <2>7, <2>8, <2>9, <2>10, StepsAre
<1>2. QED
  BY <1>1, InvariantHolds, PTL DEF Spec, NoTurnAfterNotice
=============================================================================
