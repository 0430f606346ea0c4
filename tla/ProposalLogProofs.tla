------------------------- MODULE ProposalLogProofs -------------------------
(***************************************************************************)
(* Proofs about ProposalLog for any devices, links, decisions and faults:  *)
(* the order of the log is total on the events that can exist, the streams *)
(* strand no event, and of the decisions in a log the one of highest       *)
(* precedence stands.                                                      *)
(***************************************************************************)
EXTENDS ProposalLog, FiniteSetTheorems, FunctionTheorems, SequenceTheorems, TLAPS

-----------------------------------------------------------------------------
(* Types                                                                   *)

Link(p) == {p[1], p[2]}
Verdict == Statuses \cup {NoRecord}
Message == [event : Event, bundle : Verdict] \cup {Done}
Handling == [step : {"idle"}] \cup [step : {"read", "saved"}, status : Verdicts]
              \cup [step : {"stamped"}, status : Verdicts, lamport : Nat \ {0}]

\* The creations and decisions of a log; they carry a status.
SaidOf(L) == Creations(L) \cup Decisions(L)
Spoken(L) == \A e \in L : e.kind # "made" => e.status \in Statuses

LogsOK ==
  /\ log \in [Devices -> SUBSET Event]
  /\ \A d \in Devices : IsFiniteSet(log[d]) /\ Spoken(log[d])

UsersOK ==
  /\ record \in [Devices -> Verdict]
  /\ making \in {"nothing", "saved", "noted", "done"}
  /\ deciding \in [Devices -> Handling]

LinksOK ==
  /\ up \in SUBSET Links /\ missed \in SUBSET up
  /\ bundle \in [Ends -> Verdict \cup {"unsent"}]

StreamsOK ==
  /\ phase \in [Ends -> {"down", "open", "batch", "live"}]
  /\ have \in [Ends -> SUBSET Event] /\ known \in [Ends -> SUBSET Event]
  /\ queue \in [Ends -> Seq(Event)] /\ lagged \in [Ends -> BOOLEAN]
  /\ wire \in [Ends -> Seq(Message)]

Types == LogsOK /\ UsersOK /\ LinksOK /\ StreamsOK

-----------------------------------------------------------------------------
(* The invariant                                                           *)

\* Whoever has an event, the device that made it has it too.
AtOrigin == \A d \in Devices : \A e \in log[d] : e \in log[e.by]

\* Events of one kind and device have different times.
Alike(e, f) == e.lamport = f.lamport /\ e.by = f.by /\ e.kind = f.kind
Distinct(L) == \A e, f \in L : Alike(e, f) => e = f
AllDistinct == \A d \in Devices : Distinct(log[d])

\* The time read for a decision is later than those of the device's others.
StampsFresh ==
  \A d \in Devices : deciding[d].step = "stamped" =>
    \A e \in log[d] : e.by = d /\ e.kind = "decided" => e.lamport < deciding[d].lamport

\* What an end holds, announces or receives is in a log.
Founded(p) ==
  /\ phase[p] # "down" => Link(p) \in up
  /\ phase[p] = "down" => known[p] = {} /\ queue[p] = <<>> /\ ~lagged[p]
  /\ have[p] \subseteq log[p[1]] /\ Range(queue[p]) \subseteq log[p[1]]
  /\ Carried(p) \subseteq log[p[2]] \cup {NoEvent}

\* Before the batch: nothing was appended that the end has not said it has, and
\* that no notification is left for.
OpenComplete(p) ==
  phase[p] = "open" /\ ~lagged[p] => log[p[1]] \subseteq have[p] \cup Range(queue[p])

\* From then on: what the end takes the peer to know, it knows or is sent, ...
KnownTrue(p) ==
  phase[p] \in {"batch", "live"} /\ Link(p) \notin missed =>
    known[p] \subseteq log[p[2]] \cup Carried(Other(p))

\* ... and nothing is stranded.
NotStranded(p) ==
  phase[p] \in {"batch", "live"} /\ Link(p) \notin missed /\ ~lagged[p] =>
    log[p[1]] \subseteq log[p[2]] \cup Carried(Other(p)) \cup Range(queue[p])

EndOK(p) == Founded(p) /\ OpenComplete(p) /\ KnownTrue(p) /\ NotStranded(p)
EndsOK == \A p \in Ends : EndOK(p)

LogsTrue == AtOrigin /\ AllDistinct /\ StampsFresh

Invariant == Types /\ LogsTrue /\ EndsOK

-----------------------------------------------------------------------------
(* Total orders on finite sets                                             *)

\* R orders the elements of S strictly and totally.
Orders(R, S) ==
  /\ \A x \in S : <<x, x>> \notin R
  /\ \A x, y, z \in S : <<x, y>> \in R /\ <<y, z>> \in R => <<x, z>> \in R
  /\ \A x, y \in S : x = y \/ <<x, y>> \in R \/ <<y, x>> \in R

Under(R, S, x) == {y \in S : <<y, x>> \in R}
Place(R, S, x) == Cardinality(Under(R, S, x))

\* The numbers of elements below each are those from 0 to the size, each once.
LEMMA PlacesAreRanks ==
  ASSUME NEW S, IsFiniteSet(S), NEW R, Orders(R, S)
  PROVE  /\ \A x \in S : Place(R, S, x) \in 0 .. Cardinality(S) - 1
         /\ \A x, y \in S : Place(R, S, x) = Place(R, S, y) => x = y
         /\ \A k \in 0 .. Cardinality(S) - 1 : \E x \in S : Place(R, S, x) = k
<1> DEFINE n == Cardinality(S)
           place == [x \in S |-> Place(R, S, x)]
<1>1. n \in Nat
  BY FS_CardinalityType
<1>2. ASSUME NEW x \in S
      PROVE  IsFiniteSet(Under(R, S, x)) /\ Place(R, S, x) \in 0 .. n - 1
  <2>1. Under(R, S, x) \subseteq S \ {x}
    BY DEF Under, Orders
  <2>2. IsFiniteSet(S \ {x}) /\ Cardinality(S \ {x}) = n - 1
    BY FS_RemoveElement
  <2>3. /\ IsFiniteSet(Under(R, S, x))
        /\ Cardinality(Under(R, S, x)) <= Cardinality(S \ {x})
    BY <2>1, <2>2, FS_Subset
  <2>4. Cardinality(Under(R, S, x)) \in Nat
    BY <2>3, FS_CardinalityType
  <2>5. QED
    BY <1>1, <2>2, <2>3, <2>4 DEF Place
<1>3. ASSUME NEW x \in S, NEW y \in S, <<x, y>> \in R
      PROVE  Place(R, S, x) < Place(R, S, y)
  <2>1. Under(R, S, x) \subseteq Under(R, S, y)
    BY <1>3 DEF Under, Orders
  <2>2. x \in Under(R, S, y) /\ x \notin Under(R, S, x)
    BY <1>3 DEF Under, Orders
  <2>3. /\ Place(R, S, x) <= Place(R, S, y)
        /\ Place(R, S, x) # Place(R, S, y)
    BY <1>2, <2>1, <2>2, FS_Subset DEF Place
  <2>4. Place(R, S, x) \in 0 .. n - 1 /\ Place(R, S, y) \in 0 .. n - 1
    BY <1>2
  <2> HIDE DEF n
  <2>5. QED
    BY <1>1, <2>3, <2>4
<1>4. ASSUME NEW x \in S, NEW y \in S, Place(R, S, x) = Place(R, S, y)
      PROVE  x = y
  <2>1. SUFFICES ASSUME x # y PROVE FALSE
    OBVIOUS
  <2>2. <<x, y>> \in R \/ <<y, x>> \in R
    BY <2>1 DEF Orders
  <2>3. Place(R, S, x) \in 0 .. n - 1
    BY <1>2
  <2> HIDE DEF n
  <2>4. QED
    BY <1>1, <1>3, <1>4, <2>2, <2>3
<1>5. place \in Injection(S, 0 .. n - 1)
  BY <1>2, <1>4 DEF Injection, IsInjective
<1>6. place \in Surjection(S, 0 .. n - 1)
  <2>1. IsFiniteSet(0 .. n - 1) /\ Cardinality(0 .. n - 1) = n
    <3>1. 0 \in Int /\ n - 1 \in Int
      BY <1>1
    <3>2. IsFiniteSet(0 .. n - 1) /\ Cardinality(0 .. n - 1) = IF 0 > n - 1 THEN 0 ELSE n - 1 - 0 + 1
      BY <3>1, FS_Interval
    <3> HIDE DEF n
    <3>3. QED
      BY <1>1, <3>2
  <2>2. QED
    BY <1>5, <2>1, FS_Injection
<1>7. \A k \in 0 .. n - 1 : \E x \in S : Place(R, S, x) = k
  BY <1>6 DEF Surjection
<1>8. QED
  BY <1>2, <1>4, <1>7

\* A finite ordered set that is not empty has a first and a last element.
LEMMA OrderHasEnds ==
  ASSUME NEW S, IsFiniteSet(S), S # {}, NEW R, Orders(R, S)
  PROVE  /\ \E x \in S : \A y \in S : x = y \/ <<x, y>> \in R
         /\ \E x \in S : \A y \in S : x = y \/ <<y, x>> \in R
<1> DEFINE n == Cardinality(S)
<1>1. n \in Nat /\ n # 0
  BY FS_CardinalityType, FS_EmptySet
<1>2. PICK x \in S : Place(R, S, x) = 0
  <2>1. 0 \in 0 .. n - 1
    BY <1>1
  <2>2. QED
    BY <2>1, PlacesAreRanks
<1>3. \A y \in S : x = y \/ <<x, y>> \in R
  <2>1. Under(R, S, x) \subseteq S
    BY DEF Under
  <2>2. IsFiniteSet(Under(R, S, x)) /\ Cardinality(Under(R, S, x)) = 0
    BY <1>2, <2>1, FS_Subset DEF Place
  <2>3. Under(R, S, x) = {}
    BY <2>2, FS_EmptySet
  <2>4. QED
    BY <2>3 DEF Under, Orders
<1>4. PICK z \in S : Place(R, S, z) = n - 1
  <2>1. n - 1 \in 0 .. n - 1
    BY <1>1
  <2>2. QED
    BY <2>1, PlacesAreRanks
<1>5. \A y \in S : z = y \/ <<y, z>> \in R
  <2>1. Under(R, S, z) \subseteq S \ {z}
    BY DEF Under, Orders
  <2>2. IsFiniteSet(S \ {z}) /\ Cardinality(S \ {z}) = n - 1
    BY FS_RemoveElement
  <2>3. Under(R, S, z) = S \ {z}
    BY <1>4, <2>1, <2>2, FS_Subset DEF Place
  <2>4. QED
    BY <2>3 DEF Under
<1>6. QED
  BY <1>3, <1>5

-----------------------------------------------------------------------------
(* The order of the log                                                    *)

\* The fields of an event.
LEMMA EventFields ==
  ASSUME NEW e \in Event
  PROVE  /\ e.lamport \in Nat /\ e.lamport > 0 /\ e.by \in Nat /\ e.by \in Devices
         /\ e.kind \in Kinds /\ e.status \in Verdict
         /\ Turn(e) \in Nat /\ e # NoEvent /\ e.kind # "done"
<1>1. /\ e.lamport \in Nat /\ e.lamport > 0 /\ e.by \in Devices
      /\ e.kind \in Kinds /\ e.status \in Verdict
  BY DEF Event, Verdict
<1>2. e.by \in Nat
  BY <1>1, ProposalLogAssumption
<1>3. Turn(e) \in Nat /\ e.kind # "done"
  BY <1>1 DEF Turn, Kinds
<1>4. NoEvent.kind = "done"
  BY DEF NoEvent
<1>5. QED
  BY <1>1, <1>2, <1>3, <1>4

\* Events of different kinds have different turns.
LEMMA TurnsDiffer ==
  ASSUME NEW e \in Event, NEW f \in Event, e.kind # f.kind
  PROVE  Turn(e) # Turn(f)
<1>1. e.kind \in Kinds /\ f.kind \in Kinds
  BY EventFields
<1>2. QED
  BY <1>1 DEF Turn, Kinds

\* Two devices, the fast one last.
BySooner(a, b) == (a # Fast /\ b = Fast) \/ ((a = Fast <=> b = Fast) /\ a < b)

\* order_key, with the clock of the devices first (workspace_event.rs order_key).
LEMMA BeforeIs ==
  ASSUME NEW e \in Event, NEW f \in Event
  PROVE  Before(e, f) <=> \/ e.lamport < f.lamport
                          \/ /\ e.lamport = f.lamport
                             /\ BySooner(e.by, f.by) \/ (e.by = f.by /\ Turn(e) < Turn(f))
<1>1. ((e.by = Fast) = (f.by = Fast)) <=> (e.by = Fast <=> f.by = Fast)
  OBVIOUS
<1>2. QED
  BY <1>1, Zenon DEF Before, BySooner

\* Devices are ordered.
LEMMA SoonerOrders ==
  ASSUME NEW a \in Nat, NEW b \in Nat, NEW c \in Nat
  PROVE  /\ ~BySooner(a, a)
         /\ BySooner(a, b) /\ BySooner(b, c) => BySooner(a, c)
         /\ a # b => BySooner(a, b) \/ BySooner(b, a)
<1>1. Fast \in Nat
  BY ProposalLogAssumption
<1>2. QED
  BY <1>1 DEF BySooner

\* The pairs of events in their order.
Priors(S) == {p \in S \X S : Before(p[1], p[2])}

\* order_key orders events of which no two have the same time, device and kind.
LEMMA BeforeOrders ==
  ASSUME NEW S \in SUBSET Event, Distinct(S)
  PROVE  /\ \A e, f \in S : <<e, f>> \in Priors(S) <=> Before(e, f)
         /\ Orders(Priors(S), S)
<1>1. \A e, f \in S : <<e, f>> \in Priors(S) <=> Before(e, f)
  BY DEF Priors
<1>2. ASSUME NEW e \in S PROVE ~Before(e, e)
  <2>1. e.lamport \in Nat /\ e.by \in Nat /\ Turn(e) \in Nat /\ e \in Event
    BY EventFields
  <2>2. ~BySooner(e.by, e.by)
    BY <2>1, SoonerOrders
  <2>3. ~(e.lamport < e.lamport) /\ ~(Turn(e) < Turn(e))
    BY <2>1
  <2>4. QED
    BY <2>1, <2>2, <2>3, BeforeIs
<1>3. ASSUME NEW e \in S, NEW f \in S, NEW g \in S, Before(e, f), Before(f, g)
      PROVE  Before(e, g)
  <2>1. /\ e.lamport \in Nat /\ e.by \in Nat /\ Turn(e) \in Nat /\ e \in Event
        /\ f.lamport \in Nat /\ f.by \in Nat /\ Turn(f) \in Nat /\ f \in Event
        /\ g.lamport \in Nat /\ g.by \in Nat /\ Turn(g) \in Nat /\ g \in Event
    BY EventFields
  <2>2. /\ \/ e.lamport < f.lamport
           \/ /\ e.lamport = f.lamport
              /\ BySooner(e.by, f.by) \/ (e.by = f.by /\ Turn(e) < Turn(f))
        /\ \/ f.lamport < g.lamport
           \/ /\ f.lamport = g.lamport
              /\ BySooner(f.by, g.by) \/ (f.by = g.by /\ Turn(f) < Turn(g))
    BY <1>3, <2>1, BeforeIs
  <2>3. BySooner(e.by, f.by) /\ BySooner(f.by, g.by) => BySooner(e.by, g.by)
    BY <2>1, SoonerOrders
  <2>4. \/ e.lamport < g.lamport
        \/ /\ e.lamport = g.lamport
           /\ BySooner(e.by, g.by) \/ (e.by = g.by /\ Turn(e) < Turn(g))
    BY <2>1, <2>2, <2>3
  <2>5. QED
    BY <2>1, <2>4, BeforeIs
<1>4. ASSUME NEW e \in S, NEW f \in S, e # f
      PROVE  Before(e, f) \/ Before(f, e)
  <2>1. /\ e.lamport \in Nat /\ e.by \in Nat /\ Turn(e) \in Nat /\ e \in Event
        /\ f.lamport \in Nat /\ f.by \in Nat /\ Turn(f) \in Nat /\ f \in Event
    BY EventFields
  <2>2. e.lamport = f.lamport /\ e.by = f.by => Turn(e) # Turn(f)
    BY <1>4, <2>1, TurnsDiffer DEF Distinct, Alike
  <2>3. e.by # f.by => BySooner(e.by, f.by) \/ BySooner(f.by, e.by)
    BY <2>1, SoonerOrders
  <2>4. CASE e.lamport # f.lamport
    <3>1. e.lamport < f.lamport \/ f.lamport < e.lamport
      BY <2>1, <2>4
    <3>2. QED
      BY <2>1, <3>1, BeforeIs
  <2>5. CASE e.lamport = f.lamport /\ e.by # f.by
    BY <2>1, <2>3, <2>5, BeforeIs
  <2>6. CASE e.lamport = f.lamport /\ e.by = f.by
    <3>1. Turn(e) < Turn(f) \/ Turn(f) < Turn(e)
      BY <2>1, <2>2, <2>6
    <3>2. QED
      BY <2>1, <2>6, <3>1, BeforeIs
  <2>7. QED
    BY <2>4, <2>5, <2>6
<1>5. QED
  BY <1>1, <1>2, <1>3, <1>4 DEF Orders

\* The first and the last of some events.
LEMMA EarliestIs ==
  ASSUME NEW S \in SUBSET Event, Distinct(S), IsFiniteSet(S), S # {}
  PROVE  Earliest(S) \in S /\ \A f \in S : Earliest(S) = f \/ Before(Earliest(S), f)
<1>1. \E e \in S : \A f \in S : e = f \/ <<e, f>> \in Priors(S)
  BY BeforeOrders, OrderHasEnds
<1>2. \E e \in S : \A f \in S : e = f \/ Before(e, f)
  BY <1>1, BeforeOrders
<1>3. QED
  BY <1>2 DEF Earliest

\* Of such events there is a last one.
LEMMA LatestIs ==
  ASSUME NEW S \in SUBSET Event, Distinct(S), IsFiniteSet(S), S # {}
  PROVE  Latest(S) \in S /\ \A f \in S : Latest(S) = f \/ Before(f, Latest(S))
<1>1. \E e \in S : \A f \in S : e = f \/ <<f, e>> \in Priors(S)
  BY BeforeOrders, OrderHasEnds
<1>2. \E e \in S : \A f \in S : e = f \/ Before(f, e)
  BY <1>1, BeforeOrders
<1>3. QED
  BY <1>2 DEF Latest

\* A sequence of events in their order holds just these events.
LEMMA InOrderIs ==
  ASSUME NEW S \in SUBSET Event, Distinct(S), IsFiniteSet(S)
  PROVE  /\ Cardinality(S) \in Nat
         /\ \A i \in 1 .. Cardinality(S) : InOrder(S)[i] \in S
         /\ \A e \in S : \E i \in 1 .. Cardinality(S) : InOrder(S)[i] = e
<1> DEFINE n == Cardinality(S)
<1>1. n \in Nat
  BY FS_CardinalityType
<1>2. \A e \in S : Cardinality({f \in S : Before(f, e)}) = Place(Priors(S), S, e)
  <2>1. ASSUME NEW e \in S PROVE {f \in S : Before(f, e)} = Under(Priors(S), S, e)
    BY BeforeOrders DEF Under
  <2>2. QED
    BY <2>1 DEF Place
<1>3. /\ \A e \in S : Place(Priors(S), S, e) \in 0 .. n - 1
      /\ \A e, f \in S : Place(Priors(S), S, e) = Place(Priors(S), S, f) => e = f
      /\ \A k \in 0 .. n - 1 : \E e \in S : Place(Priors(S), S, e) = k
  BY BeforeOrders, PlacesAreRanks
<1>4. \A i \in 1 .. n : InOrder(S)[i] = CHOOSE e \in S : Cardinality({f \in S : Before(f, e)}) = i - 1
  BY DEF InOrder
<1> HIDE DEF n
<1>5. ASSUME NEW i \in 1 .. n
      PROVE  InOrder(S)[i] \in S /\ Place(Priors(S), S, InOrder(S)[i]) = i - 1
  <2>1. i - 1 \in 0 .. n - 1
    BY <1>1
  <2>2. \E e \in S : Cardinality({f \in S : Before(f, e)}) = i - 1
    BY <1>2, <1>3, <2>1
  <2>3. /\ InOrder(S)[i] \in S
        /\ Cardinality({f \in S : Before(f, InOrder(S)[i])}) = i - 1
    BY <1>4, <2>2
  <2>4. QED
    BY <1>2, <2>3
<1>6. ASSUME NEW e \in S PROVE \E i \in 1 .. n : InOrder(S)[i] = e
  <2> DEFINE i == Place(Priors(S), S, e) + 1
  <2>1. Place(Priors(S), S, e) \in 0 .. n - 1
    BY <1>3
  <2>2. i \in 1 .. n /\ i - 1 = Place(Priors(S), S, e)
    BY <1>1, <2>1
  <2>3. InOrder(S)[i] \in S /\ Place(Priors(S), S, InOrder(S)[i]) = Place(Priors(S), S, e)
    BY <1>5, <2>2
  <2>4. InOrder(S)[i] = e
    BY <1>3, <2>3
  <2>5. QED
    BY <2>2, <2>4
<1>7. QED
  BY <1>1, <1>5, <1>6 DEF n

\* append_local's Lamport time is above every event of the log.
LEMMA NextStampAbove ==
  ASSUME NEW L \in SUBSET Event, IsFiniteSet(L)
  PROVE  NextStamp(L) \in Nat \ {0} /\ \A e \in L : e.lamport < NextStamp(L)
<1>1. CASE L = {}
  BY <1>1 DEF NextStamp
<1>2. CASE L # {}
  <2> DEFINE T == Stamps(L)
             R == {p \in T \X T : p[1] < p[2]}
             f == [e \in L |-> e.lamport]
  <2>1. \A e \in L : e.lamport \in Nat
    BY EventFields
  <2>2. T \subseteq Nat /\ T # {}
    BY <1>2, <2>1 DEF Stamps
  <2>3. IsFiniteSet(T)
    <3>1. f \in Surjection(L, T)
      BY DEF Surjection, Stamps
    <3>2. QED
      BY <3>1, FS_Surjection
  <2>4. \A t, u \in T : <<t, u>> \in R <=> t < u
    OBVIOUS
  <2>5. Orders(R, T)
    <3> HIDE DEF R, T
    <3>1. QED
      BY <2>2, <2>4 DEF Orders
  <2>6. \E t \in T : \A u \in T : t = u \/ <<u, t>> \in R
    BY <2>2, <2>3, <2>5, OrderHasEnds
  <2>7. \E t \in T : \A u \in T : u <= t
    <3> HIDE DEF R, T
    <3>1. PICK t \in T : \A u \in T : t = u \/ <<u, t>> \in R
      BY <2>6
    <3>2. ASSUME NEW u \in T PROVE u <= t
      <4>1. u \in Nat /\ t \in Nat
        BY <2>2
      <4>2. u = t \/ u < t
        BY <2>4, <3>1
      <4>3. QED
        BY <4>1, <4>2
    <3>3. QED
      BY <3>2
  <2> DEFINE m == CHOOSE t \in Stamps(L) : \A u \in Stamps(L) : u <= t
  <2>8. m \in T /\ \A u \in T : u <= m
    BY <2>7
  <2>9. NextStamp(L) = 1 + m
    BY <1>2 DEF NextStamp
  <2>10. \A e \in L : e.lamport \in T
    BY DEF Stamps
  <2> HIDE DEF m, T
  <2>11. m \in Nat
    BY <2>2, <2>8
  <2>12. QED
    BY <2>1, <2>8, <2>9, <2>10, <2>11
<1>3. QED
  BY <1>1, <1>2

-----------------------------------------------------------------------------
(* The status of the log                                                   *)

\* The log materializes to a status.
LEMMA StatusIs ==
  ASSUME NEW L \in SUBSET Event, Distinct(L), IsFiniteSet(L)
  PROVE  Status(L) \in Verdict
<1>1. CASE Creations(L) = {}
  BY <1>1 DEF Status, Verdict
<1>2. CASE Creations(L) # {}
  <2> DEFINE first == Earliest(Creations(L))
             said == Creations(L) \cup Decisions(L)
             rises == {e \in said : ~Before(e, first) /\ \A f \in said : Before(f, e) => Below(f, e)}
             candidates == rises \cup {first}
  <2>1. Status(L) = Latest(candidates).status
    BY <1>2 DEF Status
  <2>2. Creations(L) \subseteq L /\ said \subseteq L
    BY DEF Creations, Decisions
  <2>3. first \in Creations(L)
    <3>1. IsFiniteSet(Creations(L)) /\ Distinct(Creations(L)) /\ Creations(L) \in SUBSET Event
      BY <2>2, FS_Subset DEF Distinct
    <3>2. QED
      BY <1>2, <3>1, EarliestIs
  <2>4. candidates \subseteq L /\ candidates # {}
    BY <2>2, <2>3
  <2> HIDE DEF candidates
  <2>5. IsFiniteSet(candidates) /\ Distinct(candidates) /\ candidates \in SUBSET Event
    BY <2>4, FS_Subset DEF Distinct
  <2>6. Latest(candidates) \in Event
    BY <2>4, <2>5, LatestIs
  <2>7. QED
    BY <2>1, <2>6, EventFields
<1>3. QED
  BY <1>1, <1>2

\* Of events of a time and rank, the order of event_key.
LEMMA BelowIs ==
  ASSUME NEW e \in Event, NEW f \in Event
  PROVE  Below(e, f) <=> \/ Rank(e.status) < Rank(f.status)
                         \/ /\ Rank(e.status) = Rank(f.status)
                            /\ \/ e.lamport < f.lamport
                               \/ e.lamport = f.lamport /\ e.by < f.by
                               \/ e.lamport = f.lamport /\ e.by = f.by /\ Turn(e) < Turn(f)
BY Zenon DEF Below

Lessers(S) == {p \in S \X S : Below(p[1], p[2])}

\* event_key orders the decisions and creations of a log.
LEMMA BelowOrders ==
  ASSUME NEW S \in SUBSET Event, Distinct(S), \A e \in S : e.status \in Statuses
  PROVE  /\ \A e, f \in S : <<e, f>> \in Lessers(S) <=> Below(e, f)
         /\ Orders(Lessers(S), S)
<1>1. \A e, f \in S : <<e, f>> \in Lessers(S) <=> Below(e, f)
  BY DEF Lessers
<1>2. \A s \in Statuses : Rank(s) \in Nat
  BY DEF Statuses, Rank
<1>3. ASSUME NEW e \in S
      PROVE  /\ Rank(e.status) \in Nat /\ e.lamport \in Nat /\ e.by \in Nat
             /\ Turn(e) \in Nat /\ e \in Event
  BY <1>2, EventFields
<1>4. ASSUME NEW e \in S PROVE ~Below(e, e)
  BY <1>3, BelowIs
<1>5. ASSUME NEW e \in S, NEW f \in S, NEW g \in S, Below(e, f), Below(f, g)
      PROVE  Below(e, g)
  BY <1>3, <1>5, BelowIs
<1>6. ASSUME NEW e \in S, NEW f \in S, e # f
      PROVE  Below(e, f) \/ Below(f, e)
  <2>1. e.lamport = f.lamport /\ e.by = f.by => Turn(e) # Turn(f)
    BY <1>3, <1>6, TurnsDiffer DEF Distinct, Alike
  <2>2. QED
    BY <1>3, <2>1, BelowIs
<1>7. QED
  BY <1>1, <1>4, <1>5, <1>6 DEF Orders

\* Where no decision comes before the creation, the status is that of a greatest
\* event, whatever the order of the decisions.
LEMMA GreatestStands ==
  ASSUME NEW L \in SUBSET Event, Distinct(L), IsFiniteSet(L), Spoken(L),
         Creations(L) # {}, \A e \in Decisions(L) : Before(Earliest(Creations(L)), e)
  PROVE  \E m \in SaidOf(L) : /\ Status(L) = m.status
                              /\ \A e \in SaidOf(L) : Rank(e.status) <= Rank(m.status)
<1> DEFINE first == Earliest(Creations(L))
           said == SaidOf(L)
           rises == {e \in said : ~Before(e, first) /\ \A f \in said : Before(f, e) => Below(f, e)}
           candidates == rises \cup {first}
<1>1. Status(L) = Latest(candidates).status
  BY DEF Status, SaidOf
<1>2. Creations(L) \subseteq said /\ said \subseteq L /\ said # {}
  BY DEF Creations, Decisions, SaidOf
<1>3. /\ Creations(L) \in SUBSET Event /\ IsFiniteSet(Creations(L)) /\ Distinct(Creations(L))
      /\ said \in SUBSET Event /\ IsFiniteSet(said) /\ Distinct(said)
  BY <1>2, FS_Subset DEF Distinct
<1>4. \A e \in said : e.status \in Statuses
  BY <1>2 DEF Spoken, SaidOf, Creations, Decisions
<1>5. first \in Creations(L) /\ \A e \in Creations(L) : e = first \/ Before(first, e)
  BY <1>3, EarliestIs
<1>6. \A e \in said : e = first \/ Before(first, e)
  BY <1>5 DEF SaidOf
<1>7. Orders(Lessers(said), said) /\ Orders(Priors(said), said)
  BY <1>3, <1>4, BelowOrders, BeforeOrders
<1> HIDE DEF said, first, rises, candidates
<1>8. \A e, f \in said : /\ ~(Before(e, f) /\ Before(f, e)) /\ ~Before(e, e)
                         /\ ~(Below(e, f) /\ Below(f, e))
  <2>1. \A e, f \in said : /\ <<e, f>> \in Priors(said) <=> Before(e, f)
                           /\ <<e, f>> \in Lessers(said) <=> Below(e, f)
    BY <1>3, <1>4, BelowOrders, BeforeOrders
  <2>2. QED
    BY <1>7, <2>1 DEF Orders
<1>9. PICK m \in said : \A e \in said : m = e \/ Below(e, m)
  <2>1. \E x \in said : \A y \in said : x = y \/ <<y, x>> \in Lessers(said)
    BY <1>2, <1>3, <1>7, OrderHasEnds
  <2>2. QED
    BY <1>3, <1>4, <2>1, BelowOrders
<1>10. first \in said
  BY <1>2, <1>5
<1>11. m \in rises
  <2>1. ~Before(m, first)
    BY <1>6, <1>8, <1>10
  <2>2. \A f \in said : Before(f, m) => Below(f, m)
    BY <1>8, <1>9
  <2>3. QED
    BY <2>1, <2>2 DEF rises
<1>12. candidates \subseteq said /\ m \in candidates
  BY <1>10, <1>11 DEF rises, candidates
<1>13. /\ Latest(candidates) \in candidates
       /\ \A f \in candidates : Latest(candidates) = f \/ Before(f, Latest(candidates))
  <2>1. candidates \in SUBSET Event /\ IsFiniteSet(candidates) /\ Distinct(candidates) /\ candidates # {}
    BY <1>3, <1>12, FS_Subset DEF Distinct
  <2>2. QED
    BY <2>1, LatestIs
<1>14. Latest(candidates) = m
  <2>1. SUFFICES ASSUME Before(m, Latest(candidates)) PROVE FALSE
    BY <1>12, <1>13
  <2>2. Latest(candidates) # first
    BY <1>6, <1>8, <1>10, <2>1
  <2>3. Latest(candidates) \in rises
    BY <1>13, <2>2 DEF candidates
  <2>4. Below(m, Latest(candidates)) /\ Latest(candidates) \in said
    BY <2>1, <2>3 DEF rises
  <2>5. QED
    BY <1>8, <1>9, <2>1, <2>4
<1>15. \A e \in said : Rank(e.status) <= Rank(m.status)
  <2>1. \A e \in said : e \in Event /\ Rank(e.status) \in Nat
    BY <1>3, <1>4 DEF Statuses, Rank
  <2>2. QED
    BY <1>9, <2>1, BelowIs
<1>16. Status(L) = m.status
  BY <1>1, <1>14
<1>17. QED
  BY <1>15, <1>16 DEF said

\* It is then the decision of highest precedence.
LEMMA HighestStands ==
  ASSUME NEW L \in SUBSET Event, Distinct(L), IsFiniteSet(L), Spoken(L),
         Creations(L) # {}, \A e \in Decisions(L) : Before(Earliest(Creations(L)), e)
  PROVE  Status(L) = Highest(L)
<1>1. PICK m \in SaidOf(L) : /\ Status(L) = m.status
                             /\ \A e \in SaidOf(L) : Rank(e.status) <= Rank(m.status)
  BY GreatestStands
<1>2. Said(L) = {e.status : e \in SaidOf(L)}
  BY DEF Said, SaidOf
<1>3. \A e \in SaidOf(L) : e.status \in Statuses
  BY DEF Spoken, SaidOf, Creations, Decisions
<1>4. m.status \in Said(L) /\ \A s \in Said(L) : s \in Statuses /\ Rank(s) <= Rank(m.status)
  BY <1>1, <1>2, <1>3
<1>5. /\ Precedence[1] = "Pending" /\ Precedence[2] = "Accepted"
      /\ Precedence[3] = "Rejected" /\ Precedence[4] = "Reverted"
  BY DEF Precedence
<1> DEFINE top(i) == Precedence[i] \in Said(L) /\ \A j \in i + 1 .. 4 : Precedence[j] \notin Said(L)
<1>6. \A i \in 1 .. 4 : top(i) => Precedence[i] = m.status
  <2>1. ASSUME NEW i \in 1 .. 4, top(i) PROVE Precedence[i] = m.status
    <3>1. i \in {1, 2, 3, 4}
      OBVIOUS
    <3>2. m.status \in {"Pending", "Accepted", "Rejected", "Reverted"}
      BY <1>4 DEF Statuses
    <3>3. PICK k \in {1, 2, 3, 4} : Precedence[k] = m.status
      BY <1>5, <3>2
    <3>4. ~(k > i)
      BY <1>4, <2>1, <3>1, <3>3
    <3>5. ~(k < i)
      BY <1>4, <1>5, <2>1, <3>1, <3>3 DEF Rank
    <3>6. QED
      BY <3>1, <3>3, <3>4, <3>5
  <2>2. QED
    BY <2>1
<1>7. \E i \in 1 .. 4 : top(i)
  <2>1. m.status \in {"Pending", "Accepted", "Rejected", "Reverted"}
    BY <1>4 DEF Statuses
  <2>2. PICK k \in 1 .. 4 : Precedence[k] = m.status
    BY <1>5, <2>1
  <2>3. ASSUME NEW j \in k + 1 .. 4 PROVE Precedence[j] \notin Said(L)
    <3>1. k \in {1, 2, 3, 4} /\ j \in {1, 2, 3, 4} /\ j > k
      BY <2>3
    <3>2. Rank(Precedence[j]) > Rank(Precedence[k])
      BY <1>5, <3>1 DEF Rank
    <3>3. QED
      <4>1. Rank(Precedence[j]) \in Nat /\ Rank(Precedence[k]) \in Nat
        BY <1>5, <3>1 DEF Rank
      <4>2. QED
        BY <1>4, <2>2, <3>2, <4>1
  <2>4. QED
    BY <1>4, <2>2, <2>3
<1>8. (CHOOSE i \in 1 .. 4 : top(i)) \in 1 .. 4 /\ top(CHOOSE i \in 1 .. 4 : top(i))
  BY <1>7
<1>9. Highest(L) = m.status
  BY <1>6, <1>8 DEF Highest
<1>10. QED
  BY <1>1, <1>9

-----------------------------------------------------------------------------
(* Ends and what is under way to them                                      *)

\* The two ends of a stream.
LEMMA EndsAre ==
  ASSUME NEW p \in Ends
  PROVE  /\ p = <<p[1], p[2]>> /\ p[1] \in Devices /\ p[2] \in Devices /\ p[1] # p[2]
         /\ Other(p) \in Ends /\ Other(Other(p)) = p /\ Other(p) # p
         /\ Other(p)[1] = p[2] /\ Other(p)[2] = p[1]
         /\ Link(Other(p)) = Link(p) /\ Link(p) \in Links
<1>1. p = <<p[1], p[2]>> /\ p[1] \in Devices /\ p[2] \in Devices /\ {p[1], p[2]} \in Links
  BY DEF Ends
<1>2. p[1] # p[2]
  <2>1. SUFFICES ASSUME p[1] = p[2] PROVE FALSE
    OBVIOUS
  <2>2. {p[1]} \in Links
    BY <1>1, <2>1
  <2>3. Cardinality({p[1]}) = 2
    BY <2>2, ProposalLogAssumption
  <2>4. Cardinality({p[1]}) = 1
    BY FS_Singleton
  <2>5. QED
    BY <2>3, <2>4
<1>3. Other(p) = <<p[2], p[1]>>
  BY DEF Other
<1>4. {p[2], p[1]} = {p[1], p[2]}
  OBVIOUS
<1>5. Other(p) \in Ends
  BY <1>1, <1>3, <1>4 DEF Ends
<1>6. Other(p)[1] = p[2] /\ Other(p)[2] = p[1]
  BY <1>3
<1>7. Other(Other(p)) = p /\ Other(p) # p
  BY <1>1, <1>2, <1>3, <1>6 DEF Other
<1>8. QED
  BY <1>1, <1>2, <1>4, <1>5, <1>6, <1>7 DEF Link

\* The events of a sequence of messages.
Heard(s) == {s[i].event : i \in 1 .. Len(s)}

\* The first message carries one of the events, the others carry the rest.
LEMMA HeardOfTail ==
  ASSUME NEW M, NEW s \in Seq(M), s # <<>>
  PROVE  /\ Head(s) \in M /\ Tail(s) \in Seq(M) /\ Head(s).event \in Heard(s)
         /\ Heard(Tail(s)) \subseteq Heard(s)
         /\ Heard(s) \subseteq Heard(Tail(s)) \cup {Head(s).event}
<1>1. /\ Len(s) \in Nat /\ Len(s) > 0 /\ Head(s) = s[1] /\ Head(s) \in M
      /\ Tail(s) \in Seq(M) /\ Len(Tail(s)) = Len(s) - 1
      /\ \A i \in 1 .. Len(s) - 1 : Tail(s)[i] = s[i + 1]
  OBVIOUS
<1>2. \A i \in 1 .. Len(s) - 1 : i + 1 \in 1 .. Len(s)
  BY <1>1
<1>3. \A i \in 1 .. Len(s) : i = 1 \/ (i - 1 \in 1 .. Len(s) - 1 /\ (i - 1) + 1 = i)
  BY <1>1
<1>4. 1 \in 1 .. Len(s)
  BY <1>1
<1>5. Heard(Tail(s)) \subseteq Heard(s)
  BY <1>1, <1>2 DEF Heard
<1>6. ASSUME NEW i \in 1 .. Len(s) PROVE s[i].event \in Heard(Tail(s)) \cup {Head(s).event}
  <2>1. CASE i = 1
    BY <1>1, <2>1
  <2>2. CASE i # 1
    <3>1. i - 1 \in 1 .. Len(Tail(s)) /\ Tail(s)[i - 1] = s[i]
      BY <1>1, <1>3, <2>2
    <3>2. QED
      BY <3>1 DEF Heard
  <2>3. QED
    BY <2>1, <2>2
<1>7. QED
  BY <1>1, <1>4, <1>5, <1>6 DEF Heard

\* Messages sent after others carry the events of both.
LEMMA HeardOfConcat ==
  ASSUME NEW M, NEW s \in Seq(M), NEW t \in Seq(M)
  PROVE  s \o t \in Seq(M) /\ Heard(s \o t) = Heard(s) \cup Heard(t)
<1>1. /\ s \o t \in Seq(M) /\ Len(s \o t) = Len(s) + Len(t)
      /\ Len(s) \in Nat /\ Len(t) \in Nat
      /\ \A i \in 1 .. Len(s) : (s \o t)[i] = s[i]
      /\ \A i \in 1 .. Len(t) : (s \o t)[Len(s) + i] = t[i]
  OBVIOUS
<1> DEFINE u == s \o t
<1> HIDE DEF u
<1>2. ASSUME NEW i \in 1 .. Len(u) PROVE u[i].event \in Heard(s) \cup Heard(t)
  <2>1. i \in 1 .. Len(s) \/ (i - Len(s) \in 1 .. Len(t) /\ Len(s) + (i - Len(s)) = i)
    BY <1>1 DEF u
  <2>2. QED
    BY <1>1, <2>1 DEF Heard, u
<1>3. ASSUME NEW i \in 1 .. Len(s) PROVE s[i].event \in Heard(u)
  <2>1. i \in 1 .. Len(u) /\ u[i] = s[i]
    BY <1>1 DEF u
  <2>2. QED
    BY <2>1 DEF Heard
<1>4. ASSUME NEW i \in 1 .. Len(t) PROVE t[i].event \in Heard(u)
  <2>1. Len(s) + i \in 1 .. Len(u) /\ u[Len(s) + i] = t[i]
    BY <1>1 DEF u
  <2>2. QED
    BY <2>1 DEF Heard
<1>5. Heard(u) = Heard(s) \cup Heard(t)
  BY <1>2, <1>3, <1>4 DEF Heard
<1>6. QED
  BY <1>1, <1>5 DEF u

\* One message carries one event.
LEMMA HeardOfOne ==
  ASSUME NEW M, NEW m \in M
  PROVE  <<m>> \in Seq(M) /\ Heard(<<m>>) = {m.event}
<1>1. <<m>> \in Seq(M) /\ Len(<<m>>) = 1 /\ <<m>>[1] = m
  OBVIOUS
<1>2. 1 .. Len(<<m>>) = {1}
  BY <1>1
<1>3. QED
  BY <1>1, <1>2 DEF Heard

\* One message more carries one event more.
LEMMA HeardOfAppend ==
  ASSUME NEW M, NEW s \in Seq(M), NEW m \in M
  PROVE  Append(s, m) \in Seq(M) /\ Heard(Append(s, m)) = Heard(s) \cup {m.event}
<1>1. Append(s, m) = s \o <<m>>
  OBVIOUS
<1>2. <<m>> \in Seq(M) /\ Heard(<<m>>) = {m.event}
  BY HeardOfOne
<1>3. s \o <<m>> \in Seq(M) /\ Heard(s \o <<m>>) = Heard(s) \cup Heard(<<m>>)
  BY <1>2, HeardOfConcat
<1>4. QED
  BY <1>1, <1>2, <1>3

\* The envelopes of some events carry these and no others.
LEMMA EnvelopesCarry ==
  ASSUME NEW d \in Devices, record[d] \in Verdict,
         NEW S \in SUBSET Event, Distinct(S), IsFiniteSet(S)
  PROVE  Envelopes(d, S) \in Seq(Message) /\ Heard(Envelopes(d, S)) = S
<1> DEFINE n == Cardinality(S)
<1>1. n \in Nat /\ \A i \in 1 .. n : InOrder(S)[i] \in S
  BY InOrderIs
<1>2. Envelopes(d, S) = [i \in 1 .. n |-> [event |-> InOrder(S)[i], bundle |-> record[d]]]
  BY DEF Envelopes, Envelope
<1>3. \A i \in 1 .. n : [event |-> InOrder(S)[i], bundle |-> record[d]] \in Message
  BY <1>1 DEF Message
<1>4. \A e \in S : \E i \in 1 .. n : InOrder(S)[i] = e
  BY InOrderIs
<1> DEFINE sent == [i \in 1 .. n |-> [event |-> InOrder(S)[i], bundle |-> record[d]]]
<1> HIDE DEF n
<1>5. sent \in [1 .. n -> Message]
  BY <1>3
<1>6. sent \in Seq(Message) /\ Len(sent) = n
  BY <1>1, <1>5
<1>7. \A i \in 1 .. n : sent[i].event = InOrder(S)[i]
  OBVIOUS
<1> HIDE DEF sent
<1>8. Heard(sent) = S
  BY <1>1, <1>4, <1>6, <1>7 DEF Heard
<1>9. QED
  BY <1>2, <1>6, <1>8 DEF sent

\* The events of a sequence of notifications.
LEMMA RangeIs ==
  ASSUME NEW s \in Seq(Event)
  PROVE  Range(s) = {s[i] : i \in 1 .. Len(s)}
BY DEF Range

\* The first notification is one of them, the others are the rest.
LEMMA RangeOfTail ==
  ASSUME NEW s \in Seq(Event), s # <<>>
  PROVE  /\ Head(s) \in Range(s) /\ Tail(s) \in Seq(Event)
         /\ Range(Tail(s)) \subseteq Range(s)
         /\ Range(s) \subseteq Range(Tail(s)) \cup {Head(s)}
<1>1. /\ Len(s) \in Nat /\ Len(s) > 0 /\ Head(s) = s[1]
      /\ Tail(s) \in Seq(Event) /\ Len(Tail(s)) = Len(s) - 1
      /\ \A i \in 1 .. Len(s) - 1 : Tail(s)[i] = s[i + 1]
  OBVIOUS
<1>2. \A i \in 1 .. Len(s) - 1 : i + 1 \in 1 .. Len(s)
  BY <1>1
<1>3. \A i \in 1 .. Len(s) : i = 1 \/ (i - 1 \in 1 .. Len(s) - 1 /\ (i - 1) + 1 = i)
  BY <1>1
<1>4. 1 \in 1 .. Len(s)
  BY <1>1
<1>5. Range(s) = {s[i] : i \in 1 .. Len(s)} /\ Range(Tail(s)) = {Tail(s)[i] : i \in 1 .. Len(Tail(s))}
  BY <1>1, RangeIs
<1>6. Range(Tail(s)) \subseteq Range(s)
  BY <1>1, <1>2, <1>5
<1>7. ASSUME NEW i \in 1 .. Len(s) PROVE s[i] \in Range(Tail(s)) \cup {Head(s)}
  <2>1. CASE i = 1
    BY <1>1, <2>1
  <2>2. CASE i # 1
    <3>1. i - 1 \in 1 .. Len(Tail(s)) /\ Tail(s)[i - 1] = s[i]
      BY <1>1, <1>3, <2>2
    <3>2. QED
      BY <1>5, <3>1
  <2>3. QED
    BY <2>1, <2>2
<1>8. QED
  BY <1>1, <1>4, <1>5, <1>6, <1>7

\* One notification more announces one event more.
LEMMA RangeOfAppend ==
  ASSUME NEW s \in Seq(Event), NEW e \in Event
  PROVE  s \o <<e>> \in Seq(Event) /\ Range(s \o <<e>>) = Range(s) \cup {e}
<1>1. /\ s \o <<e>> \in Seq(Event) /\ Len(s \o <<e>>) = Len(s) + 1 /\ Len(s) \in Nat
      /\ \A i \in 1 .. Len(s) : (s \o <<e>>)[i] = s[i]
      /\ (s \o <<e>>)[Len(s) + 1] = e
  OBVIOUS
<1> DEFINE u == s \o <<e>>
<1>2. Range(s) = {s[i] : i \in 1 .. Len(s)} /\ Range(u) = {u[i] : i \in 1 .. Len(u)}
  BY <1>1, RangeIs
<1> HIDE DEF u
<1>3. \A i \in 1 .. Len(u) : i \in 1 .. Len(s) \/ i = Len(s) + 1
  BY <1>1 DEF u
<1>4. \A i \in 1 .. Len(s) : i \in 1 .. Len(u)
  BY <1>1 DEF u
<1>5. Len(s) + 1 \in 1 .. Len(u)
  BY <1>1 DEF u
<1>6. Range(u) = Range(s) \cup {e}
  BY <1>1, <1>2, <1>3, <1>4, <1>5 DEF u
<1>7. QED
  BY <1>1, <1>6 DEF u

\* When the oldest notifications are lost, the others are left.
LEMMA RangeOfRest ==
  ASSUME NEW s \in Seq(Event), NEW n \in 0 .. Len(s)
  PROVE  /\ SubSeq(s, n + 1, Len(s)) \in Seq(Event)
         /\ Range(SubSeq(s, n + 1, Len(s))) \subseteq Range(s)
<1> DEFINE u == SubSeq(s, n + 1, Len(s))
<1>1. /\ u \in Seq(Event) /\ Len(u) = Len(s) - n
      /\ \A i \in 1 .. Len(s) - n : u[i] = s[n + i] /\ n + i \in 1 .. Len(s)
  OBVIOUS
<1>2. Range(s) = {s[i] : i \in 1 .. Len(s)} /\ Range(u) = {u[i] : i \in 1 .. Len(u)}
  BY <1>1, RangeIs
<1> HIDE DEF u
<1>3. Range(u) \subseteq Range(s)
  BY <1>1, <1>2
<1>4. QED
  BY <1>1, <1>3 DEF u

-----------------------------------------------------------------------------
(* How logs grow                                                           *)

\* An event unlike all others keeps the events distinct.
LEMMA DistinctWithOne ==
  ASSUME NEW L, Distinct(L), NEW e, \A f \in L : Alike(e, f) => e = f
  PROVE  Distinct(L \cup {e})
BY DEF Distinct, Alike

\* A log that grows by events of its own device, or of their device's log.
LEMMA LogsGrow ==
  ASSUME LogsOK, AtOrigin, AllDistinct, NEW d \in Devices,
         NEW L \in SUBSET Event, IsFiniteSet(L), Spoken(L), Distinct(L), log[d] \subseteq L,
         \A e \in L : e \in log[d] \/ e.by = d \/ e \in log[e.by],
         log' = [log EXCEPT ![d] = L]
  PROVE  /\ LogsOK' /\ AtOrigin' /\ AllDistinct'
         /\ log'[d] = L /\ \A x \in Devices : x # d => log'[x] = log[x]
         /\ \A x \in Devices : log[x] \subseteq log'[x]
<1>1. /\ log'[d] = L /\ \A x \in Devices : x # d => log'[x] = log[x]
      /\ log' \in [Devices -> SUBSET Event]
  BY DEF LogsOK
<1>2. \A x \in Devices : log[x] \subseteq log'[x]
  BY <1>1
<1>3. LogsOK'
  BY <1>1 DEF LogsOK
<1>4. AllDistinct'
  BY <1>1 DEF AllDistinct
<1>5. ASSUME NEW x \in Devices, NEW e \in log'[x] PROVE e \in log'[e.by]
  <2>1. e.by \in Devices
    BY <1>1, <1>5, EventFields
  <2>2. CASE e \in log[x]
    BY <1>2, <2>1, <2>2 DEF AtOrigin
  <2>3. CASE e \notin log[x]
    BY <1>1, <1>2, <1>5, <2>1, <2>3 DEF AtOrigin
  <2>4. QED
    BY <2>2, <2>3
<1>6. AtOrigin'
  BY <1>5 DEF AtOrigin
<1>7. QED
  BY <1>1, <1>2, <1>3, <1>4, <1>6

\* One event of the device, at a time unlike those of its others.
LEMMA OwnEventAdded ==
  ASSUME LogsOK, AtOrigin, AllDistinct, NEW d \in Devices, NEW e \in Event, e.by = d,
         e.kind # "made" => e.status \in Statuses,
         \A f \in log[d] : ~Alike(e, f),
         log' = [log EXCEPT ![d] = log[d] \cup {e}]
  PROVE  /\ LogsOK' /\ AtOrigin' /\ AllDistinct'
         /\ log'[d] = log[d] \cup {e} /\ \A x \in Devices : x # d => log'[x] = log[x]
         /\ \A x \in Devices : log[x] \subseteq log'[x]
<1> DEFINE L == log[d] \cup {e}
<1>1. log[d] \in SUBSET Event /\ IsFiniteSet(log[d]) /\ Spoken(log[d]) /\ Distinct(log[d])
  BY DEF LogsOK, AllDistinct
<1>2. L \in SUBSET Event /\ IsFiniteSet(L)
  BY <1>1, FS_AddElement
<1>3. Spoken(L)
  BY <1>1 DEF Spoken
<1>4. Distinct(L)
  BY <1>1, DistinctWithOne
<1>5. \A f \in L : f \in log[d] \/ f.by = d \/ f \in log[f.by]
  OBVIOUS
<1>6. log[d] \subseteq L /\ log' = [log EXCEPT ![d] = L]
  OBVIOUS
<1> HIDE DEF L
<1>7. /\ LogsOK' /\ AtOrigin' /\ AllDistinct'
      /\ log'[d] = L /\ \A x \in Devices : x # d => log'[x] = log[x]
      /\ \A x \in Devices : log[x] \subseteq log'[x]
  BY <1>2, <1>3, <1>4, <1>5, <1>6, LogsGrow
<1>8. QED
  BY <1>7 DEF L

\* An event of another log.
LEMMA HeardEventAdded ==
  ASSUME LogsOK, AtOrigin, AllDistinct, NEW d \in Devices, NEW x \in Devices, NEW e \in log[x],
         log' = [log EXCEPT ![d] = log[d] \cup {e}]
  PROVE  /\ LogsOK' /\ AtOrigin' /\ AllDistinct'
         /\ log'[d] = log[d] \cup {e} /\ \A y \in Devices : y # d => log'[y] = log[y]
         /\ \A y \in Devices : log[y] \subseteq log'[y]
         /\ IsFiniteSet(log[d] \cup {e}) /\ Distinct(log[d] \cup {e})
         /\ log[d] \cup {e} \in SUBSET Event
         /\ e.by = d => e \in log[d]
<1> DEFINE L == log[d] \cup {e}
<1>1. /\ log[d] \in SUBSET Event /\ IsFiniteSet(log[d]) /\ Spoken(log[d]) /\ Distinct(log[d])
      /\ log[x] \in SUBSET Event /\ Spoken(log[x])
  BY DEF LogsOK, AllDistinct
<1>2. L \in SUBSET Event /\ IsFiniteSet(L)
  BY <1>1, FS_AddElement
<1>3. Spoken(L)
  BY <1>1 DEF Spoken
<1>4. e \in Event /\ e.by \in Devices /\ e \in log[e.by]
  BY <1>1, EventFields DEF AtOrigin
<1>5. Distinct(L)
  <2>1. ASSUME NEW f \in log[d], Alike(e, f) PROVE e = f
    <3>1. f \in log[e.by]
      BY <1>4, <2>1 DEF AtOrigin, Alike
    <3>2. QED
      BY <1>4, <2>1, <3>1 DEF AllDistinct, Distinct
  <2>2. QED
    BY <1>1, <2>1, DistinctWithOne
<1>6. \A f \in L : f \in log[d] \/ f.by = d \/ f \in log[f.by]
  BY <1>4
<1>7. log[d] \subseteq L /\ log' = [log EXCEPT ![d] = L]
  OBVIOUS
<1> HIDE DEF L
<1>8. /\ LogsOK' /\ AtOrigin' /\ AllDistinct'
      /\ log'[d] = L /\ \A y \in Devices : y # d => log'[y] = log[y]
      /\ \A y \in Devices : log[y] \subseteq log'[y]
  BY <1>2, <1>3, <1>5, <1>6, <1>7, LogsGrow
<1>9. QED
  BY <1>2, <1>4, <1>5, <1>8 DEF L

\* The log a restart leaves: the record's events are added if it has none.
LEMMA BackfillAdds ==
  ASSUME LogsOK, AtOrigin, AllDistinct, record \in [Devices -> Verdict], NEW d \in Devices,
         log' = [log EXCEPT ![d] = Backfill(d)]
  PROVE  /\ LogsOK' /\ AtOrigin' /\ AllDistinct'
         /\ \A x \in Devices : x # d => log'[x] = log[x]
         /\ \A x \in Devices : log[x] \subseteq log'[x]
<1>1. /\ log[d] \in SUBSET Event /\ IsFiniteSet(log[d]) /\ Spoken(log[d]) /\ Distinct(log[d])
  BY DEF LogsOK, AllDistinct
<1>2. CASE record[d] = NoRecord \/ Creations(log[d]) # {}
  <2>1. Backfill(d) = log[d]
    BY <1>2 DEF Backfill
  <2>2. \A f \in log[d] : f \in log[d] \/ f.by = d \/ f \in log[f.by]
    OBVIOUS
  <2>3. log[d] \subseteq log[d] /\ log' = [log EXCEPT ![d] = log[d]]
    BY <2>1
  <2>4. QED
    BY <1>1, <2>2, <2>3, LogsGrow
<1>3. CASE record[d] # NoRecord /\ Creations(log[d]) = {}
  <2> DEFINE s == Snapshot(d)
             K == log[d] \cup {s}
             c == [Creation(d, K) EXCEPT !.status = record[d]]
             L == K \cup {c}
  <2>1. Backfill(d) = L
    BY <1>3 DEF Backfill
  <2>2. record[d] \in Statuses
    BY <1>3 DEF Verdict
  <2>3. s \in Event /\ s.by = d /\ s.kind = "made" /\ \A f \in log[d] : f.lamport < s.lamport
    BY <1>1, NextStampAbove DEF Snapshot, Event, Kinds, Verdict
  <2>4. \A f \in log[d] : f.lamport \in Nat
    BY <1>1, EventFields
  <2>5. s.lamport \in Nat
    BY <2>3, EventFields
  <2> HIDE DEF s
  <2>6. K \in SUBSET Event /\ IsFiniteSet(K) /\ Spoken(K)
    BY <1>1, <2>3, FS_AddElement DEF Spoken
  <2>7. Distinct(K)
    <3>1. \A f \in log[d] : ~Alike(s, f)
      BY <2>3, <2>4, <2>5 DEF Alike
    <3>2. QED
      BY <1>1, <3>1, DistinctWithOne
  <2>8. NextStamp(K) \in Nat \ {0} /\ \A f \in K : f.lamport < NextStamp(K)
    BY <2>6, NextStampAbove
  <2>9. \A f \in K : f.lamport \in Nat
    BY <2>6, EventFields
  <2>10. c = [kind |-> "created", status |-> record[d], lamport |-> NextStamp(K), by |-> d]
    BY DEF Creation
  <2> HIDE DEF K, c
  <2>11. /\ c \in Event /\ c.by = d /\ c.status \in Statuses
         /\ \A f \in K : f.lamport < c.lamport
    BY <2>2, <2>8, <2>10 DEF Event, Kinds
  <2>12. c.lamport \in Nat
    BY <2>11, EventFields
  <2>13. L \in SUBSET Event /\ IsFiniteSet(L) /\ Spoken(L)
    BY <2>6, <2>11, FS_AddElement DEF Spoken
  <2>14. Distinct(L)
    <3>1. \A f \in K : ~Alike(c, f)
      BY <2>9, <2>11, <2>12 DEF Alike
    <3>2. QED
      BY <2>7, <3>1, DistinctWithOne
  <2>15. \A f \in L : f \in log[d] \/ f.by = d \/ f \in log[f.by]
    BY <2>3, <2>11 DEF K
  <2>16. log[d] \subseteq L /\ log' = [log EXCEPT ![d] = L]
    BY <2>1 DEF K
  <2> HIDE DEF L
  <2>17. QED
    BY <2>13, <2>14, <2>15, <2>16, LogsGrow
<1>4. QED
  BY <1>2, <1>3

\* What a record takes over has a record's type.
LEMMA RecordsTyped ==
  ASSUME NEW r \in Verdict, NEW b \in Verdict,
         NEW L \in SUBSET Event, IsFiniteSet(L), Distinct(L)
  PROVE  Merged(r, b) \in Verdict /\ Reconciled(r, L) \in Verdict
<1>1. Status(L) \in Verdict
  BY StatusIs
<1>2. QED
  BY <1>1 DEF Merged, Reconciled

-----------------------------------------------------------------------------
(* What a step keeps of an end                                             *)

\* The types of an end's state.
LEMMA EndTypes ==
  ASSUME Types, NEW p \in Ends
  PROVE  /\ log[p[1]] \in SUBSET Event /\ log[p[2]] \in SUBSET Event
         /\ phase[p] \in {"down", "open", "batch", "live"}
         /\ have[p] \in SUBSET Event /\ known[p] \in SUBSET Event
         /\ queue[p] \in Seq(Event) /\ lagged[p] \in BOOLEAN /\ wire[p] \in Seq(Message)
         /\ record[p[1]] \in Verdict
         /\ Carried(p) = Heard(wire[p]) /\ NoEvent \notin Event
<1>1. p[1] \in Devices /\ p[2] \in Devices
  BY EndsAre
<1>2. NoEvent \notin Event
  BY EventFields
<1>3. QED
  BY <1>1, <1>2 DEF Types, LogsOK, UsersOK, StreamsOK, Carried, Heard

\* An end that does not begin, end or recover: its device's log grows by what it
\* is notified of, a notification goes to the peer, and messages arrive.
LEMMA EndKept ==
  ASSUME Types, NEW p \in Ends, EndOK(p),
         phase'[p] = phase[p] \/ (phase[p] = "batch" /\ phase'[p] = "live"),
         have'[p] = have[p], ~lagged'[p] => ~lagged[p],
         phase'[p] # "down" => Link(p) \in up',
         phase[p] = "down" => known'[p] = {} /\ queue'[p] = <<>> /\ ~lagged'[p],
         log[p[1]] \subseteq log'[p[1]], log[p[2]] \subseteq log'[p[2]],
         Range(queue'[p]) \subseteq log'[p[1]],
         Carried(p)' \subseteq Carried(p) \cup log'[p[2]] \cup {NoEvent},
         phase[p] # "down" => log'[p[1]] \subseteq log[p[1]] \cup Range(queue'[p]),
         phase[p] = "open" /\ ~lagged'[p] => Range(queue[p]) \subseteq Range(queue'[p]),
         phase[p] \in {"batch", "live"} /\ Link(p) \notin missed' =>
           /\ Link(p) \notin missed
           /\ Carried(Other(p)) \subseteq Carried(Other(p))' \cup log'[p[2]] \cup {NoEvent}
           /\ known'[p] \subseteq known[p] \cup log'[p[2]] \cup Carried(Other(p))'
           /\ ~lagged'[p] => Range(queue[p]) \subseteq Range(queue'[p]) \cup log'[p[2]] \cup Carried(Other(p))'
  PROVE  EndOK(p)'
<1>1. /\ log[p[1]] \in SUBSET Event /\ log[p[2]] \in SUBSET Event /\ known[p] \in SUBSET Event
      /\ NoEvent \notin Event
  BY EndTypes
<1>2. Founded(p)'
  <2>1. have'[p] \subseteq log'[p[1]]
    BY DEF EndOK, Founded
  <2>2. Carried(p)' \subseteq log'[p[2]] \cup {NoEvent}
    BY DEF EndOK, Founded
  <2>3. phase'[p] = "down" => phase[p] = "down"
    OBVIOUS
  <2>4. QED
    BY <2>1, <2>2, <2>3 DEF Founded
<1>3. OpenComplete(p)'
  <2>1. SUFFICES ASSUME phase'[p] = "open", ~lagged'[p], NEW e \in log'[p[1]]
                 PROVE  e \in have'[p] \cup Range(queue'[p])
    BY DEF OpenComplete
  <2>2. phase[p] = "open" /\ ~lagged[p]
    BY <2>1
  <2>3. log[p[1]] \subseteq have[p] \cup Range(queue[p])
    BY <2>2 DEF EndOK, OpenComplete
  <2>4. QED
    BY <2>1, <2>2, <2>3
<1>4. ASSUME phase'[p] \in {"batch", "live"}, Link(p) \notin missed'
      PROVE  /\ phase[p] \in {"batch", "live"} /\ Link(p) \notin missed
             /\ Carried(Other(p)) \subseteq Carried(Other(p))' \cup log'[p[2]] \cup {NoEvent}
             /\ known'[p] \subseteq known[p] \cup log'[p[2]] \cup Carried(Other(p))'
             /\ ~lagged'[p] => Range(queue[p]) \subseteq Range(queue'[p]) \cup log'[p[2]] \cup Carried(Other(p))'
  BY <1>4
<1>5. KnownTrue(p)'
  <2>1. SUFFICES ASSUME phase'[p] \in {"batch", "live"}, Link(p) \notin missed', NEW e \in known'[p]
                 PROVE  e \in log'[p[2]] \cup Carried(Other(p))'
    BY DEF KnownTrue
  <2>2. known[p] \subseteq log[p[2]] \cup Carried(Other(p))
    BY <1>4, <2>1 DEF EndOK, KnownTrue
  <2>3. QED
    BY <1>1, <1>4, <2>1, <2>2
<1>6. NotStranded(p)'
  <2>1. SUFFICES ASSUME phase'[p] \in {"batch", "live"}, Link(p) \notin missed', ~lagged'[p],
                        NEW e \in log'[p[1]]
                 PROVE  e \in log'[p[2]] \cup Carried(Other(p))' \cup Range(queue'[p])
    BY DEF NotStranded
  <2>2. log[p[1]] \subseteq log[p[2]] \cup Carried(Other(p)) \cup Range(queue[p])
    BY <1>4, <2>1 DEF EndOK, NotStranded
  <2>3. e \in log[p[1]] \/ e \in Range(queue'[p])
    BY <1>4, <2>1
  <2>4. QED
    BY <1>1, <1>4, <2>1, <2>2, <2>3
<1>7. QED
  BY <1>2, <1>3, <1>5, <1>6 DEF EndOK

\* An end about which nothing changes, while the logs stay.
LEMMA EndUntouched ==
  ASSUME NEW p \in Ends, EndOK(p), UNCHANGED log, missed \subseteq missed', up \subseteq up',
         phase'[p] = phase[p], have'[p] = have[p], known'[p] = known[p], queue'[p] = queue[p],
         lagged'[p] = lagged[p], wire'[p] = wire[p], wire'[Other(p)] = wire[Other(p)]
  PROVE  EndOK(p)'
<1>1. Founded(p)'
  BY DEF EndOK, Founded, Carried
<1>2. OpenComplete(p)'
  BY DEF EndOK, OpenComplete
<1>3. KnownTrue(p)'
  BY DEF EndOK, KnownTrue, Carried
<1>4. NotStranded(p)'
  BY DEF EndOK, NotStranded, Carried
<1>5. QED
  BY <1>1, <1>2, <1>3, <1>4 DEF EndOK

\* An end that is down, with nothing under way to it.
LEMMA EndDown ==
  ASSUME NEW p \in Ends, phase'[p] = "down", have'[p] = {}, known'[p] = {}, queue'[p] = <<>>,
         lagged'[p] = FALSE, wire'[p] = <<>>
  PROVE  EndOK(p)'
<1>1. Carried(p)' = {}
  BY DEF Carried
<1>2. Range(queue'[p]) = {}
  BY DEF Range
<1>3. Founded(p)'
  BY <1>1, <1>2 DEF Founded
<1>4. OpenComplete(p)' /\ KnownTrue(p)' /\ NotStranded(p)'
  BY DEF OpenComplete, KnownTrue, NotStranded
<1>5. QED
  BY <1>3, <1>4 DEF EndOK

-----------------------------------------------------------------------------
(* Steps that append                                                       *)

\* The live streams of a device are notified of an event.
LEMMA NotifiedIs ==
  ASSUME Types, NEW d \in Devices, NEW e \in Event, queue' = Notified(d, <<e>>)
  PROVE  /\ queue' \in [Ends -> Seq(Event)]
         /\ \A p \in Ends : /\ Range(queue[p]) \subseteq Range(queue'[p])
                            /\ Range(queue'[p]) \subseteq Range(queue[p]) \cup (IF p[1] = d THEN {e} ELSE {})
                            /\ p[1] = d /\ phase[p] # "down" => e \in Range(queue'[p])
                            /\ phase[p] = "down" => queue'[p] = queue[p]
<1>1. queue \in [Ends -> Seq(Event)]
  BY DEF Types, StreamsOK
<1>2. ASSUME NEW p \in Ends
      PROVE  /\ queue'[p] \in Seq(Event)
             /\ Range(queue[p]) \subseteq Range(queue'[p])
             /\ Range(queue'[p]) \subseteq Range(queue[p]) \cup (IF p[1] = d THEN {e} ELSE {})
             /\ p[1] = d /\ phase[p] # "down" => e \in Range(queue'[p])
             /\ phase[p] = "down" => queue'[p] = queue[p]
  <2>1. queue[p] \o <<e>> \in Seq(Event) /\ Range(queue[p] \o <<e>>) = Range(queue[p]) \cup {e}
    BY <1>1, RangeOfAppend
  <2>2. CASE p[1] = d /\ phase[p] # "down"
    <3>1. queue'[p] = queue[p] \o <<e>>
      BY <2>2 DEF Notified
    <3>2. QED
      BY <2>1, <2>2, <3>1
  <2>3. CASE ~(p[1] = d /\ phase[p] # "down")
    <3>1. queue'[p] = queue[p]
      BY <2>3 DEF Notified
    <3>2. QED
      BY <1>1, <2>3, <3>1
  <2>4. QED
    BY <2>2, <2>3
<1>3. queue' = [p \in Ends |-> queue'[p]]
  BY DEF Notified
<1>4. queue' \in [Ends -> Seq(Event)]
  BY <1>2, <1>3
<1>5. QED
  BY <1>2, <1>4

\* append_local_event keeps every end in order.
LEMMA AppendKeepsEnds ==
  ASSUME Types, EndsOK, NEW d \in Devices, NEW e \in Event,
         log'[d] = log[d] \cup {e}, \A x \in Devices : x # d => log'[x] = log[x],
         queue' = Notified(d, <<e>>), UNCHANGED <<phase, have, known, lagged, wire, up, missed>>
  PROVE  EndsOK' /\ StreamsOK'
<1>1. ASSUME NEW p \in Ends PROVE EndOK(p)'
  <2>1. /\ Range(queue[p]) \subseteq Range(queue'[p])
        /\ Range(queue'[p]) \subseteq Range(queue[p]) \cup (IF p[1] = d THEN {e} ELSE {})
        /\ p[1] = d /\ phase[p] # "down" => e \in Range(queue'[p])
        /\ phase[p] = "down" => queue'[p] = queue[p]
    BY NotifiedIs
  <2>2. EndOK(p) /\ p[1] \in Devices /\ p[2] \in Devices
    BY EndsAre DEF EndsOK
  <2>3. log[p[1]] \subseteq log'[p[1]] /\ log[p[2]] \subseteq log'[p[2]]
    BY <2>2
  <2>4. Range(queue'[p]) \subseteq log'[p[1]]
    BY <2>1, <2>2 DEF EndOK, Founded
  <2>5. Carried(p)' = Carried(p) /\ Carried(Other(p))' = Carried(Other(p))
    BY DEF Carried
  <2>6. phase[p] # "down" => log'[p[1]] \subseteq log[p[1]] \cup Range(queue'[p])
    BY <2>1, <2>2
  <2>7. phase[p] # "down" => Link(p) \in up
    BY <2>2 DEF EndOK, Founded
  <2>8. phase[p] = "down" => known[p] = {} /\ queue[p] = <<>> /\ ~lagged[p]
    BY <2>2 DEF EndOK, Founded
  <2>9. QED
    BY <2>1, <2>2, <2>3, <2>4, <2>5, <2>6, <2>7, <2>8, EndKept
<1>2. StreamsOK'
  BY NotifiedIs DEF Types, StreamsOK
<1>3. QED
  BY <1>1, <1>2 DEF EndsOK

\* An event of the device itself, at a new time, keeps the invariant; what the
\* device is about to write stays later than its other decisions.
LEMMA OwnAppend ==
  ASSUME Invariant, NEW d \in Devices, NEW e \in Event, e.by = d,
         e.kind # "made" => e.status \in Statuses, \A f \in log[d] : ~Alike(e, f),
         Appended(d, <<e>>), UNCHANGED <<record, links, spent>>,
         making' \in {"nothing", "saved", "noted", "done"}, deciding' \in [Devices -> Handling],
         \A x \in Devices : x = d \/ deciding'[x] = deciding[x],
         (deciding'[d] = deciding[d] /\ e.kind # "decided") \/ deciding'[d].step # "stamped"
  PROVE  Invariant'
<1>1. LogsOK /\ AtOrigin /\ AllDistinct /\ StampsFresh /\ UsersOK /\ LinksOK /\ Types /\ EndsOK
  BY DEF Invariant, Types, LogsTrue
<1>2. Range(<<e>>) = {e}
  <2>1. <<e>> \in Seq(Event) /\ Len(<<e>>) = 1 /\ <<e>>[1] = e
    OBVIOUS
  <2>2. Range(<<e>>) = {<<e>>[i] : i \in 1 .. Len(<<e>>)}
    BY <2>1, RangeIs
  <2>3. 1 .. Len(<<e>>) = {1}
    BY <2>1
  <2>4. QED
    BY <2>1, <2>2, <2>3
<1>3. log' = [log EXCEPT ![d] = log[d] \cup {e}] /\ queue' = Notified(d, <<e>>)
      /\ UNCHANGED <<phase, have, known, lagged, wire>>
  BY <1>2 DEF Appended
<1>4. /\ LogsOK' /\ AtOrigin' /\ AllDistinct'
      /\ log'[d] = log[d] \cup {e} /\ \A x \in Devices : x # d => log'[x] = log[x]
  BY <1>1, <1>3, OwnEventAdded
<1>5. EndsOK' /\ StreamsOK'
  BY <1>1, <1>3, <1>4, AppendKeepsEnds DEF links
<1>6. StampsFresh'
  <2>1. SUFFICES ASSUME NEW x \in Devices, deciding'[x].step = "stamped",
                        NEW f \in log'[x], f.by = x, f.kind = "decided"
                 PROVE  f.lamport < deciding'[x].lamport
    BY DEF StampsFresh
  <2>2. deciding'[x] = deciding[x] /\ f \in log[x]
    BY <1>4, <2>1
  <2>3. QED
    BY <1>1, <2>1, <2>2 DEF StampsFresh
<1>7. UsersOK' /\ LinksOK'
  BY <1>1 DEF UsersOK, LinksOK, links
<1>8. QED
  BY <1>4, <1>5, <1>6, <1>7 DEF Invariant, Types, LogsTrue

\* The engine's events and a user's decision are such events.
LEMMA AppendSteps ==
  ASSUME Invariant,
         \/ RecordSnapshot \/ RecordCreation
         \/ \E d \in Devices : WriteDecision(d)
  PROVE  Invariant'
<1>1. LogsOK /\ UsersOK /\ StampsFresh
  BY DEF Invariant, Types, LogsTrue
<1>2. Author \in Devices
  BY ProposalLogAssumption
<1>3. ASSUME NEW d \in Devices, NEW e \in Event, \A f \in log[d] : f.lamport < e.lamport
      PROVE  \A f \in log[d] : ~Alike(e, f)
  <2>1. \A f \in log[d] : f.lamport \in Nat /\ f.lamport # e.lamport
    <3>1. e.lamport \in Nat /\ \A f \in log[d] : f.lamport \in Nat
      BY <1>1, EventFields DEF LogsOK
    <3>2. QED
      BY <1>3, <3>1
  <2>2. QED
    BY <2>1 DEF Alike
<1>4. ASSUME NEW d \in Devices
      PROVE  NextStamp(log[d]) \in Nat \ {0} /\ \A f \in log[d] : f.lamport < NextStamp(log[d])
  BY <1>1, NextStampAbove DEF LogsOK
<1>5. CASE RecordSnapshot
  <2> DEFINE e == Snapshot(Author)
  <2>1. e \in Event /\ e.by = Author /\ e.kind = "made" /\ e.lamport = NextStamp(log[Author])
    BY <1>2, <1>4 DEF Snapshot, Event, Kinds
  <2>2. Appended(Author, <<e>>) /\ making' = "noted" /\ UNCHANGED <<record, deciding, links, spent>>
    BY <1>5 DEF RecordSnapshot
  <2> HIDE DEF e
  <2>3. \A f \in log[Author] : ~Alike(e, f)
    BY <1>2, <1>3, <1>4, <2>1
  <2>4. deciding' \in [Devices -> Handling] /\ deciding'[Author] = deciding[Author]
    BY <1>1, <2>2 DEF UsersOK
  <2>5. e.kind # "decided" /\ \A x \in Devices : deciding'[x] = deciding[x]
    BY <2>1, <2>2
  <2>6. QED
    BY <1>2, <2>1, <2>2, <2>3, <2>4, <2>5, OwnAppend
<1>6. CASE RecordCreation
  <2> DEFINE e == Creation(Author, log[Author])
  <2>1. /\ e \in Event /\ e.by = Author /\ e.kind = "created" /\ e.status \in Statuses
        /\ e.lamport = NextStamp(log[Author])
    BY <1>2, <1>4 DEF Creation, Event, Kinds, Statuses
  <2>2. Appended(Author, <<e>>) /\ making' = "done" /\ UNCHANGED <<record, deciding, links, spent>>
    BY <1>6 DEF RecordCreation
  <2> HIDE DEF e
  <2>3. \A f \in log[Author] : ~Alike(e, f)
    BY <1>2, <1>3, <1>4, <2>1
  <2>4. deciding' \in [Devices -> Handling] /\ deciding'[Author] = deciding[Author]
    BY <1>1, <2>2 DEF UsersOK
  <2>5. e.kind # "decided" /\ \A x \in Devices : deciding'[x] = deciding[x]
    BY <2>1, <2>2
  <2>6. QED
    BY <1>2, <2>1, <2>2, <2>3, <2>4, <2>5, OwnAppend
<1>7. ASSUME NEW d \in Devices, WriteDecision(d) PROVE Invariant'
  <2> DEFINE said == deciding[d]
             e == [kind |-> "decided", status |-> said.status, lamport |-> said.lamport, by |-> d]
  <2>1. /\ said.step = "stamped" /\ Appended(d, <<e>>)
        /\ deciding' = [deciding EXCEPT ![d] = [step |-> "idle"]]
        /\ UNCHANGED <<record, making, links, spent>>
    BY <1>7 DEF WriteDecision
  <2>2. said.status \in Verdicts /\ said.lamport \in Nat \ {0}
    <3>1. said \in Handling
      BY <1>1 DEF UsersOK
    <3>2. QED
      BY <2>1, <3>1 DEF Handling
  <2>3. said.status \in Statuses
    BY <2>2, ProposalLogAssumption DEF Statuses
  <2>4. \A f \in log[d] : f.by = d /\ f.kind = "decided" => f.lamport < said.lamport
    BY <1>1, <2>1 DEF StampsFresh
  <2> HIDE DEF said
  <2>5. /\ e \in Event /\ e.by = d /\ e.kind = "decided" /\ e.status \in Statuses
        /\ e.lamport = said.lamport
    BY <2>2, <2>3 DEF Event, Kinds
  <2> HIDE DEF e
  <2>6. \A f \in log[d] : ~Alike(e, f)
    <3>1. \A f \in log[d] : f.lamport \in Nat
      BY <1>1, EventFields DEF LogsOK
    <3>2. QED
      BY <2>2, <2>4, <2>5, <3>1 DEF Alike
  <2>7. [step |-> "idle"] \in Handling
    BY DEF Handling
  <2>8. /\ deciding' \in [Devices -> Handling] /\ deciding'[d].step # "stamped"
        /\ \A x \in Devices : x = d \/ deciding'[x] = deciding[x]
    BY <1>1, <2>1, <2>7 DEF UsersOK
  <2>9. making' \in {"nothing", "saved", "noted", "done"}
    BY <1>1, <2>1 DEF UsersOK
  <2>10. QED
    BY <2>1, <2>5, <2>6, <2>8, <2>9, OwnAppend
<1>8. QED
  BY <1>5, <1>6, <1>7

-----------------------------------------------------------------------------
(* Steps that leave logs and streams alone                                 *)

\* A request's forms.
LEMMA HandlingForms ==
  ASSUME NEW h \in Handling
  PROVE  /\ h.step \in {"idle", "read", "saved", "stamped"}
         /\ h.step \in {"read", "saved"} => h.status \in Verdicts /\ h = [step |-> h.step, status |-> h.status]
         /\ h.step = "stamped" => h.status \in Verdicts /\ h.lamport \in Nat \ {0}
<1>1. CASE h \in [step : {"idle"}]
  BY <1>1
<1>2. CASE h \in [step : {"read", "saved"}, status : Verdicts]
  BY <1>2
<1>3. CASE h \in [step : {"stamped"}, status : Verdicts, lamport : Nat \ {0}]
  BY <1>3
<1>4. QED
  BY <1>1, <1>2, <1>3 DEF Handling

\* Where logs and streams stay, so do what is said of them.
LEMMA QuietStep ==
  ASSUME Invariant, UNCHANGED <<log, streams, missed>>, up \subseteq up', UsersOK', LinksOK', StampsFresh'
  PROVE  Invariant'
<1>1. LogsOK' /\ StreamsOK' /\ AtOrigin' /\ AllDistinct'
  BY DEF Invariant, Types, LogsTrue, LogsOK, StreamsOK, AtOrigin, AllDistinct, streams
<1>2. EndsOK'
  BY EndUntouched DEF Invariant, EndsOK, streams
<1>3. QED
  BY <1>1, <1>2 DEF Invariant, Types, LogsTrue

\* A user's request up to the append, a connection and the proposal stream
\* change neither logs nor event streams.
LEMMA QuietSteps ==
  ASSUME Invariant,
         \/ SaveProposal
         \/ \E d \in Devices : \/ \E s \in Verdicts : Decide(d, s)
                               \/ SaveDecision(d) \/ StampDecision(d) \/ FailDecision(d)
         \/ \E l \in Links : Connect(l)
         \/ \E p \in Ends : Offer(p) \/ Take(p)
  PROVE  Invariant'
<1>1. LogsOK /\ UsersOK /\ LinksOK /\ StampsFresh /\ AllDistinct
  BY DEF Invariant, Types, LogsTrue
<1>2. record \in [Devices -> Verdict] /\ deciding \in [Devices -> Handling]
  BY <1>1 DEF UsersOK
<1>3. CASE SaveProposal
  <2>1. UNCHANGED <<log, streams, missed, up, deciding, bundle>>
    BY <1>3 DEF SaveProposal, links
  <2>2. UsersOK'
    BY <1>1, <1>3 DEF SaveProposal, UsersOK, Verdict, Statuses
  <2>3. LinksOK' /\ StampsFresh'
    BY <1>1, <2>1 DEF LinksOK, StampsFresh
  <2>4. QED
    BY <2>1, <2>2, <2>3, QuietStep
<1>4. ASSUME NEW d \in Devices, NEW h \in Handling, deciding' = [deciding EXCEPT ![d] = h],
             h.step = "stamped" => \A e \in log[d] : e.by = d /\ e.kind = "decided" => e.lamport < h.lamport,
             UNCHANGED <<log, streams, links, making>>, record' \in [Devices -> Verdict]
      PROVE  Invariant'
  <2>1. UsersOK' /\ LinksOK'
    BY <1>1, <1>4 DEF UsersOK, LinksOK, links
  <2>2. StampsFresh'
    <3>1. SUFFICES ASSUME NEW x \in Devices, deciding'[x].step = "stamped",
                          NEW e \in log[x], e.by = x, e.kind = "decided"
                   PROVE  e.lamport < deciding'[x].lamport
      BY <1>4 DEF StampsFresh
    <3>2. CASE x = d
      BY <1>2, <1>4, <3>1, <3>2
    <3>3. CASE x # d
      <4>1. deciding'[x] = deciding[x]
        BY <1>2, <1>4, <3>3
      <4>2. QED
        BY <1>1, <3>1, <4>1 DEF StampsFresh
    <3>4. QED
      BY <3>2, <3>3
  <2>3. QED
    BY <1>4, <2>1, <2>2, QuietStep DEF links
<1>5. ASSUME NEW d \in Devices, NEW s \in Verdicts, Decide(d, s) PROVE Invariant'
  <2>1. [step |-> "read", status |-> s] \in Handling
    BY DEF Handling
  <2>2. QED
    BY <1>2, <1>4, <1>5, <2>1 DEF Decide
<1>6. ASSUME NEW d \in Devices, SaveDecision(d) PROVE Invariant'
  <2> DEFINE h == [step |-> "saved", status |-> deciding[d].status]
  <2>1. deciding[d] = [step |-> "read", status |-> deciding[d].status] /\ deciding[d].status \in Verdicts
    BY <1>2, <1>6, HandlingForms DEF SaveDecision
  <2>2. h \in Handling
    BY <2>1 DEF Handling
  <2>3. [deciding[d] EXCEPT !.step = "saved"] = h
    BY <2>1
  <2>4. deciding' = [deciding EXCEPT ![d] = h]
    BY <1>6, <2>3 DEF SaveDecision
  <2>5. record' \in [Devices -> Verdict]
    <3>1. deciding[d].status \in Verdict
      BY <2>1, ProposalLogAssumption DEF Verdict, Statuses
    <3>2. QED
      BY <1>2, <1>6, <3>1 DEF SaveDecision
  <2>6. h.step # "stamped"
    OBVIOUS
  <2> HIDE DEF h
  <2>7. QED
    BY <1>4, <1>6, <2>2, <2>4, <2>5, <2>6 DEF SaveDecision
<1>7. ASSUME NEW d \in Devices, StampDecision(d) PROVE Invariant'
  <2> DEFINE h == [step |-> "stamped", status |-> deciding[d].status, lamport |-> NextStamp(log[d])]
  <2>1. deciding[d].status \in Verdicts
    BY <1>2, <1>7, HandlingForms DEF StampDecision
  <2>2. NextStamp(log[d]) \in Nat \ {0} /\ \A e \in log[d] : e.lamport < NextStamp(log[d])
    BY <1>1, NextStampAbove DEF LogsOK
  <2>3. h \in Handling /\ h.lamport = NextStamp(log[d])
    BY <2>1, <2>2 DEF Handling
  <2>4. deciding' = [deciding EXCEPT ![d] = h]
    BY <1>7 DEF StampDecision
  <2> HIDE DEF h
  <2>5. \A e \in log[d] : e.by = d /\ e.kind = "decided" => e.lamport < h.lamport
    BY <2>2, <2>3
  <2>6. UNCHANGED <<log, streams, links, making>> /\ record' \in [Devices -> Verdict]
    BY <1>2, <1>7 DEF StampDecision
  <2>7. QED
    BY <1>4, <2>3, <2>4, <2>5, <2>6
<1>8. ASSUME NEW d \in Devices, FailDecision(d) PROVE Invariant'
  <2>1. [step |-> "idle"] \in Handling /\ [step |-> "idle"].step # "stamped"
    BY DEF Handling
  <2>2. QED
    BY <1>2, <1>4, <1>8, <2>1 DEF FailDecision
<1>9. ASSUME NEW l \in Links, Connect(l) PROVE Invariant'
  <2>1. UNCHANGED <<log, record, making, deciding, streams, bundle, missed>> /\ up' = up \cup {l}
    BY <1>9 DEF Connect
  <2>2. UsersOK' /\ LinksOK' /\ StampsFresh'
    BY <1>1, <2>1 DEF UsersOK, LinksOK, StampsFresh
  <2>3. QED
    BY <2>1, <2>2, QuietStep
<1>10. ASSUME NEW p \in Ends, Offer(p) PROVE Invariant'
  <2>1. UNCHANGED <<log, record, making, deciding, streams, up, missed>>
    BY <1>10 DEF Offer
  <2>2. record[p[1]] \in Verdict /\ record[p[2]] \in Verdict
    BY <1>2, EndsAre
  <2>3. UsersOK' /\ LinksOK' /\ StampsFresh'
    BY <1>1, <1>10, <2>1, <2>2 DEF Offer, UsersOK, LinksOK, StampsFresh, Verdict
  <2>4. QED
    BY <2>1, <2>3, QuietStep
<1>11. ASSUME NEW p \in Ends, Take(p) PROVE Invariant'
  <2> DEFINE d == p[1]
             r == Reconciled(Merged(record[d], bundle[p]), log[d])
  <2>1. /\ UNCHANGED <<log, making, deciding, streams, up, missed>>
        /\ record' = [record EXCEPT ![d] = r] /\ bundle' = [bundle EXCEPT ![p] = NoRecord]
        /\ bundle[p] \notin {"unsent", NoRecord}
    BY <1>11 DEF Take
  <2>2. d \in Devices
    BY EndsAre
  <2>3. bundle[p] \in Verdict
    BY <1>1, <2>1 DEF LinksOK
  <2>4. r \in Verdict
    <3>1. Merged(record[d], bundle[p]) \in Verdict
      BY <1>2, <2>2, <2>3 DEF Merged
    <3>2. Status(log[d]) \in Verdict
      BY <1>1, <2>2, StatusIs DEF LogsOK, AllDistinct
    <3>3. QED
      BY <3>1, <3>2 DEF Reconciled
  <2> HIDE DEF d, r
  <2>5. UsersOK' /\ StampsFresh'
    BY <1>1, <2>1, <2>2, <2>4 DEF UsersOK, StampsFresh
  <2>6. LinksOK'
    BY <1>1, <2>1 DEF LinksOK, Verdict
  <2>7. QED
    BY <2>1, <2>5, <2>6, QuietStep
<1>12. QED
  BY <1>3, <1>5, <1>6, <1>7, <1>8, <1>9, <1>10, <1>11

-----------------------------------------------------------------------------
(* Steps of a stream                                                       *)

\* Steps that leave logs and users alone.
LEMMA StreamStep ==
  ASSUME Invariant, UNCHANGED <<log, deciding>>, UsersOK', LinksOK', StreamsOK', EndsOK'
  PROVE  Invariant'
<1>1. LogsOK' /\ AtOrigin' /\ AllDistinct' /\ StampsFresh'
  BY DEF Invariant, Types, LogsTrue, LogsOK, AtOrigin, AllDistinct, StampsFresh
<1>2. QED
  BY <1>1 DEF Invariant, Types, LogsTrue

\* What one end does leaves the others in order, when it sends its peer events
\* of its log only.
LEMMA OtherEnds ==
  ASSUME Types, EndsOK, NEW p \in Ends, UNCHANGED <<log, up>>, missed \subseteq missed',
         \A q \in Ends : q # p => /\ phase'[q] = phase[q] /\ have'[q] = have[q] /\ known'[q] = known[q]
                                  /\ queue'[q] = queue[q] /\ lagged'[q] = lagged[q],
         \A q \in Ends : q # Other(p) => wire'[q] = wire[q],
         Carried(Other(p))' \subseteq Carried(Other(p)) \cup log[p[1]] \cup {NoEvent}
  PROVE  \A q \in Ends : q # p => EndOK(q)'
<1>1. ASSUME NEW q \in Ends, q # p, q # Other(p) PROVE EndOK(q)'
  <2>1. Other(q) # Other(p) /\ Other(q) \in Ends
    BY <1>1, EndsAre
  <2>2. EndOK(q)
    BY DEF EndsOK
  <2>3. QED
    BY <1>1, <2>1, <2>2, EndUntouched
<1>2. EndOK(Other(p))'
  <2> DEFINE o == Other(p)
  <2>1. o \in Ends /\ o # p /\ Other(o) = p /\ o[2] = p[1]
    BY EndsAre
  <2> HIDE DEF o
  <2>2. EndOK(o)
    BY <2>1 DEF EndsOK
  <2>3. /\ phase'[o] = phase[o] /\ have'[o] = have[o] /\ known'[o] = known[o]
        /\ queue'[o] = queue[o] /\ lagged'[o] = lagged[o] /\ wire'[p] = wire[p]
    BY <2>1 DEF o
  <2>4. Carried(Other(o))' = Carried(Other(o))
    BY <2>1, <2>3 DEF Carried
  <2>5. Carried(o)' \subseteq Carried(o) \cup log'[o[2]] \cup {NoEvent}
    BY <2>1 DEF o
  <2>6. /\ phase[o] # "down" => Link(o) \in up
        /\ phase[o] = "down" => known[o] = {} /\ queue[o] = <<>> /\ ~lagged[o]
        /\ Range(queue[o]) \subseteq log[o[1]]
    BY <2>2 DEF EndOK, Founded
  <2>7. EndOK(o)'
    BY <2>1, <2>2, <2>3, <2>4, <2>5, <2>6, EndKept
  <2>8. QED
    BY <2>7 DEF o
<1>3. QED
  BY <1>1, <1>2

\* Some events of the log, sent in order.
LEMMA SentIs ==
  ASSUME Types, AllDistinct, NEW p \in Ends, NEW S \in SUBSET log[p[1]]
  PROVE  /\ Envelopes(p[1], S) \in Seq(Message) /\ Heard(Envelopes(p[1], S)) = S
         /\ <<Done>> \in Seq(Message) /\ Heard(<<Done>>) = {NoEvent}
         /\ \A e \in Event : Envelope(p[1], e) \in Message /\ Envelope(p[1], e).event = e
<1>1. p[1] \in Devices /\ record[p[1]] \in Verdict
  BY EndsAre DEF Types, UsersOK
<1>2. S \in SUBSET Event /\ IsFiniteSet(S) /\ Distinct(S)
  BY <1>1, FS_Subset DEF Types, LogsOK, AllDistinct, Distinct
<1>3. Envelopes(p[1], S) \in Seq(Message) /\ Heard(Envelopes(p[1], S)) = S
  BY <1>1, <1>2, EnvelopesCarry
<1>4. Done \in Message /\ Done.event = NoEvent
  BY DEF Message, Done
<1>5. <<Done>> \in Seq(Message) /\ Heard(<<Done>>) = {NoEvent}
  BY <1>4, HeardOfOne
<1>6. \A e \in Event : Envelope(p[1], e) \in Message /\ Envelope(p[1], e).event = e
  BY <1>1 DEF Envelope, Message
<1>7. QED
  BY <1>3, <1>5, <1>6

\* An end subscribes and says what it has.
LEMMA OpenStep ==
  ASSUME Invariant, NEW p \in Ends, Open(p)
  PROVE  Invariant'
<1>1. Types /\ EndsOK /\ EndOK(p) /\ UsersOK /\ LinksOK /\ StreamsOK /\ LogsOK
  BY DEF Invariant, EndsOK, Types
<1>2. /\ {p[1], p[2]} \in up /\ phase[p] = "down"
      /\ phase' = [phase EXCEPT ![p] = "open"] /\ have' = [have EXCEPT ![p] = log[p[1]]]
      /\ UNCHANGED <<log, record, making, deciding, known, queue, lagged, wire, up, bundle, missed>>
  BY DEF Open, links
<1>3. log[p[1]] \in SUBSET Event
  BY <1>1, EndTypes
<1>4. StreamsOK'
  BY <1>1, <1>2, <1>3 DEF StreamsOK
<1>5. /\ phase'[p] = "open" /\ have'[p] = log[p[1]]
      /\ \A q \in Ends : q # p => phase'[q] = phase[q] /\ have'[q] = have[q]
  BY <1>1, <1>2 DEF StreamsOK
<1>6. EndOK(p)'
  <2>1. Carried(p)' = Carried(p)
    BY <1>2 DEF Carried
  <2>2. Founded(p)'
    BY <1>1, <1>2, <1>5, <2>1 DEF EndOK, Founded, Link
  <2>3. OpenComplete(p)' /\ KnownTrue(p)' /\ NotStranded(p)'
    BY <1>2, <1>5 DEF OpenComplete, KnownTrue, NotStranded
  <2>4. QED
    BY <2>2, <2>3 DEF EndOK
<1>7. Carried(Other(p))' = Carried(Other(p))
  BY <1>2 DEF Carried
<1>8. \A q \in Ends : q # p => EndOK(q)'
  BY <1>1, <1>2, <1>5, <1>7, OtherEnds
<1>9. EndsOK'
  BY <1>6, <1>8 DEF EndsOK
<1>10. UsersOK' /\ LinksOK'
  BY <1>1, <1>2 DEF UsersOK, LinksOK
<1>11. QED
  BY <1>2, <1>4, <1>9, <1>10, StreamStep

\* An end has the peer's HAVE and sends the batch.
LEMMA GreetStep ==
  ASSUME Invariant, NEW p \in Ends, Greet(p)
  PROVE  Invariant'
<1> DEFINE o == Other(p)
           more == Envelopes(p[1], Batch(p)) \o <<Done>>
<1>1. Types /\ EndsOK /\ EndOK(p) /\ UsersOK /\ LinksOK /\ StreamsOK /\ AllDistinct
  BY DEF Invariant, EndsOK, Types, LogsTrue
<1>2. o \in Ends /\ o # p /\ EndOK(o) /\ o[1] = p[2]
  BY <1>1, EndsAre DEF EndsOK
<1>3. /\ phase[p] = "open" /\ phase' = [phase EXCEPT ![p] = "batch"]
      /\ known' = [known EXCEPT ![p] = have[o]]
      /\ wire' = [wire EXCEPT ![o] = @ \o Envelopes(p[1], Batch(p)) \o <<Done>>]
      /\ UNCHANGED <<log, record, making, deciding, have, queue, lagged, up, bundle, missed>>
  BY DEF Greet, KnownFirst, links
<1>4. Batch(p) \in SUBSET log[p[1]] /\ Batch(p) = have[p] \ have[o]
  BY <1>1 DEF Batch, EndOK, Founded
<1> DEFINE batch == Envelopes(p[1], Batch(p))
<1>5. /\ batch \in Seq(Message) /\ Heard(batch) = Batch(p)
      /\ <<Done>> \in Seq(Message) /\ Heard(<<Done>>) = {NoEvent}
  BY <1>1, <1>4, SentIs
<1>6. wire[o] \in Seq(Message)
  BY <1>1, <1>2, EndTypes
<1> HIDE DEF o, batch
<1> DEFINE sent == wire[o] \o batch \o <<Done>>
<1>7. sent \in Seq(Message) /\ Heard(sent) = Heard(wire[o]) \cup Batch(p) \cup {NoEvent}
  <2> DEFINE first == wire[o] \o batch
  <2>1. first \in Seq(Message) /\ Heard(first) = Heard(wire[o]) \cup Batch(p)
    BY <1>5, <1>6, HeardOfConcat
  <2>2. sent = first \o <<Done>>
    OBVIOUS
  <2> HIDE DEF first, sent
  <2>3. first \o <<Done>> \in Seq(Message) /\ Heard(first \o <<Done>>) = Heard(first) \cup Heard(<<Done>>)
    BY <1>5, <2>1, HeardOfConcat
  <2>4. QED
    BY <1>5, <2>1, <2>2, <2>3
<1>8. wire' = [wire EXCEPT ![o] = sent]
  BY <1>3 DEF batch
<1> HIDE DEF sent
<1>9. StreamsOK'
  BY <1>1, <1>2, <1>3, <1>7, <1>8 DEF StreamsOK
<1>10. /\ phase'[p] = "batch" /\ known'[p] = have[o] /\ wire'[o] = sent
       /\ \A q \in Ends : q # p => phase'[q] = phase[q] /\ known'[q] = known[q]
       /\ \A q \in Ends : q # o => wire'[q] = wire[q]
  BY <1>1, <1>2, <1>3, <1>8 DEF StreamsOK
<1>11. Carried(o) = Heard(wire[o]) /\ Carried(o)' = Heard(wire'[o])
  BY DEF Carried, Heard
<1>12. EndOK(p)'
  <2>1. Carried(p)' = Carried(p)
    BY <1>2, <1>10 DEF Carried
  <2>2. Founded(p)'
    BY <1>1, <1>3, <1>10, <2>1 DEF EndOK, Founded
  <2>3. OpenComplete(p)'
    BY <1>10 DEF OpenComplete
  <2>4. have[o] \subseteq log[p[2]]
    BY <1>2 DEF EndOK, Founded
  <2>5. KnownTrue(p)'
    BY <1>3, <1>10, <2>4 DEF KnownTrue
  <2>6. ~lagged[p] => log[p[1]] \subseteq have[p] \cup Range(queue[p])
    BY <1>1, <1>3 DEF EndOK, OpenComplete
  <2>7. have[p] \subseteq log[p[2]] \cup Carried(o)'
    BY <1>4, <1>7, <1>10, <1>11, <2>4
  <2>8. NotStranded(p)'
    BY <1>3, <2>6, <2>7 DEF NotStranded, o
  <2>9. QED
    BY <2>2, <2>3, <2>5, <2>8 DEF EndOK
<1>13. Carried(o)' \subseteq Carried(o) \cup log[p[1]] \cup {NoEvent}
  BY <1>4, <1>7, <1>10, <1>11
<1>14. \A q \in Ends : q # p => EndOK(q)'
  BY <1>1, <1>3, <1>10, <1>13, OtherEnds DEF o
<1>15. EndsOK'
  BY <1>12, <1>14 DEF EndsOK
<1>16. UsersOK' /\ LinksOK'
  BY <1>1, <1>3 DEF UsersOK, LinksOK
<1>17. QED
  BY <1>3, <1>9, <1>15, <1>16, StreamStep

\* A notification goes to the peer, unless the event is known there.
LEMMA ForwardStep ==
  ASSUME Invariant, NEW p \in Ends, Forward(p)
  PROVE  Invariant'
<1> DEFINE o == Other(p)
           e == Head(queue[p])
<1>1. Types /\ EndsOK /\ EndOK(p) /\ UsersOK /\ LinksOK /\ StreamsOK /\ AllDistinct
  BY DEF Invariant, EndsOK, Types, LogsTrue
<1>2. o \in Ends /\ o # p
  BY EndsAre
<1>3. /\ phase[p] = "live" /\ ~lagged[p] /\ queue[p] # <<>>
      /\ queue' = [queue EXCEPT ![p] = Tail(queue[p])] /\ known' = [known EXCEPT ![p] = known[p] \cup {e}]
      /\ wire' = IF e \in known[p] THEN wire ELSE [wire EXCEPT ![o] = Append(@, Envelope(p[1], e))]
      /\ UNCHANGED <<log, record, making, deciding, phase, have, lagged, up, bundle, missed>>
  BY DEF Forward, links
<1>4. /\ queue[p] \in Seq(Event) /\ wire[o] \in Seq(Message) /\ known[p] \in SUBSET Event
      /\ log[p[1]] \in SUBSET Event
  BY <1>1, <1>2, EndTypes
<1>5. /\ e \in Range(queue[p]) /\ Tail(queue[p]) \in Seq(Event)
      /\ Range(Tail(queue[p])) \subseteq Range(queue[p])
      /\ Range(queue[p]) \subseteq Range(Tail(queue[p])) \cup {e}
  BY <1>3, <1>4, RangeOfTail
<1> HIDE DEF o, e
<1>6. e \in log[p[1]] /\ e \in Event
  BY <1>1, <1>4, <1>5 DEF EndOK, Founded
<1> DEFINE sent == Append(wire[o], Envelope(p[1], e))
<1>7. sent \in Seq(Message) /\ Heard(sent) = Heard(wire[o]) \cup {e}
  <2>1. Envelope(p[1], e) \in Message /\ Envelope(p[1], e).event = e
    BY <1>1, <1>6, SentIs
  <2>2. QED
    BY <1>4, <2>1, HeardOfAppend
<1>8. wire' = wire \/ wire' = [wire EXCEPT ![o] = sent]
  BY <1>3
<1>9. e \notin known[p] => wire' = [wire EXCEPT ![o] = sent]
  BY <1>3
<1> HIDE DEF sent
<1>10. StreamsOK'
  BY <1>1, <1>3, <1>4, <1>5, <1>6, <1>7, <1>8 DEF StreamsOK
<1>11. /\ queue'[p] = Tail(queue[p]) /\ known'[p] = known[p] \cup {e}
       /\ \A q \in Ends : q # p => queue'[q] = queue[q] /\ known'[q] = known[q]
       /\ \A q \in Ends : q # o => wire'[q] = wire[q]
  BY <1>1, <1>3, <1>8 DEF StreamsOK
<1>12. /\ Carried(o) = Heard(wire[o]) /\ Carried(o)' = Heard(wire'[o])
  BY DEF Carried, Heard
<1>13. /\ Carried(o) \subseteq Carried(o)' /\ Carried(o)' \subseteq Carried(o) \cup {e}
       /\ e \notin known[p] => e \in Carried(o)'
  <2>1. wire'[o] = wire[o] \/ wire'[o] = sent
    BY <1>1, <1>2, <1>8 DEF StreamsOK
  <2>2. e \notin known[p] => wire'[o] = sent
    BY <1>1, <1>2, <1>9 DEF StreamsOK
  <2>3. QED
    BY <1>7, <1>12, <2>1, <2>2
<1>14. EndOK(p)'
  <2>1. Carried(p)' = Carried(p)
    BY <1>2, <1>11 DEF Carried
  <2>2. Range(queue'[p]) \subseteq log'[p[1]] /\ Link(p) \in up'
    BY <1>1, <1>3, <1>5, <1>11 DEF EndOK, Founded
  <2>3. Link(p) \notin missed => e \in log'[p[2]] \cup Carried(o)'
    BY <1>1, <1>3, <1>13 DEF EndOK, KnownTrue, o
  <2>4. Link(p) \notin missed' =>
          /\ Link(p) \notin missed
          /\ Carried(Other(p)) \subseteq Carried(Other(p))' \cup log'[p[2]] \cup {NoEvent}
          /\ known'[p] \subseteq known[p] \cup log'[p[2]] \cup Carried(Other(p))'
          /\ ~lagged'[p] => Range(queue[p]) \subseteq Range(queue'[p]) \cup log'[p[2]] \cup Carried(Other(p))'
    BY <1>3, <1>5, <1>11, <1>13, <2>3 DEF o
  <2>5. /\ phase'[p] = phase[p] /\ have'[p] = have[p] /\ lagged'[p] = lagged[p]
        /\ phase[p] # "down" /\ phase[p] # "open"
        /\ log[p[1]] \subseteq log'[p[1]] /\ log[p[2]] \subseteq log'[p[2]]
        /\ log'[p[1]] \subseteq log[p[1]] \cup Range(queue'[p])
        /\ Carried(p)' \subseteq Carried(p) \cup log'[p[2]] \cup {NoEvent}
    BY <1>3, <2>1
  <2>6. QED
    BY <1>1, <2>2, <2>4, <2>5, EndKept
<1>15. \A q \in Ends : q # p => EndOK(q)'
  <2>1. Carried(o)' \subseteq Carried(o) \cup log[p[1]] \cup {NoEvent}
    BY <1>6, <1>13
  <2>2. QED
    BY <1>1, <1>3, <1>11, <2>1, OtherEnds DEF o
<1>16. EndsOK'
  BY <1>14, <1>15 DEF EndsOK
<1>17. UsersOK' /\ LinksOK'
  BY <1>1, <1>3 DEF UsersOK, LinksOK
<1>18. QED
  BY <1>3, <1>10, <1>16, <1>17, StreamStep

\* Notifications that are lost: the link is marked, or the end knows.
LEMMA LossSteps ==
  ASSUME Invariant, NEW p \in Ends, Skip(p) \/ Overflow(p)
  PROVE  Invariant'
<1>1. Types /\ EndsOK /\ EndOK(p) /\ UsersOK /\ LinksOK /\ StreamsOK
  BY DEF Invariant, EndsOK, Types
<1>2. /\ UNCHANGED <<log, record, making, deciding, phase, have, known, wire, up, bundle>>
      /\ phase[p] # "down"
      /\ missed \subseteq missed' /\ missed' \subseteq missed \cup {Link(p)}
  BY DEF Skip, Overflow, links, Link
<1>3. queue[p] \in Seq(Event)
  BY <1>1, EndTypes
<1>4. \E s \in Seq(Event) : queue' = [queue EXCEPT ![p] = s] /\ Range(s) \subseteq Range(queue[p])
  <2>1. CASE Skip(p)
    BY <1>3, <2>1, RangeOfTail DEF Skip
  <2>2. CASE Overflow(p)
    <3>1. PICK n \in 0 .. Len(queue[p]) : queue' = [queue EXCEPT ![p] = SubSeq(queue[p], n + 1, Len(queue[p]))]
      BY <2>2 DEF Overflow
    <3>2. /\ SubSeq(queue[p], n + 1, Len(queue[p])) \in Seq(Event)
          /\ Range(SubSeq(queue[p], n + 1, Len(queue[p]))) \subseteq Range(queue[p])
      BY <1>3, RangeOfRest
    <3>3. QED
      BY <3>1, <3>2
  <2>3. QED
    BY <2>1, <2>2
<1>5. PICK s \in Seq(Event) : queue' = [queue EXCEPT ![p] = s] /\ Range(s) \subseteq Range(queue[p])
  BY <1>4
<1>6. /\ lagged' = lagged \/ lagged' = [lagged EXCEPT ![p] = TRUE]
      /\ (phase[p] = "live" /\ Link(p) \in missed') \/ lagged' = [lagged EXCEPT ![p] = TRUE]
  BY DEF Skip, Overflow, Link
<1>7. StreamsOK'
  BY <1>1, <1>2, <1>5, <1>6 DEF StreamsOK
<1>8. /\ queue'[p] = s /\ (~lagged'[p] => ~lagged[p])
      /\ (phase[p] = "live" /\ Link(p) \in missed') \/ lagged'[p]
      /\ \A q \in Ends : q # p => queue'[q] = queue[q] /\ lagged'[q] = lagged[q]
  BY <1>1, <1>5, <1>6 DEF StreamsOK
<1>9. Carried(p)' = Carried(p) /\ Carried(Other(p))' = Carried(Other(p))
  BY <1>2 DEF Carried
<1>10. EndOK(p)'
  <2>1. Range(queue'[p]) \subseteq log'[p[1]] /\ Link(p) \in up'
    BY <1>1, <1>2, <1>5, <1>8 DEF EndOK, Founded
  <2>2. /\ phase'[p] = phase[p] /\ have'[p] = have[p] /\ known'[p] = known[p]
        /\ log[p[1]] \subseteq log'[p[1]] /\ log[p[2]] \subseteq log'[p[2]]
        /\ log'[p[1]] \subseteq log[p[1]] \cup Range(queue'[p])
    BY <1>2
  <2>3. phase[p] = "open" => lagged'[p]
    BY <1>8
  <2>4. Link(p) \notin missed' => lagged'[p]
    BY <1>8
  <2>5. QED
    BY <1>1, <1>2, <1>8, <1>9, <2>1, <2>2, <2>3, <2>4, EndKept
<1>11. \A q \in Ends : q # p => EndOK(q)'
  <2>1. /\ \A q \in Ends : q # p => /\ phase'[q] = phase[q] /\ have'[q] = have[q] /\ known'[q] = known[q]
                                    /\ queue'[q] = queue[q] /\ lagged'[q] = lagged[q]
        /\ \A q \in Ends : q # Other(p) => wire'[q] = wire[q]
    BY <1>2, <1>8
  <2>2. QED
    BY <1>1, <1>2, <1>9, <2>1, OtherEnds
<1>12. EndsOK'
  BY <1>10, <1>11 DEF EndsOK
<1>13. UsersOK' /\ LinksOK'
  <2>1. Link(p) \in up
    BY <1>1, <1>2 DEF EndOK, Founded
  <2>2. QED
    BY <1>1, <1>2, <2>1 DEF UsersOK, LinksOK
<1>14. QED
  BY <1>2, <1>7, <1>12, <1>13, StreamStep

\* After a lag the log is read again and what the peer lacks is sent.
LEMMA RecoverStep ==
  ASSUME Invariant, NEW p \in Ends, RecoverLag(p)
  PROVE  Invariant'
<1> DEFINE o == Other(p)
           S == CatchUp(p)
           batch == Envelopes(p[1], CatchUp(p))
           sent == wire[o] \o batch
<1>1. Types /\ EndsOK /\ EndOK(p) /\ UsersOK /\ LinksOK /\ StreamsOK /\ AllDistinct
  BY DEF Invariant, EndsOK, Types, LogsTrue
<1>2. o \in Ends /\ o # p
  BY EndsAre
<1>3. /\ phase[p] = "live" /\ lagged' = [lagged EXCEPT ![p] = FALSE]
      /\ known' = [known EXCEPT ![p] = known[p] \cup S] /\ wire' = [wire EXCEPT ![o] = sent]
      /\ UNCHANGED <<log, record, making, deciding, phase, have, queue, up, bundle, missed>>
  BY DEF RecoverLag, links
<1>4. S \in SUBSET log[p[1]] /\ log[p[1]] \subseteq known[p] \cup S
  BY DEF CatchUp
<1>5. batch \in Seq(Message) /\ Heard(batch) = S
  BY <1>1, <1>4, SentIs
<1>6. wire[o] \in Seq(Message) /\ known[p] \in SUBSET Event /\ log[p[1]] \in SUBSET Event
  BY <1>1, <1>2, EndTypes
<1> HIDE DEF o, batch, S
<1>7. sent \in Seq(Message) /\ Heard(sent) = Heard(wire[o]) \cup S
  BY <1>5, <1>6, HeardOfConcat
<1> HIDE DEF sent
<1>8. StreamsOK'
  BY <1>1, <1>3, <1>4, <1>6, <1>7 DEF StreamsOK
<1>9. /\ known'[p] = known[p] \cup S /\ wire'[o] = sent /\ lagged'[p] = FALSE
      /\ \A q \in Ends : q # p => known'[q] = known[q] /\ lagged'[q] = lagged[q]
      /\ \A q \in Ends : q # o => wire'[q] = wire[q]
  BY <1>1, <1>2, <1>3 DEF StreamsOK
<1>10. Carried(o)' = Carried(o) \cup S
  <2>1. Carried(o) = Heard(wire[o]) /\ Carried(o)' = Heard(wire'[o])
    BY DEF Carried, Heard
  <2>2. QED
    BY <1>7, <1>9, <2>1
<1>11. EndOK(p)'
  <2>1. Carried(p)' = Carried(p)
    BY <1>2, <1>9 DEF Carried
  <2>2. Founded(p)'
    BY <1>1, <1>3, <2>1 DEF EndOK, Founded
  <2>3. Link(p) \notin missed => known[p] \subseteq log[p[2]] \cup Carried(o)
    BY <1>1, <1>3 DEF EndOK, KnownTrue, o
  <2>4. KnownTrue(p)'
    BY <1>3, <1>9, <1>10, <2>3 DEF KnownTrue, o
  <2>5. NotStranded(p)'
    BY <1>3, <1>4, <1>10, <2>3 DEF NotStranded, o
  <2>6. OpenComplete(p)'
    BY <1>3 DEF OpenComplete
  <2>7. QED
    BY <2>2, <2>4, <2>5, <2>6 DEF EndOK
<1>12. \A q \in Ends : q # p => EndOK(q)'
  <2>1. Carried(o)' \subseteq Carried(o) \cup log[p[1]] \cup {NoEvent}
    BY <1>4, <1>10
  <2>2. QED
    BY <1>1, <1>3, <1>9, <2>1, OtherEnds DEF o
<1>13. EndsOK'
  BY <1>11, <1>12 DEF EndsOK
<1>14. UsersOK' /\ LinksOK'
  BY <1>1, <1>3 DEF UsersOK, LinksOK
<1>15. QED
  BY <1>3, <1>8, <1>13, <1>14, StreamStep

-----------------------------------------------------------------------------
(* Steps that take a message                                               *)

\* The message at hand: an event of the peer's log, with a record, or the end
\* of the batch.
LEMMA MessageIs ==
  ASSUME Types, NEW p \in Ends, EndOK(p), wire[p] # <<>>
  PROVE  /\ Tail(wire[p]) \in Seq(Message)
         /\ Head(wire[p]).event.kind = "done" => Head(wire[p]).event = NoEvent
         /\ Head(wire[p]).event.kind # "done" => /\ Head(wire[p]).event \in log[p[2]]
                                                 /\ Head(wire[p]).event \in Event
                                                 /\ Head(wire[p]).bundle \in Verdict
         /\ Heard(Tail(wire[p])) \subseteq Carried(p)
         /\ Carried(p) \subseteq Heard(Tail(wire[p])) \cup {Head(wire[p]).event}
<1> DEFINE m == Head(wire[p])
<1>1. wire[p] \in Seq(Message) /\ Carried(p) = Heard(wire[p]) /\ log[p[2]] \in SUBSET Event
  BY EndTypes
<1>2. /\ m \in Message /\ Tail(wire[p]) \in Seq(Message) /\ m.event \in Heard(wire[p])
      /\ Heard(Tail(wire[p])) \subseteq Heard(wire[p])
      /\ Heard(wire[p]) \subseteq Heard(Tail(wire[p])) \cup {m.event}
  BY <1>1, HeardOfTail
<1>3. Carried(p) \subseteq log[p[2]] \cup {NoEvent}
  BY DEF EndOK, Founded
<1> HIDE DEF m
<1>4. CASE m = Done
  <2>1. m.event = NoEvent /\ m.event.kind = "done"
    BY <1>4 DEF Done, NoEvent
  <2>2. QED
    BY <1>1, <1>2, <2>1 DEF m
<1>5. CASE m \in [event : Event, bundle : Verdict]
  <2>1. m.event \in Event /\ m.bundle \in Verdict
    BY <1>5
  <2>2. m.event.kind # "done" /\ m.event # NoEvent
    BY <2>1, EventFields
  <2>3. m.event \in log[p[2]]
    BY <1>1, <1>2, <1>3, <2>2
  <2>4. QED
    BY <1>1, <1>2, <2>1, <2>2, <2>3 DEF m
<1>6. QED
  BY <1>2, <1>4, <1>5 DEF Message

\* An end that takes a message off its wire and learns it is known to the peer,
\* where the message is the end of the batch or the link is marked.
LEMMA TakenKeepsEnds ==
  ASSUME Types, EndsOK, NEW p \in Ends, wire[p] # <<>>, UNCHANGED <<log, have, queue, lagged, up>>,
         wire' = [wire EXCEPT ![p] = Tail(wire[p])],
         phase[p] \in {"batch", "live"}, phase'[p] = phase[p] \/ (phase[p] = "batch" /\ phase'[p] = "live"),
         \A q \in Ends : q # p => phase'[q] = phase[q] /\ known'[q] = known[q],
         missed \subseteq missed',
         Link(p) \in missed' \/ (Head(wire[p]).event = NoEvent /\ known'[p] = known[p])
  PROVE  EndsOK'
<1> DEFINE o == Other(p)
<1>1. EndOK(p) /\ o \in Ends /\ o # p /\ EndOK(o) /\ Other(o) = p /\ Link(o) = Link(p)
  BY EndsAre DEF EndsOK
<1>2. wire'[p] = Tail(wire[p]) /\ \A q \in Ends : q # p => wire'[q] = wire[q]
  BY DEF Types, StreamsOK
<1>3. Carried(p)' = Heard(Tail(wire[p]))
  <2>1. Carried(p)' = Heard(wire'[p])
    BY DEF Carried, Heard
  <2>2. QED
    BY <1>2, <2>1
<1>4. /\ Carried(p)' \subseteq Carried(p)
      /\ Head(wire[p]).event = NoEvent => Carried(p) \subseteq Carried(p)' \cup {NoEvent}
  BY <1>1, <1>3, MessageIs
<1>5. Carried(o)' = Carried(o)
  BY <1>1, <1>2 DEF Carried
<1>6. \A q \in Ends : /\ phase[q] # "down" => Link(q) \in up
                      /\ phase[q] = "down" => known[q] = {} /\ queue[q] = <<>> /\ ~lagged[q]
                      /\ Range(queue[q]) \subseteq log[q[1]]
  BY DEF EndsOK, EndOK, Founded
<1> HIDE DEF o
<1>7. EndOK(p)'
  <2>1. /\ have'[p] = have[p] /\ lagged'[p] = lagged[p] /\ queue'[p] = queue[p]
        /\ phase[p] # "down" /\ phase[p] # "open" /\ Link(p) \in up'
        /\ Range(queue'[p]) \subseteq log'[p[1]]
        /\ log[p[1]] \subseteq log'[p[1]] /\ log[p[2]] \subseteq log'[p[2]]
        /\ log'[p[1]] \subseteq log[p[1]] \cup Range(queue'[p])
        /\ Carried(p)' \subseteq Carried(p) \cup log'[p[2]] \cup {NoEvent}
    BY <1>4, <1>6
  <2>2. Link(p) \notin missed' =>
          /\ Link(p) \notin missed
          /\ Carried(Other(p)) \subseteq Carried(Other(p))' \cup log'[p[2]] \cup {NoEvent}
          /\ known'[p] \subseteq known[p] \cup log'[p[2]] \cup Carried(Other(p))'
          /\ ~lagged'[p] => Range(queue[p]) \subseteq Range(queue'[p]) \cup log'[p[2]] \cup Carried(Other(p))'
    BY <1>5, <2>1 DEF o
  <2>3. QED
    BY <1>1, <2>1, <2>2, EndKept
<1>8. EndOK(o)'
  <2>1. /\ phase'[o] = phase[o] /\ have'[o] = have[o] /\ lagged'[o] = lagged[o]
        /\ queue'[o] = queue[o] /\ known'[o] = known[o]
        /\ log[o[1]] \subseteq log'[o[1]] /\ log[o[2]] \subseteq log'[o[2]]
        /\ log'[o[1]] \subseteq log[o[1]] \cup Range(queue'[o])
        /\ Range(queue'[o]) \subseteq log'[o[1]]
        /\ Carried(o)' \subseteq Carried(o) \cup log'[o[2]] \cup {NoEvent}
    BY <1>1, <1>5, <1>6
  <2>2. phase'[o] # "down" => Link(o) \in up'
    BY <1>1, <1>6, <2>1
  <2>3. phase[o] = "down" => known'[o] = {} /\ queue'[o] = <<>> /\ ~lagged'[o]
    BY <1>1, <1>6, <2>1
  <2>4. Link(o) \notin missed' =>
          /\ Link(o) \notin missed
          /\ Carried(Other(o)) \subseteq Carried(Other(o))' \cup log'[o[2]] \cup {NoEvent}
    BY <1>1, <1>4
  <2>5. QED
    BY <1>1, <2>1, <2>2, <2>3, <2>4, EndKept
<1>9. ASSUME NEW q \in Ends, q # p, q # o PROVE EndOK(q)'
  <2>1. Other(q) \in Ends /\ Other(q) # p
    BY <1>1, <1>9, EndsAre DEF o
  <2>2. QED
    BY <1>2, <1>9, <2>1, EndUntouched DEF EndsOK
<1>10. QED
  BY <1>7, <1>8, <1>9 DEF EndsOK

\* The end of the batch, and an event that cannot be stored.
LEMMA TakeSteps ==
  ASSUME Invariant, NEW p \in Ends, EndBatch(p) \/ Refuse(p)
  PROVE  Invariant'
<1>1. Types /\ EndsOK /\ EndOK(p) /\ UsersOK /\ LinksOK /\ StreamsOK /\ LogsOK /\ AllDistinct
  BY DEF Invariant, EndsOK, Types, LogsTrue
<1>2. CASE EndBatch(p)
  <2>1. /\ phase[p] = "batch" /\ wire[p] # <<>> /\ Head(wire[p]).event.kind = "done"
        /\ phase' = [phase EXCEPT ![p] = "live"]
        /\ record' = [record EXCEPT ![p[1]] = Reconciled(record[p[1]], log[p[1]])]
        /\ wire' = [wire EXCEPT ![p] = Tail(wire[p])]
        /\ UNCHANGED <<log, making, deciding, have, known, queue, lagged, up, missed, bundle>>
    BY <1>2 DEF EndBatch, links
  <2>2. Head(wire[p]).event = NoEvent /\ Tail(wire[p]) \in Seq(Message)
    BY <1>1, <2>1, MessageIs
  <2>3. StreamsOK'
    BY <1>1, <2>1, <2>2 DEF StreamsOK
  <2>4. phase'[p] = "live" /\ \A q \in Ends : q # p => phase'[q] = phase[q]
    BY <1>1, <2>1 DEF StreamsOK
  <2>5. EndsOK'
    BY <1>1, <2>1, <2>2, <2>4, TakenKeepsEnds
  <2>6. p[1] \in Devices
    BY EndsAre
  <2>7. Reconciled(record[p[1]], log[p[1]]) \in Verdict
    BY <1>1, <2>6, RecordsTyped DEF UsersOK, LogsOK, AllDistinct
  <2>8. UsersOK' /\ LinksOK'
    BY <1>1, <2>1, <2>6, <2>7 DEF UsersOK, LinksOK
  <2>9. QED
    BY <2>1, <2>3, <2>5, <2>8, StreamStep
<1>3. CASE Refuse(p)
  <2> DEFINE e == Head(wire[p]).event
  <2>1. /\ phase[p] \in {"batch", "live"} /\ wire[p] # <<>> /\ e.kind # "done"
        /\ known' = [known EXCEPT ![p] = known[p] \cup {e}]
        /\ wire' = [wire EXCEPT ![p] = Tail(wire[p])]
        /\ missed' = missed \cup {Link(p)}
        /\ UNCHANGED <<log, record, making, deciding, phase, have, queue, lagged, up, bundle>>
    BY <1>3 DEF Refuse, Arrived, Link
  <2>2. e \in Event /\ Tail(wire[p]) \in Seq(Message)
    BY <1>1, <2>1, MessageIs
  <2> HIDE DEF e
  <2>3. known[p] \in SUBSET Event
    BY <1>1, EndTypes
  <2>4. StreamsOK'
    BY <1>1, <2>1, <2>2, <2>3 DEF StreamsOK
  <2>5. \A q \in Ends : q # p => known'[q] = known[q]
    BY <1>1, <2>1 DEF StreamsOK
  <2>6. EndsOK'
    BY <1>1, <2>1, <2>5, TakenKeepsEnds
  <2>7. Link(p) \in up
    BY <1>1, <2>1 DEF EndOK, Founded
  <2>8. UsersOK' /\ LinksOK'
    BY <1>1, <2>1, <2>7 DEF UsersOK, LinksOK
  <2>9. QED
    BY <2>1, <2>4, <2>6, <2>8, StreamStep
<1>4. QED
  BY <1>2, <1>3

\* An envelope is applied: the event enters the log and every stream of the
\* device is notified, unless the event was there.
LEMMA DeliverStep ==
  ASSUME Invariant, NEW p \in Ends, Deliver(p)
  PROVE  Invariant'
<1> DEFINE d == p[1]
           o == Other(p)
           m == Head(wire[p])
           e == m.event
           L == log[d] \cup {e}
           r == Merged(record[d], m.bundle)
           s == IF e \in log[d] THEN r ELSE Reconciled(r, L)
<1>1. /\ Types /\ EndsOK /\ EndOK(p) /\ UsersOK /\ LinksOK /\ StreamsOK /\ LogsOK
      /\ AtOrigin /\ AllDistinct /\ StampsFresh
  BY DEF Invariant, EndsOK, Types, LogsTrue
<1>2. /\ phase[p] \in {"batch", "live"} /\ wire[p] # <<>> /\ e.kind # "done"
      /\ log' = [log EXCEPT ![d] = log[d] \cup {e}]
      /\ record' = [record EXCEPT ![d] = s]
      /\ queue' = IF e \in log[d] THEN queue ELSE Notified(d, <<e>>)
      /\ known' = [known EXCEPT ![p] = known[p] \cup {e}]
      /\ wire' = [wire EXCEPT ![p] = Tail(wire[p])]
      /\ UNCHANGED <<making, deciding, phase, have, lagged, up, bundle, missed>>
  BY DEF Deliver, Arrived, links
<1>3. /\ Tail(wire[p]) \in Seq(Message) /\ e \in log[p[2]] /\ e \in Event /\ m.bundle \in Verdict
      /\ Heard(Tail(wire[p])) \subseteq Carried(p)
      /\ Carried(p) \subseteq Heard(Tail(wire[p])) \cup {e}
  BY <1>1, <1>2, MessageIs
<1>4. d \in Devices /\ p[2] \in Devices /\ o \in Ends /\ o # p /\ Other(o) = p /\ o[1] = p[2] /\ o[2] = d
  BY EndsAre
<1>5. /\ LogsOK' /\ AtOrigin' /\ AllDistinct'
      /\ log'[d] = log[d] \cup {e} /\ \A y \in Devices : y # d => log'[y] = log[y]
      /\ \A y \in Devices : log[y] \subseteq log'[y]
      /\ IsFiniteSet(L) /\ Distinct(L) /\ L \in SUBSET Event
      /\ e.by = d => e \in log[d]
  <2> HIDE DEF d, e
  <2>1. p[2] \in Devices /\ d \in Devices /\ e \in log[p[2]] /\ log' = [log EXCEPT ![d] = log[d] \cup {e}]
    BY <1>2, <1>3, <1>4
  <2>2. LogsOK /\ AtOrigin /\ AllDistinct
    BY <1>1
  <2>3. ASSUME NEW f, NEW x \in Devices, NEW y \in Devices, f \in log[x], log' = [log EXCEPT ![y] = log[y] \cup {f}]
        PROVE  /\ LogsOK' /\ AtOrigin' /\ AllDistinct'
               /\ log'[y] = log[y] \cup {f} /\ \A z \in Devices : z # y => log'[z] = log[z]
               /\ \A z \in Devices : log[z] \subseteq log'[z]
               /\ f.by = y => f \in log[y]
    BY <2>2, <2>3, HeardEventAdded
  <2>4. /\ LogsOK' /\ AtOrigin' /\ AllDistinct'
        /\ log'[d] = log[d] \cup {e} /\ \A y \in Devices : y # d => log'[y] = log[y]
        /\ \A y \in Devices : log[y] \subseteq log'[y]
        /\ e.by = d => e \in log[d]
    BY ONLY <2>1, <2>3, Zenon
  <2>5. log'[d] \in SUBSET Event /\ IsFiniteSet(log'[d]) /\ Distinct(log'[d])
    BY <2>1, <2>4 DEF LogsOK, AllDistinct, Distinct
  <2>6. QED
    BY <2>4, <2>5 DEF Distinct
<1>6. s \in Verdict
  <2>1. record[d] \in Verdict
    BY <1>1, <1>4 DEF UsersOK
  <2>2. r \in Verdict
    BY <1>3, <2>1 DEF Merged
  <2>3. Status(L) \in Verdict
    BY <1>5, StatusIs
  <2>4. QED
    BY <2>2, <2>3 DEF Reconciled
<1> HIDE DEF d, m, e, L, r, s, o
<1>7. UsersOK' /\ LinksOK'
  BY <1>1, <1>2, <1>4, <1>6 DEF UsersOK, LinksOK
<1>8. StampsFresh'
  <2>1. SUFFICES ASSUME NEW x \in Devices, deciding'[x].step = "stamped",
                        NEW f \in log'[x], f.by = x, f.kind = "decided"
                 PROVE  f.lamport < deciding'[x].lamport
    BY DEF StampsFresh
  <2>2. f \in log[x]
    BY <1>5, <2>1
  <2>3. QED
    BY <1>1, <1>2, <2>1, <2>2 DEF StampsFresh
<1>9. /\ queue' \in [Ends -> Seq(Event)]
      /\ \A q \in Ends : /\ Range(queue[q]) \subseteq Range(queue'[q])
                         /\ Range(queue'[q]) \subseteq Range(queue[q]) \cup (IF q[1] = d THEN {e} ELSE {})
                         /\ q[1] = d /\ phase[q] # "down" => e \in Range(queue'[q]) \/ e \in log[d]
                         /\ phase[q] = "down" => queue'[q] = queue[q]
  <2>1. CASE e \in log[d]
    BY <1>1, <1>2, <2>1 DEF StreamsOK
  <2>2. CASE e \notin log[d]
    <3>1. queue' = Notified(d, <<e>>) /\ e \in Event /\ d \in Devices
      BY <1>2, <1>3, <1>4, <2>2
    <3>2. Types
      BY <1>1
    <3>3. QED
      BY <3>1, <3>2, NotifiedIs
  <2>3. QED
    BY <2>1, <2>2
<1>10. known[p] \in SUBSET Event
  BY <1>1, EndTypes
<1>11. StreamsOK'
  BY <1>1, <1>2, <1>3, <1>9, <1>10 DEF StreamsOK
<1>12. /\ known'[p] = known[p] \cup {e} /\ \A q \in Ends : q # p => known'[q] = known[q]
       /\ wire'[p] = Tail(wire[p]) /\ \A q \in Ends : q # p => wire'[q] = wire[q]
  BY <1>1, <1>2 DEF StreamsOK
<1>13. /\ Carried(p)' \subseteq Carried(p) /\ Carried(p) \subseteq Carried(p)' \cup {e}
       /\ \A q \in Ends : q # p => Carried(q)' = Carried(q)
  <2>1. Carried(p)' = Heard(wire'[p])
    BY DEF Carried, Heard
  <2>2. \A q \in Ends : q # p => Carried(q)' = Carried(q)
    BY <1>12 DEF Carried
  <2>3. QED
    BY <1>3, <1>12, <2>1, <2>2
<1>14. ASSUME NEW q \in Ends PROVE EndOK(q)'
  <2>1. EndOK(q) /\ q[1] \in Devices /\ q[2] \in Devices /\ Other(q) \in Ends
    BY <1>1, EndsAre DEF EndsOK
  <2>2. log[q[1]] \subseteq log'[q[1]] /\ log[q[2]] \subseteq log'[q[2]]
    BY <1>5, <2>1
  <2>3. Range(queue'[q]) \subseteq log'[q[1]]
    BY <1>5, <1>9, <2>1, <2>2 DEF EndOK, Founded
  <2>4. Carried(q)' \subseteq Carried(q) \cup log'[q[2]] \cup {NoEvent}
    BY <1>13
  <2>5. phase[q] # "down" => log'[q[1]] \subseteq log[q[1]] \cup Range(queue'[q])
    BY <1>5, <1>9, <2>1
  <2>6. known'[q] \subseteq known[q] \cup log'[q[2]]
    BY <1>3, <1>12, <2>2
  <2>7. Carried(Other(q)) \subseteq Carried(Other(q))' \cup log'[q[2]]
    <3>1. CASE Other(q) = p
      <4>1. q = o
        BY <3>1, EndsAre DEF o
      <4>2. e \in log'[q[2]]
        BY <1>4, <1>5, <4>1
      <4>3. QED
        BY <1>13, <3>1, <4>2
    <3>2. CASE Other(q) # p
      BY <1>13, <2>1, <3>2
    <3>3. QED
      BY <3>1, <3>2
  <2>8. phase[q] # "down" => Link(q) \in up'
    BY <1>2, <2>1 DEF EndOK, Founded
  <2>9. phase[q] = "down" => known'[q] = {} /\ queue'[q] = <<>> /\ ~lagged'[q]
    BY <1>2, <1>9, <1>12, <2>1 DEF EndOK, Founded
  <2>10. phase'[q] = phase[q] /\ have'[q] = have[q] /\ lagged'[q] = lagged[q] /\ missed' = missed
    BY <1>2
  <2>11. Range(queue[q]) \subseteq Range(queue'[q])
    BY <1>9
  <2>12. QED
    BY <1>1, <2>1, <2>2, <2>3, <2>4, <2>5, <2>6, <2>7, <2>8, <2>9, <2>10, <2>11, EndKept
<1>15. EndsOK'
  BY <1>14 DEF EndsOK
<1>16. QED
  BY <1>5, <1>7, <1>8, <1>11, <1>15 DEF Invariant, Types, LogsTrue

-----------------------------------------------------------------------------
(* Failures                                                                *)

\* An end that the cut does not reach, between devices whose logs stay.
LEMMA EndBeyondCut ==
  ASSUME NEW p \in Ends, EndOK(p), Link(p) \in up <=> Link(p) \in up',
         Link(p) \in missed <=> Link(p) \in missed',
         log'[p[1]] = log[p[1]], log'[p[2]] = log[p[2]],
         phase'[p] = phase[p], have'[p] = have[p], known'[p] = known[p], queue'[p] = queue[p],
         lagged'[p] = lagged[p], wire'[p] = wire[p], wire'[Other(p)] = wire[Other(p)]
  PROVE  EndOK(p)'
<1>1. Carried(p)' = Carried(p) /\ Carried(Other(p))' = Carried(Other(p))
  BY DEF Carried
<1>2. Founded(p)'
  BY <1>1 DEF EndOK, Founded
<1>3. OpenComplete(p)' /\ KnownTrue(p)' /\ NotStranded(p)'
  BY <1>1 DEF EndOK, OpenComplete, KnownTrue, NotStranded
<1>4. QED
  BY <1>2, <1>3 DEF EndOK

\* The streams over some links end; the logs of the devices at others stay.
LEMMA CutKeeps ==
  ASSUME Types, EndsOK, NEW ls \in SUBSET Links, Cut(ls),
         \A p \in Ends : Link(p) \notin ls => log'[p[1]] = log[p[1]] /\ log'[p[2]] = log[p[2]]
  PROVE  LinksOK' /\ StreamsOK' /\ EndsOK'
<1>1. StreamsOK /\ LinksOK
  BY DEF Types
<1>2. /\ up' = up \ ls /\ missed' = missed \ ls
      /\ phase' = [p \in Ends |-> IF Link(p) \in ls THEN "down" ELSE phase[p]]
      /\ have' = [p \in Ends |-> IF Link(p) \in ls THEN {} ELSE have[p]]
      /\ known' = [p \in Ends |-> IF Link(p) \in ls THEN {} ELSE known[p]]
      /\ queue' = [p \in Ends |-> IF Link(p) \in ls THEN <<>> ELSE queue[p]]
      /\ lagged' = [p \in Ends |-> IF Link(p) \in ls THEN FALSE ELSE lagged[p]]
      /\ wire' = [p \in Ends |-> IF Link(p) \in ls THEN <<>> ELSE wire[p]]
      /\ bundle' = [p \in Ends |-> IF Link(p) \in ls THEN "unsent" ELSE bundle[p]]
  BY DEF Cut, Link
<1>3. <<>> \in Seq(Event) /\ <<>> \in Seq(Message)
  OBVIOUS
<1>4. StreamsOK' /\ LinksOK'
  BY <1>1, <1>2, <1>3 DEF StreamsOK, LinksOK
<1>5. ASSUME NEW p \in Ends PROVE EndOK(p)'
  <2>1. Other(p) \in Ends /\ Link(Other(p)) = Link(p)
    BY EndsAre
  <2>2. CASE Link(p) \in ls
    <3>1. /\ phase'[p] = "down" /\ have'[p] = {} /\ known'[p] = {} /\ queue'[p] = <<>>
          /\ lagged'[p] = FALSE /\ wire'[p] = <<>>
      BY <1>2, <2>2
    <3>2. QED
      BY <3>1, EndDown
  <2>3. CASE Link(p) \notin ls
    <3>1. /\ phase'[p] = phase[p] /\ have'[p] = have[p] /\ known'[p] = known[p] /\ queue'[p] = queue[p]
          /\ lagged'[p] = lagged[p] /\ wire'[p] = wire[p] /\ wire'[Other(p)] = wire[Other(p)]
      BY <1>2, <2>1, <2>3
    <3>2. /\ Link(p) \in up <=> Link(p) \in up'
          /\ Link(p) \in missed <=> Link(p) \in missed'
          /\ log'[p[1]] = log[p[1]] /\ log'[p[2]] = log[p[2]]
      BY <1>2, <2>3
    <3>3. EndOK(p)
      BY DEF EndsOK
    <3>4. QED
      BY <3>1, <3>2, <3>3, EndBeyondCut
  <2>4. QED
    BY <2>2, <2>3
<1>6. QED
  BY <1>4, <1>5 DEF EndsOK

\* A connection is lost.
LEMMA DropStep ==
  ASSUME Invariant, NEW l \in Links, Drop(l)
  PROVE  Invariant'
<1>1. Types /\ EndsOK /\ UsersOK
  BY DEF Invariant, Types
<1>2. Cut({l}) /\ UNCHANGED <<log, record, making, deciding>> /\ {l} \in SUBSET Links
  BY DEF Drop
<1>3. LinksOK' /\ StreamsOK' /\ EndsOK'
  BY <1>1, <1>2, CutKeeps
<1>4. UsersOK'
  BY <1>1, <1>2 DEF UsersOK
<1>5. QED
  BY <1>2, <1>3, <1>4, StreamStep

\* A device stops and starts again: its log may grow, and all its links are cut.
LEMMA RestartStep ==
  ASSUME Invariant, NEW d \in Devices, Restart(d)
  PROVE  Invariant'
<1> DEFINE ls == {l \in Links : d \in l}
<1>1. Types /\ EndsOK /\ UsersOK /\ LogsOK /\ AtOrigin /\ AllDistinct /\ StampsFresh
  BY DEF Invariant, Types, LogsTrue
<1>2. /\ Cut(ls) /\ log' = [log EXCEPT ![d] = Backfill(d)]
      /\ deciding' = [deciding EXCEPT ![d] = [step |-> "idle"]]
      /\ making' = IF d = Author /\ making \in {"saved", "noted"} THEN "done" ELSE making
      /\ record' = record
  BY DEF Restart
<1>3. record \in [Devices -> Verdict]
  BY <1>1 DEF UsersOK
<1>4. /\ LogsOK' /\ AtOrigin' /\ AllDistinct'
      /\ \A x \in Devices : x # d => log'[x] = log[x]
      /\ \A x \in Devices : log[x] \subseteq log'[x]
  BY <1>1, <1>2, <1>3, BackfillAdds
<1>5. \A p \in Ends : Link(p) \notin ls => log'[p[1]] = log[p[1]] /\ log'[p[2]] = log[p[2]]
  <2>1. ASSUME NEW p \in Ends, Link(p) \notin ls PROVE log'[p[1]] = log[p[1]] /\ log'[p[2]] = log[p[2]]
    <3>1. p[1] \in Devices /\ p[2] \in Devices /\ Link(p) \in Links
      BY EndsAre DEF Ends, Link
    <3>2. p[1] # d /\ p[2] # d
      BY <2>1, <3>1 DEF Link
    <3>3. QED
      BY <1>4, <3>1, <3>2
  <2>2. QED
    BY <2>1
<1>6. ls \in SUBSET Links
  OBVIOUS
<1> HIDE DEF ls
<1>7. LinksOK' /\ StreamsOK' /\ EndsOK'
  BY <1>1, <1>2, <1>5, <1>6, CutKeeps
<1>8. UsersOK'
  <2>1. [step |-> "idle"] \in Handling
    BY DEF Handling
  <2>2. QED
    BY <1>1, <1>2, <2>1 DEF UsersOK
<1>9. StampsFresh'
  <2>1. SUFFICES ASSUME NEW x \in Devices, deciding'[x].step = "stamped",
                        NEW f \in log'[x], f.by = x, f.kind = "decided"
                 PROVE  f.lamport < deciding'[x].lamport
    BY DEF StampsFresh
  <2>2. x # d
    <3>1. deciding'[d] = [step |-> "idle"]
      BY <1>1, <1>2 DEF UsersOK
    <3>2. QED
      BY <2>1, <3>1
  <2>3. f \in log[x] /\ deciding'[x] = deciding[x]
    BY <1>1, <1>2, <1>4, <2>1, <2>2 DEF UsersOK
  <2>4. QED
    BY <1>1, <2>1, <2>3 DEF StampsFresh
<1>10. QED
  BY <1>1, <1>4, <1>7, <1>8, <1>9 DEF Invariant, Types, LogsTrue

-----------------------------------------------------------------------------
(* The theorems                                                            *)

\* Nothing is stored, held or under way at the start.
LEMMA InitInvariant == Init => Invariant
<1> SUFFICES ASSUME Init PROVE Invariant
  OBVIOUS
<1>1. LogsOK
  BY FS_EmptySet DEF Init, LogsOK, Spoken
<1>2. [step |-> "idle"] \in Handling /\ NoRecord \in Verdict
  BY DEF Handling, Verdict
<1>3. UsersOK
  BY <1>2 DEF Init, UsersOK
<1>4. <<>> \in Seq(Event) /\ <<>> \in Seq(Message)
  OBVIOUS
<1>5. LinksOK /\ StreamsOK
  BY <1>4 DEF Init, LinksOK, StreamsOK
<1>6. AtOrigin /\ AllDistinct /\ StampsFresh
  BY DEF Init, AtOrigin, AllDistinct, Distinct, StampsFresh
<1>7. ASSUME NEW p \in Ends PROVE EndOK(p)
  <2>1. /\ phase[p] = "down" /\ known[p] = {} /\ queue[p] = <<>> /\ lagged[p] = FALSE
        /\ have[p] = {} /\ wire[p] = <<>>
    BY DEF Init
  <2>2. Carried(p) = {} /\ Range(queue[p]) = {}
    BY <2>1 DEF Carried, Range
  <2>3. Founded(p)
    BY <2>1, <2>2 DEF Founded
  <2>4. OpenComplete(p) /\ KnownTrue(p) /\ NotStranded(p)
    BY <2>1 DEF OpenComplete, KnownTrue, NotStranded
  <2>5. QED
    BY <2>3, <2>4 DEF EndOK
<1>8. QED
  BY <1>1, <1>3, <1>5, <1>6, <1>7 DEF Invariant, Types, LogsTrue, EndsOK

\* Every step keeps the invariant.
LEMMA InvariantKept == Invariant /\ [Next]_vars => Invariant'
<1> SUFFICES ASSUME Invariant, [Next]_vars PROVE Invariant'
  OBVIOUS
<1>1. CASE UNCHANGED vars
  <2>1. UNCHANGED <<log, streams, missed, up, record, making, deciding, bundle>>
    BY <1>1 DEF vars, links
  <2>2. UsersOK' /\ LinksOK' /\ StampsFresh'
    BY <2>1 DEF Invariant, Types, LogsTrue, UsersOK, LinksOK, StampsFresh
  <2>3. QED
    BY <2>1, <2>2, QuietStep
<1>2. CASE \/ SaveProposal
           \/ \E d \in Devices : \/ \E s \in Verdicts : Decide(d, s)
                                 \/ SaveDecision(d) \/ StampDecision(d) \/ FailDecision(d)
           \/ \E l \in Links : Connect(l)
           \/ \E p \in Ends : Offer(p) \/ Take(p)
  BY <1>2, QuietSteps
<1>3. CASE RecordSnapshot \/ RecordCreation \/ \E d \in Devices : WriteDecision(d)
  BY <1>3, AppendSteps
<1>4. CASE \E d \in Devices : Restart(d)
  BY <1>4, RestartStep
<1>5. CASE \E l \in Links : Drop(l)
  BY <1>5, DropStep
<1>6. CASE \E p \in Ends : Open(p) \/ Greet(p) \/ Deliver(p) \/ Refuse(p) \/ EndBatch(p)
  BY <1>6, OpenStep, GreetStep, DeliverStep, TakeSteps
<1>7. CASE \E p \in Ends : Forward(p) \/ Skip(p) \/ Overflow(p) \/ RecoverLag(p)
  BY <1>7, ForwardStep, LossSteps, RecoverStep
<1>8. QED
  BY <1>1, <1>2, <1>3, <1>4, <1>5, <1>6, <1>7 DEF Next

\* The invariant holds in every behaviour.
THEOREM InvariantHolds == Spec => []Invariant
<1>1. QED
  BY InitInvariant, InvariantKept, PTL DEF Spec

\* What devices store, say and have under way is of the right form: times start
\* at one, an end that has not begun holds nothing, and only a stored event is
\* said to be had or notified (workspace_event.rs, event_sync.rs).
THEOREM TypeCorrect == Spec => []TypeOK
<1>1. Invariant => TypeOK
  <2> SUFFICES ASSUME Invariant PROVE TypeOK
    OBVIOUS
  <2>1. Types /\ EndsOK
    BY DEF Invariant
  <2>2. /\ \A d \in Devices : log[d] \subseteq Event
        /\ record \in [Devices -> Statuses \cup {NoRecord}]
        /\ making \in {"nothing", "saved", "noted", "done"}
    BY <2>1 DEF Types, LogsOK, UsersOK, Verdict
  <2>3. \A d \in Devices : deciding[d].step \in {"idle", "read", "saved", "stamped"}
    BY <2>1, HandlingForms DEF Types, UsersOK
  <2>4. /\ up \subseteq Links /\ missed \subseteq up
        /\ phase \in [Ends -> {"down", "open", "batch", "live"}]
        /\ \A p \in Ends : bundle[p] \in Statuses \cup {NoRecord, "unsent"}
    BY <2>1 DEF Types, LinksOK, StreamsOK, Verdict
  <2>5. \A p \in Ends : /\ have[p] \subseteq log[p[1]] /\ Range(queue[p]) \subseteq log[p[1]]
                        /\ phase[p] = "down" => known[p] = {} /\ queue[p] = <<>> /\ ~lagged[p]
    BY <2>1 DEF EndsOK, EndOK, Founded
  <2>6. QED
    BY <2>2, <2>3, <2>4, <2>5 DEF TypeOK
<1>2. QED
  BY <1>1, InvariantHolds, PTL

\* Once an end has answered the peer's HAVE, every event of its log is with the
\* peer, on the wire to it or among the notifications still to come, or the end
\* knows that it lagged (event_sync.rs run_inner).
THEOREM NothingStranded == Spec => []NoEventStranded
<1>1. Invariant => NoEventStranded
  BY DEF Invariant, EndsOK, EndOK, NotStranded, NoEventStranded, Link
<1>2. QED
  BY <1>1, InvariantHolds, PTL

\* In a log in which no decision comes before the creation, the status is the
\* decision of highest precedence (workspace_event.rs materialize).
THEOREM PrecedenceStands == Spec => []DecisionsStand
<1>1. Invariant => DecisionsStand
  <2> SUFFICES ASSUME Invariant, NEW d \in Devices, Creations(log[d]) # {},
                      \A e \in Decisions(log[d]) : Before(Earliest(Creations(log[d])), e)
               PROVE  Status(log[d]) = Highest(log[d])
    BY DEF DecisionsStand
  <2>1. log[d] \in SUBSET Event /\ Distinct(log[d]) /\ IsFiniteSet(log[d]) /\ Spoken(log[d])
    BY DEF Invariant, Types, LogsTrue, LogsOK, AllDistinct
  <2>2. QED
    BY <2>1, HighestStands
<1>2. QED
  BY <1>1, InvariantHolds, PTL
=============================================================================
