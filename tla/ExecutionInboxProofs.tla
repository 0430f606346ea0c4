------------------------ MODULE ExecutionInboxProofs ------------------------
(***************************************************************************)
(* Proofs about ExecutionInbox for every finite set of Circles, every set  *)
(* of messages and agents, and every value of the limits.                  *)
(***************************************************************************)
EXTENDS ExecutionInbox, SequenceTheorems, FiniteSetTheorems,
        WellFoundedInduction, TLAPS

-----------------------------------------------------------------------------
(* Lemmas about the operators on snapshots                                 *)

\* Every nonempty set of naturals has the member Min picks.
LEMMA MinIsMember ==
  ASSUME NEW S \in SUBSET Nat, S # {}
  PROVE  Min(S) \in S /\ \A y \in S : Min(S) <= y
<1> DEFINE less == {ss \in Nat \X Nat : ss[1] < ss[2]}
<1>1. IsWellFoundedOn(less, Nat)
  BY NatLessThanWellFounded DEF OpToRel
<1>2. PICK x \in S : \A y \in S : ~ (<<y, x>> \in less)
  BY <1>1, WFMin
<1>3. ASSUME NEW y \in S PROVE x <= y
  <2>1. y < x => <<y, x>> \in less
    OBVIOUS
  <2>2. QED
    BY <1>2, <2>1
<1>4. QED
  BY <1>3 DEF Min

\* Every nonempty set of positions has a last one.
LEMMA MaxIsMember ==
  ASSUME NEW n \in Nat, NEW S \in SUBSET (1 .. n), S # {}
  PROVE  \E m \in S : \A y \in S : y <= m
<1> DEFINE mirror == {n - i : i \in S}
<1>1. mirror \in SUBSET Nat /\ mirror # {}
  OBVIOUS
<1>2. Min(mirror) \in mirror /\ \A y \in mirror : Min(mirror) <= y
  BY <1>1, MinIsMember
<1>3. PICK m \in S : Min(mirror) = n - m
  BY <1>2
<1>4. ASSUME NEW y \in S PROVE y <= m
  <2>1. n - m <= n - y
    BY <1>2, <1>3
  <2>2. QED
    BY <2>1
<1>5. QED
  BY <1>4

\* The runs of a snapshot are 1 .. Len of its entries.
LEMMA SnapshotDomain ==
  ASSUME NEW s \in Snapshot
  PROVE  /\ s.entries \in Seq(Entry)
         /\ DOMAIN s.entries = 1 .. Len(s.entries)
         /\ Len(s.entries) \in Nat
         /\ \A i \in DOMAIN s.entries : s.entries[i] \in Entry
         /\ s.charges \in [Roots -> 0 .. Ceiling]
         /\ IsFiniteSet(DOMAIN s.entries)
<1>1. s.entries \in Seq(Entry) /\ s.charges \in [Roots -> 0 .. Ceiling]
  BY DEF Snapshot
<1>2. DOMAIN s.entries = 1 .. Len(s.entries) /\ Len(s.entries) \in Nat
  BY <1>1, LenProperties
<1>3. \A i \in DOMAIN s.entries : s.entries[i] \in Entry
  BY <1>1, <1>2, ElementOfSeq
<1>4. IsFiniteSet(DOMAIN s.entries)
  BY <1>2, FS_Interval
<1>5. QED
  BY <1>1, <1>2, <1>3, <1>4

\* Setting the status of some runs keeps everything else.
LEMMA WithStatusFacts ==
  ASSUME NEW s \in Snapshot, NEW runs, NEW status \in Status
  PROVE  LET t == WithStatus(s, runs, status)
         IN /\ t \in Snapshot
            /\ t.charges = s.charges
            /\ Len(t.entries) = Len(s.entries)
            /\ DOMAIN t.entries = DOMAIN s.entries
            /\ \A i \in DOMAIN s.entries :
                 /\ t.entries[i].req = s.entries[i].req
                 /\ i \in runs => t.entries[i].status = status
                 /\ i \notin runs => t.entries[i] = s.entries[i]
<1> DEFINE t == WithStatus(s, runs, status)
           e == [i \in DOMAIN s.entries |->
                   IF i \in runs THEN [s.entries[i] EXCEPT !.status = status]
                                 ELSE s.entries[i]]
<1>1. t = [s EXCEPT !.entries = e]
  BY DEF WithStatus
<1>2. \A i \in DOMAIN s.entries : e[i] \in Entry
  BY SnapshotDomain DEF Entry
<1>3. e \in Seq(Entry) /\ Len(e) = Len(s.entries) /\ DOMAIN e = DOMAIN s.entries
  <2>1. e \in [1 .. Len(s.entries) -> Entry]
    BY <1>2, SnapshotDomain
  <2> HIDE DEF e
  <2>2. QED
    BY <2>1, SnapshotDomain
<1>4. t \in Snapshot /\ t.entries = e /\ t.charges = s.charges
  <2> HIDE DEF e, t
  <2> QED  BY <1>1, <1>3 DEF Snapshot
<1>5. \A i \in DOMAIN s.entries :
        /\ e[i].req = s.entries[i].req
        /\ i \in runs => e[i].status = status
        /\ i \notin runs => e[i] = s.entries[i]
  BY SnapshotDomain DEF Entry
<1>6. QED
  <2> HIDE DEF e
  <2> QED  BY <1>3, <1>4, <1>5

\* Appending a run keeps the earlier ones.
LEMMA WithEntryFacts ==
  ASSUME NEW s \in Snapshot, NEW req \in Request, NEW status \in Status
  PROVE  LET t == WithEntry(s, req, status)
             n == Len(s.entries) + 1
         IN /\ t \in Snapshot
            /\ t.charges = s.charges
            /\ Len(t.entries) = n
            /\ DOMAIN t.entries = DOMAIN s.entries \cup {n}
            /\ t.entries[n] = [req |-> req, status |-> status]
            /\ \A i \in DOMAIN s.entries : t.entries[i] = s.entries[i]
<1> DEFINE t == WithEntry(s, req, status)
           x == [req |-> req, status |-> status]
           n == Len(s.entries) + 1
           e == Append(s.entries, x)
<1>1. t = [s EXCEPT !.entries = e]
  BY DEF WithEntry
<1>2. x \in Entry
  BY DEF Entry
<1>3. /\ e \in Seq(Entry) /\ Len(e) = n
      /\ e[n] = x
      /\ \A i \in 1 .. Len(s.entries) : e[i] = s.entries[i]
  BY <1>2, SnapshotDomain, AppendProperties
<1>4. DOMAIN e = DOMAIN s.entries \cup {n}
  BY <1>3, SnapshotDomain
<1>5. t \in Snapshot /\ t.entries = e /\ t.charges = s.charges
  <2> HIDE DEF e, t
  <2> QED  BY <1>1, <1>3 DEF Snapshot
<1>6. QED
  <2> HIDE DEF e
  <2> QED  BY <1>3, <1>4, <1>5, SnapshotDomain

\* What is displaced was waiting, and is finitely many runs.
LEMMA DisplacedFacts ==
  ASSUME NEW s \in Snapshot, NEW req \in Request, NEW limit
  PROVE  /\ Displaced(s, req, limit) \subseteq Pending(s.entries)
         /\ IsFiniteSet(Displaced(s, req, limit))
<1>1. ASSUME NEW queue \in SUBSET Pending(s.entries)
      PROVE  LET out == MakeRoom(s.entries, queue, req.ambient)
             IN out \subseteq queue /\ IsFiniteSet(out)
  <2> DEFINE ambients == {i \in queue : s.entries[i].req.ambient}
  <2>1. queue \subseteq Nat /\ ambients \subseteq queue
    BY SnapshotDomain DEF Pending
  <2>2. ambients # {} => Min(ambients) \in queue
    BY <2>1, MinIsMember
  <2>3. queue # {} => Min(queue) \in queue
    BY <2>1, MinIsMember
  <2>4. QED
    BY <2>2, <2>3, FS_Singleton, FS_EmptySet DEF MakeRoom
<1>2. /\ FromAgent(s, req, limit) \subseteq Pending(s.entries)
      /\ IsFiniteSet(FromAgent(s, req, limit))
  BY <1>1, FS_EmptySet DEF FromAgent, PendingOf
<1>3. /\ FromCircle(s, req, limit) \subseteq Pending(s.entries)
      /\ IsFiniteSet(FromCircle(s, req, limit))
  BY <1>1, FS_EmptySet DEF FromCircle
<1>4. QED
  BY <1>2, <1>3, FS_Union DEF Displaced

\* The waiting runs of a snapshot are finitely many.
LEMMA PendingFacts ==
  ASSUME NEW s \in Snapshot
  PROVE  /\ IsFiniteSet(Pending(s.entries))
         /\ Cardinality(Pending(s.entries)) \in Nat
  BY SnapshotDomain, FS_Subset, FS_CardinalityType DEF Pending

\* A refund stays within the charges it is taken from.
LEMMA RefundFacts ==
  ASSUME NEW s \in Snapshot, NEW runs, IsFiniteSet(runs)
  PROVE  /\ Refund(s, runs) \in [Roots -> 0 .. Ceiling]
         /\ \A r \in Roots : Refund(s, runs)[r] <= s.charges[r]
<1> DEFINE Back(r) == Cardinality({i \in runs : s.entries[i].req.root = r})
<1>1. ASSUME NEW r \in Roots
      PROVE  /\ Refund(s, runs)[r] \in 0 .. Ceiling
             /\ Refund(s, runs)[r] <= s.charges[r]
  <2>1. Back(r) \in Nat
    BY FS_Subset, FS_CardinalityType
  <2>2. s.charges[r] \in 0 .. Ceiling
    BY SnapshotDomain
  <2>3. Refund(s, runs)[r] = IF Back(r) > s.charges[r] THEN 0 ELSE s.charges[r] - Back(r)
    BY DEF Refund
  <2> HIDE DEF Back
  <2>4. QED
    BY <2>1, <2>2, <2>3, InboxAssumption
<1>2. Refund(s, runs) \in [Roots -> 0 .. Ceiling]
  BY <1>1 DEF Refund
<1>3. QED
  BY <1>1, <1>2

\* A charge the budget allows stays within the ceiling.
LEMMA ChargeFacts ==
  ASSUME NEW charges \in [Roots -> 0 .. Ceiling], NEW req \in Request,
         NEW max \in Nat, HasBudget(charges, req, max)
  PROVE  Charge(charges, req) \in [Roots -> 0 .. Ceiling]
<1>1. CASE ~Relayed(req)
  BY <1>1 DEF Charge
<1>2. CASE Relayed(req)
  <2>1. req.root \in Roots
    BY <1>2 DEF Relayed, Request
  <2>2. charges[req.root] < Ceiling
    BY <1>2, <2>1, InboxAssumption DEF HasBudget, Allowance
  <2>3. charges[req.root] + 1 \in 0 .. Ceiling
    BY <2>1, <2>2, InboxAssumption
  <2>4. QED
    BY <1>2, <2>3 DEF Charge
<1>3. QED
  BY <1>1, <1>2

-----------------------------------------------------------------------------
(* One write of an owner                                                   *)

\* t has every run of s, and those that had ended are as they were.
Evolves(s, t) ==
  /\ t \in Snapshot
  /\ DOMAIN s.entries \subseteq DOMAIN t.entries
  /\ \A i \in DOMAIN s.entries :
       /\ t.entries[i].req = s.entries[i].req
       /\ s.entries[i].status \in Terminal => t.entries[i] = s.entries[i]

OneLive(s) ==
  \A i, j \in DOMAIN s.entries :
    /\ s.entries[i].status \in Live
    /\ s.entries[j].status \in Live
    /\ Key(s.entries[i].req) = Key(s.entries[j].req)
    => i = j

\* Every turn of s is covered by a charge.
Paid(s) == \A r \in Roots : Cardinality(Turns(s, r)) <= s.charges[r]

\* The turns charged to a cascade are finitely many runs.
LEMMA TurnsFacts ==
  ASSUME NEW s \in Snapshot, NEW r
  PROVE  /\ IsFiniteSet(Turns(s, r))
         /\ Cardinality(Turns(s, r)) \in Nat
  BY SnapshotDomain, FS_Subset, FS_CardinalityType DEF Turns

\* With the same charges and no more turns, what was paid still is.
LEMMA FewerTurnsPaid ==
  ASSUME NEW s \in Snapshot, NEW t \in Snapshot, Paid(s),
         t.charges = s.charges,
         \A r \in Roots : Turns(t, r) \subseteq Turns(s, r)
  PROVE  Paid(t)
<1>1. ASSUME NEW r \in Roots
      PROVE  Cardinality(Turns(t, r)) <= t.charges[r]
  <2>1. Cardinality(Turns(t, r)) <= Cardinality(Turns(s, r))
    BY TurnsFacts, FS_Subset
  <2>2. Cardinality(Turns(s, r)) <= s.charges[r] /\ s.charges[r] \in Nat
    BY SnapshotDomain DEF Paid
  <2>3. QED
    BY <2>1, <2>2, TurnsFacts
<1>2. QED
  BY <1>1 DEF Paid

\* Ending runs leaves every cascade's turns paid for.
LEMMA WithStatusPaid ==
  ASSUME NEW s \in Snapshot, NEW runs, NEW status \in Status, Paid(s),
         \A i \in runs \cap DOMAIN s.entries : s.entries[i].status \in Live
  PROVE  Paid(WithStatus(s, runs, status))
<1> DEFINE t == WithStatus(s, runs, status)
<1>1. /\ t \in Snapshot
      /\ t.charges = s.charges
      /\ DOMAIN t.entries = DOMAIN s.entries
      /\ \A i \in DOMAIN s.entries :
           /\ t.entries[i].req = s.entries[i].req
           /\ i \in runs => t.entries[i].status = status
           /\ i \notin runs => t.entries[i] = s.entries[i]
  BY WithStatusFacts
<1> HIDE DEF t
<1>2. \A r \in Roots : Turns(t, r) \subseteq Turns(s, r)
  BY <1>1 DEF Turns
<1>3. Paid(t)
  BY <1>1, <1>2, FewerTurnsPaid
<1>4. QED
  BY <1>3 DEF t

\* A run that is recorded without waiting for a turn costs nothing.
LEMMA IdleEntryPaid ==
  ASSUME NEW s \in Snapshot, NEW req \in Request, Paid(s),
         NEW status \in {"Expired", "Cancelled", "LegacySuppressed"}
  PROVE  Paid(WithEntry(s, req, status))
<1> DEFINE t == WithEntry(s, req, status)
           n == Len(s.entries) + 1
<1>1. status \in Status
  BY DEF Status, Retryable
<1>2. /\ t \in Snapshot
      /\ t.charges = s.charges
      /\ DOMAIN t.entries = DOMAIN s.entries \cup {n}
      /\ t.entries[n] = [req |-> req, status |-> status]
      /\ \A i \in DOMAIN s.entries : t.entries[i] = s.entries[i]
  BY <1>1, WithEntryFacts
<1> HIDE DEF t, n
<1>3. t.entries[n].status \notin Live \cup {"Completed", "Failed", "Interrupted"}
  BY <1>2 DEF Live
<1>4. \A r \in Roots : Turns(t, r) \subseteq Turns(s, r)
  BY <1>2, <1>3 DEF Turns
<1>5. Paid(t)
  BY <1>2, <1>4, FewerTurnsPaid
<1>6. QED
  BY <1>5 DEF t

\* A run that waits for a turn is paid for by the charge taken for it.
LEMMA ChargedEntryPaid ==
  ASSUME NEW s \in Snapshot, NEW req \in Request, NEW max \in Nat,
         NEW charges \in [Roots -> 0 .. Ceiling],
         \A r \in Roots : Cardinality(Turns(s, r)) <= charges[r],
         HasBudget(charges, req, max)
  PROVE  Paid([WithEntry(s, req, "Pending")
                 EXCEPT !.charges = Charge(charges, req)])
<1> DEFINE t == WithEntry(s, req, "Pending")
           n == Len(s.entries) + 1
           u == [t EXCEPT !.charges = Charge(charges, req)]
<1>1. "Pending" \in Status
  BY DEF Status, Live
<1>2. /\ t \in Snapshot
      /\ DOMAIN t.entries = DOMAIN s.entries \cup {n}
      /\ t.entries[n] = [req |-> req, status |-> "Pending"]
      /\ \A i \in DOMAIN s.entries : t.entries[i] = s.entries[i]
  BY <1>1, WithEntryFacts
<1>3. n \notin DOMAIN s.entries
  BY SnapshotDomain
<1>4. u.entries = t.entries /\ u.charges = Charge(charges, req)
  <2> HIDE DEF t
  <2> QED  BY <1>2 DEF Snapshot
<1> HIDE DEF t, n, u
<1>5. ASSUME NEW r \in Roots
      PROVE  Cardinality(Turns(u, r)) <= Charge(charges, req)[r]
  <2>1. charges[r] \in Nat /\ Cardinality(Turns(s, r)) <= charges[r]
    OBVIOUS
  <2>2. CASE req.root = r
    <3>1. Turns(u, r) = Turns(s, r) \cup {n} /\ n \notin Turns(s, r)
      BY <1>2, <1>3, <1>4, <2>2 DEF Turns, Live
    <3>2. Cardinality(Turns(u, r)) = Cardinality(Turns(s, r)) + 1
      BY <3>1, TurnsFacts, FS_AddElement
    <3>3. Charge(charges, req)[r] = charges[r] + 1
      BY <2>2, InboxAssumption DEF Charge, Relayed
    <3>4. QED
      BY <2>1, <3>2, <3>3, TurnsFacts
  <2>3. CASE req.root # r
    <3>1. Turns(u, r) = Turns(s, r)
      BY <1>2, <1>3, <1>4, <2>3 DEF Turns
    <3>2. Charge(charges, req)[r] = charges[r]
      BY <2>3 DEF Charge
    <3>3. QED
      BY <2>1, <3>1, <3>2
  <2>4. QED
    BY <2>2, <2>3
<1>6. Paid(u)
  BY <1>4, <1>5 DEF Paid
<1>7. QED
  BY <1>6 DEF u, t

\* A refund gives back exactly the charges of the displaced turns.
LEMMA RefundPaid ==
  ASSUME NEW s \in Snapshot, Paid(s), NEW runs, IsFiniteSet(runs),
         runs \subseteq Pending(s.entries)
  PROVE  \A r \in Roots :
           Cardinality(Turns(WithStatus(s, runs, "Expired"), r)) <= Refund(s, runs)[r]
<1> DEFINE t == WithStatus(s, runs, "Expired")
           Gone(r) == {i \in runs : s.entries[i].req.root = r}
<1>1. /\ DOMAIN t.entries = DOMAIN s.entries
      /\ \A i \in DOMAIN s.entries :
           /\ t.entries[i].req = s.entries[i].req
           /\ i \in runs => t.entries[i].status = "Expired"
           /\ i \notin runs => t.entries[i] = s.entries[i]
  BY WithStatusFacts DEF Status, Retryable
<1>2. t \in Snapshot
  BY WithStatusFacts DEF Status, Retryable
<1> HIDE DEF t
<1>3. ASSUME NEW r \in Roots
      PROVE  Cardinality(Turns(t, r)) <= Refund(s, runs)[r]
  <2>1. IsFiniteSet(Gone(r)) /\ Cardinality(Gone(r)) \in Nat
    BY FS_Subset, FS_CardinalityType
  <2>2. Gone(r) \subseteq Turns(s, r)
    BY DEF Turns, Pending, Live
  <2>3. Turns(t, r) = Turns(s, r) \ Gone(r)
    BY <1>1 DEF Turns, Live
  <2> HIDE DEF Gone
  <2>4. Turns(s, r) = Turns(t, r) \cup Gone(r) /\ Turns(t, r) \cap Gone(r) = {}
    BY <2>2, <2>3
  <2>5. Cardinality(Turns(s, r)) = Cardinality(Turns(t, r)) + Cardinality(Gone(r))
    <3>1. Cardinality(Turns(t, r) \cap Gone(r)) = 0
      BY <2>4, FS_EmptySet
    <3>2. Cardinality(Turns(t, r) \cup Gone(r)) =
            Cardinality(Turns(t, r)) + Cardinality(Gone(r))
              - Cardinality(Turns(t, r) \cap Gone(r))
      BY <1>2, <2>1, TurnsFacts, FS_Union
    <3>3. QED
      BY <1>2, <2>1, <2>4, <3>1, <3>2, TurnsFacts
  <2>6. Cardinality(Turns(s, r)) <= s.charges[r] /\ s.charges[r] \in Nat
    BY SnapshotDomain DEF Paid
  <2>7. Refund(s, runs)[r] = IF Cardinality(Gone(r)) > s.charges[r]
                             THEN 0 ELSE s.charges[r] - Cardinality(Gone(r))
    BY DEF Refund, Gone
  <2>8. QED
    BY <1>2, <2>1, <2>5, <2>6, <2>7, TurnsFacts
<1>4. QED
  BY <1>3 DEF t

\* t differs from s in that live runs of s have another status.
LEMMA WithStatusEvolves ==
  ASSUME NEW s \in Snapshot, NEW runs, NEW status \in Status,
         \A i \in runs \cap DOMAIN s.entries : s.entries[i].status \in Live
  PROVE  LET t == WithStatus(s, runs, status)
         IN Evolves(s, t) /\ (OneLive(s) => OneLive(t))
<1> DEFINE t == WithStatus(s, runs, status)
<1>1. /\ t \in Snapshot
      /\ DOMAIN t.entries = DOMAIN s.entries
      /\ \A i \in DOMAIN s.entries :
           /\ t.entries[i].req = s.entries[i].req
           /\ i \in runs => t.entries[i].status = status
           /\ i \notin runs => t.entries[i] = s.entries[i]
  BY WithStatusFacts
<1> HIDE DEF t
<1>2. \A i \in DOMAIN s.entries :
        /\ s.entries[i].status \in Terminal => t.entries[i] = s.entries[i]
        /\ t.entries[i].status \in Live => s.entries[i].status \in Live
  BY <1>1 DEF Terminal
<1>3. Evolves(s, t)
  BY <1>1, <1>2 DEF Evolves
<1>4. OneLive(s) => OneLive(t)
  BY <1>1, <1>2 DEF OneLive
<1>5. QED
  BY <1>3, <1>4 DEF t

\* Appending a run is an evolution of the snapshot.
LEMMA WithEntryEvolves ==
  ASSUME NEW s \in Snapshot, NEW req \in Request, NEW status \in Status,
         status \in Live =>
           \A j \in DOMAIN s.entries :
             Key(s.entries[j].req) = Key(req) => s.entries[j].status \notin Live
  PROVE  LET t == WithEntry(s, req, status)
         IN Evolves(s, t) /\ (OneLive(s) => OneLive(t))
<1> DEFINE t == WithEntry(s, req, status)
           n == Len(s.entries) + 1
<1>1. /\ t \in Snapshot
      /\ DOMAIN t.entries = DOMAIN s.entries \cup {n}
      /\ t.entries[n] = [req |-> req, status |-> status]
      /\ \A i \in DOMAIN s.entries : t.entries[i] = s.entries[i]
  BY WithEntryFacts
<1> HIDE DEF t, n
<1>2. Evolves(s, t)
  BY <1>1 DEF Evolves
<1>3. t.entries[n].req = req /\ t.entries[n].status = status
  BY <1>1
<1>4. OneLive(s) => OneLive(t)
  BY <1>1, <1>3 DEF OneLive
<1>5. QED
  BY <1>2, <1>4 DEF t

\* Two evolutions make one.
LEMMA EvolvesTransitive ==
  ASSUME NEW s, NEW t, NEW u, Evolves(s, t), Evolves(t, u)
  PROVE  Evolves(s, u)
  BY DEF Evolves

\* Changing only the charges evolves the snapshot and keeps its runs.
LEMMA WithChargesFacts ==
  ASSUME NEW s \in Snapshot, NEW t, NEW charges \in [Roots -> 0 .. Ceiling],
         Evolves(s, t), OneLive(s) => OneLive(t)
  PROVE  LET u == [t EXCEPT !.charges = charges]
         IN /\ Evolves(s, u) /\ (OneLive(s) => OneLive(u))
            /\ u.entries = t.entries
            /\ u.charges = charges
<1> DEFINE u == [t EXCEPT !.charges = charges]
<1>1. u \in Snapshot /\ u.entries = t.entries /\ u.charges = charges
  BY DEF Evolves, Snapshot
<1> HIDE DEF u
<1>2. Evolves(s, u) /\ (OneLive(s) => OneLive(u))
  BY <1>1 DEF Evolves, OneLive
<1>3. QED
  BY <1>1, <1>2 DEF u

\* Recovery only ends runs.
LEMMA RecoveredFacts ==
  ASSUME NEW s \in Snapshot
  PROVE  LET r == Recovered(s)
         IN /\ r \in Snapshot
            /\ r.charges = s.charges
            /\ DOMAIN r.entries = DOMAIN s.entries
            /\ \A i \in DOMAIN s.entries :
                 /\ r.entries[i].req = s.entries[i].req
                 /\ s.entries[i].status \in Terminal => r.entries[i] = s.entries[i]
                 /\ r.entries[i].status \in Live => r.entries[i] = s.entries[i]
                 /\ r.entries[i].status = "Interrupted" =>
                      s.entries[i].status \in {"Running", "Interrupted"}
                 /\ r.entries[i].status \in {"Completed", "Failed"} => r.entries[i] = s.entries[i]
                 /\ r.entries[i].status = "Pending" <=>
                      s.entries[i].status = "Pending" /\ ~s.entries[i].req.ambient
<1> DEFINE r == Recovered(s)
           e == [i \in DOMAIN s.entries |->
                   CASE s.entries[i].status = "Running" ->
                          [s.entries[i] EXCEPT !.status = "Interrupted"]
                     [] s.entries[i].status = "Pending" /\ s.entries[i].req.ambient ->
                          [s.entries[i] EXCEPT !.status = "Expired"]
                     [] OTHER -> s.entries[i]]
<1>1. r = [s EXCEPT !.entries = e]
  BY DEF Recovered
<1>2. ASSUME NEW i \in DOMAIN s.entries
      PROVE  /\ e[i] \in Entry
             /\ e[i].req = s.entries[i].req
             /\ s.entries[i].status \in Terminal => e[i] = s.entries[i]
             /\ e[i].status \in Live => e[i] = s.entries[i]
             /\ e[i].status = "Interrupted" =>
                  s.entries[i].status \in {"Running", "Interrupted"}
             /\ e[i].status \in {"Completed", "Failed"} => e[i] = s.entries[i]
             /\ e[i].status = "Pending" <=>
                  s.entries[i].status = "Pending" /\ ~s.entries[i].req.ambient
  <2>1. s.entries[i] \in Entry
    BY SnapshotDomain
  <2>2. CASE s.entries[i].status = "Running"
    BY <2>1, <2>2 DEF Entry, Status, Terminal, Live, Retryable
  <2>3. CASE s.entries[i].status = "Pending" /\ s.entries[i].req.ambient
    BY <2>1, <2>3 DEF Entry, Status, Terminal, Live, Retryable
  <2>4. CASE /\ s.entries[i].status # "Running"
             /\ ~ (s.entries[i].status = "Pending" /\ s.entries[i].req.ambient)
    <3>1. e[i] = s.entries[i]
      BY <2>4
    <3>2. QED
      BY <2>1, <2>4, <3>1
  <2>5. QED
    BY <2>2, <2>3, <2>4
<1>3. e \in Seq(Entry) /\ DOMAIN e = DOMAIN s.entries
  <2>1. e \in [1 .. Len(s.entries) -> Entry]
    BY <1>2, SnapshotDomain
  <2> HIDE DEF e
  <2>2. QED
    BY <2>1, SnapshotDomain
<1>4. r \in Snapshot /\ r.entries = e /\ r.charges = s.charges
  <2> HIDE DEF e, r
  <2> QED  BY <1>1, <1>3 DEF Snapshot
<1> HIDE DEF e, r
<1>5. QED
  BY <1>2, <1>3, <1>4 DEF r

\* What a new owner makes of the file only ends runs.
LEMMA ReopenedFacts ==
  ASSUME NEW s \in Snapshot
  PROVE  LET t == Reopened(s)
         IN /\ Evolves(s, t) /\ (OneLive(s) => OneLive(t))
            /\ Paid(s) => Paid(t)
            /\ DOMAIN t.entries = DOMAIN s.entries
            /\ \A i \in DOMAIN s.entries :
                 t.entries[i].status = "Pending" => s.entries[i].status = "Pending"
<1> DEFINE r == Recovered(s)
           t == WithStatus(r, Surplus(r), "Expired")
<1>1. /\ r \in Snapshot
      /\ r.charges = s.charges
      /\ DOMAIN r.entries = DOMAIN s.entries
      /\ \A i \in DOMAIN s.entries :
           /\ r.entries[i].req = s.entries[i].req
           /\ s.entries[i].status \in Terminal => r.entries[i] = s.entries[i]
           /\ r.entries[i].status \in Live => r.entries[i] = s.entries[i]
           /\ r.entries[i].status = "Interrupted" =>
                s.entries[i].status \in {"Running", "Interrupted"}
           /\ r.entries[i].status \in {"Completed", "Failed"} => r.entries[i] = s.entries[i]
  BY RecoveredFacts
<1>9. Reopened(s) = t
  BY DEF Reopened
<1> HIDE DEF r
<1>2. Evolves(s, r) /\ (OneLive(s) => OneLive(r))
  BY <1>1 DEF Evolves, OneLive
<1>3. Paid(s) => Paid(r)
  <2>1. \A q \in Roots : Turns(r, q) \subseteq Turns(s, q)
    BY <1>1 DEF Turns, Live
  <2>2. QED
    BY <1>1, <2>1, FewerTurnsPaid
<1>4. \A i \in Surplus(r) \cap DOMAIN r.entries : r.entries[i].status \in Live
  BY DEF Surplus, Pending, Live
<1>5. Evolves(r, t) /\ (OneLive(r) => OneLive(t))
  BY <1>1, <1>4, WithStatusEvolves DEF Status, Retryable
<1>6. /\ DOMAIN t.entries = DOMAIN r.entries
      /\ \A i \in DOMAIN r.entries :
           t.entries[i].status = "Pending" => r.entries[i].status = "Pending"
  BY <1>1, WithStatusFacts DEF Status, Retryable
<1>7. Paid(r) => Paid(t)
  BY <1>1, <1>4, WithStatusPaid DEF Status, Retryable
<1> HIDE DEF t
<1>8. QED
  BY <1>1, <1>2, <1>3, <1>5, <1>6, <1>7, <1>9, EvolvesTransitive DEF Live

-----------------------------------------------------------------------------
(* The queues                                                              *)

\* The waiting runs of a snapshot fit its Circle.
Bounded(s) == Cardinality(Pending(s.entries)) <= CircleLimit

\* t keeps its Circle's limit, and takes at most one place on the device, and
\* that only if the device has one.
Fits(s, t) ==
  /\ Bounded(s) => Bounded(t)
  /\ \/ Cardinality(Pending(t.entries)) <= Cardinality(Pending(s.entries))
     \/ ~DeviceFull /\ Cardinality(Pending(t.entries)) <= Cardinality(Pending(s.entries)) + 1

\* With fewer waiting runs there is room.
LEMMA FewerFit ==
  ASSUME NEW s \in Snapshot, NEW t \in Snapshot, Pending(t.entries) \subseteq Pending(s.entries)
  PROVE  Fits(s, t)
<1>1. /\ Cardinality(Pending(t.entries)) <= Cardinality(Pending(s.entries))
      /\ Cardinality(Pending(t.entries)) \in Nat /\ Cardinality(Pending(s.entries)) \in Nat
  BY PendingFacts, FS_Subset
<1>2. QED
  BY <1>1, InboxAssumption DEF Fits, Bounded

\* One more waiting run, where the Circle and the device have a place.
LEMMA OneMoreFits ==
  ASSUME NEW s \in Snapshot, NEW t \in Snapshot, NEW n, NEW P \in SUBSET Pending(s.entries),
         Pending(t.entries) \subseteq P \cup {n}, ~DeviceFull,
         Bounded(s) => Cardinality(P) < CircleLimit
  PROVE  Fits(s, t)
<1>1. /\ IsFiniteSet(P) /\ Cardinality(P) \in Nat
      /\ Cardinality(P) <= Cardinality(Pending(s.entries))
      /\ Cardinality(Pending(s.entries)) \in Nat /\ Cardinality(Pending(t.entries)) \in Nat
  BY PendingFacts, FS_Subset, FS_CardinalityType
<1>2. IsFiniteSet(P \cup {n}) /\ Cardinality(P \cup {n}) \in {Cardinality(P), Cardinality(P) + 1}
  BY <1>1, FS_AddElement
<1>3. Cardinality(Pending(t.entries)) <= Cardinality(P \cup {n})
  BY <1>2, FS_Subset
<1>4. Cardinality(Pending(t.entries)) <= Cardinality(P) + 1
  BY <1>1, <1>2, <1>3
<1>5. QED
  BY <1>1, <1>4, InboxAssumption DEF Fits, Bounded

\* Setting a status other than Pending takes runs out of the queue.
LEMMA WithStatusQueue ==
  ASSUME NEW s \in Snapshot, NEW runs, NEW status \in Status \ {"Pending"}
  PROVE  /\ Pending(WithStatus(s, runs, status).entries) = Pending(s.entries) \ runs
         /\ Fits(s, WithStatus(s, runs, status))
<1> DEFINE t == WithStatus(s, runs, status)
<1>1. /\ t \in Snapshot
      /\ DOMAIN t.entries = DOMAIN s.entries
      /\ \A i \in DOMAIN s.entries :
           /\ i \in runs => t.entries[i].status = status
           /\ i \notin runs => t.entries[i] = s.entries[i]
  BY WithStatusFacts
<1> HIDE DEF t
<1>2. Pending(t.entries) = Pending(s.entries) \ runs
  BY <1>1 DEF Pending
<1>3. Fits(s, t)
  BY <1>1, <1>2, FewerFit
<1>4. QED
  BY <1>2, <1>3 DEF t

\* A run that is appended waits, or does not.
LEMMA WithEntryQueue ==
  ASSUME NEW s \in Snapshot, NEW req \in Request, NEW status \in Status
  PROVE  /\ Pending(WithEntry(s, req, status).entries) \subseteq Pending(s.entries) \cup {Len(s.entries) + 1}
         /\ status # "Pending" => Fits(s, WithEntry(s, req, status))
<1> DEFINE t == WithEntry(s, req, status)
           n == Len(s.entries) + 1
<1>1. /\ t \in Snapshot
      /\ DOMAIN t.entries = DOMAIN s.entries \cup {n}
      /\ t.entries[n] = [req |-> req, status |-> status]
      /\ \A i \in DOMAIN s.entries : t.entries[i] = s.entries[i]
  BY WithEntryFacts
<1> HIDE DEF t, n
<1>2. Pending(t.entries) \subseteq Pending(s.entries) \cup {n}
  BY <1>1 DEF Pending
<1>3. status # "Pending" => Pending(t.entries) \subseteq Pending(s.entries)
  BY <1>1 DEF Pending
<1>4. QED
  BY <1>1, <1>2, <1>3, FewerFit DEF t, n

\* What is displaced leaves the Circle a place, if nothing is refused.
LEMMA DisplacedMakesRoom ==
  ASSUME NEW s \in Snapshot, NEW req \in Request, NEW limit, ~Refused(s, req, limit), Bounded(s)
  PROVE  Cardinality(Pending(s.entries) \ Displaced(s, req, limit)) < CircleLimit
<1> DEFINE queue == Pending(s.entries) \ FromAgent(s, req, limit)
           out == FromCircle(s, req, limit)
           left == Pending(s.entries) \ Displaced(s, req, limit)
<1>1. /\ left = queue \ out /\ IsFiniteSet(queue) /\ Cardinality(queue) \in Nat
      /\ Cardinality(queue) <= CircleLimit
  BY PendingFacts, FS_Subset, FS_CardinalityType, InboxAssumption DEF Displaced, Bounded
<1>2. CircleLimit \in Nat \ {0}
  BY InboxAssumption
<1>3. CASE Cardinality(queue) < CircleLimit
  <2>1. IsFiniteSet(left) /\ Cardinality(left) <= Cardinality(queue) /\ Cardinality(left) \in Nat
    BY <1>1, FS_Subset, FS_CardinalityType
  <2>2. QED
    BY <1>1, <1>2, <1>3, <2>1
<1>4. CASE Cardinality(queue) >= CircleLimit
  <2>1. out # {}
    BY <1>4 DEF Refused
  <2>2. out \subseteq queue
    <3>1. queue \subseteq Nat
      BY SnapshotDomain DEF Pending
    <3>2. /\ queue # {} => Min(queue) \in queue
          /\ {i \in queue : s.entries[i].req.ambient} # {} => Min({i \in queue : s.entries[i].req.ambient}) \in queue
      BY <3>1, MinIsMember
    <3> HIDE DEF queue
    <3>3. MakeRoom(s.entries, queue, req.ambient) \subseteq queue
      BY <3>2 DEF MakeRoom
    <3>4. QED
      BY <3>3 DEF FromCircle, queue
  <2>3. PICK i \in out : TRUE
    BY <2>1
  <2>4. /\ IsFiniteSet(queue \ {i}) /\ Cardinality(queue \ {i}) = Cardinality(queue) - 1
    BY <1>1, <2>2, FS_RemoveElement
  <2>5. IsFiniteSet(left) /\ Cardinality(left) <= Cardinality(queue \ {i}) /\ Cardinality(left) \in Nat
    BY <1>1, <2>4, FS_Subset, FS_CardinalityType
  <2>6. Cardinality(left) < CircleLimit
    <3> HIDE DEF queue, left, out
    <3> QED  BY <1>1, <1>2, <2>4, <2>5
  <2>7. QED
    BY <2>6
<1> HIDE DEF queue, left
<1>5. QED
  BY <1>1, <1>2, <1>3, <1>4 DEF left

\* Shares of finitely many Circles make a finite count.
LEMMA SharesFinite ==
  ASSUME NEW f \in [Circles -> Nat]
  PROVE  LET all == UNION {{c} \X (1 .. f[c]) : c \in Circles}
         IN IsFiniteSet(all) /\ Cardinality(all) \in Nat
<1> DEFINE share == [c \in Circles |-> {c} \X (1 .. f[c])]
           shares == {{c} \X (1 .. f[c]) : c \in Circles}
<1>1. share \in Surjection(Circles, shares)
  BY DEF Surjection
<1>2. IsFiniteSet(shares)
  BY <1>1, FS_Surjection, InboxAssumption
<1>3. ASSUME NEW c \in Circles PROVE IsFiniteSet({c} \X (1 .. f[c]))
  <2>1. IsFiniteSet({c})
    BY FS_Singleton
  <2>2. IsFiniteSet(1 .. f[c])
    BY FS_Interval
  <2>3. QED
    BY <2>1, <2>2, FS_Product
<1>4. \A T \in shares : IsFiniteSet(T)
  BY <1>3
<1>5. IsFiniteSet(UNION shares)
  BY <1>2, <1>4, FS_UNION
<1>6. QED
  BY <1>5, FS_CardinalityType

\* The device's count is that of a finite set, before a step and after it.
LEMMA WaitingFacts ==
  /\ aggregate \in [Circles -> Nat] => IsFiniteSet(Waiting) /\ DeviceQueued \in Nat
  /\ aggregate' \in [Circles -> Nat] => IsFiniteSet(Waiting') /\ DeviceQueued' \in Nat
<1>1. aggregate \in [Circles -> Nat] => IsFiniteSet(Waiting) /\ DeviceQueued \in Nat
  BY SharesFinite DEF Waiting, DeviceQueued
<1>2. aggregate' \in [Circles -> Nat] => IsFiniteSet(Waiting') /\ DeviceQueued' \in Nat
  BY SharesFinite DEF Waiting, DeviceQueued
<1>3. QED
  BY <1>1, <1>2

\* The device's count when one Circle's share changes.
LEMMA ShareChanges ==
  ASSUME aggregate \in [Circles -> Nat], NEW c \in Circles, NEW n \in Nat,
         aggregate' = [aggregate EXCEPT ![c] = n]
  PROVE  /\ n <= aggregate[c] => DeviceQueued' <= DeviceQueued
         /\ n <= aggregate[c] + 1 => DeviceQueued' <= DeviceQueued + 1
         /\ DeviceQueued' <= DeviceQueued + n
<1>1. IsFiniteSet(Waiting) /\ DeviceQueued \in Nat /\ DeviceQueued = Cardinality(Waiting)
  BY WaitingFacts DEF DeviceQueued
<1>2. /\ aggregate'[c] = n /\ \A d \in Circles : d # c => aggregate'[d] = aggregate[d]
      /\ aggregate[c] \in Nat /\ DeviceQueued' = Cardinality(Waiting')
  BY DEF DeviceQueued
<1>3. \A w \in Waiting' : w \in Waiting \/ (w[1] = c /\ w[2] \in 1 .. n /\ w = <<w[1], w[2]>>)
  BY <1>2 DEF Waiting
<1>4. \A i \in 1 .. aggregate[c] : <<c, i>> \in Waiting
  BY DEF Waiting
<1>5. ASSUME n <= aggregate[c] PROVE DeviceQueued' <= DeviceQueued
  <2>1. 1 .. n \subseteq 1 .. aggregate[c]
    BY <1>2, <1>5
  <2>2. Waiting' \subseteq Waiting
    BY <1>3, <1>4, <2>1
  <2>3. QED
    BY <1>1, <1>2, <2>2, FS_Subset
<1>6. ASSUME n <= aggregate[c] + 1 PROVE DeviceQueued' <= DeviceQueued + 1
  <2> DEFINE x == <<c, aggregate[c] + 1>>
  <2>1. \A i \in 1 .. n : i \in 1 .. aggregate[c] \/ i = aggregate[c] + 1
    BY <1>2, <1>6
  <2>2. Waiting' \subseteq Waiting \cup {x}
    BY <1>3, <1>4, <2>1
  <2> HIDE DEF x
  <2>3. IsFiniteSet(Waiting \cup {x}) /\ Cardinality(Waiting \cup {x}) \in {DeviceQueued, DeviceQueued + 1}
    BY <1>1, FS_AddElement
  <2>4. Cardinality(Waiting') <= Cardinality(Waiting \cup {x}) /\ Cardinality(Waiting') \in Nat
    BY <2>2, <2>3, FS_Subset, FS_CardinalityType
  <2>5. QED
    BY <1>1, <1>2, <2>3, <2>4
<1>7. DeviceQueued' <= DeviceQueued + n
  <2> DEFINE mine == {c} \X (1 .. n)
  <2>1. IsFiniteSet({c}) /\ Cardinality({c}) = 1
    BY FS_Singleton
  <2>7. IsFiniteSet(1 .. n) /\ Cardinality(1 .. n) = n
    BY FS_Interval
  <2>2. IsFiniteSet(mine) /\ Cardinality(mine) = 1 * n
    BY <2>1, <2>7, FS_Product
  <2>3. Waiting' \subseteq Waiting \cup mine
    BY <1>3
  <2> HIDE DEF mine
  <2>4. /\ IsFiniteSet(Waiting \cup mine) /\ Cardinality(Waiting \cap mine) \in Nat
        /\ Cardinality(Waiting \cup mine) = DeviceQueued + Cardinality(mine) - Cardinality(Waiting \cap mine)
    BY <1>1, <2>2, FS_Union, FS_Subset, FS_CardinalityType
  <2>5. Cardinality(Waiting') <= Cardinality(Waiting \cup mine) /\ Cardinality(Waiting') \in Nat
    BY <2>3, <2>4, FS_Subset, FS_CardinalityType
  <2>6. QED
    BY <1>1, <1>2, <2>2, <2>4, <2>5
<1>8. QED
  BY <1>5, <1>6, <1>7

\* What a new owner keeps waiting fits the device.
LEMMA ReopenedFits ==
  ASSUME NEW s \in Snapshot, DeviceQueued \in Nat, Pending(Reopened(s).entries) # {}
  PROVE  Cardinality(Pending(Reopened(s).entries)) + DeviceQueued <= DeviceLimit
<1> DEFINE r == Recovered(s)
           W == Pending(r.entries)
           K == Pending(Reopened(s).entries)
           Older(i) == {j \in W : j < i}
<1>1. r \in Snapshot
  BY RecoveredFacts
<1>2. K = W \ Surplus(r)
  BY <1>1, WithStatusQueue DEF Reopened, Status, Retryable, Live
<1>3. \A i \in K : ~ (Cardinality(Older(i)) + DeviceQueued >= DeviceLimit)
  BY <1>2 DEF Surplus
<1>4. W \subseteq Nat /\ K \subseteq W /\ IsFiniteSet(W) /\ IsFiniteSet(K) /\ K # {}
  BY <1>1, <1>2, SnapshotDomain, PendingFacts, FS_Subset DEF Pending
<1> HIDE DEF K, W
<1>5. PICK m \in K : \A i \in K : i <= m
  <2>1. Len(r.entries) \in Nat /\ K \in SUBSET (1 .. Len(r.entries))
    BY <1>1, <1>4, SnapshotDomain DEF W, Pending
  <2>2. QED
    BY <1>4, <2>1, MaxIsMember
<1>6. K \subseteq Older(m) \cup {m} /\ m \notin Older(m)
  BY <1>4, <1>5
<1>7. IsFiniteSet(Older(m)) /\ Cardinality(Older(m)) \in Nat
  BY <1>4, FS_Subset, FS_CardinalityType
<1>8. ~ (Cardinality(Older(m)) + DeviceQueued >= DeviceLimit)
  BY <1>3
<1> HIDE DEF Older
<1>9. IsFiniteSet(Older(m) \cup {m}) /\ Cardinality(Older(m) \cup {m}) = Cardinality(Older(m)) + 1
  BY <1>6, <1>7, FS_AddElement
<1>10. Cardinality(K) <= Cardinality(Older(m)) + 1 /\ Cardinality(K) \in Nat
  BY <1>6, <1>9, FS_Subset, FS_CardinalityType
<1>11. Cardinality(K) + DeviceQueued <= DeviceLimit
  BY <1>7, <1>8, <1>10, InboxAssumption
<1>12. QED
  BY <1>11 DEF K

\* The device's count when a Circle that had no share gets one.
LEMMA ShareAdds ==
  ASSUME aggregate \in [Circles -> Nat], NEW c \in Circles, NEW n \in Nat,
         aggregate[c] = 0, aggregate' = [aggregate EXCEPT ![c] = n]
  PROVE  DeviceQueued' >= DeviceQueued + n
<1> DEFINE mine == {c} \X (1 .. n)
<1>1. aggregate' \in [Circles -> Nat] /\ aggregate'[c] = n
      /\ \A d \in Circles : d # c => aggregate'[d] = aggregate[d]
  OBVIOUS
<1>2. /\ IsFiniteSet(Waiting) /\ DeviceQueued \in Nat /\ DeviceQueued = Cardinality(Waiting)
      /\ IsFiniteSet(Waiting') /\ DeviceQueued' \in Nat /\ DeviceQueued' = Cardinality(Waiting')
  BY <1>1, WaitingFacts DEF DeviceQueued
<1>3. IsFiniteSet({c}) /\ Cardinality({c}) = 1
  BY FS_Singleton
<1>4. IsFiniteSet(1 .. n) /\ Cardinality(1 .. n) = n
  BY FS_Interval
<1>5. IsFiniteSet(mine) /\ Cardinality(mine) = 1 * n
  BY <1>3, <1>4, FS_Product
<1>6. Waiting \cap mine = {}
  BY DEF Waiting
<1>7. \A w \in Waiting : w \in Waiting'
  BY <1>1 DEF Waiting
<1>8. \A i \in 1 .. n : <<c, i>> \in Waiting'
  BY <1>1 DEF Waiting
<1>9. Waiting \cup mine \subseteq Waiting'
  BY <1>7, <1>8
<1> HIDE DEF mine
<1>10. /\ IsFiniteSet(Waiting \cup mine) /\ Cardinality(Waiting \cap mine) = 0
       /\ Cardinality(Waiting \cup mine) = DeviceQueued + Cardinality(mine) - Cardinality(Waiting \cap mine)
  BY <1>2, <1>5, <1>6, FS_Union, FS_EmptySet
<1>11. Cardinality(Waiting \cup mine) <= DeviceQueued' /\ Cardinality(Waiting \cup mine) = DeviceQueued + n
  BY <1>2, <1>5, <1>9, <1>10, FS_Subset
<1>12. QED
  BY <1>2, <1>11

\* A new owner gives up an addressed run only when what it keeps, all of it
\* older, fills the device.
LEMMA ReopenedKeepsOldest ==
  ASSUME NEW s \in Snapshot, DeviceQueued \in Nat, NEW i \in Pending(s.entries),
         ~s.entries[i].req.ambient, i \notin Pending(Reopened(s).entries)
  PROVE  /\ Cardinality(Pending(Reopened(s).entries)) + DeviceQueued >= DeviceLimit
         /\ \A j \in Pending(Reopened(s).entries) : j < i
<1> DEFINE r == Recovered(s)
           W == Pending(r.entries)
           K == Pending(Reopened(s).entries)
           Older(k) == {j \in W : j < k}
           S == {k \in W : Cardinality(Older(k)) + DeviceQueued >= DeviceLimit}
<1>1. r \in Snapshot /\ i \in W
  BY RecoveredFacts DEF Pending
<1>2. K = W \ S
  <2>1. S = Surplus(r)
    BY DEF Surplus
  <2>2. QED
    BY <1>1, <2>1, WithStatusQueue DEF Reopened, Status, Retryable, Live
<1>3. W \subseteq Nat /\ K \subseteq W /\ IsFiniteSet(W) /\ IsFiniteSet(K)
  <2>1. W \subseteq Nat
    BY <1>1, SnapshotDomain DEF Pending
  <2>2. IsFiniteSet(W)
    BY <1>1, PendingFacts
  <2> HIDE DEF W, K, S
  <2>3. K \subseteq W
    BY <1>2
  <2>4. QED
    BY <2>1, <2>2, <2>3, FS_Subset
<1>4. i \in S
  BY <1>1, <1>2
<1> HIDE DEF K, W
<1>5. \A k \in W : IsFiniteSet(Older(k)) /\ Cardinality(Older(k)) \in Nat
  <2>1. TAKE k \in W
  <2>2. Older(k) \in SUBSET W
    OBVIOUS
  <2>3. QED
    BY <1>3, <2>2, FS_Subset, FS_CardinalityType
<1>6. ASSUME NEW j \in K PROVE j < i
  <2>1. j \in W /\ ~ (Cardinality(Older(j)) + DeviceQueued >= DeviceLimit)
    BY <1>2
  <2>2. Cardinality(Older(i)) + DeviceQueued >= DeviceLimit
    BY <1>4
  <2>3. CASE i <= j
    <3>1. Older(i) \subseteq Older(j)
      <4>1. i \in Nat /\ j \in Nat
        BY <1>1, <1>3, <2>1
      <4>2. \A x \in W : x < i => x < j
        BY ONLY <1>3, <2>3, <4>1
      <4>3. QED
        BY <4>2
    <3>4. IsFiniteSet(Older(j))
      BY <1>5, <2>1
    <3> HIDE DEF Older
    <3>2. Cardinality(Older(i)) <= Cardinality(Older(j))
      BY <3>1, <3>4, FS_Subset
    <3>3. QED
      BY <1>1, <1>5, <2>1, <2>2, <3>2, InboxAssumption
  <2>4. QED
    BY <1>1, <1>3, <2>1, <2>3
<1>7. S \subseteq Nat /\ S # {}
  BY <1>3, <1>4
<1>8. Min(S) \in S /\ \A y \in S : Min(S) <= y
  BY <1>7, MinIsMember
<1>9. PICK m \in S : \A y \in S : m <= y
  BY <1>8
<1>10. Older(m) \subseteq K
  BY <1>2, <1>3, <1>7, <1>9
<1>11. Cardinality(Older(m)) + DeviceQueued >= DeviceLimit /\ Cardinality(Older(m)) \in Nat
  BY <1>5, <1>9
<1> HIDE DEF Older, S
<1>12. Cardinality(Older(m)) <= Cardinality(K) /\ Cardinality(K) \in Nat
  BY <1>3, <1>10, FS_Subset, FS_CardinalityType
<1>13. Cardinality(K) + DeviceQueued >= DeviceLimit
  BY <1>11, <1>12, InboxAssumption
<1>14. QED
  BY <1>6, <1>13 DEF K

\* From s to t an addressed run expires in the queue only for another one that
\* was appended, and only when its agent has no unaddressed run waiting.
Owed(s, t) ==
  \A i \in DOMAIN s.entries \cap DOMAIN t.entries :
    /\ s.entries[i].status = "Pending" /\ ~s.entries[i].req.ambient
    /\ t.entries[i].status = "Expired"
    => /\ Len(t.entries) = Len(s.entries) + 1
       /\ ~t.entries[Len(t.entries)].req.ambient
       /\ \A j \in PendingOf(t.entries, s.entries[i].req.agent) : ~t.entries[j].req.ambient

\* An addressed run gives way only to an addressed request, and only where no
\* unaddressed one is queued.
LEMMA MakeRoomFacts ==
  ASSUME NEW es, NEW queue \in SUBSET Nat, NEW incoming, NEW i \in MakeRoom(es, queue, incoming),
         ~es[i].req.ambient
  PROVE  i \in queue /\ ~incoming /\ \A j \in queue : ~es[j].req.ambient
<1> DEFINE ambients == {j \in queue : es[j].req.ambient}
<1>1. ambients # {} => Min(ambients) \in ambients
  BY MinIsMember
<1>2. queue # {} => Min(queue) \in queue
  BY MinIsMember
<1>3. ambients = {}
  <2>1. SUFFICES ASSUME ambients # {} PROVE FALSE
    OBVIOUS
  <2>2. MakeRoom(es, queue, incoming) = {Min(ambients)}
    BY <2>1 DEF MakeRoom
  <2>3. QED
    BY <1>1, <2>1, <2>2
<1>4. ~incoming /\ queue # {} /\ MakeRoom(es, queue, incoming) = {Min(queue)}
  BY <1>3 DEF MakeRoom
<1>5. QED
  BY <1>2, <1>3, <1>4

\* What an admission displaces, it owes to nobody.
LEMMA AdmissionOwes ==
  ASSUME NEW s \in Snapshot, NEW req \in Request, NEW limit, NEW t,
         DOMAIN t.entries = DOMAIN s.entries \cup {Len(s.entries) + 1},
         Len(t.entries) = Len(s.entries) + 1,
         t.entries[Len(s.entries) + 1].req = req,
         \A i \in DOMAIN s.entries : t.entries[i].req = s.entries[i].req,
         \A i \in Displaced(s, req, limit) : t.entries[i].status = "Expired",
         \A i \in DOMAIN s.entries \ Displaced(s, req, limit) :
           t.entries[i].status = s.entries[i].status
  PROVE  Owed(s, t)
<1> DEFINE n == Len(s.entries) + 1
<1>1. SUFFICES ASSUME NEW i \in DOMAIN s.entries, i \in Displaced(s, req, limit),
                      ~s.entries[i].req.ambient
               PROVE  /\ ~req.ambient
                      /\ \A j \in PendingOf(t.entries, s.entries[i].req.agent) :
                           ~t.entries[j].req.ambient
  BY DEF Owed
<1>2. \A j \in Pending(t.entries) :
        \/ j = n
        \/ j \in Pending(s.entries) \ Displaced(s, req, limit) /\ t.entries[j].req = s.entries[j].req
  BY DEF Pending
<1>3. Pending(s.entries) \subseteq Nat
  BY SnapshotDomain DEF Pending
<1>4. CASE i \in FromAgent(s, req, limit)
  <2> DEFINE queue == PendingOf(s.entries, req.agent)
  <2>1. queue \subseteq Nat
    BY <1>3 DEF PendingOf
  <2>2. i \in MakeRoom(s.entries, queue, req.ambient)
    BY <1>4 DEF FromAgent
  <2>3. i \in queue /\ ~req.ambient /\ \A j \in queue : ~s.entries[j].req.ambient
    <3> HIDE DEF queue
    <3> QED  BY <1>1, <2>1, <2>2, MakeRoomFacts
  <2>4. s.entries[i].req.agent = req.agent
    BY <2>3 DEF PendingOf
  <2>5. QED
    BY <1>2, <2>3, <2>4 DEF PendingOf
<1>5. CASE i \in FromCircle(s, req, limit)
  <2> DEFINE queue == Pending(s.entries) \ FromAgent(s, req, limit)
  <2>1. queue \subseteq Nat
    BY <1>3
  <2>2. i \in MakeRoom(s.entries, queue, req.ambient)
    BY <1>5 DEF FromCircle
  <2>3. ~req.ambient /\ \A j \in queue : ~s.entries[j].req.ambient
    <3> HIDE DEF queue
    <3> QED  BY <1>1, <2>1, <2>2, MakeRoomFacts
  <2>4. Pending(s.entries) \ Displaced(s, req, limit) \subseteq queue
    BY DEF Displaced
  <2>5. QED
    BY <1>2, <2>3, <2>4 DEF PendingOf
<1>6. QED
  BY <1>1, <1>4, <1>5 DEF Displaced

-----------------------------------------------------------------------------
(* What the operations write                                               *)

\* One operation of the owner of c writes `next`: what all of them have in
\* common.  Only a claim that reached the disk hands a turn to an agent.
Writes(c, next) ==
  /\ CanWrite(c)
  /\ Evolves(mem[c], next)
  /\ Fits(mem[c], next)
  /\ Owed(mem[c], next)
  /\ OneLive(mem[c]) => OneLive(next)
  /\ Paid(mem[c]) => Paid(next)
  /\ Committed(c, next) \/ WriteFailed(c, next)
  /\ UNCHANGED <<owned, perAgent>>
  /\ \A i \in DOMAIN mem[c].entries :
       next.entries[i].status = "Pending" =>
         mem[c].entries[i].status = "Pending" \/ <<c, i>> \notin executed'
  /\ \/ executed' \subseteq executed
     \/ \E i \in DOMAIN mem[c].entries :
          /\ executed' = executed \cup {<<c, i>>}
          /\ Committed(c, next)
          /\ next.entries[i].status # "Pending"

\* admit writes a snapshot that keeps the invariant.
LEMMA AdmitWrites ==
  ASSUME TypeOK, NEW c \in Circles, NEW req \in Offers, NEW max \in RelayTurns,
         Admit(c, req, max)
  PROVE  \E next : Writes(c, next)
<1> DEFINE s == mem[c]
           n == Len(s.entries) + 1
<1>1. s \in Snapshot /\ req \in Request /\ max \in Nat
  BY InboxAssumption DEF TypeOK
<1>2. \A j \in DOMAIN s.entries : Key(s.entries[j].req) # Key(req)
  BY DEF Admit, Known
<1>3. ASSUME NEW status \in {"Expired", "Cancelled"}, Commit(c, WithEntry(s, req, status))
      PROVE  Writes(c, WithEntry(s, req, status))
  <2> status \in Status
    BY DEF Status, Retryable
  <2>1. Evolves(s, WithEntry(s, req, status))
        /\ (OneLive(s) => OneLive(WithEntry(s, req, status)))
    BY <1>1, <1>2, WithEntryEvolves
  <2>2. \A i \in DOMAIN s.entries : WithEntry(s, req, status).entries[i] = s.entries[i]
    BY <1>1, WithEntryFacts
  <2>3. Paid(s) => Paid(WithEntry(s, req, status))
    BY <1>1, IdleEntryPaid
  <2>5. Fits(s, WithEntry(s, req, status))
    BY <1>1, WithEntryQueue
  <2>6. Owed(s, WithEntry(s, req, status))
    BY <2>2 DEF Owed
  <2>4. QED
    BY <1>3, <2>1, <2>2, <2>3, <2>5, <2>6 DEF Writes, Admit, Commit
<1>4. CASE AdmitExpired(c, req)
  BY <1>3, <1>4 DEF AdmitExpired
<1>5. CASE AdmitOverBudget(c, req, max)
  BY <1>3, <1>5 DEF AdmitOverBudget
<1>6. CASE AdmitPending(c, req, max)
  <2> DEFINE out  == Displaced(s, req, perAgent[c])
             kept == WithStatus(s, out, "Expired")
             t    == WithEntry(kept, req, "Pending")
             ch   == Charge(Refunded(c, req), req)
             next == [t EXCEPT !.charges = ch]
  <2>1. out \subseteq Pending(s.entries) /\ IsFiniteSet(out)
    BY <1>1, DisplacedFacts
  <2>2. ch \in [Roots -> 0 .. Ceiling]
    BY <1>1, <1>6, <2>1, RefundFacts, ChargeFacts DEF AdmitPending, Refunded
  <2>3. /\ kept \in Snapshot
        /\ Len(kept.entries) = Len(s.entries)
        /\ DOMAIN kept.entries = DOMAIN s.entries
        /\ \A i \in DOMAIN s.entries :
             /\ kept.entries[i].req = s.entries[i].req
             /\ kept.entries[i].status = "Pending" => s.entries[i].status = "Pending"
    BY <1>1, WithStatusFacts DEF Status, Retryable
  <2>4. Evolves(s, kept) /\ (OneLive(s) => OneLive(kept))
    BY <1>1, <2>1, WithStatusEvolves DEF Status, Retryable, Pending, Live
  <2>5. Evolves(kept, t) /\ (OneLive(kept) => OneLive(t))
    <3>1. \A j \in DOMAIN kept.entries : Key(kept.entries[j].req) # Key(req)
      BY <1>2, <2>3
    <3> HIDE DEF kept
    <3>2. QED
      BY <1>1, <2>3, <3>1, WithEntryEvolves DEF Status, Live
  <2>6. \A i \in DOMAIN s.entries : t.entries[i] = kept.entries[i]
    <3> HIDE DEF kept
    <3>1. "Pending" \in Status
      BY DEF Status, Live
    <3>2. \A i \in DOMAIN kept.entries : t.entries[i] = kept.entries[i]
      BY <1>1, <2>3, <3>1, WithEntryFacts
    <3>3. QED
      BY <2>3, <3>2
  <2>7. /\ Evolves(s, next) /\ (OneLive(s) => OneLive(next))
        /\ next.entries = t.entries
    <3> HIDE DEF kept, t, ch
    <3> QED  BY <1>1, <2>2, <2>4, <2>5, EvolvesTransitive, WithChargesFacts
  <2>8. Commit(c, next)
    BY <1>6 DEF AdmitPending
  <2>9. Paid(s) => Paid(next)
    <3> SUFFICES ASSUME Paid(s) PROVE Paid(next)
      OBVIOUS
    <3>1. Refunded(c, req) = Refund(s, out)
      BY DEF Refunded
    <3>2. Refund(s, out) \in [Roots -> 0 .. Ceiling]
      BY <1>1, <2>1, RefundFacts
    <3>3. \A r \in Roots : Cardinality(Turns(kept, r)) <= Refund(s, out)[r]
      BY <1>1, <2>1, RefundPaid
    <3>4. HasBudget(Refund(s, out), req, max)
      BY <1>6, <3>1 DEF AdmitPending
    <3> HIDE DEF kept, out
    <3>5. QED
      BY <1>1, <2>3, <3>1, <3>2, <3>3, <3>4, ChargedEntryPaid
  <2>12. Fits(s, next)
    <3>1. ~DeviceFull /\ ~Refused(s, req, perAgent[c])
      BY <1>6 DEF AdmitPending, Full
    <3>2. Pending(kept.entries) = Pending(s.entries) \ out
      BY <1>1, WithStatusQueue DEF Status, Retryable
    <3>3. Pending(t.entries) \subseteq Pending(kept.entries) \cup {Len(kept.entries) + 1}
      <4> HIDE DEF kept
      <4> QED  BY <1>1, <2>3, WithEntryQueue DEF Status, Live
    <3>4. Bounded(s) => Cardinality(Pending(s.entries) \ out) < CircleLimit
      BY <1>1, <3>1, DisplacedMakesRoom
    <3>5. next \in Snapshot
      BY <2>7 DEF Evolves
    <3> HIDE DEF kept, t, ch, next, out
    <3>6. Pending(next.entries) = Pending(t.entries)
      BY <2>7 DEF Pending
    <3>7. QED
      BY <1>1, <3>1, <3>2, <3>3, <3>4, <3>5, <3>6, OneMoreFits
  <2>13. Owed(s, next)
    <3>1. /\ DOMAIN t.entries = DOMAIN kept.entries \cup {Len(kept.entries) + 1}
          /\ Len(t.entries) = Len(kept.entries) + 1
          /\ t.entries[Len(kept.entries) + 1] = [req |-> req, status |-> "Pending"]
      <4> HIDE DEF kept
      <4> QED  BY <1>1, <2>3, WithEntryFacts DEF Status, Live
    <3>2. \A i \in DOMAIN s.entries :
            /\ i \in out => kept.entries[i].status = "Expired"
            /\ i \notin out => kept.entries[i].status = s.entries[i].status
      BY <1>1, WithStatusFacts DEF Status, Retryable
    <3>7. out \subseteq DOMAIN s.entries
      BY <2>1 DEF Pending
    <3> HIDE DEF kept, t, ch, next, out
    <3>3. /\ DOMAIN next.entries = DOMAIN s.entries \cup {Len(s.entries) + 1}
          /\ Len(next.entries) = Len(s.entries) + 1
          /\ next.entries[Len(s.entries) + 1].req = req
      BY <2>3, <2>7, <3>1
    <3>4. /\ \A i \in DOMAIN s.entries : next.entries[i].req = s.entries[i].req
          /\ \A i \in out : next.entries[i].status = "Expired"
          /\ \A i \in DOMAIN s.entries \ out : next.entries[i].status = s.entries[i].status
      BY <2>3, <2>6, <2>7, <3>2, <3>7
    <3>5. out = Displaced(s, req, perAgent[c])
      BY DEF out
    <3> HIDE DEF s, n
    <3>6. QED
      BY <1>1, <3>3, <3>4, <3>5, AdmissionOwes
  <2> HIDE DEF kept, t, ch, next, out
  <2>10. Writes(c, next)
    BY <2>3, <2>6, <2>7, <2>8, <2>9, <2>12, <2>13 DEF Writes, Admit, Commit
  <2>11. QED
    BY <2>10
<1>7. QED
  BY <1>4, <1>5, <1>6 DEF Admit

\* retry writes a snapshot that keeps the invariant.
LEMMA RetryWrites ==
  ASSUME TypeOK, NEW c \in Circles, NEW max \in RelayTurns, NEW i \in Runs(c),
         Retry(c, i, max)
  PROVE  \E next : Writes(c, next)
<1> DEFINE s    == mem[c]
           req  == s.entries[i].req
           t    == WithEntry(s, req, "Pending")
           ch   == Charge(s.charges, req)
           next == [t EXCEPT !.charges = ch]
<1>1. s \in Snapshot /\ req \in Request /\ max \in Nat
  BY InboxAssumption, SnapshotDomain DEF TypeOK, Runs, Entry
<1>2. "Pending" \in Status
  BY DEF Status, Live
<1>3. \A j \in DOMAIN s.entries :
        Key(s.entries[j].req) = Key(req) => s.entries[j].status \notin Live
  BY DEF Retry
<1>4. ch \in [Roots -> 0 .. Ceiling]
  BY <1>1, SnapshotDomain, ChargeFacts DEF Retry
<1>5. \A j \in DOMAIN s.entries : t.entries[j] = s.entries[j]
  BY <1>1, <1>2, WithEntryFacts
<1>6. Evolves(s, t) /\ (OneLive(s) => OneLive(t))
  BY <1>1, <1>2, <1>3, WithEntryEvolves
<1>7. /\ Evolves(s, next) /\ (OneLive(s) => OneLive(next))
      /\ next.entries = t.entries
  <2> HIDE DEF t, ch
  <2> QED  BY <1>1, <1>4, <1>6, WithChargesFacts
<1>8. Commit(c, next) /\ CanWrite(c) /\ UNCHANGED executed
  BY DEF Retry
<1>9. Paid(s) => Paid(next)
  <2>1. s.charges \in [Roots -> 0 .. Ceiling] /\ HasBudget(s.charges, req, max)
    BY <1>1, SnapshotDomain DEF Retry
  <2>2. QED
    BY <1>1, <2>1, ChargedEntryPaid DEF Paid
<1>12. Fits(s, next)
  <2>1. ~DeviceFull /\ Cardinality(Pending(s.entries)) < CircleLimit
    BY DEF Retry
  <2>2. Pending(t.entries) \subseteq Pending(s.entries) \cup {Len(s.entries) + 1}
    BY <1>1, <1>2, WithEntryQueue
  <2>3. next \in Snapshot
    BY <1>7 DEF Evolves
  <2> HIDE DEF t, ch, next
  <2>4. Pending(next.entries) = Pending(t.entries)
    BY <1>7 DEF Pending
  <2>5. QED
    BY <1>1, <2>1, <2>2, <2>3, <2>4, OneMoreFits
<1> HIDE DEF t, ch, next
<1>13. Owed(s, next)
  BY <1>5, <1>7 DEF Owed
<1>10. Writes(c, next)
  BY <1>5, <1>7, <1>8, <1>9, <1>12, <1>13 DEF Writes, Commit
<1>11. QED
  BY <1>10

\* record_suppressed writes a snapshot that keeps the invariant.
LEMMA RecordSuppressedWrites ==
  ASSUME TypeOK, NEW c \in Circles, NEW req \in Offers, RecordSuppressed(c, req)
  PROVE  \E next : Writes(c, next)
<1> DEFINE s    == mem[c]
           next == WithEntry(s, req, "LegacySuppressed")
<1>1. s \in Snapshot /\ req \in Request
  BY InboxAssumption DEF TypeOK
<1>2. "LegacySuppressed" \in Status \ Live
  BY DEF Status, Live, Retryable
<1>3. Evolves(s, next) /\ (OneLive(s) => OneLive(next))
  BY <1>1, <1>2, WithEntryEvolves
<1>4. \A j \in DOMAIN s.entries : next.entries[j] = s.entries[j]
  BY <1>1, <1>2, WithEntryFacts
<1>5. Commit(c, next) /\ CanWrite(c) /\ UNCHANGED executed
  BY DEF RecordSuppressed
<1>6. Paid(s) => Paid(next)
  BY <1>1, IdleEntryPaid
<1>9. Fits(s, next)
  BY <1>1, <1>2, WithEntryQueue DEF Live
<1> HIDE DEF next
<1>10. Owed(s, next)
  BY <1>4 DEF Owed
<1>7. Writes(c, next)
  BY <1>3, <1>4, <1>5, <1>6, <1>9, <1>10 DEF Writes, Commit
<1>8. QED
  BY <1>7

\* A transition of one live run, seen as a write.
LEMMA TransitionFacts ==
  ASSUME TypeOK, NEW c \in Circles, NEW i \in Runs(c), NEW status \in Status,
         mem[c].entries[i].status \in Live
  PROVE  LET next == WithStatus(mem[c], {i}, status)
         IN /\ Evolves(mem[c], next)
            /\ OneLive(mem[c]) => OneLive(next)
            /\ Paid(mem[c]) => Paid(next)
            /\ next.entries[i].status = status
            /\ \A j \in Runs(c) \ {i} : next.entries[j] = mem[c].entries[j]
            /\ status # "Pending" => Fits(mem[c], next)
            /\ \/ mem[c].entries[i].status = "Pending" /\ status # "Expired"
               \/ mem[c].entries[i].status = "Running"
               => Owed(mem[c], next)
<1>1. mem[c] \in Snapshot
  BY DEF TypeOK
<1>2. status # "Pending" => Fits(mem[c], WithStatus(mem[c], {i}, status))
  BY <1>1, WithStatusQueue
<1> DEFINE next == WithStatus(mem[c], {i}, status)
<1>3. /\ DOMAIN next.entries = DOMAIN mem[c].entries
      /\ next.entries[i].status = status
      /\ \A j \in Runs(c) \ {i} : next.entries[j] = mem[c].entries[j]
  BY <1>1, WithStatusFacts DEF Runs
<1>4. \/ mem[c].entries[i].status = "Pending" /\ status # "Expired"
      \/ mem[c].entries[i].status = "Running"
      => Owed(mem[c], next)
  <2> HIDE DEF next
  <2> QED  BY <1>3 DEF Owed, Runs
<1>5. QED
  BY <1>1, <1>2, <1>3, <1>4, WithStatusFacts, WithStatusEvolves, WithStatusPaid DEF Runs

\* Pending -> Running keeps the invariant.
LEMMA LaunchWrites ==
  ASSUME TypeOK, NEW c \in Circles, NEW i \in Runs(c), Launch(c, i)
  PROVE  \E next : Writes(c, next)
<1> DEFINE next == WithStatus(mem[c], {i}, "Running")
<1>1. /\ mem[c].entries[i].status = "Pending"
      /\ mem[c].entries[i].status \in Live /\ "Running" \in Status
  BY DEF Launch, At, Live, Status
<1>2. /\ Evolves(mem[c], next)
      /\ OneLive(mem[c]) => OneLive(next)
      /\ Paid(mem[c]) => Paid(next)
      /\ next.entries[i].status = "Running"
      /\ \A j \in Runs(c) \ {i} : next.entries[j] = mem[c].entries[j]
      /\ Fits(mem[c], next)
      /\ Owed(mem[c], next)
  BY <1>1, TransitionFacts
<1>3. /\ CanWrite(c)
      /\ UNCHANGED <<owned, perAgent>>
      /\ \/ Committed(c, next) /\ executed' = executed \cup {<<c, i>>}
         \/ WriteFailed(c, next) /\ UNCHANGED executed
  BY DEF Launch
<1> HIDE DEF next
<1>4. Writes(c, next)
  BY <1>2, <1>3 DEF Writes, Runs
<1>5. QED
  BY <1>4

\* Pending -> Cancelled keeps the invariant.
LEMMA CancelWrites ==
  ASSUME TypeOK, NEW c \in Circles, NEW i \in Runs(c), Cancel(c, i)
  PROVE  \E next : Writes(c, next)
<1> DEFINE next == WithStatus(mem[c], {i}, "Cancelled")
<1>1. /\ mem[c].entries[i].status = "Pending"
      /\ mem[c].entries[i].status \in Live /\ "Cancelled" \in Status
  BY DEF Cancel, At, Live, Status, Retryable
<1>2. /\ Evolves(mem[c], next)
      /\ OneLive(mem[c]) => OneLive(next)
      /\ Paid(mem[c]) => Paid(next)
      /\ next.entries[i].status = "Cancelled"
      /\ \A j \in Runs(c) \ {i} : next.entries[j] = mem[c].entries[j]
      /\ Fits(mem[c], next)
      /\ Owed(mem[c], next)
  BY <1>1, TransitionFacts
<1>3. CanWrite(c) /\ Commit(c, next) /\ UNCHANGED executed
  BY DEF Cancel
<1> HIDE DEF next
<1>4. Writes(c, next)
  BY <1>2, <1>3 DEF Writes, Runs, Commit
<1>5. QED
  BY <1>4

\* The end of a running turn keeps the invariant.
LEMMA FinishWrites ==
  ASSUME TypeOK, NEW c \in Circles, NEW i \in Runs(c),
         NEW status \in {"Completed", "Failed", "Cancelled"}, Finish(c, i, status)
  PROVE  \E next : Writes(c, next)
<1> DEFINE next == WithStatus(mem[c], {i}, status)
<1>1. /\ mem[c].entries[i].status = "Running"
      /\ mem[c].entries[i].status \in Live /\ status \in Status \ {"Pending"}
  BY DEF Finish, At, Live, Status, Retryable
<1>2. /\ Evolves(mem[c], next)
      /\ OneLive(mem[c]) => OneLive(next)
      /\ Paid(mem[c]) => Paid(next)
      /\ next.entries[i].status = status
      /\ \A j \in Runs(c) \ {i} : next.entries[j] = mem[c].entries[j]
      /\ Fits(mem[c], next)
      /\ Owed(mem[c], next)
  BY <1>1, TransitionFacts
<1>3. CanWrite(c) /\ Commit(c, next) /\ UNCHANGED executed
  BY DEF Finish
<1> HIDE DEF next
<1>4. Writes(c, next)
  BY <1>1, <1>2, <1>3 DEF Writes, Runs, Commit
<1>5. QED
  BY <1>4

\* Going back to waiting is the one write that makes a run wait again, and
\* it takes the run out of those handed to an agent.
LEMMA RequeueWrites ==
  ASSUME TypeOK, NEW c \in Circles, NEW i \in Runs(c), Requeue(c, i)
  PROVE  \E next : Writes(c, next)
<1>1. mem[c].entries[i].status = "Running" /\ mem[c].entries[i].status \in Live
  BY DEF Requeue, At, Live
<1>2. PICK status \in {"Pending", "Expired"} :
        /\ Commit(c, WithStatus(mem[c], {i}, status))
        /\ status = "Pending" => ~OverCapacity(c, i)
  BY DEF Requeue
<1>3. status \in Status
  BY DEF Status, Live, Retryable
<1> DEFINE next == WithStatus(mem[c], {i}, status)
<1>4. /\ Evolves(mem[c], next)
      /\ OneLive(mem[c]) => OneLive(next)
      /\ Paid(mem[c]) => Paid(next)
      /\ \A j \in Runs(c) \ {i} : next.entries[j] = mem[c].entries[j]
      /\ Owed(mem[c], next)
  BY <1>1, <1>3, TransitionFacts
<1>5. CanWrite(c) /\ Commit(c, next) /\ executed' = executed \ {<<c, i>>}
  BY <1>2 DEF Requeue
<1>8. Fits(mem[c], next)
  <2>1. CASE status # "Pending"
    BY <1>1, <1>3, <2>1, TransitionFacts
  <2>2. CASE status = "Pending"
    <3>1. Bounded(next) /\ ~DeviceFull
      <4>1. ~ (Cardinality(Pending(next.entries)) > CircleLimit) /\ ~DeviceFull
        BY <1>2, <2>2 DEF OverCapacity
      <4>2. next \in Snapshot
        BY <1>4 DEF Evolves
      <4> HIDE DEF next
      <4>3. QED
        BY <4>1, <4>2, PendingFacts, InboxAssumption DEF Bounded
    <3>2. mem[c] \in Snapshot
      BY DEF TypeOK
    <3>3. Pending(next.entries) \subseteq Pending(mem[c].entries) \cup {i}
      BY <1>3, <3>2, WithStatusFacts DEF Pending
    <3> HIDE DEF next
    <3>4. /\ IsFiniteSet(Pending(mem[c].entries) \cup {i})
          /\ Cardinality(Pending(mem[c].entries)) \in Nat
          /\ Cardinality(Pending(mem[c].entries) \cup {i})
               \in {Cardinality(Pending(mem[c].entries)), Cardinality(Pending(mem[c].entries)) + 1}
      BY <3>2, PendingFacts, FS_AddElement
    <3>5. /\ Cardinality(Pending(next.entries)) <= Cardinality(Pending(mem[c].entries) \cup {i})
          /\ Cardinality(Pending(next.entries)) \in Nat
      BY <3>3, <3>4, FS_Subset, FS_CardinalityType
    <3>6. QED
      BY <3>1, <3>4, <3>5 DEF Fits
  <2>3. QED
    BY <2>1, <2>2
<1> HIDE DEF next
<1>6. Writes(c, next)
  BY <1>4, <1>5, <1>8 DEF Writes, Runs, Commit
<1>7. QED
  BY <1>6

-----------------------------------------------------------------------------
(* The inductive invariant                                                 *)

\* A run that was handed to an agent is in the file: a restart will know it.
ExecutedOnDisk ==
  \A run \in executed : run[2] \in DOMAIN disk[run[1]].entries

Inv ==
  /\ TypeOK
  /\ AckedIsDurable
  /\ OneLiveAttempt
  /\ NeverReplayed
  /\ AggregateExact
  /\ QueuesBounded
  /\ CascadePaid
  /\ ExecutedOnDisk

\* An inbox that was never written satisfies what is asked of a snapshot.
LEMMA FreshFacts ==
  /\ Fresh \in Snapshot
  /\ DOMAIN Fresh.entries = {}
  /\ Pending(Fresh.entries) = {}
  /\ Paid(Fresh)
  /\ Bounded(Fresh)
<1>1. Fresh \in Snapshot
  BY InboxAssumption DEF Fresh, Snapshot
<1>2. DOMAIN Fresh.entries = {} /\ Pending(Fresh.entries) = {}
  BY DEF Fresh, Pending
<1>3. Paid(Fresh)
  <2>1. \A r \in Roots : Turns(Fresh, r) = {}
    BY <1>2 DEF Turns
  <2>2. \A r \in Roots : Cardinality(Turns(Fresh, r)) = 0
    BY <2>1, FS_EmptySet
  <2>3. \A r \in Roots : Fresh.charges[r] = 0
    BY DEF Fresh
  <2>4. QED
    BY <2>2, <2>3 DEF Paid
<1>4. Bounded(Fresh)
  BY <1>2, FS_EmptySet, InboxAssumption DEF Bounded
<1>5. QED
  BY <1>1, <1>2, <1>3, <1>4

\* The invariant holds when the process starts.
LEMMA InitInv ==
  ASSUME Init
  PROVE  Inv
<1>1. TypeOK
  BY FreshFacts DEF Init, TypeOK
<1>2. AckedIsDurable
  BY DEF Init, AckedIsDurable, CanWrite
<1>3. OneLiveAttempt
  BY FreshFacts DEF Init, OneLiveAttempt
<1>4. NeverReplayed /\ ExecutedOnDisk
  BY DEF Init, NeverReplayed, ExecutedOnDisk
<1>5. AggregateExact
  BY DEF Init, AggregateExact
<1>6. CascadePaid
  BY FreshFacts DEF Init, CascadePaid, Paid
<1>7. QueuesBounded
  <2>1. \A c \in Circles : Bounded(mem[c]) /\ Bounded(disk[c])
    BY FreshFacts DEF Init
  <2>2. Waiting = {}
    BY DEF Init, Waiting
  <2>3. DeviceQueued = 0
    BY <2>2, FS_EmptySet DEF DeviceQueued
  <2>4. QED
    BY <2>1, <2>3, InboxAssumption DEF QueuesBounded, Bounded
<1>8. QED
  BY <1>1, <1>2, <1>3, <1>4, <1>5, <1>6, <1>7 DEF Inv

\* A step that hands a good snapshot to persist keeps the invariant,
\* whether the write succeeds, fails, or fails after the rename.
LEMMA WritesInv ==
  ASSUME Inv, NEW c \in Circles, NEW next, Writes(c, next)
  PROVE  Inv'
<1>1. /\ disk[c] = mem[c]
      /\ owned[c] /\ healthy[c]
      /\ mem[c] \in Snapshot /\ next \in Snapshot
      /\ Cardinality(Pending(next.entries)) \in Nat
  BY PendingFacts DEF Inv, AckedIsDurable, TypeOK, Writes, CanWrite, Evolves
<1>2. /\ owned' = owned /\ perAgent' = perAgent
      /\ disk' \in {disk, [disk EXCEPT ![c] = next]}
      /\ mem' \in {mem, [mem EXCEPT ![c] = next]}
      /\ \A d \in Circles \ {c} : disk'[d] = disk[d] /\ mem'[d] = mem[d]
      /\ disk'[c] \in {disk[c], next} /\ mem'[c] \in {mem[c], next}
      /\ DOMAIN disk[c].entries \subseteq DOMAIN disk'[c].entries
  BY <1>1 DEF Writes, Committed, WriteFailed, Inv, TypeOK, Evolves
<1>3. TypeOK'
  <2>1. mem' \in [Circles -> Snapshot] /\ disk' \in [Circles -> Snapshot]
    BY <1>1, <1>2 DEF Inv, TypeOK
  <2>2. healthy' \in [Circles -> BOOLEAN] /\ aggregate' \in [Circles -> Nat]
    BY <1>1 DEF Writes, Committed, WriteFailed, Inv, TypeOK
  <2>3. executed' \subseteq Circles \X (Nat \ {0})
    BY <1>1, SnapshotDomain DEF Writes, Inv, TypeOK
  <2>4. QED
    BY <1>2, <2>1, <2>2, <2>3 DEF Inv, TypeOK
<1>4. AckedIsDurable'
  <2>1. CASE Committed(c, next)
    BY <1>2, <2>1 DEF Committed, Inv, TypeOK, AckedIsDurable, CanWrite
  <2>2. CASE WriteFailed(c, next)
    BY <1>2, <2>2 DEF WriteFailed, Inv, TypeOK, AckedIsDurable, CanWrite
  <2>3. QED
    BY <2>1, <2>2 DEF Writes
<1>5. OneLiveAttempt'
  <2>1. \A d \in Circles : OneLive(mem[d]) /\ OneLive(disk[d])
    BY DEF Inv, OneLiveAttempt, OneLive
  <2>2. \A d \in Circles : OneLive(mem'[d]) /\ OneLive(disk'[d])
    BY <1>1, <1>2, <2>1 DEF Writes
  <2>3. QED
    BY <2>2 DEF OneLiveAttempt, OneLive
<1>6. ExecutedOnDisk'
  <2>1. CASE executed' \subseteq executed
    BY <1>2, <2>1 DEF Inv, TypeOK, ExecutedOnDisk
  <2>2. ASSUME NEW i \in DOMAIN mem[c].entries, executed' = executed \cup {<<c, i>>}
        PROVE  ExecutedOnDisk'
    BY <1>1, <1>2, <2>2 DEF Inv, TypeOK, ExecutedOnDisk
  <2>3. QED
    BY <2>1, <2>2 DEF Writes
<1>7. NeverReplayed'
  <2> SUFFICES ASSUME NEW run \in executed', NEW s \in {mem'[run[1]], disk'[run[1]]},
                      run[2] \in DOMAIN s.entries, s.entries[run[2]].status = "Pending"
               PROVE  FALSE
    BY DEF NeverReplayed
  <2>1. run[1] \in Circles /\ run = <<run[1], run[2]>>
    BY <1>3 DEF TypeOK
  <2>2. CASE run \in executed
    <3>1. run[2] \in DOMAIN disk[run[1]].entries
      BY <2>2 DEF Inv, ExecutedOnDisk
    <3>2. CASE s \in {mem[run[1]], disk[run[1]]}
      BY <2>2, <3>2 DEF Inv, NeverReplayed
    <3>3. CASE run[1] = c /\ s = next
      <4>1. mem[c].entries[run[2]].status # "Pending"
        BY <1>1, <2>2, <3>1, <3>3 DEF Inv, NeverReplayed
      <4>2. QED
        BY <1>1, <2>1, <3>1, <3>3, <4>1 DEF Writes
    <3>4. QED
      BY <1>2, <2>1, <3>2, <3>3
  <2>3. CASE run \notin executed
    <3>1. PICK i \in DOMAIN mem[c].entries :
            /\ executed' = executed \cup {<<c, i>>}
            /\ Committed(c, next)
            /\ next.entries[i].status # "Pending"
      BY <2>3 DEF Writes
    <3>2. run[1] = c /\ run[2] = i
      BY <2>3, <3>1
    <3>3. mem'[c] = next /\ disk'[c] = next
      BY <3>1 DEF Committed, Inv, TypeOK
    <3>4. QED
      BY <3>1, <3>2, <3>3
  <2>4. QED
    BY <2>2, <2>3
<1>8. AggregateExact'
  <2>1. CASE Committed(c, next)
    BY <1>1, <1>2, <2>1 DEF Committed, Inv, TypeOK, AggregateExact
  <2>2. CASE WriteFailed(c, next)
    BY <1>2, <2>2 DEF WriteFailed, Inv, TypeOK, AggregateExact
  <2>3. QED
    BY <2>1, <2>2 DEF Writes
<1>9. CascadePaid'
  <2>1. \A d \in Circles : Paid(mem[d]) /\ Paid(disk[d])
    BY DEF Inv, CascadePaid, Paid
  <2>2. \A d \in Circles : Paid(mem'[d]) /\ Paid(disk'[d])
    BY <1>1, <1>2, <2>1 DEF Writes
  <2>3. QED
    BY <2>2 DEF CascadePaid, Paid
<1>11. QueuesBounded'
  <2>1. \A d \in Circles : Bounded(mem[d]) /\ Bounded(disk[d])
    BY DEF Inv, QueuesBounded, Bounded
  <2>2. \A d \in Circles : Bounded(mem'[d]) /\ Bounded(disk'[d])
    BY <1>1, <1>2, <2>1 DEF Writes, Fits
  <2>3. aggregate \in [Circles -> Nat] /\ aggregate[c] = Cardinality(Pending(mem[c].entries))
    BY <1>1 DEF Inv, TypeOK, AggregateExact
  <2>4. DeviceQueued \in Nat /\ DeviceQueued <= DeviceLimit /\ DeviceLimit \in Nat
    BY <2>3, WaitingFacts, InboxAssumption DEF Inv, QueuesBounded
  <2>5. DeviceQueued' <= DeviceLimit
    <3>1. CASE Committed(c, next)
      <4>1. aggregate' = [aggregate EXCEPT ![c] = Cardinality(Pending(next.entries))]
        BY <3>1 DEF Committed
      <4>2. /\ Cardinality(Pending(next.entries)) <= aggregate[c] => DeviceQueued' <= DeviceQueued
            /\ Cardinality(Pending(next.entries)) <= aggregate[c] + 1
                 => DeviceQueued' <= DeviceQueued + 1
        BY <1>1, <2>3, <4>1, ShareChanges
      <4>3. DeviceQueued' \in Nat
        BY <1>3, WaitingFacts DEF TypeOK
      <4>4. \/ Cardinality(Pending(next.entries)) <= aggregate[c]
            \/ ~DeviceFull /\ Cardinality(Pending(next.entries)) <= aggregate[c] + 1
        BY <2>3 DEF Writes, Fits
      <4>5. ~DeviceFull => DeviceQueued < DeviceLimit
        BY <2>4 DEF DeviceFull
      <4>6. QED
        BY <2>4, <4>2, <4>3, <4>4, <4>5
    <3>2. CASE WriteFailed(c, next)
      BY <2>4, <3>2 DEF WriteFailed, DeviceQueued, Waiting
    <3>3. QED
      BY <3>1, <3>2 DEF Writes
  <2>6. QED
    BY <2>2, <2>5 DEF QueuesBounded, Bounded
<1>10. QED
  BY <1>3, <1>4, <1>5, <1>6, <1>7, <1>8, <1>9, <1>11 DEF Inv

\* A new owner's recovery keeps the invariant.
LEMMA OpenInv ==
  ASSUME Inv, NEW c \in Circles, NEW limit \in AgentLimits, Open(c, limit)
  PROVE  Inv'
<1> DEFINE next == Reopened(disk[c])
<1>1. disk[c] \in Snapshot /\ ~owned[c]
  BY DEF Inv, TypeOK, Open
<1>2. /\ Evolves(disk[c], next)
      /\ OneLive(disk[c]) => OneLive(next)
      /\ Paid(disk[c]) => Paid(next)
      /\ DOMAIN next.entries = DOMAIN disk[c].entries
      /\ \A i \in DOMAIN next.entries :
           next.entries[i].status = "Pending" => disk[c].entries[i].status = "Pending"
      /\ next \in Snapshot
      /\ Cardinality(Pending(next.entries)) \in Nat
  BY <1>1, ReopenedFacts, PendingFacts DEF Evolves
<1>3. /\ executed' = executed
      /\ healthy' = healthy
      /\ disk' = [disk EXCEPT ![c] = next]
      /\ \/ /\ mem' = [mem EXCEPT ![c] = next]
            /\ aggregate' = [aggregate EXCEPT ![c] = Cardinality(Pending(next.entries))]
            /\ owned' = [owned EXCEPT ![c] = TRUE]
            /\ perAgent' = [perAgent EXCEPT ![c] = limit]
         \/ UNCHANGED <<owned, mem, perAgent, aggregate>>
  BY DEF Open, Committed
<1> HIDE DEF next
<1>4. TypeOK'
  BY <1>2, <1>3 DEF Inv, TypeOK
<1>5. AckedIsDurable'
  BY <1>1, <1>3 DEF Inv, TypeOK, AckedIsDurable, CanWrite
<1>6. OneLiveAttempt'
  <2>1. \A d \in Circles : OneLive(mem[d]) /\ OneLive(disk[d])
    BY DEF Inv, OneLiveAttempt, OneLive
  <2>2. \A d \in Circles : OneLive(mem'[d]) /\ OneLive(disk'[d])
    BY <1>2, <1>3, <2>1 DEF Inv, TypeOK
  <2>3. QED
    BY <2>2 DEF OneLiveAttempt, OneLive
<1>7. \A d \in Circles : \A s \in {mem'[d], disk'[d]} :
        s \in {mem[d], disk[d]} \/ (d = c /\ s = next)
  BY <1>3 DEF Inv, TypeOK
<1>8. NeverReplayed'
  <2> SUFFICES ASSUME NEW run \in executed, NEW s \in {mem'[run[1]], disk'[run[1]]},
                      run[2] \in DOMAIN s.entries, s.entries[run[2]].status = "Pending"
               PROVE  FALSE
    BY <1>3 DEF NeverReplayed
  <2>1. run[1] \in Circles
    BY DEF Inv, TypeOK
  <2>2. QED
    BY <1>2, <1>7, <2>1 DEF Inv, NeverReplayed
<1>9. ExecutedOnDisk'
  BY <1>2, <1>3 DEF Inv, TypeOK, ExecutedOnDisk
<1>10. AggregateExact'
  BY <1>1, <1>3 DEF Inv, TypeOK, AggregateExact
<1>11. CascadePaid'
  <2>1. \A d \in Circles : Paid(mem[d]) /\ Paid(disk[d])
    BY DEF Inv, CascadePaid, Paid
  <2>2. \A d \in Circles : Paid(mem'[d]) /\ Paid(disk'[d])
    BY <1>2, <1>3, <2>1 DEF Inv, TypeOK
  <2>3. QED
    BY <2>2 DEF CascadePaid, Paid
<1>13. QueuesBounded'
  <2>1. \A d \in Circles : Bounded(mem[d]) /\ Bounded(disk[d])
    BY DEF Inv, QueuesBounded, Bounded
  <2>2. Bounded(disk[c]) => Bounded(next)
    <3>1. Pending(next.entries) \subseteq Pending(disk[c].entries)
      BY <1>2 DEF Pending
    <3>2. QED
      BY <1>1, <1>2, <3>1, FewerFit DEF Fits
  <2>3. \A d \in Circles : Bounded(mem'[d]) /\ Bounded(disk'[d])
    BY <1>3, <2>1, <2>2 DEF Inv, TypeOK
  <2>4. aggregate \in [Circles -> Nat] /\ aggregate[c] = 0
    BY <1>1 DEF Inv, TypeOK, AggregateExact
  <2>5. DeviceQueued \in Nat /\ DeviceQueued <= DeviceLimit /\ DeviceLimit \in Nat
    BY <2>4, WaitingFacts, InboxAssumption DEF Inv, QueuesBounded
  <2>6. DeviceQueued' <= DeviceLimit
    <3>1. CASE aggregate' = [aggregate EXCEPT ![c] = Cardinality(Pending(next.entries))]
      <4>1. /\ Cardinality(Pending(next.entries)) <= aggregate[c] => DeviceQueued' <= DeviceQueued
            /\ DeviceQueued' <= DeviceQueued + Cardinality(Pending(next.entries))
        BY <1>2, <2>4, <3>1, ShareChanges
      <4>2. DeviceQueued' \in Nat
        BY <1>4, WaitingFacts DEF TypeOK
      <4>3. CASE Pending(next.entries) = {}
        BY <2>4, <2>5, <4>1, <4>2, <4>3, FS_EmptySet
      <4>4. CASE Pending(next.entries) # {}
        <5>1. Cardinality(Pending(next.entries)) + DeviceQueued <= DeviceLimit
          BY <1>1, <2>5, <4>4, ReopenedFits DEF next
        <5>2. QED
          BY <1>2, <2>5, <4>1, <4>2, <5>1
      <4>5. QED
        BY <4>3, <4>4
    <3>2. CASE UNCHANGED aggregate
      BY <2>5, <3>2 DEF DeviceQueued, Waiting
    <3>3. QED
      BY <1>3, <3>1, <3>2
  <2>7. QED
    BY <2>3, <2>6 DEF QueuesBounded, Bounded
<1>12. QED
  BY <1>4, <1>5, <1>6, <1>8, <1>9, <1>10, <1>11, <1>13 DEF Inv

\* A dropped owner, or a crash of the process, keeps the invariant.
LEMMA DisownedInv ==
  ASSUME Inv, NEW S \in SUBSET Circles, Disowned(S)
  PROVE  Inv'
<1>1. /\ disk' = disk /\ perAgent' = perAgent /\ executed' = executed
      /\ \A d \in Circles : mem'[d] \in {mem[d], Fresh}
  BY DEF Disowned
<1>2. TypeOK'
  BY FreshFacts DEF Disowned, Inv, TypeOK
<1>3. AckedIsDurable'
  BY DEF Disowned, Inv, AckedIsDurable, CanWrite
<1>4. OneLiveAttempt'
  BY <1>1, FreshFacts DEF Inv, OneLiveAttempt
<1>5. NeverReplayed'
  <2>1. \A run \in executed : run[1] \in Circles
    BY DEF Inv, TypeOK
  <2>2. QED
    BY <1>1, <2>1, FreshFacts DEF Inv, NeverReplayed
<1>6. ExecutedOnDisk'
  BY <1>1 DEF Inv, ExecutedOnDisk
<1>7. AggregateExact'
  BY DEF Disowned, Inv, AggregateExact
<1>8. CascadePaid'
  <2>1. \A d \in Circles : Paid(mem[d]) /\ Paid(disk[d])
    BY DEF Inv, CascadePaid, Paid
  <2>2. \A d \in Circles : Paid(mem'[d]) /\ Paid(disk'[d])
    BY <1>1, <2>1, FreshFacts
  <2>3. QED
    BY <2>2 DEF CascadePaid, Paid
<1>10. QueuesBounded'
  <2>1. \A d \in Circles : Bounded(mem'[d]) /\ Bounded(disk'[d])
    BY <1>1, FreshFacts DEF Inv, QueuesBounded, Bounded
  <2>2. aggregate \in [Circles -> Nat] /\ aggregate' \in [Circles -> Nat]
    BY <1>2 DEF Inv, TypeOK
  <2>3. \A d \in Circles : aggregate'[d] \in {aggregate[d], 0}
    BY DEF Disowned
  <2>4. Waiting' \subseteq Waiting
    BY <2>2, <2>3 DEF Waiting
  <2>5. IsFiniteSet(Waiting) /\ DeviceQueued \in Nat /\ DeviceQueued' \in Nat
    BY <2>2, WaitingFacts
  <2>6. DeviceQueued' <= DeviceQueued
    BY <2>4, <2>5, FS_Subset DEF DeviceQueued
  <2>7. DeviceQueued' <= DeviceLimit
    BY <2>5, <2>6, InboxAssumption DEF Inv, QueuesBounded
  <2>8. QED
    BY <2>1, <2>7 DEF QueuesBounded, Bounded
<1>9. QED
  BY <1>2, <1>3, <1>4, <1>5, <1>6, <1>7, <1>8, <1>10 DEF Inv

\* What a step is: a write of an owner, an owner that comes or goes, or a
\* change of the configured limit.
LEMMA StepCases ==
  ASSUME TypeOK, [Next]_vars
  PROVE  \/ \E c \in Circles : \E next : Writes(c, next)
         \/ \E c \in Circles, limit \in AgentLimits : Open(c, limit)
         \/ \E S \in SUBSET Circles : Disowned(S)
         \/ \E c \in Circles, limit \in AgentLimits : SetPerAgentLimit(c, limit)
         \/ UNCHANGED vars
<1>1. ASSUME NEW c \in Circles, NEW req \in Offers, NEW max \in RelayTurns,
             Admit(c, req, max)
      PROVE  \E next : Writes(c, next)
  BY <1>1, AdmitWrites
<1>2. ASSUME NEW c \in Circles, NEW max \in RelayTurns, NEW i \in Runs(c),
             Retry(c, i, max)
      PROVE  \E next : Writes(c, next)
  BY <1>2, RetryWrites
<1>3. ASSUME NEW c \in Circles, NEW req \in Offers, RecordSuppressed(c, req)
      PROVE  \E next : Writes(c, next)
  BY <1>3, RecordSuppressedWrites
<1>4. ASSUME NEW c \in Circles, NEW i \in Runs(c),
             \/ Launch(c, i)
             \/ Cancel(c, i)
             \/ \E status \in {"Completed", "Failed", "Cancelled"} : Finish(c, i, status)
             \/ Requeue(c, i)
      PROVE  \E next : Writes(c, next)
  BY <1>4, LaunchWrites, CancelWrites, FinishWrites, RequeueWrites
<1>5. ASSUME NEW c \in Circles, Close(c)
      PROVE  \E S \in SUBSET Circles : Disowned(S)
  <2>1. {c} \in SUBSET Circles /\ Disowned({c})
    BY <1>5 DEF Close
  <2>2. QED
    BY <2>1
<1>6. ASSUME Crash
      PROVE  \E S \in SUBSET Circles : Disowned(S)
  <2>1. Circles \in SUBSET Circles /\ Disowned(Circles)
    BY <1>6 DEF Crash
  <2>2. QED
    BY <2>1
<1>7. QED
  BY <1>1, <1>2, <1>3, <1>4, <1>5, <1>6 DEF Next

\* Every step keeps the invariant.
LEMMA NextInv ==
  ASSUME Inv, [Next]_vars
  PROVE  Inv'
<1>1. ASSUME NEW c \in Circles, NEW limit \in AgentLimits, SetPerAgentLimit(c, limit)
      PROVE  Inv'
  BY <1>1 DEF SetPerAgentLimit, Inv, TypeOK, AckedIsDurable, OneLiveAttempt,
              NeverReplayed, AggregateExact, CascadePaid, ExecutedOnDisk, CanWrite,
              QueuesBounded, DeviceQueued, Waiting
<1>2. CASE UNCHANGED vars
  BY <1>2 DEF vars, Inv, TypeOK, AckedIsDurable, OneLiveAttempt,
              NeverReplayed, AggregateExact, CascadePaid, ExecutedOnDisk, CanWrite,
              QueuesBounded, DeviceQueued, Waiting
<1>3. TypeOK
  BY DEF Inv
<1>4. QED
  BY <1>1, <1>2, <1>3, StepCases, WritesInv, OpenInv, DisownedInv

-----------------------------------------------------------------------------
(* Theorems                                                                *)

\* The inductive invariant behind the theorems below: the seven
\* invariants of the inbox together with ExecutedOnDisk hold in every reachable state.
THEOREM Invariance == Spec => []Inv
<1>1. Init => Inv
  BY InitInv
<1>2. Inv /\ [Next]_vars => Inv'
  BY NextInv
<1>3. QED
  BY <1>1, <1>2, PTL DEF Spec

\* Snapshots, tables and limits keep their types: in particular no cascade is
\* ever charged more than the ceiling, in memory or on disk.
THEOREM TypeCorrect == Spec => []TypeOK
<1>1. Inv => TypeOK
  BY DEF Inv
<1>2. QED
  BY <1>1, Invariance, PTL

\* persist and its callers: what a healthy owner answers from is on disk.
THEOREM DurableAcknowledgement == Spec => []AckedIsDurable
<1>1. Inv => AckedIsDurable
  BY DEF Inv
<1>2. QED
  BY <1>1, Invariance, PTL

\* admit and retry never give an agent two live attempts at one message.
THEOREM AtMostOneLiveAttempt == Spec => []OneLiveAttempt
<1>1. Inv => OneLiveAttempt
  BY DEF Inv
<1>2. QED
  BY <1>1, Invariance, PTL

\* A turn handed to an agent is never handed out again by a restart.
THEOREM NoAutomaticReplay == Spec => []NeverReplayed
<1>1. Inv => NeverReplayed
  BY DEF Inv
<1>2. QED
  BY <1>1, Invariance, PTL

\* The PENDING table agrees with every open inbox.
THEOREM AggregateCorrect == Spec => []AggregateExact
<1>1. Inv => AggregateExact
  BY DEF Inv
<1>2. QED
  BY <1>1, Invariance, PTL

\* No sequence of operations overfills the queue of a Circle or of the device.
THEOREM QueuesStayBounded == Spec => []QueuesBounded
<1>1. Inv => QueuesBounded
  BY DEF Inv
<1>2. QED
  BY <1>1, Invariance, PTL

\* A cascade never takes more turns on this device than it was charged for,
\* and it is never charged beyond the ceiling.
THEOREM CascadeBounded == Spec => []CascadePaid
<1>1. Inv => CascadePaid
  BY DEF Inv
<1>2. QED
  BY <1>1, Invariance, PTL

\* No step takes back an outcome that is on disk.
THEOREM OutcomesStay == Spec => SettledStays
<1> DEFINE Stays == \A c \in Circles : \A i \in DOMAIN disk[c].entries :
                      disk[c].entries[i].status \in Terminal =>
                        /\ i \in DOMAIN disk'[c].entries
                        /\ disk'[c].entries[i] = disk[c].entries[i]
<1>1. ASSUME Inv, NEW c \in Circles, NEW next, Writes(c, next)
      PROVE  Stays
  <2>1. disk[c] = mem[c] /\ Evolves(disk[c], next)
    BY <1>1 DEF Inv, AckedIsDurable, Writes
  <2>2. disk' \in {disk, [disk EXCEPT ![c] = next]}
    BY <1>1 DEF Writes, Committed, WriteFailed
  <2>3. QED
    BY <1>1, <2>1, <2>2 DEF Inv, TypeOK, Evolves
<1>2. ASSUME Inv, NEW c \in Circles, NEW limit \in AgentLimits, Open(c, limit)
      PROVE  Stays
  <2>1. disk[c] \in Snapshot
    BY <1>2 DEF Inv, TypeOK
  <2>2. Evolves(disk[c], Reopened(disk[c]))
    BY <2>1, ReopenedFacts
  <2>3. disk' = [disk EXCEPT ![c] = Reopened(disk[c])]
    BY <1>2 DEF Open, Committed
  <2>4. QED
    BY <1>2, <2>2, <2>3 DEF Inv, TypeOK, Evolves
<1>3. ASSUME NEW S \in SUBSET Circles, Disowned(S)
      PROVE  Stays
  BY <1>3 DEF Disowned
<1>4. ASSUME NEW c \in Circles, NEW limit \in AgentLimits, SetPerAgentLimit(c, limit)
      PROVE  Stays
  BY <1>4 DEF SetPerAgentLimit
<1>5. Inv /\ [Next]_vars => [Stays]_vars
  BY <1>1, <1>2, <1>3, <1>4, StepCases DEF Inv
<1>6. QED
  BY <1>5, Invariance, PTL DEF Spec, SettledStays

\* No step expires a waiting addressed request other than for another one.
THEOREM AddressedGiveWayLast == Spec => AddressedIsOwedItsTurn
<1> DEFINE Stays(c) == owned[c] => Owed(mem[c], mem'[c])
<1>1. ASSUME Inv, NEW c \in Circles, NEW next, Writes(c, next), NEW d \in Circles
      PROVE  Stays(d)
  <2>1. mem' \in {mem, [mem EXCEPT ![c] = next]}
    BY <1>1 DEF Writes, Committed, WriteFailed
  <2>2. mem'[d] = mem[d] \/ (d = c /\ mem'[d] = next)
    BY <1>1, <2>1 DEF Inv, TypeOK
  <2>3. Owed(mem[d], mem[d])
    BY DEF Owed
  <2>4. QED
    BY <1>1, <2>2, <2>3 DEF Writes
<1>2. ASSUME Inv, NEW c \in Circles, NEW limit \in AgentLimits, Open(c, limit), NEW d \in Circles
      PROVE  Stays(d)
  <2>1. ~owned[c] /\ mem' \in {mem, [mem EXCEPT ![c] = Reopened(disk[c])]}
    BY <1>2 DEF Open, Committed
  <2>2. d # c => mem'[d] = mem[d]
    BY <1>2, <2>1 DEF Inv, TypeOK
  <2>3. Owed(mem[d], mem[d])
    BY DEF Owed
  <2>4. QED
    BY <2>1, <2>2, <2>3
<1>3. ASSUME NEW S \in SUBSET Circles, Disowned(S), NEW d \in Circles
      PROVE  Stays(d)
  <2>1. mem'[d] \in {mem[d], Fresh}
    BY <1>3 DEF Disowned
  <2>2. Owed(mem[d], mem[d]) /\ Owed(mem[d], Fresh)
    BY FreshFacts DEF Owed
  <2>3. QED
    BY <2>1, <2>2
<1>4. ASSUME UNCHANGED mem, NEW d \in Circles
      PROVE  Stays(d)
  BY <1>4 DEF Owed
<1>5. ASSUME Inv, [Next]_vars
      PROVE  \A d \in Circles : Stays(d)
  <2>1. ASSUME NEW c \in Circles, NEW limit \in AgentLimits, SetPerAgentLimit(c, limit)
        PROVE  UNCHANGED mem
    BY <2>1 DEF SetPerAgentLimit
  <2>2. CASE UNCHANGED vars
    BY <1>4, <2>2 DEF vars
  <2>3. TypeOK
    BY <1>5 DEF Inv
  <2>4. QED
    BY <1>1, <1>2, <1>3, <1>4, <1>5, <2>1, <2>2, <2>3, StepCases
<1> DEFINE Kept ==
      \A c \in Circles : owned[c] =>
        \A i \in DOMAIN mem[c].entries \cap DOMAIN mem'[c].entries :
          LET old == mem[c].entries
              new == mem'[c].entries
          IN /\ old[i].status = "Pending" /\ ~old[i].req.ambient
             /\ new[i].status = "Expired"
             => /\ Len(new) = Len(old) + 1
                /\ ~new[Len(new)].req.ambient
                /\ \A j \in PendingOf(new, old[i].req.agent) : ~new[j].req.ambient
<1>6. Inv /\ [Next]_vars => [Kept]_vars
  BY <1>5 DEF Owed
<1>7. QED
  BY <1>6, Invariance, PTL DEF Spec, AddressedIsOwedItsTurn

\* A restart expires an addressed request only for want of room on the device,
\* the newest first.
THEOREM AddressedOutlivesRestart == Spec => AddressedSurvivesRestart
<1> DEFINE Kept == \A c \in Circles : ~owned[c] /\ owned'[c] =>
              \A i \in Pending(disk[c].entries) :
                ~disk[c].entries[i].req.ambient /\ i \notin Pending(mem'[c].entries) =>
                  /\ DeviceQueued' >= DeviceLimit
                  /\ \A j \in Pending(mem'[c].entries) : j < i
<1>1. ASSUME Inv, NEW c \in Circles, NEW limit \in AgentLimits, Open(c, limit),
             NEW d \in Circles, ~owned[d] /\ owned'[d]
      PROVE  \A i \in Pending(disk[d].entries) :
               ~disk[d].entries[i].req.ambient /\ i \notin Pending(mem'[d].entries) =>
                 /\ DeviceQueued' >= DeviceLimit
                 /\ \A j \in Pending(mem'[d].entries) : j < i
  <2> DEFINE next == Reopened(disk[c])
  <2>1. /\ ~owned[c]
        /\ \/ /\ mem' = [mem EXCEPT ![c] = next]
              /\ aggregate' = [aggregate EXCEPT ![c] = Cardinality(Pending(next.entries))]
              /\ owned' = [owned EXCEPT ![c] = TRUE]
           \/ UNCHANGED owned
    BY <1>1 DEF Open, Committed
  <2>2. d = c /\ mem'[c] = next /\ aggregate' = [aggregate EXCEPT ![c] = Cardinality(Pending(next.entries))]
    BY <1>1, <2>1 DEF Inv, TypeOK
  <2>3. /\ aggregate \in [Circles -> Nat] /\ aggregate[c] = 0
        /\ disk[c] \in Snapshot
    BY <1>1, <2>1 DEF Inv, TypeOK, AggregateExact
  <2>4. next \in Snapshot /\ Cardinality(Pending(next.entries)) \in Nat
    BY <2>3, ReopenedFacts, PendingFacts DEF Evolves
  <2>5. DeviceQueued \in Nat /\ DeviceQueued' \in Nat
    <3>1. aggregate' \in [Circles -> Nat]
      BY <2>2, <2>3, <2>4
    <3>2. QED
      BY <2>3, <3>1, WaitingFacts
  <2>6. DeviceQueued' >= DeviceQueued + Cardinality(Pending(next.entries))
    BY <2>2, <2>3, <2>4, ShareAdds
  <2>7. ASSUME NEW i \in Pending(disk[c].entries), ~disk[c].entries[i].req.ambient,
               i \notin Pending(next.entries)
        PROVE  /\ Cardinality(Pending(next.entries)) + DeviceQueued >= DeviceLimit
               /\ \A j \in Pending(next.entries) : j < i
    BY <2>3, <2>5, <2>7, ReopenedKeepsOldest
  <2> HIDE DEF next
  <2>8. \A i \in Pending(disk[c].entries) :
          ~disk[c].entries[i].req.ambient /\ i \notin Pending(next.entries)
            => DeviceQueued' >= DeviceLimit
    BY <2>4, <2>5, <2>6, <2>7, InboxAssumption
  <2>9. QED
    BY <2>2, <2>7, <2>8
<1>2. ASSUME Inv, NEW c \in Circles, ~owned[c] /\ owned'[c], [Next]_vars
      PROVE  \E d \in Circles, limit \in AgentLimits : Open(d, limit)
  <2>1. ASSUME NEW d \in Circles, NEW next, Writes(d, next)
        PROVE  UNCHANGED owned
    BY <2>1 DEF Writes
  <2>2. ASSUME NEW S \in SUBSET Circles, Disowned(S)
        PROVE  owned'[c] => owned[c]
    BY <2>2 DEF Disowned
  <2>3. ASSUME NEW d \in Circles, NEW limit \in AgentLimits, SetPerAgentLimit(d, limit)
        PROVE  UNCHANGED owned
    BY <2>3 DEF SetPerAgentLimit
  <2>4. UNCHANGED vars => UNCHANGED owned
    BY DEF vars
  <2>5. TypeOK
    BY <1>2 DEF Inv
  <2>6. QED
    BY <1>2, <2>1, <2>2, <2>3, <2>4, <2>5, StepCases
<1>3. ASSUME Inv, [Next]_vars PROVE Kept
  BY <1>1, <1>2, <1>3
<1>4. Inv /\ [Next]_vars => [Kept]_vars
  BY <1>3
<1>5. QED
  BY <1>4, Invariance, PTL DEF Spec, AddressedSurvivesRestart
=============================================================================
