---------------------------- MODULE LockLogProofs ----------------------------
(***************************************************************************)
(* Proofs about LockLog for every set of devices, actors and paths, every  *)
(* threshold and logs of every length.                                     *)
(***************************************************************************)
EXTENDS LockLog, SequenceTheorems, FiniteSetTheorems,
        WellFoundedInduction, TLAPS

-----------------------------------------------------------------------------
(* Induction over the natural numbers, for sets                            *)

\* Every nonempty set of naturals has a least member.
LEMMA LeastMember ==
  ASSUME NEW S \in SUBSET Nat, S # {}
  PROVE  \E x \in S : \A y \in S : x <= y
<1> DEFINE less == {ss \in Nat \X Nat : ss[1] < ss[2]}
<1>1. IsWellFoundedOn(less, Nat)
  BY NatLessThanWellFounded DEF OpToRel
<1>2. PICK x \in S : \A y \in S : ~ (<<y, x>> \in less)
  BY <1>1, WFMin
<1>3. ASSUME NEW y \in S PROVE x <= y
  <2>1. y < x => <<y, x>> \in less
    OBVIOUS
  <2>2. QED
    BY <1>2, <2>1
<1>4. QED
  BY <1>3

\* A set that has 0 and the successor of each of its members has them all.
LEMMA SetInduction ==
  ASSUME NEW S, 0 \in S, \A n \in Nat : n \in S => n + 1 \in S
  PROVE  Nat \subseteq S
<1> SUFFICES ASSUME Nat \ S # {} PROVE FALSE
  OBVIOUS
<1>1. PICK x \in Nat \ S : \A y \in Nat \ S : x <= y
  BY LeastMember
<1>2. x # 0 /\ x - 1 \in Nat
  BY <1>1
<1>3. x - 1 \in S
  BY <1>1, <1>2
<1>4. x \in S
  BY <1>2, <1>3
<1>5. QED
  BY <1>1, <1>4

-----------------------------------------------------------------------------
(* Replaying                                                               *)

\* One entry leaves the holder, frees the path or takes it.
LEMMA ApplyFacts ==
  ASSUME NEW l \in Seq(Entry), NEW i \in 1 .. Len(l), NEW h \in Nat
  PROVE  Apply(l, h, i) \in {0, h, i}
<1>1. l[i] \in Entry
  BY ElementOfSeq
<1>2. CASE l[i].action = "Acquire"
  BY <1>2 DEF Apply
<1>3. CASE l[i].action = "Release"
  BY <1>3 DEF Apply
<1>4. QED
  BY <1>1, <1>2, <1>3 DEF Entry

\* One entry of a replay of path p, as Replay has it.
ReplayStep(l, view, p, h, i) ==
  IF i \in view /\ l[i].path = p THEN Apply(l, h, i) ELSE h

\* A replay starts with a free path and applies the entries in their order.
LEMMA ReplayUnfolds ==
  ASSUME NEW l \in Seq(Entry), NEW view, NEW p
  PROVE  /\ Replay(l, view, p)[0] = 0
         /\ \A i \in 1 .. Len(l) :
              Replay(l, view, p)[i] = ReplayStep(l, view, p, Replay(l, view, p)[i - 1], i)
         /\ \A i \in 0 .. Len(l) : Replay(l, view, p)[i] \in 0 .. i
<1> DEFINE N == Len(l)
           Step(h, i) == ReplayStep(l, view, p, h, i)
           Good(n, g) == /\ g \in [0 .. n -> Nat]
                         /\ g[0] = 0
                         /\ \A i \in 1 .. n : g[i] = Step(g[i - 1], i)
           S == {n \in Nat : n <= N => \E g : Good(n, g)}
<1>0. N \in Nat
  BY LenProperties
<1>1. \A h \in Nat : \A i \in 1 .. N : Step(h, i) \in {0, h, i}
  BY ApplyFacts DEF ReplayStep
<1> HIDE DEF Step
<1>2. 0 \in S
  <2>1. Good(0, [i \in 0 .. 0 |-> 0])
    OBVIOUS
  <2>2. QED
    BY <2>1
<1>3. ASSUME NEW n \in Nat, n \in S PROVE n + 1 \in S
  <2> HIDE DEF Good
  <2> SUFFICES ASSUME n + 1 <= N PROVE \E g : Good(n + 1, g)
    OBVIOUS
  <2> USE DEF Good
  <2>1. PICK g : Good(n, g)
    BY <1>0, <1>3
  <2> DEFINE h == [i \in 0 .. n + 1 |-> IF i = n + 1 THEN Step(g[n], n + 1) ELSE g[i]]
  <2>2. h \in [0 .. n + 1 -> Nat]
    <3>1. Step(g[n], n + 1) \in Nat
      BY <1>0, <1>1, <2>1
    <3>2. \A i \in 0 .. n + 1 : i # n + 1 => g[i] \in Nat
      BY <2>1
    <3>3. QED
      BY <3>1, <3>2
  <2>3. h[0] = 0
    BY <2>1
  <2>4. ASSUME NEW i \in 1 .. n + 1 PROVE h[i] = Step(h[i - 1], i)
    <3>1. CASE i = n + 1
      BY <3>1
    <3>2. CASE i # n + 1
      <4>1. i \in 1 .. n
        BY <3>2
      <4>2. h[i] = g[i] /\ h[i - 1] = g[i - 1]
        BY <4>1
      <4>3. QED
        BY <4>1, <4>2, <2>1
    <3>3. QED
      BY <3>1, <3>2
  <2>5. Good(n + 1, h)
    BY <2>2, <2>3, <2>4
  <2>6. QED
    BY <2>5
<1>4. N \in S
  <2> HIDE DEF S
  <2>1. QED
    BY <1>0, <1>2, <1>3, SetInduction
<1>5. PICK g : Good(N, g)
  BY <1>0, <1>4
<1>6. g = [i \in 0 .. N |-> IF i = 0 THEN 0 ELSE Step(g[i - 1], i)]
  <2>1. \A i \in 0 .. N : g[i] = IF i = 0 THEN 0 ELSE Step(g[i - 1], i)
    BY <1>0, <1>5
  <2>2. QED
    BY <2>1, <1>5
<1> DEFINE R == Replay(l, view, p)
           Fix(f) == f = [i \in 0 .. Len(l) |->
                            IF i = 0 THEN 0
                            ELSE IF i \in view /\ l[i].path = p THEN Apply(l, f[i - 1], i)
                            ELSE f[i - 1]]
<1>7. Fix(g)
  BY <1>6 DEF Step, ReplayStep
<1>8. R = CHOOSE f : Fix(f)
  BY DEF Replay
<1>9. Fix(R)
  <2> HIDE DEF Fix, R
  <2>1. QED
    BY <1>7, <1>8
<1>10. R[0] = 0 /\ \A i \in 1 .. N : R[i] = Step(R[i - 1], i)
  <2> HIDE DEF R
  <2>1. QED
    BY <1>0, <1>9 DEF Step, ReplayStep
<1> DEFINE P == {n \in Nat : n <= N => R[n] \in 0 .. n}
<1>11. 0 \in P
  BY <1>10
<1>12. ASSUME NEW n \in Nat, n \in P PROVE n + 1 \in P
  <2> HIDE DEF R
  <2> SUFFICES ASSUME n + 1 <= N PROVE R[n + 1] \in 0 .. n + 1
    OBVIOUS
  <2>1. R[n] \in 0 .. n
    BY <1>0, <1>12
  <2>2. R[n + 1] = Step(R[n], n + 1)
    BY <1>0, <1>10
  <2>3. R[n + 1] \in {0, R[n], n + 1}
    BY <1>0, <1>1, <2>1, <2>2
  <2>4. QED
    BY <2>1, <2>3
<1>13. Nat \subseteq P
  <2> HIDE DEF P
  <2>1. QED
    BY <1>11, <1>12, SetInduction
<1>14. QED
  BY <1>0, <1>10, <1>13 DEF Step

-----------------------------------------------------------------------------
(* Compacting                                                              *)

\* The holder after n entries is an entry of p among them, or none.
LEMMA HolderIsAcquire ==
  ASSUME NEW l \in Seq(Entry), NEW view, NEW p, NEW n \in 0 .. Len(l)
  PROVE  LET h == Replay(l, view, p)[n]
         IN h # 0 => /\ h \in view /\ h \in 1 .. n
                     /\ l[h].path = p /\ l[h].action = "Acquire"
<1> DEFINE N == Len(l)
           R == Replay(l, view, p)
           Fine(h) == h # 0 => h \in view /\ l[h].path = p /\ l[h].action = "Acquire"
           P == {m \in Nat : m <= N => Fine(R[m])}
<1>0. N \in Nat
  BY LenProperties
<1>1. /\ R[0] = 0
      /\ \A i \in 1 .. N : R[i] = ReplayStep(l, view, p, R[i - 1], i)
      /\ \A i \in 0 .. N : R[i] \in 0 .. i
  BY ReplayUnfolds
<1> HIDE DEF R
<1>2. 0 \in P
  BY <1>1
<1>3. ASSUME NEW m \in Nat, m \in P PROVE m + 1 \in P
  <2> SUFFICES ASSUME m + 1 <= N PROVE Fine(R[m + 1])
    OBVIOUS
  <2>1. Fine(R[m]) /\ R[m] \in Nat /\ m + 1 \in 1 .. N
    BY <1>0, <1>1, <1>3
  <2>2. R[m + 1] = ReplayStep(l, view, p, R[m], m + 1)
    BY <1>1, <2>1
  <2>3. l[m + 1] \in Entry
    BY <2>1, ElementOfSeq
  <2>4. CASE l[m + 1].action = "Acquire"
    BY <2>1, <2>2, <2>4 DEF ReplayStep, Apply
  <2>5. CASE l[m + 1].action = "Release"
    BY <2>1, <2>2, <2>5 DEF ReplayStep, Apply
  <2>6. QED
    BY <2>3, <2>4, <2>5 DEF Entry
<1>4. Nat \subseteq P
  <2> HIDE DEF P
  <2>1. QED
    BY <1>2, <1>3, SetInduction
<1>5. QED
  BY <1>0, <1>1, <1>4 DEF R

\* Copies that lead to one holder of p after n entries, and agree on p's later
\* entries up to m, lead to the same holders until m.
LEMMA ReplaysAgree ==
  ASSUME NEW l \in Seq(Entry), NEW v, NEW w, NEW p,
         NEW m \in 0 .. Len(l), NEW n \in 0 .. m,
         Replay(l, v, p)[n] = Replay(l, w, p)[n],
         \A i \in n + 1 .. m : l[i].path = p => (i \in v <=> i \in w)
  PROVE  \A i \in n .. m : Replay(l, v, p)[i] = Replay(l, w, p)[i]
<1> DEFINE V == Replay(l, v, p)
           W == Replay(l, w, p)
           P == {i \in Nat : n <= i /\ i <= m => V[i] = W[i]}
<1>0. m \in Nat /\ n \in Nat /\ Len(l) \in Nat
  BY LenProperties
<1>1. \A i \in 1 .. Len(l) : V[i] = ReplayStep(l, v, p, V[i - 1], i)
  BY ReplayUnfolds
<1>2. \A i \in 1 .. Len(l) : W[i] = ReplayStep(l, w, p, W[i - 1], i)
  BY ReplayUnfolds
<1>3. V[n] = W[n] /\ \A i \in n + 1 .. m : l[i].path = p => (i \in v <=> i \in w)
  OBVIOUS
<1> HIDE DEF V, W
<1>4. 0 \in P
  <2> SUFFICES ASSUME n <= 0 PROVE V[0] = W[0]
    OBVIOUS
  <2>1. n = 0
    BY <1>0
  <2>2. QED
    BY <1>3, <2>1
<1>5. ASSUME NEW i \in Nat, i \in P PROVE i + 1 \in P
  <2> SUFFICES ASSUME n <= i + 1, i + 1 <= m PROVE V[i + 1] = W[i + 1]
    OBVIOUS
  <2>1. CASE i + 1 = n
    BY <1>3, <2>1
  <2>2. CASE i + 1 # n
    <3>1. V[i] = W[i] /\ i + 1 \in n + 1 .. m /\ i + 1 \in 1 .. Len(l)
      BY <1>0, <1>5, <2>2
    <3>2. V[i + 1] = ReplayStep(l, v, p, V[i], i + 1)
      BY <1>1, <3>1
    <3>3. W[i + 1] = ReplayStep(l, w, p, W[i], i + 1)
      BY <1>2, <3>1
    <3>4. QED
      BY <1>3, <3>1, <3>2, <3>3 DEF ReplayStep
  <2>3. QED
    BY <2>1, <2>2
<1>6. Nat \subseteq P
  <2> HIDE DEF P
  <2>1. QED
    BY <1>4, <1>5, SetInduction
<1>7. QED
  BY <1>0, <1>6 DEF V, W

\* Entries that are not p's, or not in the copy, leave the holder as it is.
LEMMA ReplayStays ==
  ASSUME NEW l \in Seq(Entry), NEW v, NEW p, NEW m \in 0 .. Len(l), NEW n \in 0 .. m,
         \A i \in n + 1 .. m : i \notin v \/ l[i].path # p
  PROVE  Replay(l, v, p)[m] = Replay(l, v, p)[n]
<1> DEFINE V == Replay(l, v, p)
           P == {i \in Nat : n <= i /\ i <= m => V[i] = V[n]}
<1>0. Len(l) \in Nat /\ m \in Nat /\ n \in Nat /\ n <= m /\ m <= Len(l)
  BY LenProperties
<1>1. \A i \in 1 .. Len(l) : V[i] = ReplayStep(l, v, p, V[i - 1], i)
  BY ReplayUnfolds
<1> HIDE DEF V
<1>2. 0 \in P
  <2> SUFFICES ASSUME n <= 0 PROVE V[0] = V[n]
    OBVIOUS
  <2>1. n = 0
    BY <1>0
  <2>2. QED
    BY <2>1
<1>3. ASSUME NEW i \in Nat, i \in P PROVE i + 1 \in P
  <2> SUFFICES ASSUME n <= i + 1, i + 1 <= m PROVE V[i + 1] = V[n]
    OBVIOUS
  <2>1. CASE i + 1 = n
    BY <2>1
  <2>2. CASE i + 1 # n
    <3>1. V[i] = V[n] /\ i + 1 \in n + 1 .. m /\ i + 1 \in 1 .. Len(l)
      BY <1>0, <1>3, <2>2
    <3>2. V[i + 1] = ReplayStep(l, v, p, V[i], i + 1)
      BY <1>1, <3>1
    <3>3. QED
      BY <3>1, <3>2 DEF ReplayStep
  <2>3. QED
    BY <2>1, <2>2
<1>4. Nat \subseteq P
  <2> HIDE DEF P
  <2>1. QED
    BY <1>2, <1>3, SetInduction
<1>5. QED
  BY <1>0, <1>4 DEF V

\* Behind the last entry of p a copy has seen, the holder stays.
LEMMA ReplayRests ==
  ASSUME NEW l \in Seq(Entry), NEW v, NEW p, NEW n \in 0 .. Len(l),
         \A i \in n + 1 .. Len(l) : i \notin v \/ l[i].path # p
  PROVE  Holder(l, v, p) = Replay(l, v, p)[n]
<1>1. Len(l) \in 0 .. Len(l) /\ n \in 0 .. Len(l)
  BY LenProperties
<1>2. QED
  BY <1>1, ReplayStays DEF Holder

\* Who holds a path that was taken at an earlier position has held it since.
LEMMA HeldSince ==
  ASSUME NEW l \in Seq(Entry), NEW v, NEW p, NEW n \in 0 .. Len(l), NEW m \in 0 .. n,
         Replay(l, v, p)[n] # 0, Replay(l, v, p)[n] <= m
  PROVE  Replay(l, v, p)[m] = Replay(l, v, p)[n]
<1> DEFINE V == Replay(l, v, p)
           h == V[n]
           P == {i \in Nat : m <= i /\ i <= n /\ V[m] # h => V[i] # h}
<1>0. Len(l) \in Nat /\ m \in Nat /\ n \in Nat /\ m <= n /\ n <= Len(l)
  BY LenProperties
<1>1. /\ \A i \in 1 .. Len(l) : V[i] = ReplayStep(l, v, p, V[i - 1], i)
      /\ \A i \in 0 .. Len(l) : V[i] \in 0 .. i
  BY ReplayUnfolds
<1>2. h \in Nat /\ h # 0 /\ h <= m
  BY <1>0, <1>1
<1> HIDE DEF V, h
<1>3. 0 \in P
  BY <1>0
<1>4. ASSUME NEW i \in Nat, i \in P PROVE i + 1 \in P
  <2> SUFFICES ASSUME m <= i + 1, i + 1 <= n, V[m] # h PROVE V[i + 1] # h
    OBVIOUS
  <2>1. CASE i + 1 = m
    BY <2>1
  <2>2. CASE i + 1 # m
    <3>1. V[i] # h /\ m < i + 1 /\ i + 1 \in 1 .. Len(l) /\ i \in 0 .. Len(l)
      BY <1>0, <1>4, <2>2
    <3>2. V[i + 1] = ReplayStep(l, v, p, V[i], i + 1) /\ V[i] \in Nat
      BY <1>1, <3>1
    <3>3. V[i + 1] \in {0, V[i], i + 1}
      BY <3>1, <3>2, ApplyFacts DEF ReplayStep
    <3>4. QED
      BY <1>0, <1>2, <3>1, <3>3
  <2>3. QED
    BY <2>1, <2>2
<1>5. Nat \subseteq P
  <2> HIDE DEF P
  <2>1. QED
    BY <1>3, <1>4, SetInduction
<1>6. V[m] # h => V[n] # h
  BY <1>0, <1>5
<1>7. QED
  BY <1>6 DEF h, V

\* Of p's first n entries in the copy `view`, `kept` has the holder they lead
\* to and no other; it has the later ones that `view` has.
KeepsHolder(l, view, kept, p, n) ==
  /\ \A i \in 1 .. n : l[i].path = p =>
       (i \in kept <=> i = Replay(l, view, p)[n])
  /\ \A i \in n + 1 .. Len(l) : l[i].path = p => (i \in kept <=> i \in view)

\* Such a copy replays to the same holders from n on.
LEMMA HolderSuffices ==
  ASSUME NEW l \in Seq(Entry), NEW view, NEW kept, NEW p, NEW n \in 0 .. Len(l),
         KeepsHolder(l, view, kept, p, n)
  PROVE  \A i \in n .. Len(l) : Replay(l, kept, p)[i] = Replay(l, view, p)[i]
<1> DEFINE N == Len(l)
           R == Replay(l, view, p)
           K == Replay(l, kept, p)
           h == R[n]
<1>0. N \in Nat
  BY LenProperties
<1>1. /\ R[0] = 0
      /\ \A i \in 1 .. N : R[i] = ReplayStep(l, view, p, R[i - 1], i)
      /\ \A i \in 0 .. N : R[i] \in 0 .. i
  BY ReplayUnfolds
<1>2. /\ K[0] = 0
      /\ \A i \in 1 .. N : K[i] = ReplayStep(l, kept, p, K[i - 1], i)
      /\ \A i \in 0 .. N : K[i] \in 0 .. i
  BY ReplayUnfolds
<1>3. h # 0 => h \in 1 .. n /\ l[h].path = p /\ l[h].action = "Acquire"
  BY HolderIsAcquire
<1>4. /\ \A i \in 1 .. n : l[i].path = p => (i \in kept <=> i = h)
      /\ \A i \in n + 1 .. N : l[i].path = p => (i \in kept <=> i \in view)
  BY DEF KeepsHolder
<1> HIDE DEF R, K
<1>5. h \in 0 .. n /\ n \in Nat
  BY <1>0, <1>1
<1> HIDE DEF h
\* Until h the kept entries leave p free, and from h to n they leave h.
<1> DEFINE Want(i) == IF i < h THEN K[i] = 0 ELSE IF i <= n THEN K[i] = h ELSE K[i] = R[i]
           P == {i \in Nat : i <= N => Want(i)}
<1>6. 0 \in P
  BY <1>2, <1>5
<1>7. ASSUME NEW i \in Nat, i \in P PROVE i + 1 \in P
  <2> SUFFICES ASSUME i + 1 <= N PROVE Want(i + 1)
    OBVIOUS
  <2>1. Want(i) /\ i + 1 \in 1 .. N
    BY <1>0, <1>7
  <2>2. K[i + 1] = ReplayStep(l, kept, p, K[i], i + 1)
    BY <1>2, <2>1
  <2>3. CASE i + 1 < h
    <3>1. K[i] = 0 /\ i + 1 # h /\ i + 1 \in 1 .. n
      BY <1>5, <2>1, <2>3
    <3>2. QED
      BY <1>4, <2>2, <2>3, <3>1 DEF ReplayStep
  <2>4. CASE i + 1 = h
    <3>1. K[i] = 0 /\ h # 0 /\ i + 1 \in 1 .. n
      BY <1>5, <2>1, <2>4
    <3>2. K[i + 1] = h
      BY <1>3, <1>4, <2>2, <2>4, <3>1 DEF ReplayStep, Apply
    <3>3. QED
      BY <1>5, <2>4, <3>2
  <2>5. CASE h < i + 1 /\ i + 1 <= n
    <3>1. K[i] = h /\ i + 1 # h /\ i + 1 \in 1 .. n
      BY <1>5, <2>1, <2>5
    <3>2. QED
      BY <1>4, <1>5, <2>2, <2>5, <3>1 DEF ReplayStep
  <2>6. CASE n < i + 1
    <3>1. K[i] = R[i] /\ i + 1 \in n + 1 .. N
      <4>1. CASE i = n
        BY <1>5, <2>1, <2>6, <4>1 DEF h
      <4>2. CASE i # n
        BY <1>0, <1>5, <2>1, <2>6, <4>2
      <4>3. QED
        BY <1>0, <1>5, <2>1, <2>6, <4>1, <4>2
    <3>2. R[i + 1] = ReplayStep(l, view, p, R[i], i + 1)
      BY <1>1, <2>1
    <3>3. K[i + 1] = R[i + 1]
      BY <1>4, <2>2, <3>1, <3>2 DEF ReplayStep
    <3>4. QED
      BY <1>5, <2>6, <3>3
  <2>7. QED
    BY <1>0, <1>5, <2>3, <2>4, <2>5, <2>6
<1>8. Nat \subseteq P
  <2> HIDE DEF P
  <2>1. QED
    BY <1>6, <1>7, SetInduction
<1>9. ASSUME NEW i \in n .. N PROVE K[i] = R[i]
  <2>1. Want(i) /\ i \in Nat
    BY <1>0, <1>5, <1>8
  <2>2. QED
    BY <1>5, <2>1 DEF h
<1>10. QED
  BY <1>9 DEF R, K

\* What a compaction keeps is in the copy, and holds its own path.
LEMMA HeldFacts ==
  ASSUME NEW l \in Seq(Entry), NEW view
  PROVE  /\ Held(l, view) \subseteq view
         /\ Held(l, view) \subseteq 1 .. Len(l)
         /\ \A h \in Held(l, view) : h = Holder(l, view, l[h].path)
<1> SUFFICES ASSUME NEW p \in Paths, Holder(l, view, p) # 0
             PROVE  LET h == Holder(l, view, p)
                    IN h \in view /\ h \in 1 .. Len(l) /\ l[h].path = p
  BY DEF Held
<1>1. Len(l) \in 0 .. Len(l)
  BY LenProperties
<1>2. QED
  BY <1>1, HolderIsAcquire DEF Holder

\* Compacting a copy at any earlier point changes no holder.
LEMMA EarlyCompactionUnseen ==
  ASSUME NEW l \in Seq(Entry), NEW view, NEW p \in Paths, NEW n \in 1 .. Len(l)
  PROVE  LET early == {i \in view : i <= n}
         IN Holder(l, Held(l, early) \cup (view \ early), p) = Holder(l, view, p)
<1> DEFINE N     == Len(l)
           early == {i \in view : i <= n}
           kept  == Held(l, early) \cup (view \ early)
           h     == Replay(l, view, p)[n]
<1>0. N \in Nat /\ n \in Nat /\ n \in 0 .. N /\ 0 \in 0 .. n /\ N \in n .. N
  BY LenProperties
<1>1. Holder(l, early, p) = h
  <2>1. Replay(l, early, p)[0] = Replay(l, view, p)[0]
    BY ReplayUnfolds
  <2>2. \A i \in 0 + 1 .. n : i \in early <=> i \in view
    BY <1>0
  <2>3. Replay(l, early, p)[n] = h
    <3>1. n \in 0 .. n
      BY <1>0
    <3> HIDE DEF early
    <3>2. QED
      BY <1>0, <2>1, <2>2, <3>1, ReplaysAgree
  <2>4. \A i \in n + 1 .. N : i \notin early
    BY <1>0
  <2>5. QED
    BY <1>0, <2>3, <2>4, ReplayRests
<1>2. ASSUME NEW i \in 1 .. n, l[i].path = p PROVE i \in kept <=> i = h
  <2>1. i \notin view \ early
    BY <1>0
  <2>2. i \in Held(l, early) => i = h
    BY <1>1, <1>2, HeldFacts
  <2>3. i = h => i \in Held(l, early)
    <3> HIDE DEF h, early
    <3>1. Holder(l, early, p) # 0 => Holder(l, early, p) \in Held(l, early)
      BY DEF Held
    <3>2. QED
      BY <1>1, <3>1
  <2>4. QED
    BY <2>1, <2>2, <2>3
<1>3. ASSUME NEW i \in n + 1 .. N PROVE i \in kept <=> i \in view
  <2>1. i \notin early
    BY <1>0
  <2>2. i \notin Held(l, early)
    BY <2>1, HeldFacts
  <2>3. QED
    BY <2>1, <2>2
<1>4. \A i \in n .. N : Replay(l, kept, p)[i] = Replay(l, view, p)[i]
  <2>1. KeepsHolder(l, view, kept, p, n)
    BY <1>2, <1>3 DEF KeepsHolder
  <2> HIDE DEF kept
  <2>2. QED
    BY <1>0, <2>1, HolderSuffices
<1>5. QED
  BY <1>0, <1>4 DEF Holder

-----------------------------------------------------------------------------
(* Inserting an entry                                                      *)

\* l2 is l with one more entry, at k.
OneMore(l, l2, k) ==
  /\ Len(l2) = Len(l) + 1
  /\ k \in 1 .. Len(l) + 1
  /\ \A i \in 1 .. k - 1 : l2[i] = l[i]
  /\ \A i \in k .. Len(l) : l2[i + 1] = l[i]

\* w has the old entries that v has.
SameBut(v, w, k, N) ==
  /\ \A i \in 1 .. k - 1 : i \in w <=> i \in v
  /\ \A i \in k .. N : i + 1 \in w <=> i \in v

\* One more entry changes no holder before it, and none behind it either when
\* it is of another path or not in the copy.
LEMMA ReplayShifts ==
  ASSUME NEW l \in Seq(Entry), NEW l2 \in Seq(Entry), NEW k, OneMore(l, l2, k),
         NEW v, NEW w, SameBut(v, w, k, Len(l)), NEW p
  PROVE  /\ \A i \in 0 .. k - 1 : Replay(l2, w, p)[i] = Replay(l, v, p)[i]
         /\ (k \notin w \/ l2[k].path # p) =>
              \A i \in k - 1 .. Len(l) :
                Replay(l2, w, p)[i + 1] = Shifted(Replay(l, v, p)[i], k, 1)
<1> DEFINE N == Len(l)
           R == Replay(l, v, p)
           Q == Replay(l2, w, p)
<1>0. /\ N \in Nat /\ k \in 1 .. N + 1 /\ k \in Nat /\ Len(l2) = N + 1
      /\ \A i \in 1 .. k - 1 : l2[i] = l[i] /\ (i \in w <=> i \in v)
      /\ \A i \in k .. N : l2[i + 1] = l[i] /\ (i + 1 \in w <=> i \in v)
  BY LenProperties DEF OneMore, SameBut
<1>1. /\ R[0] = 0
      /\ \A i \in 1 .. N : R[i] = ReplayStep(l, v, p, R[i - 1], i)
      /\ \A i \in 0 .. N : R[i] \in 0 .. i
  BY ReplayUnfolds
<1>2. /\ Q[0] = 0
      /\ \A i \in 1 .. N + 1 : Q[i] = ReplayStep(l2, w, p, Q[i - 1], i)
      /\ \A i \in 0 .. N + 1 : Q[i] \in 0 .. i
  BY <1>0, ReplayUnfolds
<1> HIDE DEF R, Q
<1>3. ASSUME NEW i \in 0 .. k - 1 PROVE Q[i] = R[i]
  <2> DEFINE P == {n \in Nat : n <= k - 1 => Q[n] = R[n]}
  <2>1. 0 \in P
    BY <1>1, <1>2
  <2>2. ASSUME NEW n \in Nat, n \in P PROVE n + 1 \in P
    <3> SUFFICES ASSUME n + 1 <= k - 1 PROVE Q[n + 1] = R[n + 1]
      OBVIOUS
    <3>1. /\ Q[n] = R[n] /\ n + 1 \in 1 .. k - 1 /\ n + 1 \in 1 .. N
          /\ n + 1 \in 1 .. N + 1 /\ n \in 0 .. N
      BY <1>0, <2>2
    <3>2. Q[n + 1] = ReplayStep(l2, w, p, R[n], n + 1)
      BY <1>2, <3>1
    <3>3. R[n + 1] = ReplayStep(l, v, p, R[n], n + 1)
      BY <1>1, <3>1
    <3>4. R[n] = 0 \/ R[n] \in 1 .. k - 1
      BY <1>0, <1>1, <3>1
    <3>5. l2[n + 1] = l[n + 1] /\ (n + 1 \in w <=> n + 1 \in v) /\ (R[n] # 0 => l2[R[n]] = l[R[n]])
      BY <1>0, <3>1, <3>4
    <3>6. QED
      BY <3>2, <3>3, <3>5 DEF ReplayStep, Apply
  <2>3. Nat \subseteq P
    <3> HIDE DEF P
    <3>1. QED
      BY <2>1, <2>2, SetInduction
  <2>4. QED
    BY <1>0, <2>3
<1>4. ASSUME k \notin w \/ l2[k].path # p, NEW i \in k - 1 .. N
      PROVE  Q[i + 1] = Shifted(R[i], k, 1)
  <2> DEFINE P == {n \in Nat : k - 1 <= n /\ n <= N => Q[n + 1] = Shifted(R[n], k, 1)}
  <2>0. Q[k] = Shifted(R[k - 1], k, 1)
    <3>1. k \in 1 .. N + 1 /\ k - 1 \in 0 .. k - 1 /\ k - 1 \in 0 .. N
      BY <1>0
    <3>2. Q[k] = Q[k - 1]
      BY <1>2, <1>4, <3>1 DEF ReplayStep
    <3>3. Q[k] = R[k - 1] /\ R[k - 1] \in 0 .. k - 1
      BY <1>1, <1>3, <3>1, <3>2
    <3>4. QED
      BY <1>0, <3>3 DEF Shifted
  <2>1. 0 \in P
    <3> SUFFICES ASSUME k - 1 <= 0 PROVE Q[0 + 1] = Shifted(R[0], k, 1)
      OBVIOUS
    <3>1. k = 1
      BY <1>0
    <3>2. QED
      BY <2>0, <3>1
  <2>2. ASSUME NEW n \in Nat, n \in P PROVE n + 1 \in P
    <3> SUFFICES ASSUME k - 1 <= n + 1, n + 1 <= N
                 PROVE  Q[n + 1 + 1] = Shifted(R[n + 1], k, 1)
      OBVIOUS
    <3>1. CASE n + 1 = k - 1
      <4>1. n + 1 + 1 = k
        BY <1>0, <3>1
      <4>2. QED
        BY <2>0, <3>1, <4>1
    <3>2. CASE n + 1 # k - 1
      <4>1. /\ Q[n + 1] = Shifted(R[n], k, 1) /\ n + 1 \in k .. N /\ n + 1 \in 1 .. N
            /\ n + 1 + 1 \in 1 .. N + 1 /\ n \in 0 .. N /\ n + 1 + 1 - 1 = n + 1
            /\ n + 1 - 1 = n
        BY <1>0, <2>2, <3>2
      <4>2. Q[n + 1 + 1] = ReplayStep(l2, w, p, Q[n + 1], n + 1 + 1)
        BY <1>2, <4>1
      <4>3. R[n + 1] = ReplayStep(l, v, p, R[n], n + 1) /\ R[n] \in 0 .. n
        BY <1>1, <4>1
      <4>4. l2[n + 1 + 1] = l[n + 1] /\ (n + 1 + 1 \in w <=> n + 1 \in v)
        BY <1>0, <4>1
      <4>5. /\ Shifted(n + 1, k, 1) = n + 1 + 1
            /\ Shifted(0, k, 1) = 0
            /\ R[n] # 0 => Shifted(R[n], k, 1) # 0
        BY <1>0, <4>1, <4>3 DEF Shifted
      <4>6. R[n] # 0 => l2[Shifted(R[n], k, 1)] = l[R[n]]
        <5>1. CASE R[n] < k /\ R[n] # 0
          <6>1. R[n] \in 1 .. k - 1
            BY <1>0, <4>3, <5>1
          <6>2. QED
            BY <1>0, <5>1, <6>1 DEF Shifted
        <5>2. CASE ~(R[n] < k)
          <6>1. R[n] \in k .. N
            BY <1>0, <4>1, <4>3, <5>2
          <6>2. QED
            BY <1>0, <5>2, <6>1 DEF Shifted
        <5>3. QED
          BY <5>1, <5>2
      <4> DEFINE h == R[n]
                 g == Shifted(h, k, 1)
      <4>7. /\ g = 0 <=> h = 0
            /\ h # 0 => l2[g] = l[h]
        BY <4>5, <4>6
      <4>8. Apply(l2, g, n + 1 + 1) = Shifted(Apply(l, h, n + 1), k, 1)
        <5> HIDE DEF g
        <5>1. l[n + 1] \in Entry
          BY <4>1, ElementOfSeq
        <5>2. g = Shifted(h, k, 1)
          BY DEF g
        <5> HIDE DEF h
        <5>3. CASE l[n + 1].action = "Acquire"
          <6>1. CASE h = 0 \/ Takes(l[h], l[n + 1])
            BY <4>4, <4>5, <4>7, <5>3, <6>1 DEF Apply
          <6>2. CASE ~(h = 0 \/ Takes(l[h], l[n + 1]))
            BY <4>4, <4>7, <5>2, <5>3, <6>2 DEF Apply
          <6>3. QED
            BY <6>1, <6>2
        <5>4. CASE l[n + 1].action = "Release"
          <6>1. CASE h # 0 /\ Same(l[h].actor, l[n + 1].actor)
            BY <4>4, <4>5, <4>7, <5>4, <6>1 DEF Apply
          <6>2. CASE ~(h # 0 /\ Same(l[h].actor, l[n + 1].actor))
            BY <4>4, <4>7, <5>2, <5>4, <6>2 DEF Apply
          <6>3. QED
            BY <6>1, <6>2
        <5>5. QED
          BY <5>1, <5>3, <5>4 DEF Entry
      <4>9. QED
        <5> HIDE DEF g, h
        <5>1. Q[n + 1] = g /\ R[n] = h /\ g = Shifted(h, k, 1)
          BY <4>1 DEF g, h
        <5>2. QED
          BY <4>2, <4>3, <4>4, <4>8, <5>1 DEF ReplayStep
    <3>3. QED
      BY <3>1, <3>2
  <2>3. Nat \subseteq P
    <3> HIDE DEF P
    <3>1. QED
      BY <2>1, <2>2, SetInduction
  <2>4. i \in Nat /\ k - 1 <= i /\ i <= N
    BY <1>0, <1>4
  <2>5. QED
    BY <2>3, <2>4
<1>5. QED
  BY <1>3, <1>4 DEF R, Q

\* Where positions go when one entry is inserted at k.
LEMMA MovedFacts ==
  ASSUME NEW N \in Nat, NEW k \in 1 .. N + 1, NEW S \in SUBSET (1 .. N)
  PROVE  /\ SameBut(S, Moved(S, k, 1), k, N)
         /\ k \notin Moved(S, k, 1)
         /\ Moved(S, k, 1) \subseteq 1 .. N + 1
BY DEF Moved, Shifted, SameBut

-----------------------------------------------------------------------------
(* A path used on one device                                               *)

\* The entries of path p, and its holders in a copy that has them all.
Of(l, p) == {i \in 1 .. Len(l) : l[i].path = p}
Full(l, p) == Replay(l, 1 .. Len(l), p)

\* A copy that received the positions S and dropped D has the first entries of
\* p, without a gap.
NoGap(l, p, S) == \A i \in Of(l, p) \cap S : \A j \in Of(l, p) : j <= i => j \in S

\* Up to position m it has dropped all but the entry that held p there, and
\* none behind m.
KeptFrom(l, p, S, D, m) ==
  \A i \in Of(l, p) : /\ i \in D <=> i <= m /\ i # Full(l, p)[m]
                      /\ i <= m => i \in S

CopyFine(l, p, S, D) ==
  NoGap(l, p, S) /\ \E m \in 0 .. Len(l) : KeptFrom(l, p, S, D, m)

\* What it has received of p are the entries up to n, and it names the holder
\* they lead to.
UpTo(l, p, S, D, n) ==
  /\ \A i \in Of(l, p) : i \in S <=> i <= n
  /\ \A i \in Of(l, p) : i \in D => i <= n /\ i # Full(l, p)[n]
  /\ Holder(l, S \ D, p) = Full(l, p)[n]

\* Such a copy names the holder after the last entry of p it has received.
LEMMA FineHolder ==
  ASSUME NEW l \in Seq(Entry), NEW p, NEW S, NEW D, CopyFine(l, p, S, D)
  PROVE  \E n \in 0 .. Len(l) : UpTo(l, p, S, D, n)
<1> DEFINE N == Len(l)
           O == Of(l, p)
           F == Full(l, p)
<1>0. N \in Nat /\ O \subseteq 1 .. N
  BY LenProperties DEF Of
<1>1. PICK m \in 0 .. N : KeptFrom(l, p, S, D, m)
  BY DEF CopyFine
<1>2. PICK n \in 0 .. N : m <= n /\ \A i \in O : i \in S <=> i <= n
  <2>1. CASE O \subseteq S
    <3>1. m <= N /\ \A i \in O : i \in S <=> i <= N
      BY <1>0, <2>1
    <3>2. QED
      BY <1>0, <3>1
  <2>2. CASE ~(O \subseteq S)
    <3>1. O \ S # {} /\ O \ S \in SUBSET Nat
      BY <1>0, <2>2
    <3>2. PICK u \in O \ S : \A i \in O \ S : u <= i
      BY <3>1, LeastMember
    <3>3. u \in 1 .. N /\ ~(u <= m)
      BY <1>0, <1>1, <3>2 DEF KeptFrom
    <3>4. ASSUME NEW i \in O PROVE i \in S <=> i <= u - 1
      <4>1. i \in S => ~(u <= i)
        BY <3>2 DEF CopyFine, NoGap
      <4>2. i \notin S => u <= i
        BY <3>2
      <4>3. i \in 1 .. N /\ u \in 1 .. N
        BY <1>0, <3>3
      <4>4. QED
        BY <4>1, <4>2, <4>3
    <3>5. u - 1 \in 0 .. N /\ m <= u - 1
      BY <1>0, <3>3
    <3>6. QED
      BY <3>4, <3>5
  <2>3. QED
    BY <2>1, <2>2
<1> DEFINE all  == 1 .. N
           kept == (S \ D) \cup {i \in all : i > n}
<1>3. KeepsHolder(l, all, kept, p, m)
  <2>1. ASSUME NEW i \in 1 .. m, l[i].path = p PROVE i \in kept <=> i = F[m]
    <3>1. i \in O /\ i <= m /\ ~(i > n)
      BY <1>0, <1>2, <2>1 DEF Of
    <3>2. i \in S /\ (i \in D <=> i # F[m])
      BY <1>1, <3>1 DEF KeptFrom
    <3>3. QED
      BY <3>1, <3>2
  <2>2. ASSUME NEW i \in m + 1 .. N, l[i].path = p PROVE i \in kept <=> i \in all
    <3>1. i \in O /\ ~(i <= m) /\ i \in all
      BY <1>0, <2>2 DEF Of
    <3>2. i \notin D
      BY <1>1, <3>1 DEF KeptFrom
    <3>3. i \in S \/ i > n
      BY <1>0, <1>2, <3>1
    <3>4. QED
      BY <3>1, <3>2, <3>3
  <2>3. QED
    BY <2>1, <2>2 DEF KeepsHolder, Full
<1>4. Replay(l, kept, p)[n] = F[n]
  <2>1. n \in m .. N /\ m \in 0 .. N
    BY <1>0, <1>2
  <2> HIDE DEF kept
  <2>2. QED
    BY <1>3, <2>1, HolderSuffices DEF Full
<1>5. Replay(l, S \ D, p)[n] = Replay(l, kept, p)[n]
  <2>1. Replay(l, S \ D, p)[0] = Replay(l, kept, p)[0]
    BY ReplayUnfolds
  <2>2. \A i \in 0 + 1 .. n : i \in S \ D <=> i \in kept
    BY <1>0
  <2>3. n \in 0 .. n /\ 0 \in 0 .. n
    BY <1>0
  <2> HIDE DEF kept
  <2> DEFINE view == S \ D
  <2>4. Replay(l, view, p)[0] = Replay(l, kept, p)[0] /\ \A i \in 0 + 1 .. n : i \in view <=> i \in kept
    BY <2>1, <2>2
  <2> HIDE DEF view
  <2>5. \A i \in 0 .. n : Replay(l, view, p)[i] = Replay(l, kept, p)[i]
    BY <2>3, <2>4, ReplaysAgree
  <2>6. QED
    BY <2>3, <2>5 DEF view
<1>6. Holder(l, S \ D, p) = Replay(l, S \ D, p)[n]
  <2>1. ASSUME NEW i \in n + 1 .. N, l[i].path = p PROVE i \notin S \ D
    <3>1. i \in O /\ ~(i <= n)
      BY <1>0, <2>1 DEF Of
    <3>2. QED
      BY <1>2, <3>1
  <2> DEFINE view == S \ D
  <2>2. \A i \in n + 1 .. N : i \notin view \/ l[i].path # p
    BY <2>1
  <2> HIDE DEF view
  <2>3. Holder(l, view, p) = Replay(l, view, p)[n]
    BY <2>2, ReplayRests
  <2>4. QED
    BY <2>3 DEF view
<1>7. ASSUME NEW i \in O, i \in D PROVE i <= n /\ i # F[n]
  <2>1. i <= m /\ i # F[m] /\ i \in 1 .. N
    BY <1>0, <1>1, <1>7 DEF KeptFrom
  <2>2. i <= n
    BY <1>0, <1>2, <2>1
  <2>3. ASSUME i = F[n] PROVE FALSE
    <3>1. m \in 0 .. n /\ n \in 0 .. N /\ F[n] # 0 /\ F[n] <= m
      BY <1>0, <1>2, <2>1, <2>3
    <3> DEFINE v == 1 .. Len(l)
    <3>2. F = Replay(l, v, p)
      BY DEF Full
    <3> HIDE DEF v
    <3>3. Replay(l, v, p)[m] = Replay(l, v, p)[n]
      BY <3>1, <3>2, HeldSince
    <3>4. QED
      BY <2>1, <2>3, <3>2, <3>3
  <2>4. QED
    BY <2>2, <2>3
<1>8. UpTo(l, p, S, D, n)
  BY <1>2, <1>4, <1>5, <1>6, <1>7 DEF UpTo
<1>9. QED
  BY <1>8

\* With all of p's entries, it names the holder that the whole log names.
LEMMA FineHolderOfAll ==
  ASSUME NEW l \in Seq(Entry), NEW p, NEW S, NEW D, CopyFine(l, p, S, D),
         Of(l, p) \subseteq S
  PROVE  Holder(l, S \ D, p) = Full(l, p)[Len(l)]
<1>0. Len(l) \in Nat
  BY LenProperties
<1>1. PICK n \in 0 .. Len(l) : UpTo(l, p, S, D, n)
  BY FineHolder
<1>2. \A i \in n + 1 .. Len(l) : l[i].path # p
  <2> SUFFICES ASSUME NEW i \in n + 1 .. Len(l), l[i].path = p PROVE FALSE
    OBVIOUS
  <2>1. i \in Of(l, p) /\ ~(i <= n)
    BY <1>0 DEF Of
  <2>2. QED
    BY <1>1, <2>1 DEF UpTo
<1> DEFINE v == 1 .. Len(l)
<1>3. Full(l, p) = Replay(l, v, p)
  BY DEF Full
<1> HIDE DEF v
<1>4. Len(l) \in 0 .. Len(l) /\ n \in 0 .. Len(l)
  BY <1>0
<1>5. Replay(l, v, p)[Len(l)] = Replay(l, v, p)[n]
  BY <1>2, <1>4, ReplayStays
<1>6. QED
  BY <1>1, <1>3, <1>5 DEF UpTo

\* Compacting such a copy keeps it so.
LEMMA FineCompacts ==
  ASSUME NEW l \in Seq(Entry), NEW p \in Paths, NEW S, NEW D, CopyFine(l, p, S, D)
  PROVE  CopyFine(l, p, S, D \cup ((S \ D) \ Compacted(l, S \ D)))
<1> DEFINE view == S \ D
           E    == D \cup (view \ Compacted(l, view))
           O    == Of(l, p)
           F    == Full(l, p)
<1>1. CASE Compacted(l, view) = view
  <2>1. E = D
    BY <1>1
  <2>2. QED
    BY <2>1
<1>2. CASE Compacted(l, view) = Held(l, view)
  <2>0. Len(l) \in Nat /\ O \subseteq 1 .. Len(l)
    BY LenProperties DEF Of
  <2>1. PICK n \in 0 .. Len(l) : UpTo(l, p, S, D, n)
    BY FineHolder
  <2>2. /\ \A i \in O : i \in S <=> i <= n
        /\ \A i \in O : i \in D => i <= n /\ i # F[n]
        /\ Holder(l, view, p) = F[n]
    BY <2>1 DEF UpTo
  <2>3. ASSUME NEW i \in O, i \in view PROVE i \in Held(l, view) <=> i = F[n]
    <3>1. i \in Held(l, view) => i = Holder(l, view, l[i].path)
      <4> HIDE DEF view
      <4>1. QED
        BY HeldFacts
    <3>2. l[i].path = p /\ i # 0
      BY <2>0 DEF Of
    <3>3. Holder(l, view, p) # 0 => Holder(l, view, p) \in Held(l, view)
      <4> HIDE DEF view
      <4>1. QED
        BY DEF Held
    <3>4. QED
      BY <2>2, <3>1, <3>2, <3>3
  <2>4. ASSUME NEW i \in O PROVE /\ i \in E <=> i <= n /\ i # F[n]
                                 /\ i <= n => i \in S
    <3>1. i \in E <=> (i \in D \/ (i \in view /\ i \notin Held(l, view)))
      BY <1>2
    <3>2. QED
      BY <2>2, <2>3, <3>1
  <2>5. KeptFrom(l, p, S, E, n)
    BY <2>4 DEF KeptFrom
  <2>6. NoGap(l, p, S)
    BY DEF CopyFine
  <2> HIDE DEF E
  <2>7. CopyFine(l, p, S, E)
    BY <2>5, <2>6 DEF CopyFine
  <2>8. QED
    BY <2>7 DEF E
<1>3. QED
  BY <1>1, <1>2 DEF Compacted

\* So does merging two of them: what the copy that dropped more kept, the other
\* one kept as well or has not dropped yet.
LEMMA FineMerges ==
  ASSUME NEW l \in Seq(Entry), NEW p, NEW S, NEW D, NEW T, NEW E,
         CopyFine(l, p, S, D), CopyFine(l, p, T, E)
  PROVE  CopyFine(l, p, S \cup T, D \cup E)
<1> DEFINE O == Of(l, p)
           F == Full(l, p)
<1>0. Len(l) \in Nat /\ O \subseteq 1 .. Len(l)
  BY LenProperties DEF Of
<1>1. NoGap(l, p, S \cup T)
  BY DEF CopyFine, NoGap
<1>2. ASSUME NEW A, NEW B, NEW C, NEW G, NEW m \in 0 .. Len(l), NEW n \in 0 .. Len(l), m <= n,
             KeptFrom(l, p, A, B, m), KeptFrom(l, p, C, G, n)
      PROVE  KeptFrom(l, p, A \cup C, B \cup G, n)
  <2> SUFFICES ASSUME NEW i \in O
               PROVE  /\ i \in B \cup G <=> i <= n /\ i # F[n]
                      /\ i <= n => i \in A \cup C
    BY DEF KeptFrom
  <2>1. i \in 1 .. Len(l)
    BY <1>0
  <2>2. /\ i \in B <=> i <= m /\ i # F[m]
        /\ i \in G <=> i <= n /\ i # F[n]
        /\ i <= n => i \in C
    BY <1>2 DEF KeptFrom
  <2>3. i <= m => i <= n
    BY <1>0, <1>2, <2>1
  <2>4. i <= m /\ i = F[n] => i = F[m]
    <3> SUFFICES ASSUME i <= m, i = F[n] PROVE i = F[m]
      OBVIOUS
    <3> DEFINE v == 1 .. Len(l)
    <3>1. F = Replay(l, v, p)
      BY DEF Full
    <3>2. m \in 0 .. n /\ i # 0
      BY <1>0, <1>2, <2>1
    <3> HIDE DEF v
    <3>3. Replay(l, v, p)[m] = Replay(l, v, p)[n]
      BY <3>1, <3>2, HeldSince
    <3>4. QED
      BY <3>1, <3>3
  <2>5. QED
    BY <2>2, <2>3, <2>4
<1>3. PICK m \in 0 .. Len(l) : KeptFrom(l, p, S, D, m)
  BY DEF CopyFine
<1>4. PICK n \in 0 .. Len(l) : KeptFrom(l, p, T, E, n)
  BY DEF CopyFine
<1>5. \E j \in 0 .. Len(l) : KeptFrom(l, p, S \cup T, D \cup E, j)
  <2>1. CASE m <= n
    BY <1>2, <1>3, <1>4, <2>1
  <2>2. CASE n <= m
    <3>1. KeptFrom(l, p, T \cup S, E \cup D, m)
      BY <1>2, <1>3, <1>4, <2>2
    <3>2. T \cup S = S \cup T /\ E \cup D = D \cup E
      OBVIOUS
    <3>3. QED
      BY <3>1, <3>2
  <2>3. m <= n \/ n <= m
    BY <1>0
  <2>4. QED
    BY <2>1, <2>2, <2>3
<1>6. QED
  BY <1>1, <1>5 DEF CopyFine

\* The whole log, before and after one more entry.
LEMMA WholeMoves ==
  ASSUME NEW l \in Seq(Entry), NEW l2 \in Seq(Entry), NEW k, OneMore(l, l2, k)
  PROVE  SameBut(1 .. Len(l), 1 .. Len(l2), k, Len(l))
<1>1. Len(l) \in Nat /\ k \in 1 .. Len(l) + 1 /\ Len(l2) = Len(l) + 1
  BY LenProperties DEF OneMore
<1>2. QED
  BY <1>1 DEF SameBut

\* An entry of another path leaves it so.
LEMMA FineMoves ==
  ASSUME NEW l \in Seq(Entry), NEW l2 \in Seq(Entry), NEW k, OneMore(l, l2, k), NEW p,
         l2[k].path # p,
         NEW S \in SUBSET (1 .. Len(l)), NEW D \in SUBSET (1 .. Len(l)), NEW X \in SUBSET {k},
         CopyFine(l, p, S, D)
  PROVE  CopyFine(l2, p, Moved(S, k, 1) \cup X, Moved(D, k, 1))
<1> DEFINE N == Len(l)
           O == Of(l, p)
           P == Of(l2, p)
           F == Full(l, p)
           G == Full(l2, p)
           T == Moved(S, k, 1) \cup X
           E == Moved(D, k, 1)
           back(j) == IF j < k THEN j ELSE j - 1
<1>0. /\ N \in Nat /\ k \in 1 .. N + 1 /\ k \in Nat /\ Len(l2) = N + 1
      /\ \A i \in 1 .. k - 1 : l2[i] = l[i]
      /\ \A i \in k .. N : l2[i + 1] = l[i]
  BY LenProperties DEF OneMore
<1>1. /\ \A i \in 1 .. k - 1 : i \in Moved(S, k, 1) <=> i \in S
      /\ \A i \in k .. N : i + 1 \in Moved(S, k, 1) <=> i \in S
  BY <1>0, MovedFacts DEF SameBut
<1>2. /\ \A i \in 1 .. k - 1 : i \in E <=> i \in D
      /\ \A i \in k .. N : i + 1 \in E <=> i \in D
  BY <1>0, MovedFacts DEF SameBut
<1>3. /\ \A i \in 0 .. k - 1 : G[i] = F[i]
      /\ \A i \in k - 1 .. N : G[i + 1] = Shifted(F[i], k, 1)
  <2> DEFINE v == 1 .. Len(l)
             w == 1 .. Len(l2)
  <2>1. SameBut(v, w, k, Len(l))
    BY WholeMoves
  <2>2. F = Replay(l, v, p) /\ G = Replay(l2, w, p)
    BY DEF Full
  <2> HIDE DEF v, w, F, G
  <2>3. QED
    BY <2>1, <2>2, ReplayShifts
<1>4. \A i \in 0 .. N : F[i] \in 0 .. i
  BY ReplayUnfolds DEF Full
<1>5. ASSUME NEW j \in P
      PROVE  /\ back(j) \in O /\ back(j) \in 1 .. N /\ j \in 1 .. N + 1 /\ j # k
             /\ j \in T <=> back(j) \in S
             /\ j \in E <=> back(j) \in D
  <2>1. j \in 1 .. N + 1 /\ l2[j].path = p /\ j # k
    BY <1>0 DEF Of
  <2>2. CASE j < k
    <3>1. j \in 1 .. k - 1 /\ back(j) = j /\ j \in 1 .. N
      BY <1>0, <2>1, <2>2
    <3>2. QED
      BY <1>0, <1>1, <1>2, <2>1, <3>1 DEF Of
  <2>3. CASE ~(j < k)
    <3>1. j - 1 \in k .. N /\ back(j) = j - 1 /\ j - 1 + 1 = j /\ j - 1 \in 1 .. N
      BY <1>0, <2>1, <2>3
    <3>2. l[j - 1] = l2[j] /\ (j \in Moved(S, k, 1) <=> j - 1 \in S) /\ (j \in E <=> j - 1 \in D)
      BY <1>0, <1>1, <1>2, <3>1
    <3>3. j \notin X
      BY <2>1
    <3>4. back(j) \in O
      BY <2>1, <3>1, <3>2 DEF Of
    <3>5. QED
      BY <2>1, <3>1, <3>2, <3>3, <3>4
  <2>4. QED
    BY <2>2, <2>3
<1>6. NoGap(l2, p, T)
  <2> SUFFICES ASSUME NEW i \in P, i \in T, NEW j \in P, j <= i PROVE j \in T
    BY DEF NoGap
  <2>1. back(i) \in O /\ back(j) \in O /\ back(i) \in S /\ i \in 1 .. N + 1 /\ j \in 1 .. N + 1
        /\ i # k /\ j # k
    BY <1>5
  <2>2. back(j) <= back(i)
    BY <1>0, <2>1
  <2>3. back(j) \in S
    <3> HIDE DEF back
    <3>1. QED
      BY <2>1, <2>2 DEF CopyFine, NoGap
  <2>4. QED
    BY <1>5, <2>3
<1>7. PICK m \in 0 .. N : KeptFrom(l, p, S, D, m)
  BY DEF CopyFine
<1> DEFINE n == IF m < k THEN m ELSE m + 1
<1>8. n \in 0 .. N + 1 /\ G[n] = Shifted(F[m], k, 1) /\ F[m] \in 0 .. N
  <2>1. F[m] \in 0 .. m /\ m \in Nat /\ m <= N
    BY <1>0, <1>4, <1>7
  <2>2. CASE m < k
    <3>1. m \in 0 .. k - 1 /\ Shifted(F[m], k, 1) = F[m] /\ n = m
      BY <1>0, <2>1, <2>2 DEF Shifted
    <3>2. QED
      BY <1>0, <1>3, <2>1, <3>1
  <2>3. CASE ~(m < k)
    <3>1. m \in k - 1 .. N /\ n = m + 1
      BY <1>0, <2>1, <2>3
    <3>2. QED
      BY <1>0, <1>3, <2>1, <3>1
  <2>4. QED
    BY <2>2, <2>3
<1>9. KeptFrom(l2, p, T, E, n)
  <2> SUFFICES ASSUME NEW j \in P
               PROVE  /\ j \in E <=> j <= n /\ j # G[n]
                      /\ j <= n => j \in T
    BY DEF KeptFrom
  <2>1. /\ back(j) \in O /\ back(j) \in 1 .. N /\ j \in 1 .. N + 1 /\ j # k
        /\ j \in T <=> back(j) \in S
        /\ j \in E <=> back(j) \in D
    BY <1>5
  <2>2. /\ back(j) \in D <=> back(j) <= m /\ back(j) # F[m]
        /\ back(j) <= m => back(j) \in S
    <3> HIDE DEF back
    <3>1. QED
      BY <1>7, <2>1 DEF KeptFrom
  <2>3. j <= n <=> back(j) <= m
    BY <1>0, <1>7, <2>1
  <2>4. j = Shifted(F[m], k, 1) <=> back(j) = F[m]
    <3>1. F[m] \in Nat
      BY <1>8
    <3>2. ASSUME NEW x \in Nat PROVE j = Shifted(x, k, 1) <=> back(j) = x
      BY <1>0, <2>1 DEF Shifted
    <3> HIDE DEF F, back
    <3>3. QED
      BY <3>1, <3>2
  <2>5. QED
    <3> HIDE DEF back, n, E, T, F, G
    <3>1. QED
      BY <1>8, <2>1, <2>2, <2>3, <2>4
<1>10. QED
  <2> HIDE DEF n, T, E
  <2>1. n \in 0 .. Len(l2)
    BY <1>0, <1>8
  <2>2. CopyFine(l2, p, T, E)
    BY <1>6, <1>9, <2>1 DEF CopyFine
  <2>3. QED
    BY <2>2 DEF T, E

\* So does an entry of the path itself behind all the others, when a copy that
\* receives it has the others.
LEMMA FineGrows ==
  ASSUME NEW l \in Seq(Entry), NEW l2 \in Seq(Entry), NEW k, OneMore(l, l2, k), NEW p,
         \A i \in Of(l, p) : i < k,
         NEW S \in SUBSET (1 .. Len(l)), NEW D \in SUBSET (1 .. Len(l)), NEW X \in SUBSET {k},
         X # {} => Of(l, p) \subseteq S,
         CopyFine(l, p, S, D)
  PROVE  CopyFine(l2, p, Moved(S, k, 1) \cup X, Moved(D, k, 1))
<1> DEFINE N == Len(l)
           O == Of(l, p)
           P == Of(l2, p)
           F == Full(l, p)
           G == Full(l2, p)
           T == Moved(S, k, 1) \cup X
           E == Moved(D, k, 1)
<1>0. /\ N \in Nat /\ k \in 1 .. N + 1 /\ k \in Nat /\ Len(l2) = N + 1
      /\ \A i \in 1 .. k - 1 : l2[i] = l[i]
      /\ \A i \in k .. N : l2[i + 1] = l[i]
      /\ O \subseteq 1 .. N
  BY LenProperties DEF OneMore, Of
<1>1. /\ \A i \in 1 .. k - 1 : i \in Moved(S, k, 1) <=> i \in S
      /\ k \notin Moved(S, k, 1)
  BY <1>0, MovedFacts DEF SameBut
<1>2. /\ \A i \in 1 .. k - 1 : i \in E <=> i \in D
      /\ k \notin E
  BY <1>0, MovedFacts DEF SameBut
<1>3. \A i \in 0 .. k - 1 : G[i] = F[i]
  <2> DEFINE v == 1 .. Len(l)
             w == 1 .. Len(l2)
  <2>1. SameBut(v, w, k, Len(l))
    BY WholeMoves
  <2>2. F = Replay(l, v, p) /\ G = Replay(l2, w, p)
    BY DEF Full
  <2> HIDE DEF v, w, F, G
  <2>3. QED
    BY <2>1, <2>2, ReplayShifts
<1>4. ASSUME NEW j \in P, j # k
      PROVE  /\ j \in O /\ j \in 1 .. k - 1
             /\ j \in T <=> j \in S
             /\ j \in E <=> j \in D
  <2>1. j \in 1 .. N + 1 /\ l2[j].path = p
    BY <1>0 DEF Of
  <2>2. j < k
    <3> SUFFICES ASSUME ~(j < k) PROVE FALSE
      OBVIOUS
    <3>1. j - 1 \in k .. N /\ j - 1 + 1 = j /\ j - 1 \in 1 .. N /\ ~(j - 1 < k)
      BY <1>0, <1>4, <2>1
    <3>2. l[j - 1] = l2[j]
      BY <1>0, <3>1
    <3>3. j - 1 \in O
      BY <2>1, <3>1, <3>2 DEF Of
    <3>4. QED
      BY <3>1, <3>3
  <2>3. j \in 1 .. k - 1 /\ j \in 1 .. N
    BY <1>0, <2>1, <2>2
  <2>4. j \in O
    BY <1>0, <2>1, <2>3 DEF Of
  <2>5. j \notin X
    BY <1>4
  <2>6. QED
    BY <1>1, <1>2, <2>3, <2>4, <2>5
<1>5. NoGap(l2, p, T)
  <2> SUFFICES ASSUME NEW i \in P, i \in T, NEW j \in P, j <= i PROVE j \in T
    BY DEF NoGap
  <2>1. CASE i = k
    <3>1. X # {}
      BY <1>1, <2>1
    <3>2. CASE j = k
      BY <2>1, <3>2
    <3>3. CASE j # k
      BY <1>4, <3>1, <3>3
    <3>4. QED
      BY <3>2, <3>3
  <2>2. CASE i # k
    <3>1. i \in O /\ i \in S /\ i \in 1 .. k - 1
      BY <1>4, <2>2
    <3>2. j # k
      BY <1>0, <3>1
    <3>3. j \in O
      BY <1>4, <3>2
    <3>4. j \in S
      BY <3>1, <3>3 DEF CopyFine, NoGap
    <3>5. QED
      BY <1>4, <3>2, <3>4
  <2>3. QED
    BY <2>1, <2>2
<1>6. PICK m \in 0 .. N : KeptFrom(l, p, S, D, m)
  BY DEF CopyFine
<1>7. PICK n \in 0 .. N : n < k /\ KeptFrom(l, p, S, D, n)
  <2>1. CASE m < k
    BY <1>6, <2>1
  <2>2. CASE ~(m < k)
    <3>1. k - 1 \in 0 .. N /\ k - 1 < k /\ k - 1 \in 0 .. m /\ m \in 0 .. N
      BY <1>0, <1>6, <2>2
    <3>2. F[m] = F[k - 1]
      <4> DEFINE v == 1 .. Len(l)
      <4>1. F = Replay(l, v, p)
        BY DEF Full
      <4>2. \A i \in k - 1 + 1 .. m : l[i].path # p
        <5> SUFFICES ASSUME NEW i \in k - 1 + 1 .. m, l[i].path = p PROVE FALSE
          OBVIOUS
        <5>1. i \in O /\ ~(i < k)
          BY <1>0, <1>6 DEF Of
        <5>2. QED
          BY <5>1
      <4> HIDE DEF v, F
      <4>3. QED
        BY <3>1, <4>1, <4>2, ReplayStays
    <3>3. ASSUME NEW i \in O PROVE i <= m /\ i <= k - 1
      BY <1>0, <1>6, <2>2, <3>3
    <3>4. KeptFrom(l, p, S, D, k - 1)
      BY <1>6, <3>2, <3>3 DEF KeptFrom
    <3>5. QED
      BY <3>1, <3>4
  <2>3. QED
    BY <2>1, <2>2
<1>8. G[n] = F[n] /\ ~(k <= n) /\ n \in 0 .. N + 1
  <2>1. n \in 0 .. k - 1
    BY <1>0, <1>7
  <2>2. QED
    BY <1>0, <1>3, <1>7, <2>1
<1>9. KeptFrom(l2, p, T, E, n)
  <2> SUFFICES ASSUME NEW j \in P
               PROVE  /\ j \in E <=> j <= n /\ j # G[n]
                      /\ j <= n => j \in T
    BY DEF KeptFrom
  <2>1. CASE j = k
    BY <1>2, <1>8, <2>1
  <2>2. CASE j # k
    <3>1. /\ j \in D <=> j <= n /\ j # F[n]
          /\ j <= n => j \in S
      BY <1>4, <1>7, <2>2 DEF KeptFrom
    <3>2. QED
      BY <1>4, <1>8, <2>2, <3>1
  <2>3. QED
    BY <2>1, <2>2
<1>10. QED
  <2> HIDE DEF T, E
  <2>1. n \in 0 .. Len(l2)
    BY <1>0, <1>8
  <2>2. CopyFine(l2, p, T, E)
    BY <1>5, <1>9, <2>1 DEF CopyFine
  <2>3. QED
    BY <2>2 DEF T, E

-----------------------------------------------------------------------------
(* Types                                                                   *)

\* The positions of the log are 1 .. Len(log).
LEMMA LogFacts ==
  ASSUME log \in Seq(Entry)
  PROVE  /\ Len(log) \in Nat
         /\ DOMAIN log = 1 .. Len(log)
         /\ \A i \in 1 .. Len(log) : log[i] \in Entry
         /\ IsFiniteSet(DOMAIN log)
         /\ \A S \in SUBSET DOMAIN log : IsFiniteSet(S) /\ Cardinality(S) \in Nat
<1>1. Len(log) \in Nat /\ DOMAIN log = 1 .. Len(log)
  BY LenProperties
<1>2. \A i \in 1 .. Len(log) : log[i] \in Entry
  BY ElementOfSeq
<1>3. IsFiniteSet(DOMAIN log)
  BY <1>1, FS_Interval
<1>4. \A S \in SUBSET DOMAIN log : IsFiniteSet(S) /\ Cardinality(S) \in Nat
  BY <1>3, FS_Subset, FS_CardinalityType
<1>5. QED
  BY <1>1, <1>2, <1>3, <1>4

\* A fresh id is a number that no entry has.
LEMMA FreshIdType ==
  ASSUME log \in Seq(Entry)
  PROVE  /\ FreshId \in Nat
         /\ \A i \in DOMAIN log : log[i].id # FreshId
<1> DEFINE N == Len(log)
           Free(id) == \A i \in DOMAIN log : log[i].id # id
           f == [id \in 1 .. N + 1 |-> CHOOSE i \in 1 .. N : log[i].id = id]
<1>1. N \in Nat /\ DOMAIN log = 1 .. N
  BY LogFacts
<1>2. \E id \in 1 .. N + 1 : Free(id)
  <2> SUFFICES ASSUME \A id \in 1 .. N + 1 : \E i \in 1 .. N : log[i].id = id
               PROVE  FALSE
    BY <1>1
  <2>1. f \in [1 .. N + 1 -> 1 .. N]
    OBVIOUS
  <2>2. \A id \in 1 .. N + 1 : log[f[id]].id = id
    OBVIOUS
  <2>3. /\ IsFiniteSet(1 .. N + 1) /\ IsFiniteSet(1 .. N)
        /\ Cardinality(1 .. N) < Cardinality(1 .. N + 1)
    <3>1. Cardinality(1 .. N) = IF 1 > N THEN 0 ELSE N - 1 + 1
      BY <1>1, FS_Interval
    <3>2. Cardinality(1 .. N + 1) = IF 1 > N + 1 THEN 0 ELSE N + 1 - 1 + 1
      BY <1>1, FS_Interval
    <3>3. IsFiniteSet(1 .. N + 1) /\ IsFiniteSet(1 .. N)
      BY <1>1, FS_Interval
    <3>4. QED
      BY <1>1, <3>1, <3>2, <3>3
  <2> DEFINE A == 1 .. N + 1
             B == 1 .. N
  <2>4. /\ f \in [A -> B] /\ IsFiniteSet(A) /\ IsFiniteSet(B)
         /\ Cardinality(B) < Cardinality(A)
    BY <2>1, <2>3
  <2> HIDE DEF f, A, B
  <2>5. \E x, y \in A : x # y /\ f[x] = f[y]
    BY <2>4, FS_PigeonHole
  <2>6. PICK x, y \in 1 .. N + 1 : x # y /\ f[x] = f[y]
    BY <2>5 DEF A
  <2>7. QED
    BY <2>2, <2>6
<1>3. FreshId \in 1 .. N + 1 /\ Free(FreshId)
  BY <1>2 DEF FreshId
<1>4. QED
  BY <1>1, <1>3

\* The last position a device has seen is one it has seen, and the last.
LEMMA LastFacts ==
  ASSUME TypeOK, NEW d \in Devices
  PROVE  /\ Last(d) \in 0 .. Len(log)
         /\ \A i \in seen[d] : i <= Last(d)
<1>1. Len(log) \in Nat /\ seen[d] \subseteq 1 .. Len(log)
  BY LogFacts DEF TypeOK
<1>2. CASE seen[d] = {}
  BY <1>1, <1>2 DEF Last
<1>3. CASE seen[d] # {}
  <2> DEFINE back == {Len(log) - i : i \in seen[d]}
  <2>1. back \in SUBSET Nat /\ back # {}
    BY <1>1, <1>3
  <2>2. PICK x \in back : \A y \in back : x <= y
    BY <2>1, LeastMember
  <2>3. PICK m \in seen[d] : x = Len(log) - m
    OBVIOUS
  <2>4. \A i \in seen[d] : i <= m
    <3>1. ASSUME NEW i \in seen[d] PROVE i <= m
      <4>1. x <= Len(log) - i
        BY <2>2
      <4>2. QED
        BY <1>1, <2>3, <4>1
    <3>2. QED
      BY <3>1
  <2>5. Last(d) \in seen[d] /\ \A i \in seen[d] : i <= Last(d)
    BY <1>3, <2>4 DEF Last
  <2>6. QED
    BY <1>1, <2>5
<1>4. QED
  BY <1>2, <1>3

\* Positions stay positions when n items are inserted at k.
LEMMA MovedType ==
  ASSUME NEW N \in Nat, NEW n \in Nat, NEW k \in 1 .. N + 1, NEW S \in SUBSET (1 .. N)
  PROVE  Moved(S, k, n) \in SUBSET (1 .. N + n)
BY DEF Moved, Shifted

\* Inserting items keeps the log a log and the origins positions of it.
LEMMA InsertType ==
  ASSUME log \in Seq(Entry), origin \in [DOMAIN log -> 0 .. Len(log)],
         NEW items \in Seq(Entry), NEW m \in 0 .. Len(log),
         NEW k \in m + 1 .. Len(log) + 1, Insert(items, k, m)
  PROVE  /\ log' \in Seq(Entry)
         /\ Len(log') = Len(log) + Len(items)
         /\ origin' \in [DOMAIN log' -> 0 .. Len(log')]
<1> DEFINE N == Len(log)
           n == Len(items)
           entryAt(i) == IF i < k THEN log[i]
                         ELSE IF i < k + n THEN items[i - k + 1]
                         ELSE log[i - n]
           originAt(i) == IF i < k THEN origin[i]
                          ELSE IF i < k + n THEN IF i = k THEN m ELSE i - 1
                          ELSE Shifted(origin[i - n], k, n)
<1>1. /\ N \in Nat /\ n \in Nat /\ k \in Nat /\ m \in Nat
      /\ DOMAIN log = 1 .. N
      /\ \A i \in 1 .. N : log[i] \in Entry
      /\ \A i \in 1 .. n : items[i] \in Entry
  BY LogFacts, LenProperties, ElementOfSeq
<1>2. log' = [i \in 1 .. N + n |-> entryAt(i)] /\ origin' = [i \in 1 .. N + n |-> originAt(i)]
  BY DEF Insert
<1>3. ASSUME NEW i \in 1 .. N + n PROVE entryAt(i) \in Entry
  <2>1. CASE i < k
    BY <1>1, <2>1
  <2>2. CASE ~(i < k) /\ i < k + n
    <3>1. i - k + 1 \in 1 .. n
      BY <1>1, <2>2
    <3>2. QED
      BY <1>1, <2>2, <3>1
  <2>3. CASE ~(i < k) /\ ~(i < k + n)
    <3>1. i - n \in 1 .. N
      BY <1>1, <2>3
    <3>2. QED
      BY <1>1, <2>3, <3>1
  <2>4. QED
    BY <2>1, <2>2, <2>3
<1>4. ASSUME NEW i \in 1 .. N + n PROVE originAt(i) \in 0 .. N + n
  <2>1. CASE i < k
    <3>1. origin[i] \in 0 .. N
      BY <1>1, <2>1
    <3>2. QED
      BY <1>1, <2>1, <3>1
  <2>2. CASE ~(i < k) /\ i < k + n
    BY <1>1, <2>2
  <2>3. CASE ~(i < k) /\ ~(i < k + n)
    <3>1. i - n \in 1 .. N
      BY <1>1, <2>3
    <3>2. origin[i - n] \in 0 .. N
      BY <1>1, <3>1
    <3>3. QED
      BY <1>1, <2>3, <3>2 DEF Shifted
  <2>4. QED
    BY <2>1, <2>2, <2>3
<1> HIDE DEF entryAt, originAt
<1>5. log' \in Seq(Entry) /\ Len(log') = N + n /\ DOMAIN log' = 1 .. N + n
  <2>1. log' \in [1 .. N + n -> Entry] /\ N + n \in Nat
    BY <1>1, <1>2, <1>3
  <2>2. log' \in Seq(Entry)
    BY <2>1, SeqDef
  <2>3. QED
    BY <1>1, <1>2, <2>1, <2>2, LenProperties
<1>6. origin' \in [1 .. N + n -> 0 .. N + n]
  BY <1>2, <1>4
<1>7. QED
  BY <1>5, <1>6

\* Every rank up to the size of a set of positions is some member's.
LEMMA Ranked ==
  ASSUME NEW N \in Nat, NEW S \in SUBSET (1 .. N)
  PROVE  \A n \in 1 .. Cardinality(S) :
           \E i \in S : Cardinality({j \in S : j <= i}) = n
<1> DEFINE T(m)  == {j \in S : j <= m}
           Ok(m) == \A n \in 1 .. Cardinality(T(m)) : \E i \in S : Cardinality(T(i)) = n
           P     == {m \in Nat : Ok(m)}
<1>0. \A j \in S : j \in Nat /\ 1 <= j /\ j <= N
  OBVIOUS
<1>1. \A m : IsFiniteSet(T(m)) /\ Cardinality(T(m)) \in Nat
  <2>1. IsFiniteSet(S)
    <3>1. IsFiniteSet(1 .. N)
      BY FS_Interval
    <3>2. QED
      BY <3>1, FS_Subset
  <2>2. \A m : T(m) \in SUBSET S
    OBVIOUS
  <2> HIDE DEF T
  <2>3. QED
    BY <2>1, <2>2, FS_Subset, FS_CardinalityType
<1>2. 0 \in P
  <2>1. T(0) = {}
    <3>1. \A j \in S : ~(j <= 0)
      BY <1>0
    <3>2. QED
      BY <3>1
  <2>2. Cardinality(T(0)) = 0
    BY <2>1, FS_EmptySet
  <2> HIDE DEF T
  <2>3. QED
    BY <2>2
<1>3. ASSUME NEW m \in Nat, m \in P PROVE m + 1 \in P
  <2>1. CASE m + 1 \notin S
    <3>1. T(m + 1) = T(m)
      <4>1. \A j \in S : j <= m + 1 <=> j <= m
        BY <1>0, <2>1
      <4>2. QED
        BY <4>1
    <3> HIDE DEF T
    <3>2. QED
      BY <1>3, <3>1
  <2>2. CASE m + 1 \in S
    <3>1. T(m + 1) = T(m) \cup {m + 1} /\ m + 1 \notin T(m)
      <4>1. \A j \in S : j <= m + 1 <=> j <= m \/ j = m + 1
        BY <1>0
      <4>2. ~(m + 1 <= m)
        OBVIOUS
      <4>3. QED
        BY <2>2, <4>1, <4>2
    <3> HIDE DEF T
    <3>2. Cardinality(T(m + 1)) = Cardinality(T(m)) + 1
      BY <1>1, <3>1, FS_AddElement
    <3>3. ASSUME NEW n \in 1 .. Cardinality(T(m + 1)) PROVE \E i \in S : Cardinality(T(i)) = n
      <4>1. CASE n = Cardinality(T(m + 1))
        BY <2>2, <4>1
      <4>2. CASE n # Cardinality(T(m + 1))
        <5>1. n \in 1 .. Cardinality(T(m))
          BY <1>1, <3>2, <4>2
        <5>2. QED
          BY <1>3, <5>1
      <4>3. QED
        BY <4>1, <4>2
    <3>4. QED
      BY <3>3
  <2>3. QED
    BY <2>1, <2>2
<1>4. Nat \subseteq P
  <2> HIDE DEF P
  <2>1. QED
    BY <1>2, <1>3, SetInduction
<1>5. T(N) = S
  BY <1>0
<1>6. Ok(N)
  BY <1>4
<1>7. QED
  BY <1>5, <1>6

\* What is listed of a snapshot are its entries.
LEMMA ListedOld ==
  ASSUME log \in Seq(Entry), NEW S \in SUBSET DOMAIN log
  PROVE  /\ Listed(S) \in Seq(Entry)
         /\ \A n \in 1 .. Len(Listed(S)) : \E i \in S : Listed(S)[n] = log[i]
<1> DEFINE rank(i) == Cardinality({j \in S : j <= i})
           at(n)   == CHOOSE i \in S : rank(i) = n
<1>1. Len(log) \in Nat /\ S \in SUBSET (1 .. Len(log)) /\ Cardinality(S) \in Nat
  BY LogFacts
<1>2. ASSUME NEW n \in 1 .. Cardinality(S) PROVE at(n) \in S /\ log[at(n)] \in Entry
  <2>1. \E i \in S : rank(i) = n
    BY <1>1, Ranked
  <2> HIDE DEF rank
  <2>2. at(n) \in S
    BY <2>1
  <2> HIDE DEF at
  <2>3. QED
    BY <1>1, <2>2, LogFacts
<1>3. Listed(S) = [n \in 1 .. Cardinality(S) |-> log[at(n)]]
  BY DEF Listed
<1> HIDE DEF at
<1>4. Listed(S) \in [1 .. Cardinality(S) -> Entry]
  BY <1>2, <1>3
<1>5. Listed(S) \in Seq(Entry)
  BY <1>1, <1>4, SeqDef
<1>6. Len(Listed(S)) = Cardinality(S)
  BY <1>1, <1>3, <1>5, LenProperties
<1>7. QED
  BY <1>2, <1>3, <1>5, <1>6

\* A compaction keeps entries of the copy.
LEMMA CompactedFacts ==
  ASSUME NEW l \in Seq(Entry), NEW view
  PROVE  Compacted(l, view) \subseteq view
BY HeldFacts DEF Compacted

-----------------------------------------------------------------------------
(* Steps                                                                   *)

\* The initial states are well typed.
LEMMA InitType == Init => TypeOK
<1> SUFFICES ASSUME Init PROVE TypeOK
  OBVIOUS
<1>1. log \in Seq(Entry)
  BY LockAssumption DEF Init
<1>2. Len(log) \in Nat /\ DOMAIN log = 1 .. Len(log)
  BY <1>1, LogFacts
<1>3. origin \in [DOMAIN log -> 0 .. Len(log)]
  BY <1>2 DEF Init
<1>4. clock \in [Devices -> Time]
  BY LockAssumption DEF Init, Time
<1>5. /\ seen \in [Devices -> SUBSET DOMAIN log]
      /\ dropped \in [Devices -> SUBSET DOMAIN log]
      /\ saved \in [Devices -> SUBSET DOMAIN log]
      /\ restarts \in 0 .. MaxRestarts
  BY LockAssumption DEF Init
<1>6. QED
  BY <1>1, <1>3, <1>4, <1>5 DEF TypeOK

\* What describes the log and its copies, and what does not.
CopiesOK ==
  /\ log \in Seq(Entry)
  /\ origin \in [DOMAIN log -> 0 .. Len(log)]
  /\ seen \in [Devices -> SUBSET DOMAIN log]
  /\ dropped \in [Devices -> SUBSET DOMAIN log]
  /\ saved \in [Devices -> SUBSET DOMAIN log]

\* Appending an entry keeps the log and its copies well typed.
LEMMA AppendEntryType ==
  ASSUME TypeOK, NEW d \in Devices, NEW e \in Entry, AppendEntry(d, e)
  PROVE  CopiesOK'
<1> DEFINE N == Len(log)
<1>1. PICK k \in Places(Last(d)) :
        /\ Insert(<<e>>, k, Last(d))
        /\ seen' = [c \in Devices |->
                      Moved(seen[c], k, 1) \cup (IF c = d THEN {k} ELSE {})]
        /\ LET view == Moved(View(d), k, 1) \cup {k}
           IN dropped' = [c \in Devices |->
                            Moved(dropped[c], k, 1) \cup
                              (IF c = d THEN view \ Compacted(log', view) ELSE {})]
        /\ saved' = [c \in Devices |-> Moved(saved[c], k, 1)]
  BY DEF AppendEntry
<1>2. /\ N \in Nat /\ DOMAIN log = 1 .. N
      /\ log \in Seq(Entry) /\ origin \in [DOMAIN log -> 0 .. N]
  BY LogFacts DEF TypeOK
<1>3. Last(d) \in 0 .. N
  BY LastFacts
<1>4. k \in Last(d) + 1 .. N + 1 /\ k \in 1 .. N + 1
  BY <1>2, <1>3 DEF Places
<1>5. <<e>> \in Seq(Entry) /\ Len(<<e>>) = 1
  OBVIOUS
<1>6. /\ log' \in Seq(Entry) /\ Len(log') = N + 1
      /\ origin' \in [DOMAIN log' -> 0 .. Len(log')]
  BY <1>1, <1>2, <1>3, <1>4, <1>5, InsertType
<1>7. DOMAIN log' = 1 .. N + 1
  BY <1>6, LenProperties
<1>8. \A S \in SUBSET (1 .. N) : Moved(S, k, 1) \in SUBSET (1 .. N + 1)
  BY <1>2, <1>4, MovedType
<1>9. \A c \in Devices : /\ seen[c] \in SUBSET (1 .. N)
                         /\ dropped[c] \in SUBSET (1 .. N)
                         /\ saved[c] \in SUBSET (1 .. N)
                         /\ View(c) \in SUBSET (1 .. N)
  BY <1>2 DEF TypeOK, View
<1>10. k \in 1 .. N + 1
  BY <1>2, <1>4
<1>11. QED
  BY <1>1, <1>6, <1>7, <1>8, <1>9, <1>10 DEF CopiesOK

\* What a bind appends.
LEMMA BindEntry ==
  ASSUME TypeOK, NEW d \in Devices, NEW a \in Binders, NEW p \in Paths, NEW ttl \in Ttls,
         NEW takeover \in BOOLEAN, NEW judged \in Time,
         Bind(d, a, p, ttl, takeover, judged)
  PROVE  \E e \in Entry :
           /\ AppendEntry(d, e) /\ e.actor = a /\ e.path = p /\ e.action = "Acquire"
           /\ e.ts = clock[d] /\ e.takeover = HeldByOther(Live(d, p, judged), a)
<1> DEFINE other == HeldByOther(Live(d, p, judged), a)
           e == [id |-> FreshId, path |-> p, actor |-> a,
                 action |-> "Acquire", ts |-> clock[d],
                 ends |-> clock[d] + ttl, takeover |-> other]
<1>1. AppendEntry(d, e)
  BY DEF Bind
<1>2. clock[d] \in Nat /\ clock[d] + ttl \in Nat /\ a \in Actor /\ FreshId \in Nat
  BY LockAssumption, FreshIdType DEF TypeOK, Time, Actor
<1>3. other \in BOOLEAN
  BY DEF HeldByOther
<1>4. e \in Entry
  <2> HIDE DEF other
  <2>1. QED
    BY <1>2, <1>3 DEF Entry
<1>5. QED
  BY <1>1, <1>4

\* What a release appends.
LEMMA ReleaseEntry ==
  ASSUME TypeOK, NEW d \in Devices, NEW a \in Binders, NEW p \in Paths, Release(d, a, p)
  PROVE  \E e \in Entry : AppendEntry(d, e) /\ e.actor = a /\ e.action = "Release"
<1> DEFINE e == [id |-> FreshId, path |-> p, actor |-> a, action |-> "Release",
                 ts |-> clock[d], ends |-> clock[d], takeover |-> FALSE]
<1>1. AppendEntry(d, e)
  BY DEF Release
<1>2. clock[d] \in Nat /\ a \in Actor /\ FreshId \in Nat
  BY LockAssumption, FreshIdType DEF TypeOK, Time, Actor
<1>3. e \in Entry
  BY <1>2 DEF Entry
<1>4. QED
  BY <1>1, <1>3

\* Every step keeps the state well typed.
LEMMA StepType == TypeOK /\ [Next]_vars => TypeOK'
<1> SUFFICES ASSUME TypeOK, [Next]_vars PROVE TypeOK'
  OBVIOUS
<1>0. /\ MaxTime \in Nat /\ MaxRestarts \in Nat /\ Ttls \subseteq Nat
      /\ Binders \subseteq [name : Names, device : Devices]
      /\ log \in Seq(Entry) /\ Len(log) \in Nat /\ DOMAIN log = 1 .. Len(log)
      /\ FreshId \in Nat
      /\ clock \in [Devices -> 0 .. MaxTime]
  BY LockAssumption, LogFacts, FreshIdType DEF TypeOK, Time
<1>1. ASSUME NEW d \in Devices, NEW a \in Binders, NEW p \in Paths, NEW ttl \in Ttls,
             NEW takeover \in BOOLEAN, NEW judged \in Time,
             Bind(d, a, p, ttl, takeover, judged)
      PROVE  TypeOK'
  <2>1. clock' = [clock EXCEPT ![d] = judged] /\ restarts' = restarts
    BY <1>1 DEF Bind
  <2>2. PICK e \in Entry : AppendEntry(d, e)
    BY <1>1, BindEntry
  <2>3. CopiesOK'
    BY <2>2, AppendEntryType
  <2>4. clock' \in [Devices -> Time] /\ restarts' \in 0 .. MaxRestarts
    BY <2>1 DEF TypeOK
  <2>5. QED
    BY <2>3, <2>4 DEF TypeOK, CopiesOK
<1>2. ASSUME NEW d \in Devices, NEW a \in Binders, NEW p \in Paths, Release(d, a, p)
      PROVE  TypeOK'
  <2>1. clock' = clock /\ restarts' = restarts
    BY <1>2 DEF Release
  <2>2. PICK e \in Entry : AppendEntry(d, e)
    BY <1>2, ReleaseEntry
  <2>3. CopiesOK'
    BY <2>2, AppendEntryType
  <2>4. QED
    BY <2>1, <2>3 DEF TypeOK, CopiesOK
<1>3. ASSUME NEW d \in Devices, NEW e \in Devices, Receive(d, e) PROVE TypeOK'
  BY <1>3 DEF Receive, TypeOK
<1>4. ASSUME NEW d \in Devices, Save(d) PROVE TypeOK'
  <2>1. View(d) \subseteq DOMAIN log
    BY DEF TypeOK, View
  <2>2. Compacted(log, View(d)) \in SUBSET DOMAIN log
    BY <1>0, <2>1, CompactedFacts
  <2>3. QED
    BY <1>4, <2>2 DEF Save, TypeOK
<1>5. ASSUME NEW d \in Devices, Restart(d) PROVE TypeOK'
  <2> DEFINE N     == Len(log)
             items == Listed(Compacted(log, saved[d]))
             n     == Len(items)
  <2>1. PICK k \in Places(0) :
          /\ Insert(items, k, 0)
          /\ seen' = [c \in Devices |->
                        IF c = d THEN k .. k + n - 1 ELSE Moved(seen[c], k, n)]
          /\ dropped' = [c \in Devices |->
                           IF c = d THEN {} ELSE Moved(dropped[c], k, n)]
          /\ saved' = [c \in Devices |-> Moved(saved[c], k, n)]
    BY <1>5 DEF Restart
  <2>2. restarts < MaxRestarts /\ restarts' = restarts + 1 /\ clock' = clock
    BY <1>5 DEF Restart
  <2>3. Compacted(log, saved[d]) \in SUBSET DOMAIN log
    BY <1>0, CompactedFacts DEF TypeOK
  <2>4. items \in Seq(Entry) /\ n \in Nat
    BY <1>0, <2>3, ListedOld, LenProperties
  <2> HIDE DEF items
  <2>5. k \in 0 + 1 .. N + 1 /\ k \in 1 .. N + 1 /\ 0 \in 0 .. N
    BY <1>0 DEF Places
  <2>6. /\ log' \in Seq(Entry) /\ Len(log') = N + n
        /\ origin' \in [DOMAIN log' -> 0 .. Len(log')]
    <3>1. origin \in [DOMAIN log -> 0 .. Len(log)]
      BY DEF TypeOK
    <3>2. QED
      BY <1>0, <2>1, <2>4, <2>5, <3>1, InsertType
  <2>7. DOMAIN log' = 1 .. N + n
    BY <2>6, LenProperties
  <2>8. \A S \in SUBSET (1 .. N) : Moved(S, k, n) \in SUBSET (1 .. N + n)
    BY <1>0, <2>4, <2>5, MovedType
  <2>9. \A c \in Devices : /\ seen[c] \in SUBSET (1 .. N)
                           /\ dropped[c] \in SUBSET (1 .. N)
                           /\ saved[c] \in SUBSET (1 .. N)
    BY <1>0 DEF TypeOK
  <2>10. k .. k + n - 1 \in SUBSET (1 .. N + n)
    BY <1>0, <2>4, <2>5
  <2>11. /\ seen' \in [Devices -> SUBSET DOMAIN log']
         /\ dropped' \in [Devices -> SUBSET DOMAIN log']
         /\ saved' \in [Devices -> SUBSET DOMAIN log']
    BY <2>1, <2>7, <2>8, <2>9, <2>10
  <2>12. clock' \in [Devices -> Time] /\ restarts' \in 0 .. MaxRestarts
    BY <1>0, <2>2 DEF TypeOK
  <2>13. QED
    BY <2>6, <2>11, <2>12 DEF TypeOK
<1>6. ASSUME NEW d \in Devices, Tick(d) PROVE TypeOK'
  <2>1. clock' \in [Devices -> Time]
    BY <1>0, <1>6 DEF Tick, Time
  <2>2. QED
    BY <1>6, <2>1 DEF Tick, TypeOK
<1>7. CASE UNCHANGED vars
  BY <1>7 DEF vars, TypeOK
<1>8. QED
  BY <1>1, <1>2, <1>3, <1>4, <1>5, <1>6, <1>7 DEF Next

-----------------------------------------------------------------------------
(* Steps of a path used on one device                                      *)

\* What moves out of a copy moves out of what it is moved to.
LEMMA MovedDifference ==
  ASSUME NEW N \in Nat, NEW k \in 1 .. N + 1, NEW A \in SUBSET (1 .. N), NEW B \in SUBSET (1 .. N)
  PROVE  Moved(A \ B, k, 1) = Moved(A, k, 1) \ Moved(B, k, 1)
<1>1. \A i, j \in 1 .. N : Shifted(i, k, 1) = Shifted(j, k, 1) => i = j
  BY DEF Shifted
<1>2. QED
  BY <1>1 DEF Moved

\* What append_lock_entry does: one more entry at k, behind all that d has seen,
\* and d's copy compacted.
Appended(d, e, k) ==
  /\ log' \in Seq(Entry) /\ OneMore(log, log', k) /\ log'[k] = e
  /\ \A i \in seen[d] : i < k
  /\ \A c \in Devices :
       seen'[c] = Moved(seen[c], k, 1) \cup (IF c = d THEN {k} ELSE {})
  /\ \A c \in Devices : c # d => dropped'[c] = Moved(dropped[c], k, 1)
  /\ LET S == Moved(seen[d], k, 1) \cup {k}
         D == Moved(dropped[d], k, 1)
     IN dropped'[d] = D \cup ((S \ D) \ Compacted(log', S \ D))

\* append_lock_entry does so at some place.
LEMMA AppendEntryFacts ==
  ASSUME TypeOK, NEW d \in Devices, NEW e \in Entry, AppendEntry(d, e)
  PROVE  \E k \in 1 .. Len(log) + 1 : Appended(d, e, k)
<1> DEFINE N == Len(log)
<1>1. PICK k \in Places(Last(d)) :
        /\ Insert(<<e>>, k, Last(d))
        /\ seen' = [c \in Devices |->
                      Moved(seen[c], k, 1) \cup (IF c = d THEN {k} ELSE {})]
        /\ LET view == Moved(View(d), k, 1) \cup {k}
           IN dropped' = [c \in Devices |->
                            Moved(dropped[c], k, 1) \cup
                              (IF c = d THEN view \ Compacted(log', view) ELSE {})]
  BY DEF AppendEntry
<1>2. /\ N \in Nat /\ DOMAIN log = 1 .. N
      /\ log \in Seq(Entry) /\ origin \in [DOMAIN log -> 0 .. N]
  BY LogFacts DEF TypeOK
<1>3. Last(d) \in 0 .. N /\ \A i \in seen[d] : i <= Last(d)
  BY LastFacts
<1>4. k \in Last(d) + 1 .. N + 1 /\ k \in 1 .. N + 1 /\ Last(d) < k
  BY <1>2, <1>3 DEF Places
<1>5. <<e>> \in Seq(Entry) /\ Len(<<e>>) = 1 /\ <<e>>[1] = e
  OBVIOUS
<1>6. log' \in Seq(Entry) /\ Len(log') = N + 1
  BY <1>1, <1>2, <1>3, <1>4, <1>5, InsertType
<1>7. log' = [i \in 1 .. N + 1 |-> IF i < k THEN log[i]
                                   ELSE IF i < k + 1 THEN <<e>>[i - k + 1]
                                   ELSE log[i - 1]]
  BY <1>1, <1>5 DEF Insert
<1>8. OneMore(log, log', k) /\ log'[k] = e
  <2>1. ASSUME NEW i \in 1 .. k - 1 PROVE log'[i] = log[i]
    <3>1. i \in 1 .. N + 1 /\ i < k
      BY <1>2, <1>4
    <3>2. QED
      BY <1>7, <3>1
  <2>2. ASSUME NEW i \in k .. N PROVE log'[i + 1] = log[i]
    <3>1. i + 1 \in 1 .. N + 1 /\ ~(i + 1 < k) /\ ~(i + 1 < k + 1) /\ i + 1 - 1 = i
      BY <1>2, <1>4
    <3>2. QED
      BY <1>7, <3>1
  <2>3. log'[k] = e
    <3>1. k < k + 1 /\ ~(k < k) /\ k - k + 1 = 1
      BY <1>4
    <3>2. QED
      BY <1>4, <1>5, <1>7, <3>1
  <2>4. QED
    BY <1>4, <1>6, <2>1, <2>2, <2>3 DEF OneMore
<1>9. \A i \in seen[d] : i < k
  <2>1. seen[d] \subseteq 1 .. N
    BY <1>2 DEF TypeOK
  <2>2. QED
    BY <1>3, <1>4, <2>1
<1> DEFINE S == Moved(seen[d], k, 1) \cup {k}
           D == Moved(dropped[d], k, 1)
<1>10. Moved(View(d), k, 1) \cup {k} = S \ D
  <2>1. seen[d] \in SUBSET (1 .. N) /\ dropped[d] \in SUBSET (1 .. N)
    BY <1>2 DEF TypeOK
  <2>2. Moved(View(d), k, 1) = Moved(seen[d], k, 1) \ D
    <3> DEFINE A == seen[d]
               B == dropped[d]
    <3>1. A \in SUBSET (1 .. N) /\ B \in SUBSET (1 .. N) /\ k \in 1 .. N + 1
      BY <1>4, <2>1
    <3> HIDE DEF A, B
    <3>2. Moved(A \ B, k, 1) = Moved(A, k, 1) \ Moved(B, k, 1)
      BY <1>2, <3>1, MovedDifference
    <3>3. QED
      BY <3>2 DEF A, B, View
  <2>3. k \notin D
    BY <1>2, <1>4, <2>1, MovedFacts
  <2>4. QED
    BY <2>2, <2>3
<1>11. dropped'[d] = D \cup ((S \ D) \ Compacted(log', S \ D))
  <2> HIDE DEF S, D
  <2>1. QED
    BY <1>1, <1>10 DEF D
<1>12. /\ \A c \in Devices :
            seen'[c] = Moved(seen[c], k, 1) \cup (IF c = d THEN {k} ELSE {})
       /\ \A c \in Devices : c # d => dropped'[c] = Moved(dropped[c], k, 1)
  BY <1>1
<1>13. Appended(d, e, k)
  BY <1>6, <1>8, <1>9, <1>11, <1>12 DEF Appended
<1>14. QED
  BY <1>4, <1>13

\* While no snapshot was restored, a path that one device has locked is known to
\* that device, and every copy of it is fine.
SoleFine ==
  restarts = 0 =>
    \A p \in Paths, o \in Devices :
      (\A i \in Of(log, p) : log[i].actor.device = o) =>
        /\ Of(log, p) \subseteq seen[o]
        /\ \A c \in Devices : CopyFine(log, p, seen[c], dropped[c])

\* Every copy starts with the whole log.
LEMMA SoleInit == Init => SoleFine
<1> SUFFICES ASSUME Init, NEW p \in Paths
             PROVE  \A c \in Devices : /\ Of(log, p) \subseteq seen[c]
                                       /\ CopyFine(log, p, seen[c], dropped[c])
  BY DEF SoleFine
<1>1. log \in Seq(Entry)
  BY LockAssumption DEF Init
<1>2. Len(log) \in Nat /\ DOMAIN log = 1 .. Len(log) /\ Of(log, p) \subseteq 1 .. Len(log)
  BY <1>1, LogFacts DEF Of
<1>3. ASSUME NEW c \in Devices PROVE seen[c] = 1 .. Len(log) /\ dropped[c] = {}
  BY <1>2 DEF Init
<1>4. ASSUME NEW c \in Devices PROVE CopyFine(log, p, seen[c], dropped[c])
  <2>1. KeptFrom(log, p, seen[c], dropped[c], 0)
    <3>1. \A i \in Of(log, p) : ~(i <= 0)
      BY <1>2
    <3>2. QED
      BY <1>3, <3>1 DEF KeptFrom
  <2>2. NoGap(log, p, seen[c])
    BY <1>2, <1>3 DEF NoGap
  <2>3. 0 \in 0 .. Len(log)
    BY <1>2
  <2>4. QED
    BY <2>1, <2>2, <2>3 DEF CopyFine
<1>5. QED
  BY <1>2, <1>3, <1>4

\* A device's own append keeps it so, for the entry's path and for the others.
LEMMA AppendEntrySole ==
  ASSUME TypeOK, SoleFine, restarts' = restarts,
         NEW d \in Devices, NEW e \in Entry, e.actor.device = d, AppendEntry(d, e)
  PROVE  SoleFine'
<1> DEFINE N == Len(log)
<1>0. PICK k \in 1 .. N + 1 : Appended(d, e, k)
  BY AppendEntryFacts
<1>1. /\ log' \in Seq(Entry) /\ OneMore(log, log', k) /\ log'[k] = e
      /\ \A i \in seen[d] : i < k
      /\ \A c \in Devices :
           seen'[c] = Moved(seen[c], k, 1) \cup (IF c = d THEN {k} ELSE {})
      /\ \A c \in Devices : c # d => dropped'[c] = Moved(dropped[c], k, 1)
      /\ LET S == Moved(seen[d], k, 1) \cup {k}
             D == Moved(dropped[d], k, 1)
         IN dropped'[d] = D \cup ((S \ D) \ Compacted(log', S \ D))
  BY <1>0 DEF Appended
<1>2. N \in Nat /\ DOMAIN log = 1 .. N /\ log \in Seq(Entry)
  BY LogFacts DEF TypeOK
<1>3. \A c \in Devices : seen[c] \in SUBSET (1 .. N) /\ dropped[c] \in SUBSET (1 .. N)
  BY <1>2 DEF TypeOK
<1>4. ASSUME restarts = 0, NEW p \in Paths, NEW o \in Devices,
             \A i \in Of(log', p) : log'[i].actor.device = o
      PROVE  /\ Of(log', p) \subseteq seen'[o]
             /\ \A c \in Devices : CopyFine(log', p, seen'[c], dropped'[c])
  <2>1. \A i \in 1 .. N : /\ Shifted(i, k, 1) \in 1 .. N + 1
                          /\ log'[Shifted(i, k, 1)] = log[i]
    <3>1. /\ \A i \in 1 .. k - 1 : log'[i] = log[i]
          /\ \A i \in k .. N : log'[i + 1] = log[i]
      BY <1>1 DEF OneMore
    <3>2. ASSUME NEW i \in 1 .. N PROVE log'[Shifted(i, k, 1)] = log[i]
      <4>1. CASE i < k
        <5>1. i \in 1 .. k - 1 /\ Shifted(i, k, 1) = i
          BY <1>1, <1>2, <4>1 DEF Shifted
        <5>2. QED
          BY <3>1, <5>1
      <4>2. CASE ~(i < k)
        <5>1. i \in k .. N /\ Shifted(i, k, 1) = i + 1
          BY <1>1, <1>2, <4>2 DEF Shifted
        <5>2. QED
          BY <3>1, <5>1
      <4>3. QED
        BY <4>1, <4>2
    <3>3. \A i \in 1 .. N : Shifted(i, k, 1) \in 1 .. N + 1
      BY <1>1, <1>2 DEF Shifted
    <3>4. QED
      BY <3>2, <3>3
  <2>2. Len(log') = N + 1
    BY <1>1 DEF OneMore
  <2>3. \A i \in Of(log, p) : log[i].actor.device = o
    BY <1>4, <2>1, <2>2 DEF Of
  <2>4. Of(log, p) \subseteq seen[o] /\ \A c \in Devices : CopyFine(log, p, seen[c], dropped[c])
    BY <1>4, <2>3 DEF SoleFine
  <2>5. e.path = p => o = d
    BY <1>1, <1>4, <2>2 DEF Of
  <2>6. ASSUME NEW c \in Devices, NEW X \in SUBSET {k}, X # {} => c = d
        PROVE  CopyFine(log', p, Moved(seen[c], k, 1) \cup X, Moved(dropped[c], k, 1))
    <3> DEFINE S == seen[c]
               D == dropped[c]
    <3>1. S \in SUBSET (1 .. N) /\ D \in SUBSET (1 .. N) /\ CopyFine(log, p, S, D)
      BY <1>3, <2>4
    <3>2. CASE log'[k].path # p
      <4> HIDE DEF S, D
      <4>1. CopyFine(log', p, Moved(S, k, 1) \cup X, Moved(D, k, 1))
        BY <1>1, <1>2, <3>1, <3>2, FineMoves
      <4>2. QED
        BY <4>1 DEF S, D
    <3>3. CASE log'[k].path = p
      <4>1. o = d
        BY <1>1, <2>5, <3>3
      <4>2. \A i \in Of(log, p) : i < k
        BY <1>1, <2>4, <4>1
      <4>3. X # {} => Of(log, p) \subseteq S
        BY <2>4, <2>6, <4>1
      <4> HIDE DEF S, D
      <4>4. CopyFine(log', p, Moved(S, k, 1) \cup X, Moved(D, k, 1))
        BY <1>1, <1>2, <3>1, <4>2, <4>3, FineGrows
      <4>5. QED
        BY <4>4 DEF S, D
    <3>4. QED
      BY <3>2, <3>3
  <2>7. ASSUME NEW c \in Devices PROVE CopyFine(log', p, seen'[c], dropped'[c])
    <3>1. CASE c # d
      <4>1. CopyFine(log', p, Moved(seen[c], k, 1) \cup {}, Moved(dropped[c], k, 1))
        BY <2>6, <3>1
      <4>2. seen'[c] = Moved(seen[c], k, 1) \cup {} /\ dropped'[c] = Moved(dropped[c], k, 1)
        BY <1>1, <3>1
      <4>3. QED
        BY <4>1, <4>2
    <3>2. CASE c = d
      <4> DEFINE S == Moved(seen[d], k, 1) \cup {k}
                 D == Moved(dropped[d], k, 1)
      <4>1. CopyFine(log', p, S, D)
        BY <2>6
      <4>2. seen'[d] = S /\ dropped'[d] = D \cup ((S \ D) \ Compacted(log', S \ D))
        BY <1>1
      <4> HIDE DEF S, D
      <4>3. CopyFine(log', p, S, D \cup ((S \ D) \ Compacted(log', S \ D)))
        BY <1>1, <4>1, FineCompacts
      <4>4. QED
        BY <3>2, <4>2, <4>3
    <3>3. QED
      BY <3>1, <3>2
  <2>8. Of(log', p) \subseteq seen'[o]
    <3> SUFFICES ASSUME NEW j \in Of(log', p) PROVE j \in seen'[o]
      OBVIOUS
    <3>0. j \in 1 .. N + 1 /\ log'[j].path = p
      BY <2>2 DEF Of
    <3>1. CASE j = k
      <4>1. o = d
        BY <1>1, <2>5, <3>0, <3>1
      <4>2. QED
        BY <1>1, <3>1, <4>1
    <3>2. CASE j # k
      <4> DEFINE i == IF j < k THEN j ELSE j - 1
      <4>1. i \in 1 .. N /\ j = Shifted(i, k, 1)
        BY <1>1, <1>2, <3>0, <3>2 DEF Shifted
      <4> HIDE DEF i
      <4>2. i \in Of(log, p)
        BY <2>1, <3>0, <4>1 DEF Of
      <4>3. j \in Moved(seen[o], k, 1)
        BY <2>4, <4>1, <4>2 DEF Moved
      <4>4. QED
        BY <1>1, <4>3
    <3>3. QED
      BY <3>1, <3>2
  <2>9. QED
    BY <2>7, <2>8
<1>5. QED
  BY <1>4 DEF SoleFine

\* Every step keeps it.
LEMMA SoleStep == TypeOK /\ SoleFine /\ [Next]_vars => SoleFine'
<1> SUFFICES ASSUME TypeOK, SoleFine, [Next]_vars PROVE SoleFine'
  OBVIOUS
<1>0. /\ restarts \in Nat /\ log \in Seq(Entry)
      /\ Binders \subseteq [name : Names, device : Devices]
  BY LockAssumption DEF TypeOK
<1>1. ASSUME NEW d \in Devices, NEW a \in Binders, NEW p \in Paths, NEW ttl \in Ttls,
             NEW takeover \in BOOLEAN, NEW judged \in Time,
             Bind(d, a, p, ttl, takeover, judged)
      PROVE  SoleFine'
  <2>1. PICK e \in Entry : AppendEntry(d, e) /\ e.actor = a
    BY <1>1, BindEntry
  <2>2. a.device = d /\ restarts' = restarts
    BY <1>1 DEF Bind
  <2>3. QED
    BY <2>1, <2>2, AppendEntrySole
<1>2. ASSUME NEW d \in Devices, NEW a \in Binders, NEW p \in Paths, Release(d, a, p)
      PROVE  SoleFine'
  <2>1. PICK e \in Entry : AppendEntry(d, e) /\ e.actor = a
    BY <1>2, ReleaseEntry
  <2>2. a.device = d /\ restarts' = restarts
    BY <1>2 DEF Release
  <2>3. QED
    BY <2>1, <2>2, AppendEntrySole
<1>3. ASSUME NEW d \in Devices, NEW e \in Devices, Receive(d, e) PROVE SoleFine'
  <2>1. /\ log' = log /\ restarts' = restarts
        /\ \A c \in Devices :
             /\ seen'[c] = IF c = d THEN seen[d] \cup seen[e] ELSE seen[c]
             /\ dropped'[c] = IF c = d THEN dropped[d] \cup dropped[e] ELSE dropped[c]
    BY <1>3 DEF Receive, TypeOK
  <2>2. ASSUME restarts = 0, NEW p \in Paths, NEW o \in Devices,
               \A i \in Of(log, p) : log[i].actor.device = o
        PROVE  /\ Of(log, p) \subseteq seen'[o]
               /\ \A c \in Devices : CopyFine(log, p, seen'[c], dropped'[c])
    <3>1. Of(log, p) \subseteq seen[o] /\ \A c \in Devices : CopyFine(log, p, seen[c], dropped[c])
      BY <2>2 DEF SoleFine
    <3>2. CopyFine(log, p, seen[d] \cup seen[e], dropped[d] \cup dropped[e])
      <4> DEFINE S == seen[d]
                 D == dropped[d]
                 T == seen[e]
                 E == dropped[e]
      <4>1. CopyFine(log, p, S, D) /\ CopyFine(log, p, T, E)
        BY <3>1
      <4> HIDE DEF S, D, T, E
      <4>2. CopyFine(log, p, S \cup T, D \cup E)
        BY <1>0, <4>1, FineMerges
      <4>3. QED
        BY <4>2 DEF S, D, T, E
    <3>3. QED
      BY <2>1, <3>1, <3>2
  <2>3. QED
    BY <2>1, <2>2 DEF SoleFine
<1>4. ASSUME NEW d \in Devices, Save(d) \/ Tick(d) PROVE SoleFine'
  BY <1>4 DEF Save, Tick, SoleFine
<1>5. ASSUME NEW d \in Devices, Restart(d) PROVE SoleFine'
  <2>1. restarts' # 0
    BY <1>0, <1>5 DEF Restart
  <2>2. QED
    BY <2>1 DEF SoleFine
<1>6. CASE UNCHANGED vars
  BY <1>6 DEF vars, SoleFine
<1>7. QED
  BY <1>1, <1>2, <1>3, <1>4, <1>5, <1>6 DEF Next

-----------------------------------------------------------------------------
(* A bind that was granted                                                 *)

\* Among the entries after an insertion, only the new one has a new id.
LEMMA NewIdIsNew ==
  ASSUME NEW l \in Seq(Entry), NEW l2 \in Seq(Entry), NEW k, OneMore(l, l2, k), NEW id,
         \A i \in 1 .. Len(l) : l[i].id # id,
         NEW j \in 1 .. Len(l2), l2[j].id = id
  PROVE  j = k
<1> SUFFICES ASSUME j # k PROVE FALSE
  OBVIOUS
<1>0. /\ Len(l) \in Nat /\ k \in 1 .. Len(l) + 1 /\ Len(l2) = Len(l) + 1
      /\ \A i \in 1 .. k - 1 : l2[i] = l[i]
      /\ \A i \in k .. Len(l) : l2[i + 1] = l[i]
  BY LenProperties DEF OneMore
<1>1. CASE j < k
  <2>1. j \in 1 .. k - 1 /\ j \in 1 .. Len(l)
    BY <1>0, <1>1
  <2>2. QED
    BY <1>0, <2>1
<1>2. CASE ~(j < k)
  <2>1. j - 1 \in k .. Len(l) /\ j - 1 + 1 = j /\ j - 1 \in 1 .. Len(l)
    BY <1>0, <1>2
  <2>2. l2[j] = l[j - 1]
    BY <1>0, <2>1
  <2>3. QED
    BY <2>1, <2>2
<1>3. QED
  BY <1>1, <1>2

\* A compaction keeps the holder of a path.
LEMMA CompactedHolder ==
  ASSUME NEW l \in Seq(Entry), Len(l) # 0, NEW view \in SUBSET (1 .. Len(l)), NEW p \in Paths
  PROVE  Holder(l, Compacted(l, view), p) = Holder(l, view, p)
<1>1. Holder(l, Held(l, view), p) = Holder(l, view, p)
  <2> DEFINE early == {i \in view : i <= Len(l)}
  <2>0. Len(l) \in Nat
    BY LenProperties
  <2>1. early = view
    <3>1. \A i \in view : i <= Len(l)
      BY <2>0
    <3>2. QED
      BY <3>1, Zenon
  <2>2. Len(l) \in 1 .. Len(l)
    BY <2>0
  <2>3. Holder(l, Held(l, early) \cup (view \ early), p) = Holder(l, view, p)
    BY <2>2, EarlyCompactionUnseen
  <2>4. Held(l, early) \cup (view \ early) = Held(l, view)
    BY <2>1
  <2>5. QED
    BY <2>3, <2>4
<1>2. QED
  BY <1>1 DEF Compacted

\* An acquire behind all that a copy has seen holds the path there, unless what
\* held it before stands in its way.
LEMMA AcquireTakes ==
  ASSUME NEW l \in Seq(Entry), NEW l2 \in Seq(Entry), NEW k, OneMore(l, l2, k),
         NEW v \in SUBSET (1 .. Len(l)), \A i \in v : i < k,
         NEW w, SameBut(v, w, k, Len(l)), k \in w,
         NEW p, l2[k].path = p, l2[k].action = "Acquire",
         Holder(l, v, p) = 0 \/ Takes(l[Holder(l, v, p)], l2[k])
  PROVE  Holder(l2, w, p) = k
<1>0. /\ Len(l) \in Nat /\ k \in 1 .. Len(l) + 1 /\ k \in Nat /\ Len(l2) = Len(l) + 1
      /\ \A i \in 1 .. k - 1 : l2[i] = l[i]
      /\ \A i \in k .. Len(l) : i + 1 \in w <=> i \in v
  BY LenProperties DEF OneMore, SameBut
<1> DEFINE h == Holder(l, v, p)
           Q == Replay(l2, w, p)
<1>1. h = Replay(l, v, p)[k - 1]
  <2>1. k - 1 \in 0 .. Len(l)
    BY <1>0
  <2>2. \A i \in k - 1 + 1 .. Len(l) : i \notin v
    BY <1>0
  <2>3. QED
    BY <2>1, <2>2, ReplayRests
<1>2. Q[k - 1] = h
  <2>1. k - 1 \in 0 .. k - 1
    BY <1>0
  <2>2. QED
    BY <1>1, <2>1, ReplayShifts
<1>3. h \in 0 .. k - 1
  <2>1. k - 1 \in 0 .. Len(l)
    BY <1>0
  <2>2. QED
    BY <1>1, <2>1, ReplayUnfolds
<1>4. h # 0 => l2[h] = l[h]
  <2>1. h # 0 => h \in 1 .. k - 1
    BY <1>0, <1>3
  <2> HIDE DEF h
  <2>2. QED
    BY <1>0, <2>1
<1>5. Q[k] = k
  <2>1. Q[k] = ReplayStep(l2, w, p, Q[k - 1], k)
    BY <1>0, ReplayUnfolds
  <2> HIDE DEF Q
  <2>2. QED
    BY <1>2, <1>4, <2>1 DEF ReplayStep, Apply
<1>6. Holder(l2, w, p) = Q[k]
  <2>1. k \in 0 .. Len(l2)
    BY <1>0
  <2>2. \A i \in k + 1 .. Len(l2) : i \notin w
    <3> SUFFICES ASSUME NEW i \in k + 1 .. Len(l2), i \in w PROVE FALSE
      OBVIOUS
    <3>1. i - 1 \in k .. Len(l) /\ i - 1 + 1 = i /\ ~(i - 1 < k)
      BY <1>0
    <3>2. i - 1 \in v
      BY <1>0, <3>1
    <3>3. QED
      BY <3>1, <3>2
  <2>3. QED
    BY <2>1, <2>2, ReplayRests
<1>7. QED
  BY <1>5, <1>6

\* The entry of a bind holds its path in the copy of the device that made it.
LEMMA BindHolds ==
  ASSUME TypeOK, NEW d \in Devices, NEW a \in Binders, NEW p \in Paths, NEW ttl \in Ttls,
         NEW takeover \in BOOLEAN, NEW judged \in Time,
         Bind(d, a, p, ttl, takeover, judged),
         NEW j \in DOMAIN log', log'[j].id = FreshId
  PROVE  /\ log'[j].actor.device = d /\ log'[j].path = p
         /\ Holder(log', View(d)', p) = j \/ EndedMeanwhile(d, p)
<1> DEFINE N == Len(log)
           other == HeldByOther(Live(d, p, judged), a)
<1>1. PICK e \in Entry :
        /\ AppendEntry(d, e) /\ e.actor = a /\ e.path = p /\ e.action = "Acquire"
        /\ e.ts = clock[d] /\ e.takeover = other
  BY BindEntry
<1>0. PICK k \in 1 .. N + 1 : Appended(d, e, k)
  BY <1>1, AppendEntryFacts
<1>2. /\ log' \in Seq(Entry) /\ OneMore(log, log', k) /\ log'[k] = e
      /\ \A i \in seen[d] : i < k
      /\ \A c \in Devices :
           seen'[c] = Moved(seen[c], k, 1) \cup (IF c = d THEN {k} ELSE {})
      /\ LET S == Moved(seen[d], k, 1) \cup {k}
             D == Moved(dropped[d], k, 1)
         IN dropped'[d] = D \cup ((S \ D) \ Compacted(log', S \ D))
  BY <1>0 DEF Appended
<1>3. /\ N \in Nat /\ DOMAIN log = 1 .. N /\ log \in Seq(Entry)
      /\ seen[d] \in SUBSET (1 .. N) /\ dropped[d] \in SUBSET (1 .. N)
      /\ Len(log') = N + 1 /\ DOMAIN log' = 1 .. Len(log')
  <2>1. N \in Nat /\ DOMAIN log = 1 .. N /\ log \in Seq(Entry)
    BY LogFacts DEF TypeOK
  <2>2. Len(log') = N + 1 /\ DOMAIN log' = 1 .. Len(log')
    BY <1>2, LenProperties DEF OneMore
  <2>3. QED
    BY <2>1, <2>2 DEF TypeOK
<1>4. j = k
  <2>1. \A i \in 1 .. N : log[i].id # FreshId
    BY <1>3, FreshIdType
  <2> DEFINE id == FreshId
             l2 == log'
  <2>2. /\ \A i \in 1 .. N : log[i].id # id
        /\ j \in 1 .. Len(l2) /\ l2[j].id = id /\ l2 \in Seq(Entry) /\ OneMore(log, l2, k)
    BY <1>2, <1>3, <2>1
  <2> HIDE DEF id, l2
  <2>3. QED
    BY <1>3, <2>2, NewIdIsNew
<1>5. log'[j].actor.device = d /\ log'[j].path = p
  BY <1>1, <1>2, <1>4 DEF Bind
<1> DEFINE S == Moved(seen[d], k, 1) \cup {k}
           D == Moved(dropped[d], k, 1)
           v == View(d)
           w == S \ D
           h == Holder(log, v, p)
<1>6. View(d)' = Compacted(log', w)
  <2>1. seen'[d] = S /\ dropped'[d] = D \cup (w \ Compacted(log', w))
    BY <1>2
  <2>2. Compacted(log', w) \subseteq w
    <3> HIDE DEF w
    <3>1. QED
      BY <1>2, CompactedFacts
  <2>3. View(d)' = seen'[d] \ dropped'[d]
    BY DEF View
  <2>4. QED
    BY <2>1, <2>2, <2>3
<1>7. /\ SameBut(v, w, k, N) /\ k \in w /\ w \in SUBSET (1 .. Len(log'))
      /\ v \in SUBSET (1 .. N) /\ \A i \in v : i < k
  <2>1. /\ SameBut(seen[d], Moved(seen[d], k, 1), k, N) /\ Moved(seen[d], k, 1) \subseteq 1 .. N + 1
        /\ SameBut(dropped[d], D, k, N) /\ k \notin D
    <3> DEFINE A == seen[d]
               B == dropped[d]
    <3>1. A \in SUBSET (1 .. N) /\ B \in SUBSET (1 .. N)
      BY <1>3
    <3> HIDE DEF A, B
    <3>2. SameBut(A, Moved(A, k, 1), k, N) /\ Moved(A, k, 1) \subseteq 1 .. N + 1
      BY <1>3, <3>1, MovedFacts
    <3>3. SameBut(B, Moved(B, k, 1), k, N) /\ k \notin Moved(B, k, 1)
      BY <1>3, <3>1, MovedFacts
    <3>4. QED
      BY <3>2, <3>3 DEF A, B
  <2>2. SameBut(v, w, k, N)
    <3> HIDE DEF D
    <3>0. \A i \in k .. N : i + 1 # k
      BY <1>3
    <3>1. \A i \in 1 .. k - 1 : i # k
      BY <1>3
    <3>2. QED
      BY <2>1, <3>0, <3>1 DEF SameBut, View
  <2>3. QED
    BY <1>2, <1>3, <2>1, <2>2 DEF View
<1>8. Holder(log', View(d)', p) = Holder(log', w, p)
  <2> HIDE DEF w
  <2>1. Len(log') # 0
    BY <1>3
  <2>2. QED
    BY <1>2, <1>6, <1>7, <2>1, CompactedHolder
<1>9. CASE h = 0 \/ Takes(log[h], e)
  <2> HIDE DEF v, w
  <2>1. log'[k].path = p /\ log'[k].action = "Acquire" /\ Takes(log[h], log'[k]) = Takes(log[h], e)
    BY <1>1, <1>2
  <2>2. Holder(log', w, p) = k
    BY <1>2, <1>3, <1>7, <1>9, <2>1, AcquireTakes
  <2>3. QED
    BY <1>4, <1>5, <1>8, <2>2
<1>10. CASE ~(h = 0 \/ Takes(log[h], e))
  <2>1. h \in 1 .. N
    <3>1. N \in 0 .. N
      BY <1>3
    <3>2. h # 0 => h \in 1 .. N
      BY <1>3, <3>1, HolderIsAcquire DEF Holder
    <3>3. QED
      BY <1>10, <3>2
  <2>2. log[h] \in Entry /\ log[h].ends \in Nat
    BY <1>3, <2>1, LogFacts DEF Entry
  <2>3. h # 0 /\ ~(clock[d] >= log[h].ends) /\ ~other /\ ~Same(log[h].actor, a)
    BY <1>1, <1>10 DEF Takes
  <2>4. ~(log[h].ends > judged)
    <3> SUFFICES ASSUME log[h].ends > judged PROVE FALSE
      OBVIOUS
    <3>1. Live(d, p, judged) = h
      BY <2>3 DEF Live, Running
    <3>2. QED
      BY <2>3, <3>1 DEF HeldByOther
  <2>5. clock[d] \in Nat /\ judged \in Nat /\ clock'[d] = judged
    <3>1. clock' = [clock EXCEPT ![d] = judged]
      BY DEF Bind
    <3>2. clock \in [Devices -> Time] /\ MaxTime \in Nat
      BY LockAssumption DEF TypeOK
    <3>3. QED
      BY <3>1, <3>2 DEF Time
  <2>6. clock[d] < log[h].ends /\ log[h].ends <= clock'[d]
    BY <2>2, <2>3, <2>4, <2>5
  <2>7. EndedMeanwhile(d, p)
    BY <2>3, <2>6 DEF EndedMeanwhile
  <2>8. QED
    BY <1>5, <2>7
<1>11. QED
  BY <1>9, <1>10

\* A restored snapshot brings no new id.
LEMMA RestartBringsOldIds ==
  ASSUME TypeOK, NEW d \in Devices, Restart(d), NEW j \in DOMAIN log'
  PROVE  log'[j].id # FreshId
<1> DEFINE N     == Len(log)
           kept  == Compacted(log, saved[d])
           items == Listed(kept)
           n     == Len(items)
<1>0. log \in Seq(Entry) /\ N \in Nat /\ DOMAIN log = 1 .. N /\ \A i \in 1 .. N : log[i].id # FreshId
  BY LogFacts, FreshIdType DEF TypeOK
<1>1. PICK k \in Places(0) :
        log' = [i \in 1 .. N + n |->
                  IF i < k THEN log[i]
                  ELSE IF i < k + n THEN items[i - k + 1]
                  ELSE log[i - n]]
  BY DEF Restart, Insert
<1>2. kept \in SUBSET DOMAIN log
  BY <1>0, CompactedFacts DEF TypeOK
<1>3. n \in Nat /\ \A i \in 1 .. n : items[i].id # FreshId
  <2> HIDE DEF kept
  <2>1. items \in Seq(Entry)
    BY <1>0, <1>2, ListedOld
  <2>2. \A i \in 1 .. n : \E m \in kept : items[i] = log[m]
    BY <1>0, <1>2, ListedOld
  <2> HIDE DEF items
  <2>3. QED
    BY <1>0, <1>2, <2>1, <2>2, LenProperties
<1>4. k \in 1 .. N + 1
  BY <1>0 DEF Places
<1> HIDE DEF items, n
<1>5. j \in 1 .. N + n
  BY <1>1
<1>6. CASE j < k
  <2>1. j \in 1 .. N /\ log'[j] = log[j]
    BY <1>0, <1>1, <1>4, <1>5, <1>6
  <2>2. QED
    BY <1>0, <2>1
<1>7. CASE ~(j < k) /\ j < k + n
  <2>1. j - k + 1 \in 1 .. n /\ log'[j] = items[j - k + 1]
    BY <1>0, <1>1, <1>3, <1>4, <1>5, <1>7
  <2>2. QED
    BY <1>3, <2>1
<1>8. CASE ~(j < k) /\ ~(j < k + n)
  <2>1. j - n \in 1 .. N /\ log'[j] = log[j - n]
    BY <1>0, <1>1, <1>3, <1>4, <1>5, <1>8
  <2>2. QED
    BY <1>0, <2>1
<1>9. QED
  BY <1>6, <1>7, <1>8

\* In every step, an acquire with a new id is that of a bind.
LEMMA BoundStep ==
  ASSUME TypeOK, [Next]_vars, NEW d \in Devices, NEW p \in Paths, NEW j \in DOMAIN log',
         log'[j].id = FreshId, log'[j].action = "Acquire",
         log'[j].actor.device = d, log'[j].path = p
  PROVE  Holder(log', View(d)', p) = j \/ EndedMeanwhile(d, p)
<1>0. log \in Seq(Entry) /\ \A i \in DOMAIN log : log[i].id # FreshId
  BY FreshIdType DEF TypeOK
<1>1. ASSUME NEW c \in Devices, NEW a \in Binders, NEW q \in Paths, NEW ttl \in Ttls,
             NEW takeover \in BOOLEAN, NEW judged \in Time,
             Bind(c, a, q, ttl, takeover, judged)
      PROVE  Holder(log', View(d)', p) = j \/ EndedMeanwhile(d, p)
  <2>1. c = d /\ q = p
    BY <1>1, BindHolds
  <2>2. QED
    BY <1>1, <2>1, BindHolds
<1>2. ASSUME NEW c \in Devices, NEW a \in Binders, NEW q \in Paths, Release(c, a, q)
      PROVE  FALSE
  <2>1. PICK e \in Entry : AppendEntry(c, e) /\ e.action = "Release"
    BY <1>2, ReleaseEntry
  <2>2. PICK k \in 1 .. Len(log) + 1 : Appended(c, e, k)
    BY <2>1, AppendEntryFacts
  <2>3. log' \in Seq(Entry) /\ OneMore(log, log', k) /\ log'[k] = e
    BY <2>2 DEF Appended
  <2> DEFINE id == FreshId
             l2 == log'
  <2>4. /\ \A i \in 1 .. Len(log) : log[i].id # id
        /\ j \in 1 .. Len(l2) /\ l2[j].id = id /\ l2 \in Seq(Entry) /\ OneMore(log, l2, k)
    BY <1>0, <2>3, LenProperties
  <2> HIDE DEF id, l2
  <2>5. j = k
    BY <1>0, <2>4, NewIdIsNew
  <2>6. QED
    BY <2>1, <2>3, <2>5
<1>3. CASE log' = log
  BY <1>0, <1>3
<1>4. ASSUME NEW c \in Devices, Restart(c) PROVE FALSE
  BY <1>4, RestartBringsOldIds
<1>5. ASSUME NEW c \in Devices, NEW e \in Devices, Receive(c, e) PROVE log' = log
  BY <1>5 DEF Receive
<1>6. ASSUME NEW c \in Devices, Save(c) \/ Tick(c) PROVE log' = log
  BY <1>6 DEF Save, Tick
<1>7. CASE UNCHANGED vars
  BY <1>3, <1>7 DEF vars
<1>8. QED
  BY <1>1, <1>2, <1>3, <1>4, <1>5, <1>6, <1>7 DEF Next

-----------------------------------------------------------------------------
(* Theorems                                                                *)

\* The log stays a log of entries, and the copies and snapshots stay within it.
THEOREM TypeCorrect == Spec => []TypeOK
<1>1. QED
  BY InitType, StepType, PTL DEF Spec

\* compact_lock_log changes no holder, however long the log, wherever in it a
\* copy is compacted and whatever is appended afterwards.
THEOREM CompactionIsUnseen == Spec => []CompactionUnseen
<1>1. TypeOK => CompactionUnseen
  <2> SUFFICES ASSUME TypeOK, NEW d \in Devices, NEW p \in Paths, NEW n \in DOMAIN log
               PROVE  LET view  == View(d)
                          early == {i \in view : i <= n}
                      IN Holder(log, Held(log, early) \cup (view \ early), p)
                           = Holder(log, view, p)
    BY DEF CompactionUnseen
  <2>1. log \in Seq(Entry) /\ n \in 1 .. Len(log)
    BY LogFacts DEF TypeOK
  <2>3. QED
    BY <2>1, EarlyCompactionUnseen
<1>2. QED
  BY <1>1, TypeCorrect, PTL
\* A path that is only ever locked on one device has the same holder on every
\* device that its entries have reached, whatever they compacted and however
\* the entries of other paths were ordered in between.
THEOREM DevicesAgree == Spec => []SoleDeviceAgrees
<1>1. TypeOK /\ SoleFine => SoleDeviceAgrees
  <2> SUFFICES ASSUME TypeOK, SoleFine, restarts = 0, NEW p \in Paths, NEW o \in Devices,
                      \A i \in {j \in DOMAIN log : log[j].path = p} : log[i].actor.device = o,
                      NEW d \in Devices,
                      {j \in DOMAIN log : log[j].path = p} \subseteq seen[d]
               PROVE  HeldEntry(log, View(d), p) = HeldEntry(log, View(o), p)
    BY DEF SoleDeviceAgrees
  <2>1. log \in Seq(Entry) /\ {j \in DOMAIN log : log[j].path = p} = Of(log, p)
    BY LogFacts DEF TypeOK, Of
  <2>3. /\ Of(log, p) \subseteq seen[o] /\ Of(log, p) \subseteq seen[d]
        /\ CopyFine(log, p, seen[o], dropped[o]) /\ CopyFine(log, p, seen[d], dropped[d])
    BY <2>1 DEF SoleFine
  <2>4. ASSUME NEW c \in Devices, Of(log, p) \subseteq seen[c], CopyFine(log, p, seen[c], dropped[c])
        PROVE  Holder(log, View(c), p) = Full(log, p)[Len(log)]
    <3> DEFINE S == seen[c]
               D == dropped[c]
    <3>1. Of(log, p) \subseteq S /\ CopyFine(log, p, S, D)
      BY <2>4
    <3> HIDE DEF S, D
    <3>2. Holder(log, S \ D, p) = Full(log, p)[Len(log)]
      BY <2>1, <3>1, FineHolderOfAll
    <3>3. QED
      BY <3>2 DEF S, D, View
  <2>5. Holder(log, View(d), p) = Holder(log, View(o), p)
    BY <2>3, <2>4
  <2>6. QED
    BY <2>5 DEF HeldEntry
<1>2. Spec => []SoleFine
  <2>1. Init => TypeOK /\ SoleFine
    BY InitType, SoleInit
  <2>3. TypeOK /\ SoleFine /\ [Next]_vars => (TypeOK /\ SoleFine)'
    BY StepType, SoleStep
  <2>4. QED
    BY <2>1, <2>3, PTL DEF Spec
<1>3. QED
  BY <1>1, <1>2, TypeCorrect, PTL

\* write_bind answers "bound" only to an actor that its device's log then names
\* as the holder, unless a lease in its way ended while the request was served.
THEOREM BoundMeansHeld == Spec => BoundIsHeld
<1> DEFINE A == \A d \in Devices, p \in Paths : \A k \in DOMAIN log' :
                  /\ log'[k].id = FreshId /\ log'[k].action = "Acquire"
                  /\ log'[k].actor.device = d /\ log'[k].path = p
                  => Holder(log', View(d)', p) = k \/ EndedMeanwhile(d, p)
<1>1. TypeOK /\ [Next]_vars => A
  <2> SUFFICES ASSUME TypeOK, [Next]_vars PROVE A
    OBVIOUS
  <2>1. QED
    BY BoundStep
<1>2. TypeOK /\ [Next]_vars => [A]_vars
  BY <1>1
<1> HIDE DEF A
<1>3. Spec => [][A]_vars
  BY <1>2, TypeCorrect, PTL DEF Spec
<1>4. QED
  BY <1>3 DEF A, BoundIsHeld
=============================================================================
