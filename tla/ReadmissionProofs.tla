------------------------- MODULE ReadmissionProofs -------------------------
(***************************************************************************)
(* Proofs about Readmission for every set of circumstances and any number  *)
(* of records: how membership records travel, and that each device's       *)
(* standing for the Joiner behaves as MembershipStanding promises.         *)
(***************************************************************************)
EXTENDS Readmission, FiniteSetTheorems, SequenceTheorems, WellFoundedInduction, TLAPS

-----------------------------------------------------------------------------
(* The deciding record                                                     *)

\* Every nonempty set of naturals has a least member.
LEMMA LeastMember ==
  ASSUME NEW S \in SUBSET Nat, S # {}
  PROVE  \E x \in S : \A y \in S : x <= y
<1> DEFINE less == {ss \in Nat \X Nat : ss[1] < ss[2]}
<1>1. IsWellFoundedOn(less, Nat)
  BY NatLessThanWellFounded DEF OpToRel
<1>2. PICK x \in S : \A y \in S : ~ (<<y, x>> \in less)
  BY <1>1, WFMin
<1>3. ASSUME NEW y \in S PROVE x <= y
  <2>1. y < x => <<y, x>> \in less
    OBVIOUS
  <2>2. QED
    BY <1>2, <2>1
<1>4. QED
  BY <1>3

\* Where there are records, one of them decides: it outranks all the others.
LEMMA DecidingDecides ==
  ASSUME NEW R \in SUBSET Record, R # {}
  PROVE  /\ Deciding(R) \in R
         /\ \A s \in R : Outranks(Deciding(R), s) \/ Deciding(R) = s
<1> DEFINE S == {MaxGen - r.gen : r \in R}
<1>1. S \in SUBSET Nat /\ S # {}
  BY ReadmissionAssumption DEF Record
<1>2. PICK x \in S : \A y \in S : x <= y
  BY <1>1, LeastMember
<1>3. PICK q \in R : x = MaxGen - q.gen
  OBVIOUS
<1>4. \A s \in R : s.gen <= q.gen
  <2>1. ASSUME NEW s \in R PROVE s.gen <= q.gen
    <3>1. MaxGen - q.gen <= MaxGen - s.gen
      BY <1>2, <1>3
    <3>2. QED
      BY <3>1, ReadmissionAssumption DEF Record
  <2>2. QED
    BY <2>1
<1>5. \E r \in R : \A s \in R : Outranks(r, s) \/ r = s
  <2>1. CASE \E r \in R : r.gen = q.gen /\ r.st = "out"
    <3>1. PICK r \in R : r.gen = q.gen /\ r.st = "out"
      BY <2>1
    <3>2. \A s \in R : Outranks(r, s)
      BY <1>4, <3>1 DEF Outranks, Record
    <3>3. QED
      BY <3>2
  <2>2. CASE ~ \E r \in R : r.gen = q.gen /\ r.st = "out"
    <3>1. ASSUME NEW s \in R PROVE Outranks(q, s) \/ q = s
      <4>1. CASE s.gen = q.gen
        BY <2>2, <4>1 DEF Record
      <4>2. CASE s.gen # q.gen
        BY <1>4, <4>2 DEF Outranks, Record
      <4>3. QED
        BY <4>1, <4>2
    <3>2. QED
      BY <3>1
  <2>3. QED
    BY <2>1, <2>2
<1>6. QED
  BY <1>5 DEF Deciding

\* The record that decides has a generation within bounds.
LEMMA DecidingTyped ==
  ASSUME NEW R \in SUBSET Record
  PROVE  Deciding(R).gen \in 0 .. MaxGen
<1>1. CASE R = {}
  BY <1>1, ReadmissionAssumption DEF Deciding, Unnamed
<1>2. CASE R # {}
  <2>1. Deciding(R) \in Record
    BY <1>2, DecidingDecides
  <2>2. QED
    BY <2>1, ReadmissionAssumption DEF Record
<1>3. QED
  BY <1>1, <1>2

\* Records that outrank each other are one record.
LEMMA OutranksIsOrder ==
  ASSUME NEW r \in Record, NEW s \in Record
  PROVE  /\ Outranks(r, s) /\ Outranks(s, r) => r = s
         /\ Outranks(r, s) /\ r # s => Standings!Outranks(r, s)
  BY DEF Outranks, Standings!Outranks, Record

\* A record that outranks the others of a set decides.
LEMMA DecidedBy ==
  ASSUME NEW R \in SUBSET Record, NEW r \in R,
         \A s \in R : Outranks(r, s) \/ r = s
  PROVE  Deciding(R) = r
<1>1. Deciding(R) \in R /\ (Outranks(Deciding(R), r) \/ Deciding(R) = r)
  BY DecidingDecides
<1>2. Outranks(r, Deciding(R)) \/ r = Deciding(R)
  BY <1>1
<1>3. QED
  BY <1>1, <1>2, OutranksIsOrder

\* A record signed over R has its place above R, and decides.
LEMMA SignedDecides ==
  ASSUME NEW R \in SUBSET Record, NEW st \in {"in", "out"}, NextGen(R) <= MaxGen
  PROVE  LET r == [gen |-> NextGen(R), st |-> st]
         IN  r \in Record /\ Deciding(R \cup {r}) = r
<1> DEFINE r == [gen |-> NextGen(R), st |-> st]
<1>1. NextGen(R) \in 1 .. MaxGen /\ \A s \in R : s.gen < NextGen(R)
  <2>1. CASE R = {}
    BY <2>1, ReadmissionAssumption DEF NextGen, Deciding, Unnamed
  <2>2. CASE R # {}
    <3>1. Deciding(R) \in Record
      BY <2>2, DecidingDecides
    <3>2. \A s \in R : s.gen <= Deciding(R).gen
      BY <2>2, <3>1, DecidingDecides DEF Outranks, Record
    <3>3. QED
      BY <3>1, <3>2, ReadmissionAssumption DEF NextGen, Record
  <2>3. QED
    BY <2>1, <2>2
<1>2. r \in Record
  BY <1>1 DEF Record
<1>3. \A s \in R \cup {r} : Outranks(r, s) \/ r = s
  BY <1>1 DEF Outranks, Record
<1>4. QED
  BY <1>2, <1>3, DecidedBy

\* Records that join others change the decision to a record of higher rank
\* among them, or not at all.
LEMMA JoinRaises ==
  ASSUME NEW R \in SUBSET Record, NEW T \in SUBSET Record
  PROVE  \/ Deciding(R \cup T) = Deciding(R)
         \/ /\ Deciding(R \cup T) \in R \cup T
            /\ Standings!Outranks(Deciding(R \cup T), Deciding(R))
<1> DEFINE r == Deciding(R \cup T)
<1>1. CASE R \cup T = {}
  BY <1>1 DEF Deciding
<1>2. CASE R \cup T # {}
  <2>1. /\ r \in R \cup T /\ r \in Record
        /\ \A s \in R \cup T : Outranks(r, s) \/ r = s
    BY <1>2, DecidingDecides
  <2>2. CASE R = {}
    BY <2>1, <2>2, ReadmissionAssumption
    DEF Deciding, Unnamed, Standings!Outranks, Record
  <2>3. CASE R # {}
    <3>1. Deciding(R) \in R
      BY <2>3, DecidingDecides
    <3>2. Outranks(r, Deciding(R)) \/ r = Deciding(R)
      BY <2>1, <3>1
    <3>3. QED
      BY <2>1, <3>1, <3>2, OutranksIsOrder
  <2>4. QED
    BY <2>2, <2>3
<1>3. QED
  BY <1>1, <1>2

-----------------------------------------------------------------------------
(* How records travel                                                      *)

\* What is under way to the Joiner was read from the Admin's document, which
\* only grows.
Relayed ==
  /\ setting \in Settings
  /\ records \in [Devices -> SUBSET Record]
  /\ wire # Nothing => wire.records \subseteq records[Admin]

\* A holder of admin.key in some circumstances signs a record.
SignedStep ==
  \E d \in Contacts, st \in {"in", "out"} :
    /\ \E s \in Settings : d \in s.holders
    /\ Sign(d, st)

\* A device takes records that another one has.
JoinedStep ==
  \E from, to \in Devices : \E R \in SUBSET records[from] :
    records' = [records EXCEPT ![to] = @ \cup R]

RecordsStep == SignedStep \/ JoinedStep \/ UNCHANGED records

\* Every step signs a record, joins records of one device to another's, or
\* leaves them alone.
LEMMA RecordsTravel ==
  ASSUME Relayed, [Next]_vars
  PROVE  /\ RecordsStep
         /\ setting' = setting
         /\ wire' \in {wire, Nothing, AdminSnapshot}
<1> USE DEF Relayed
<1> DEFINE Goal == RecordsStep /\ setting' = setting /\ wire' \in {wire, Nothing, AdminSnapshot}
<1>0. Contacts \subseteq Devices /\ Admin \in Contacts /\ Member \in Devices /\ Joiner \in Devices
  BY DEF Contacts, Devices
<1>h. setting.holders \subseteq Contacts /\ Admin \in setting.holders /\ setting.present \subseteq Contacts
  BY ReadmissionAssumption DEF Setting
<1>j. ASSUME NEW from \in Devices, NEW to \in Devices, NEW R \in SUBSET records[from],
             records' = [records EXCEPT ![to] = @ \cup R]
      PROVE  RecordsStep
  BY <1>j DEF RecordsStep, JoinedStep
<1>1. CASE Remove
  BY <1>1, <1>h DEF Remove, RecordsStep, SignedStep, stream
<1>2. ASSUME NEW d \in KeyHolders, Readmit(d) PROVE Goal
  BY <1>2, <1>h DEF Readmit, RecordsStep, SignedStep, stream, KeyHolders
<1>3. CASE Approve
  BY <1>3 DEF Approve, RecordsStep, stream
<1>4. CASE SyncFails
  BY <1>4 DEF SyncFails, RecordsStep, NewStream, document
<1>5. ASSUME NEW d \in Contacts, Connect(d) \/ Drop(d) PROVE Goal
  BY <1>5 DEF Connect, Drop, RecordsStep, NewStream, document, stream
<1>6. CASE SendToJoiner
  BY <1>6 DEF SendToJoiner, RecordsStep, document
<1>7. CASE SendToAdmin
  <2>1. JoinerSnapshot.records \subseteq records[Joiner]
    BY DEF JoinerSnapshot
  <2>2. records' = [records EXCEPT ![Admin] = @ \cup JoinerSnapshot.records]
    BY <1>7 DEF SendToAdmin
  <2>3. RecordsStep
    BY <2>1, <2>2, <1>0, <1>j
  <2>4. QED
    BY <2>3, <1>7 DEF SendToAdmin
<1>8. CASE SendToMember
  <2>1. JoinerSnapshot.records \subseteq records[Joiner]
    BY DEF JoinerSnapshot
  <2>2. records' = [records EXCEPT ![Member] = @ \cup JoinerSnapshot.records]
    BY <1>8 DEF SendToMember
  <2>3. RecordsStep
    BY <2>1, <2>2, <1>0, <1>j
  <2>4. QED
    BY <2>3, <1>8 DEF SendToMember, stream
<1>9. ASSUME NEW d \in Contacts, NEW s, NEW from \in Devices, s.records \subseteq records[from],
             NEW B, Merge(d, s, B)
      PROVE  RecordsStep /\ setting' = setting
  <2>1. CASE B = {}
    <3>1. records' = [records EXCEPT ![Joiner] = @ \cup s.records]
      BY <1>9, <2>1 DEF Merge
    <3>2. QED
      BY <3>1, <1>0, <1>j, <1>9 DEF Merge
  <2>2. CASE B # {}
    <3>1. records' = records
      BY <1>9, <2>2 DEF Merge
    <3>2. QED
      BY <3>1, <1>9 DEF Merge, RecordsStep
  <2>3. QED
    BY <2>1, <2>2
<1>10. ASSUME NEW B, MergeFromAdmin(B) PROVE Goal
  BY <1>0, <1>9, <1>10 DEF MergeFromAdmin
<1>11. ASSUME NEW B, MergeFromMember(B) PROVE Goal
  <2> DEFINE s == [records |-> records[Member], tombstone |-> tombstone[Member],
                   request |-> FALSE, entry |-> NoEntry, welcome |-> NoWelcome,
                   commits |-> IF KnownToMember THEN log ELSE 0]
  <2>1. Merge(Member, s, B) /\ wire' = wire
    BY <1>11 DEF MergeFromMember
  <2>2. s.records \subseteq records[Member] /\ Member \in Contacts
    BY DEF Contacts
  <2> HIDE DEF s
  <2>3. QED
    BY <1>0, <1>9, <2>1, <2>2
<1>12. ASSUME NEW d \in Contacts, NEW B, Consume(d, B) \/ Finish(d, B) \/ ToldRemoved(d, B)
       PROVE  Goal
  BY <1>12 DEF Consume, Finish, ToldRemoved, RecordsStep, stream
<1>13. ASSUME NEW from \in Present, NEW to \in Present, Exchange(from, to) PROVE Goal
  <2>1. from \in Devices /\ to \in Devices
    BY <1>0, <1>h DEF Present
  <2>2. records' = [records EXCEPT ![to] = @ \cup records[from]]
    BY <1>13 DEF Exchange
  <2>3. RecordsStep
    BY <2>1, <2>2, <1>j
  <2>4. QED
    BY <2>3, <1>13 DEF Exchange, stream
<1>14. CASE FollowCommit
  BY <1>14 DEF FollowCommit, RecordsStep, stream, document
<1>15. CASE ClearRequest
  BY <1>15 DEF ClearRequest, RecordsStep, stream
<1>16. CASE Restart
  BY <1>16 DEF Restart, RecordsStep, NewStream
<1>17. CASE UNCHANGED vars
  BY <1>17 DEF vars, RecordsStep, stream, document
<1>18. CASE Rescreen
  BY <1>18 DEF Rescreen, RecordsStep, stream, document
<1>19. QED
  BY <1>1, <1>2, <1>3, <1>4, <1>5, <1>6, <1>7, <1>8, <1>10, <1>11, <1>12, <1>13, <1>14,
     <1>15, <1>16, <1>17, <1>18 DEF Next, SweepApproves, ApproveByHand

\* Documents keep what they hold.
LEMMA RecordsGrow ==
  ASSUME Relayed, RecordsStep
  PROVE  /\ records' \in [Devices -> SUBSET Record]
         /\ \A d \in Devices : records[d] \subseteq records'[d]
<1> USE DEF Relayed
<1>1. CASE SignedStep
  <2>1. PICK d \in Contacts, st \in {"in", "out"} : Sign(d, st)
    BY <1>1 DEF SignedStep
  <2>2. records[d] \in SUBSET Record
    BY DEF Devices
  <2>3. [gen |-> NextGen(records[d]), st |-> st] \in Record
    BY <2>1, <2>2, SignedDecides DEF Sign
  <2>4. QED
    BY <2>1, <2>3 DEF Sign
<1>2. CASE JoinedStep
  BY <1>2 DEF JoinedStep
<1>3. QED
  BY <1>1, <1>2 DEF RecordsStep

\* Snapshots under way hold records of the Admin.
LEMMA RelayedInvariant == Spec => []Relayed
<1>1. Init => Relayed
  BY DEF Init, Relayed
<1>2. Relayed /\ [Next]_vars => Relayed'
  <2> SUFFICES ASSUME Relayed, [Next]_vars PROVE Relayed'
    OBVIOUS
  <2>1. RecordsStep /\ setting' = setting /\ wire' \in {wire, Nothing, AdminSnapshot}
    BY RecordsTravel
  <2>2. /\ records' \in [Devices -> SUBSET Record]
        /\ \A d \in Devices : records[d] \subseteq records'[d]
    BY <2>1, RecordsGrow
  <2>3. Admin \in Devices
    BY DEF Devices, Contacts
  <2>4. wire' # Nothing => wire'.records \subseteq records[Admin]
    BY <2>1 DEF Relayed, AdminSnapshot
  <2>5. QED
    BY <2>1, <2>2, <2>3, <2>4 DEF Relayed
<1>3. QED
  BY <1>1, <1>2, PTL DEF Spec

-----------------------------------------------------------------------------
(* Readmission implements MembershipStanding                               *)

\* No record is about the Joiner at first, and every device's view is Unnamed.
LEMMA StandingStarts == Init => Standings!Init
  BY DEF Init, Standings!Init, Deciding, Unnamed, Standings!Unnamed

\* A signature is MembershipStanding's Issue, relayed records are its Learn,
\* or teach nothing, and every other step leaves standings alone.
LEMMA StandingStep ==
  ASSUME Relayed, RecordsStep
  PROVE  [Standings!Next]_(Standings!standingVars)
<1> DEFINE issued == UNION {records[d] : d \in Devices}
           view == [d \in Devices |-> Deciding(records[d])]
<1>0. records \in [Devices -> SUBSET Record] /\ records' \in [Devices -> SUBSET Record]
  BY RecordsGrow DEF Relayed
<1>1. CASE SignedStep
  <2>1. PICK d \in Contacts, st \in {"in", "out"} :
          (\E s \in Settings : d \in s.holders) /\ Sign(d, st)
    BY <1>1 DEF SignedStep
  <2> DEFINE r == [gen |-> NextGen(records[d]), st |-> st]
  <2>2. d \in Devices /\ d \in UNION {s.holders : s \in Settings}
    BY <2>1 DEF Devices
  <2>3. records' = [records EXCEPT ![d] = @ \cup {r}]
    BY <2>1 DEF Sign
  <2>4. Deciding(records[d] \cup {r}) = r
    BY <1>0, <2>1, <2>2, SignedDecides DEF Sign
  <2>5. issued' = issued \cup {r}
    BY <1>0, <2>2, <2>3
  <2>6. view' = [view EXCEPT ![d] = r]
    BY <1>0, <2>2, <2>3, <2>4
  <2>7. r.gen = view[d].gen + 1
    BY <2>2 DEF NextGen
  <2>8. Standings!Issue(d, st)
    BY <2>5, <2>6, <2>7, <2>2 DEF Standings!Issue
  <2>9. QED
    BY <2>8, <2>2, <2>1 DEF Standings!Next, Standings!Standing
<1>2. CASE JoinedStep
  <2>1. PICK from \in Devices, to \in Devices : \E R \in SUBSET records[from] :
          records' = [records EXCEPT ![to] = @ \cup R]
    BY <1>2 DEF JoinedStep
  <2>2. PICK R \in SUBSET records[from] : records' = [records EXCEPT ![to] = @ \cup R]
    BY <2>1
  <2>3. issued' = issued
    BY <1>0, <2>2
  <2> DEFINE r == Deciding(records[to] \cup R)
  <2>4. view' = [view EXCEPT ![to] = r]
    BY <1>0, <2>2
  <2>5. R \in SUBSET Record /\ records[to] \in SUBSET Record
    BY <1>0
  <2>6. CASE r = Deciding(records[to])
    <3>1. view' = view
      BY <2>4, <2>6
    <3>2. QED
      BY <2>3, <3>1 DEF Standings!standingVars
  <2>7. CASE r \in records[to] \cup R /\ Standings!Outranks(r, Deciding(records[to]))
    <3>1. r \in issued
      BY <2>7
    <3>2. Standings!Learn(to)
      BY <2>3, <2>4, <2>7, <3>1 DEF Standings!Learn
    <3>3. QED
      BY <3>2 DEF Standings!Next
  <2>8. QED
    BY <2>5, <2>6, <2>7, JoinRaises
<1>3. CASE UNCHANGED records
  BY <1>3 DEF Standings!standingVars
<1>4. QED
  BY <1>1, <1>2, <1>3 DEF RecordsStep

\* membership.rs keeps MembershipStanding's promise, whatever is relayed by
\* whom, lost, repeated or overtaken: a device's standing for the Joiner is a
\* record that a holder of admin.key signed, and only ever changes to one of
\* higher rank.
THEOREM StandingImplemented == Spec => ImplementsStanding
<1>1. Relayed /\ [Next]_vars => [Standings!Next]_(Standings!standingVars)
  BY RecordsTravel, StandingStep
<1>2. QED
  BY <1>1, StandingStarts, RelayedInvariant, PTL DEF Spec, ImplementsStanding, Standings!Spec

\* What MembershipStanding says of a step.
StandsOrRises ==
  \A d \in Devices :
    \/ Deciding(records'[d]) = Deciding(records[d])
    \/ Standings!Outranks(Deciding(records'[d]), Deciding(records[d]))

\* No step, a stale snapshot or a restart included, takes a device back to a
\* record of lower rank about the Joiner (membership.rs, deciding).
THEOREM StandingNeverFalls == Spec => [][StandsOrRises]_vars
<1>1. ASSUME Relayed, RecordsStep PROVE StandsOrRises
  <2>0. records \in [Devices -> SUBSET Record]
    BY <1>1 DEF Relayed
  <2>1. CASE SignedStep
    <3>1. PICK d \in Contacts, st \in {"in", "out"} : Sign(d, st)
      BY <2>1 DEF SignedStep
    <3> DEFINE r == [gen |-> NextGen(records[d]), st |-> st]
    <3>2. d \in Devices /\ records'[d] = records[d] \cup {r}
      BY <2>0, <3>1 DEF Sign, Devices
    <3>3. Deciding(records'[d]) = r /\ r.gen = Deciding(records[d]).gen + 1
      BY <2>0, <3>1, <3>2, SignedDecides DEF Sign, NextGen
    <3>4. Standings!Outranks(Deciding(records'[d]), Deciding(records[d]))
      BY <2>0, <3>2, <3>3, DecidingTyped DEF Standings!Outranks
    <3>5. \A c \in Devices : c # d => records'[c] = records[c]
      BY <2>0, <3>1 DEF Sign
    <3>6. QED
      BY <3>4, <3>5 DEF StandsOrRises
  <2>2. CASE JoinedStep
    <3>1. PICK from \in Devices, to \in Devices : \E R \in SUBSET records[from] :
            records' = [records EXCEPT ![to] = @ \cup R]
      BY <2>2 DEF JoinedStep
    <3>2. PICK R \in SUBSET records[from] : records' = [records EXCEPT ![to] = @ \cup R]
      BY <3>1
    <3>3. R \in SUBSET Record /\ records[to] \in SUBSET Record
      BY <2>0
    <3>4. \/ Deciding(records[to] \cup R) = Deciding(records[to])
          \/ Standings!Outranks(Deciding(records[to] \cup R), Deciding(records[to]))
      BY <3>3, JoinRaises
    <3>5. \A c \in Devices : records'[c] = IF c = to THEN records[to] \cup R ELSE records[c]
      BY <2>0, <3>2
    <3>6. QED
      BY <3>4, <3>5 DEF StandsOrRises
  <2>3. CASE UNCHANGED records
    BY <2>3 DEF StandsOrRises
  <2>4. QED
    BY <1>1, <2>1, <2>2, <2>3 DEF RecordsStep
<1>2. Relayed /\ [Next]_vars => StandsOrRises
  BY <1>1, RecordsTravel
<1>3. QED
  BY <1>2, RelayedInvariant, PTL DEF Spec

-----------------------------------------------------------------------------
(* Types                                                                   *)

\* What the circumstances say of bounds and participants.
LEMMA SettingFacts ==
  ASSUME setting \in Settings
  PROVE  /\ MaxEpoch \in Nat /\ MaxEpoch >= 3 /\ MaxKeys \in Nat /\ MaxKeys >= 1
         /\ Present \subseteq Contacts /\ KeyHolders \subseteq Contacts
         /\ setting.tombstoned \in BOOLEAN
         /\ setting.busy \in Nat /\ setting.restarts \in Nat /\ setting.drops \in Nat
  BY ReadmissionAssumption DEF Setting, MaxEpoch, MaxKeys, Present, KeyHolders

\* The Admin's group is at an epoch, in which the Joiner has a leaf or not.
LEMMA EpochFacts ==
  ASSUME EpochsOK
  PROVE  /\ Epoch \in Nat /\ Epoch >= 2 /\ Epoch <= MaxEpoch
         /\ followed \in Nat /\ log \in Nat
         /\ \A e \in 1 .. Epoch : leaves[e] \in Package
         /\ Leaf \in Package
<1>1. Epoch \in Nat /\ \A e \in 1 .. Epoch : leaves[e] \in Package
  BY LenProperties, ElementOfSeq DEF EpochsOK, Epoch
<1>2. 2 <= Epoch
  BY <1>1 DEF EpochsOK, Epoch
<1>3. QED
  BY <1>1, <1>2 DEF EpochsOK, Epoch, Leaf

\* What a device without a KeyPackage or a Welcome has is of the type too.
LEMMA NothingTyped ==
  ASSUME setting \in Settings
  PROVE  /\ NoPackage \in Package /\ NoWelcome \in Welcome /\ NoGroup \in Group
         /\ [id |-> 1, n |-> 1] \in Package
         /\ NoEntry \in 0 .. MaxEpoch /\ SelfSigned \in 0 .. MaxEpoch
         /\ 2 \in 0 .. MaxEpoch
<1>1. NoPackage \in Package /\ [id |-> 1, n |-> 1] \in Package
  BY SettingFacts DEF Package, NoPackage
<1>2. QED
  BY <1>1, SettingFacts DEF NoWelcome, Welcome, NoGroup, Group, NoEntry, SelfSigned

\* The Admin's snapshot is one of Snapshots, the Joiner's one of Offers.
LEMMA SnapshotTyped ==
  ASSUME TypeOK
  PROVE  AdminSnapshot \in Snapshots /\ JoinerSnapshot \in Offers
<1>1. {Admin, Joiner} \subseteq Devices /\ NoEntry \in 0 .. MaxEpoch /\ 0 \in 0 .. MaxEpoch
  BY NothingTyped, SettingFacts DEF TypeOK, Devices, Contacts
<1>2. Epoch \in 0 .. MaxEpoch
  BY EpochFacts, SettingFacts DEF TypeOK
<1>3. /\ records[Admin] \in SUBSET Record /\ records[Joiner] \in SUBSET Record
      /\ tombstone[Admin] \in BOOLEAN /\ tombstone[Joiner] \in BOOLEAN
      /\ request[Admin] \in BOOLEAN /\ request[Joiner] \in BOOLEAN
      /\ entry[Admin] \in 0 .. MaxEpoch /\ entry[Joiner] \in 0 .. MaxEpoch
      /\ welcome \in Welcome /\ keys \in Package
  BY <1>1 DEF TypeOK, DocumentsOK, JoinerOK
<1>4. AdminSnapshot \in Snapshots
  BY <1>1, <1>2, <1>3 DEF AdminSnapshot, Snapshots
<1>5. JoinerSnapshot \in Offers
  BY <1>1, <1>3 DEF JoinerSnapshot, Offers
<1>6. QED
  BY <1>4, <1>5

\* A busy document stays within its budget.
LEMMA ContentionTyped ==
  ASSUME TypeOK, NEW B \in SUBSET Accesses, Contention(B), setting' = setting
  PROVE  busy' \in 0 .. setting.busy
<1>1. IsFiniteSet(Accesses)
  <2>1. IsFiniteSet({}) /\ {} \cup {"held"} = {"held"}
    BY FS_EmptySet
  <2>2. Accesses = ((((({} \cup {"held"}) \cup {"admission"}) \cup {"readmission"}) \cup {"removal"})
                     \cup {"request"}) \cup {"told"}
    BY DEF Accesses
  <2>3. QED
    BY <2>1, <2>2, FS_AddElement
<1>2. Cardinality(B) \in Nat
  BY <1>1, FS_Subset, FS_CardinalityType
<1>3. QED
  BY <1>2, SettingFacts DEF Contention, TypeOK, BudgetsOK

\* Following commits keeps a group within the epochs that exist.
LEMMA FollowedTyped ==
  ASSUME TypeOK, NEW g \in Group, NEW e \in 0 .. MaxEpoch
  PROVE  /\ Followed(g, e) \in Group
         /\ Followed(g, e).leaf = g.leaf /\ Followed(g, e).from = g.from
         /\ \/ Followed(g, e) = g
            \/ /\ g.active
               /\ Followed(g, e).epoch \in g.epoch + 1 .. e
               /\ Followed(g, e).active => \A k \in g.epoch + 1 .. e : leaves[k] = g.leaf
               /\ ~Followed(g, e).active => leaves[Followed(g, e).epoch] # g.leaf
<1> DEFINE lost == {k \in g.epoch + 1 .. e : leaves[k] # g.leaf}
<1>0. g.epoch \in 0 .. MaxEpoch /\ MaxEpoch \in Nat
  BY SettingFacts DEF Group, TypeOK
<1>1. CASE ~g.active \/ e <= g.epoch
  BY <1>0, <1>1 DEF Followed
<1>2. CASE g.active /\ e > g.epoch /\ lost = {}
  <2>1. Followed(g, e) = [g EXCEPT !.epoch = e]
    BY <1>0, <1>2 DEF Followed
  <2>2. QED
    BY <1>0, <1>2, <2>1 DEF Group
<1>3. CASE g.active /\ e > g.epoch /\ lost # {}
  <2> DEFINE first == CHOOSE k \in lost : \A j \in lost : k <= j
  <2>1. Followed(g, e) = [g EXCEPT !.epoch = first, !.active = FALSE]
    BY <1>0, <1>3 DEF Followed
  <2>2. lost \in SUBSET Nat
    BY <1>0
  <2>3. \E k \in lost : \A j \in lost : k <= j
    BY <1>3, <2>2, LeastMember
  <2>4. first \in lost
    BY <2>3
  <2>5. first \in g.epoch + 1 .. e /\ leaves[first] # g.leaf
    BY <2>4
  <2> HIDE DEF first
  <2>6. first \in 0 .. MaxEpoch
    BY <1>0, <2>5
  <2>7. Followed(g, e) \in Group /\ ~Followed(g, e).active
    BY <2>1, <2>6 DEF Group
  <2>8. /\ Followed(g, e).leaf = g.leaf /\ Followed(g, e).from = g.from
        /\ Followed(g, e).epoch = first
    BY <2>1 DEF Group
  <2>9. QED
    BY <1>3, <2>5, <2>7, <2>8
<1>4. QED
  BY <1>0, <1>1, <1>2, <1>3

\* The parts of the type invariant.
LEMMA TypeParts ==
  TypeOK <=> /\ setting \in Settings
             /\ DocumentsOK /\ EpochsOK /\ JoinerOK /\ StreamOK /\ BudgetsOK
  BY DEF TypeOK

\* The initial states have their types.
LEMMA TypeStarts == Init => TypeOK
<1> SUFFICES ASSUME Init PROVE TypeOK
  OBVIOUS
<1>0. setting \in Settings
  BY DEF Init
<1>1. PICK t \in {FALSE, setting.tombstoned} :
       /\ tombstone = [d \in Devices |-> t]
       /\ entry = [d \in {Admin, Joiner} |-> IF t THEN NoEntry ELSE 2]
       /\ published = IF t THEN NoPackage ELSE [id |-> 1, n |-> 1]
       /\ welcome = IF t THEN NoWelcome ELSE [leaf |-> [id |-> 1, n |-> 1], epoch |-> 2]
       /\ leaves = <<NoPackage, [id |-> 1, n |-> 1]>> \o (IF t THEN <<NoPackage>> ELSE <<>>)
       /\ group = IF t THEN NoGroup
                  ELSE [epoch |-> 2, from |-> 2, leaf |-> [id |-> 1, n |-> 1], active |-> TRUE]
  BY DEF Init
<1>2. t \in BOOLEAN
  BY <1>0, SettingFacts
<1> DEFINE P == [id |-> 1, n |-> 1]
<1>3. NoPackage \in Package /\ P \in Package
  BY <1>0, NothingTyped
<1>4. leaves \in Seq(Package) /\ Len(leaves) \in 2 .. 3
  <2>1. CASE t
    BY <1>1, <1>3, <2>1
  <2>2. CASE ~t
    BY <1>1, <1>3, <2>2
  <2>3. QED
    BY <1>2, <2>1, <2>2
<1>5. DocumentsOK
  <2>1. published \in Package /\ welcome \in Welcome
    BY <1>0, <1>1, <1>3, NothingTyped DEF Welcome
  <2>2. entry \in [{Admin, Joiner} -> 0 .. MaxEpoch]
    BY <1>0, <1>1, NothingTyped
  <2>3. QED
    BY <1>1, <1>2, <2>1, <2>2 DEF Init, DocumentsOK
<1>6. EpochsOK
  BY <1>0, <1>4, SettingFacts, ReadmissionAssumption DEF Init, EpochsOK
<1>7. JoinerOK
  <2>1. group \in Group
    BY <1>0, <1>1, <1>3, NothingTyped, SettingFacts DEF Group
  <2>2. tried \in Welcome /\ rotated \in Welcome
    BY <1>0, <1>1, <1>3, NothingTyped DEF Init, Welcome
  <2>3. keys = P
    BY DEF Init
  <2>4. keys \in Package /\ keys.id <= keys.n
    BY <1>3, <2>3
  <2>5. /\ unspent = FALSE /\ clearing = FALSE /\ admitted = 0
        /\ task = [d \in Contacts |-> Idle]
    BY DEF Init
  <2>6. task \in [Contacts -> Tasks] /\ 0 \in 0 .. MaxGen
    BY <2>5, ReadmissionAssumption DEF Tasks
  <2>7. QED
    BY <2>1, <2>2, <2>4, <2>5, <2>6 DEF JoinerOK
<1>8. StreamOK /\ BudgetsOK
  <2>1. /\ link = {} /\ wire = Nothing /\ sent = Nothing /\ offered = Nothing
        /\ busy = 0 /\ restarts = 0 /\ drops = 0 /\ forgot = FALSE /\ missed = FALSE
    BY DEF Init
  <2>2. /\ 0 \in 0 .. setting.busy /\ 0 \in 0 .. setting.restarts
        /\ 0 \in 0 .. setting.drops
    BY <1>0, SettingFacts
  <2>3. StreamOK
    BY <2>1 DEF StreamOK
  <2>4. BudgetsOK
    BY <2>1, <2>2 DEF BudgetsOK
  <2>5. QED
    BY <2>3, <2>4
<1>9. QED
  BY <1>0, <1>5, <1>6, <1>7, <1>8 DEF TypeOK

\* An epoch that gives the Joiner's leaf to a KeyPackage, or takes it.
LEMMA AppendTyped ==
  ASSUME EpochsOK, Epoch < MaxEpoch, NEW q \in Package, leaves' = Append(leaves, q)
  PROVE  /\ leaves' \in Seq(Package) /\ Len(leaves') = Epoch + 1
         /\ leaves'[Epoch + 1] = q
         /\ \A e \in 1 .. Epoch : leaves'[e] = leaves[e]
  BY AppendProperties DEF EpochsOK, Epoch

\* What a device that stays in or drops its group is left with.
LEMMA SettledTyped ==
  ASSUME TypeOK, NEW R, NEW t, NEW B
  PROVE  SettledGroup(R, t, B) \in Group /\ SettledGroup(R, t, B) \in {group, NoGroup}
  BY NothingTyped DEF SettledGroup, TypeOK, JoinerOK

\* Every step keeps the types.
LEMMA TypeStep ==
  ASSUME TypeOK, Relayed', [Next]_vars, setting' = setting
  PROVE  TypeOK'
<1>0. /\ setting \in Settings /\ setting' \in Settings
      /\ records' \in [Devices -> SUBSET Record]
      /\ MaxEpoch' = MaxEpoch /\ MaxKeys' = MaxKeys /\ Group' = Group /\ Package' = Package
      /\ Welcome' = Welcome /\ Snapshots' = Snapshots /\ Offers' = Offers /\ Tasks' = Tasks
  BY DEF TypeOK, Relayed, MaxEpoch, MaxKeys, Group, Package, Welcome, Snapshots, Offers, Tasks
<1>p. DocumentsOK /\ EpochsOK /\ JoinerOK /\ StreamOK /\ BudgetsOK
  BY DEF TypeOK
<1>d. ASSUME UNCHANGED <<tombstone, request, entry, published, welcome>> PROVE DocumentsOK'
  BY <1>d, <1>0, <1>p DEF DocumentsOK
<1>e. ASSUME UNCHANGED mls PROVE EpochsOK'
  BY <1>e, <1>0, <1>p DEF EpochsOK, mls
<1>j. ASSUME UNCHANGED local, UNCHANGED running PROVE JoinerOK'
  BY <1>j, <1>0, <1>p DEF JoinerOK, local, keyring, running
<1>s. ASSUME UNCHANGED link, UNCHANGED stream PROVE StreamOK'
  BY <1>s, <1>0, <1>p DEF StreamOK, stream
<1>b. ASSUME UNCHANGED budgets PROVE BudgetsOK'
  BY <1>b, <1>0, <1>p DEF BudgetsOK, budgets
<1>n. /\ NoPackage \in Package /\ NoWelcome \in Welcome /\ NoGroup \in Group
      /\ NoEntry \in 0 .. MaxEpoch /\ SelfSigned \in 0 .. MaxEpoch
  BY <1>0, NothingTyped
<1>c. Admin \in Devices /\ Joiner \in Devices /\ Member \in Devices
  BY DEF Devices, Contacts
<1>q. /\ MaxEpoch \in Nat /\ MaxKeys \in Nat /\ Epoch \in Nat /\ Epoch <= MaxEpoch
      /\ Leaf \in Package /\ followed \in Nat /\ log \in Nat
  BY <1>0, <1>p, SettingFacts, EpochFacts
<1>1. CASE Remove
  <2>1. DocumentsOK'
    BY <1>1, <1>0, <1>p, <1>n DEF Remove, DocumentsOK
  <2>2. EpochsOK'
    <3>1. CASE Leaf = NoPackage
      BY <1>1, <3>1, <1>0, <1>p DEF Remove, EpochsOK
    <3>2. CASE Leaf # NoPackage
      <4>1. Epoch < MaxEpoch /\ leaves' = Append(leaves, NoPackage)
        BY <1>1, <3>2 DEF Remove
      <4>2. leaves' \in Seq(Package) /\ Len(leaves') = Epoch + 1
        BY <4>1, <1>p, <1>n, AppendTyped
      <4>3. QED
        BY <1>1, <4>1, <4>2, <1>0, <1>p, <1>q DEF Remove, EpochsOK, Epoch
    <3>3. QED
      BY <3>1, <3>2
  <2>3. QED
    BY <2>1, <2>2, <1>0, <1>1, <1>j, <1>s, <1>b DEF Remove, TypeOK
<1>2. ASSUME NEW d \in KeyHolders, Readmit(d) PROVE TypeOK'
  BY <1>2, <1>0, <1>d, <1>e, <1>j, <1>s, <1>b DEF Readmit, TypeOK
<1>3. CASE Approve
  <2>1. CASE Admitted
    <3>1. published \in Package /\ records[Admin] \in SUBSET Record
      BY <1>p, <1>c DEF DocumentsOK
    <3>2. leaves' \in Seq(Package) /\ Len(leaves') = Epoch + 1
      BY <2>1, <3>1, <1>p, AppendTyped DEF Admitted
    <3>3. EpochsOK'
      BY <1>3, <2>1, <3>1, <3>2, <1>0, <1>p, <1>q, DecidingTyped DEF Approve, Admitted, EpochsOK, Epoch
    <3>4. Epoch + 1 \in 0 .. MaxEpoch
      BY <2>1, <1>q DEF Admitted
    <3>5. DocumentsOK'
      BY <1>3, <2>1, <3>1, <3>4, <1>0, <1>p DEF Approve, Admitted, DocumentsOK, Welcome
    <3>6. QED
      BY <3>3, <3>5, <1>0, <1>3, <1>j, <1>s, <1>b DEF Approve, TypeOK
  <2>2. CASE UNCHANGED <<leaves, welcome, entry, under>>
    <3>1. DocumentsOK'
      BY <1>3, <2>2, <1>0, <1>p DEF Approve, DocumentsOK
    <3>2. QED
      BY <3>1, <2>2, <1>0, <1>3, <1>e, <1>j, <1>s, <1>b DEF Approve, TypeOK, mls
  <2>3. QED
    BY <1>3, <2>1, <2>2 DEF Approve
<1>4. CASE SyncFails
  <2>1. StreamOK'
    BY <1>4, <1>0, <1>p DEF SyncFails, NewStream, StreamOK
  <2>2. QED
    BY <2>1, <1>0, <1>4, <1>d, <1>e, <1>j, <1>b DEF SyncFails, TypeOK, document
<1>5. ASSUME NEW d \in Contacts, Connect(d) PROVE TypeOK'
  <2>1. StreamOK'
    BY <1>5, <1>0, <1>p DEF Connect, StreamOK, stream
  <2>2. QED
    BY <2>1, <1>0, <1>5, <1>d, <1>e, <1>j, <1>b DEF Connect, TypeOK, document
<1>6. ASSUME NEW d \in Contacts, Drop(d) PROVE TypeOK'
  <2>1. StreamOK'
    BY <1>6, <1>0, <1>p DEF Drop, NewStream, StreamOK, stream
  <2>2. BudgetsOK'
    BY <1>6, <1>0, <1>p, SettingFacts DEF Drop, BudgetsOK
  <2>3. QED
    BY <2>1, <2>2, <1>0, <1>6, <1>d, <1>e, <1>j DEF Drop, TypeOK, document
<1>7. CASE SendToJoiner
  <2>1. StreamOK'
    BY <1>7, <1>0, <1>p, SnapshotTyped DEF SendToJoiner, StreamOK
  <2>2. QED
    BY <2>1, <1>0, <1>7, <1>d, <1>e, <1>j, <1>b DEF SendToJoiner, TypeOK, document
<1>8. CASE SendToAdmin
  <2>1. JoinerSnapshot \in Offers
    BY SnapshotTyped
  <2>2. StreamOK'
    BY <1>8, <2>1, <1>0, <1>p DEF SendToAdmin, StreamOK
  <2>3. /\ JoinerSnapshot.tombstone \in BOOLEAN /\ JoinerSnapshot.request \in BOOLEAN
        /\ JoinerSnapshot.entry \in 0 .. MaxEpoch /\ JoinerSnapshot.published \in Package
    BY <2>1 DEF Offers
  <2>4. DocumentsOK'
    BY <1>8, <2>3, <1>0, <1>p, <1>c DEF SendToAdmin, DocumentsOK
  <2>5. QED
    BY <2>2, <2>4, <1>0, <1>8, <1>e, <1>j, <1>b DEF SendToAdmin, TypeOK
<1>9. CASE SendToMember
  <2>1. JoinerSnapshot.tombstone \in BOOLEAN
    BY SnapshotTyped DEF Offers
  <2>2. DocumentsOK'
    BY <1>9, <2>1, <1>0, <1>p, <1>c DEF SendToMember, DocumentsOK
  <2>3. QED
    BY <2>2, <1>0, <1>9, <1>e, <1>j, <1>s, <1>b DEF SendToMember, TypeOK
<1>10. ASSUME NEW d \in Contacts, NEW s \in Snapshots, NEW B \in SUBSET Accesses, Merge(d, s, B)
       PROVE  DocumentsOK' /\ EpochsOK' /\ JoinerOK' /\ BudgetsOK' /\ link' = link /\ offered' = offered
  <2>1. /\ s.tombstone \in BOOLEAN /\ s.request \in BOOLEAN /\ s.entry \in 0 .. MaxEpoch
        /\ s.welcome \in Welcome /\ s.commits \in 0 .. MaxEpoch
    BY DEF Snapshots
  <2>2. DocumentsOK'
    BY <1>10, <2>1, <1>0, <1>p DEF Merge, DocumentsOK
  <2>3. [step |-> "consume", welcome |-> s.welcome, commits |-> s.commits] \in Tasks
    BY <2>1 DEF Tasks
  <2>4. JoinerOK'
    BY <1>10, <2>3, <1>0, <1>p DEF Merge, JoinerOK, local, keyring
  <2>5. busy' \in 0 .. setting.busy
    BY <1>0, <1>10, ContentionTyped DEF Merge
  <2>6. BudgetsOK'
    BY <1>10, <2>5, <1>0, <1>p DEF Merge, BudgetsOK
  <2>7. QED
    BY <1>10, <2>2, <2>4, <2>6, <1>e DEF Merge
<1>11. ASSUME NEW B \in SUBSET Accesses, MergeFromAdmin(B) PROVE TypeOK'
  <2>1. wire \in Snapshots /\ Merge(Admin, wire, B)
    BY <1>11, <1>p DEF MergeFromAdmin, StreamOK
  <2>2. DocumentsOK' /\ EpochsOK' /\ JoinerOK' /\ BudgetsOK' /\ link' = link /\ offered' = offered
    BY <2>1, <1>10 DEF Contacts
  <2>3. StreamOK'
    BY <1>11, <2>2, <1>0, <1>p DEF MergeFromAdmin, StreamOK
  <2>4. QED
    BY <2>2, <2>3, <1>0 DEF TypeOK
<1>12. ASSUME NEW B \in SUBSET Accesses, MergeFromMember(B) PROVE TypeOK'
  <2> DEFINE s == [records |-> records[Member], tombstone |-> tombstone[Member],
                   request |-> FALSE, entry |-> NoEntry, welcome |-> NoWelcome,
                   commits |-> IF KnownToMember THEN log ELSE 0]
  <2>1. log \in 0 .. MaxEpoch /\ 0 \in 0 .. MaxEpoch
    BY <1>p, <1>q DEF EpochsOK
  <2>2. records[Member] \in SUBSET Record /\ tombstone[Member] \in BOOLEAN
    BY <1>p, <1>c DEF DocumentsOK
  <2>3. s \in Snapshots
    BY <2>1, <2>2, <1>n DEF Snapshots
  <2>4. Merge(Member, s, B) /\ wire' = wire /\ sent' = sent
    BY <1>12 DEF MergeFromMember
  <2> HIDE DEF s
  <2>5. DocumentsOK' /\ EpochsOK' /\ JoinerOK' /\ BudgetsOK' /\ link' = link /\ offered' = offered
    BY <2>3, <2>4, <1>10 DEF Contacts
  <2>6. StreamOK'
    BY <2>4, <2>5, <1>0, <1>p DEF StreamOK
  <2>7. QED
    BY <2>5, <2>6, <1>0 DEF TypeOK
<1>13. ASSUME NEW d \in Contacts, NEW B \in SUBSET Accesses, Consume(d, B) PROVE TypeOK'
  <2> DEFINE w == task[d].welcome
  <2>1. task[d].step = "consume" /\ w \in Welcome /\ task[d].commits \in 0 .. MaxEpoch
    BY <1>13, <1>p DEF Consume, JoinerOK, Tasks, Idle
  <2>2. [step |-> "settle", commits |-> task[d].commits] \in Tasks
    BY <2>1 DEF Tasks
  <2>3. tried' \in Welcome /\ rotated' \in Welcome
    BY <1>13, <2>1, <1>p DEF Consume, JoinerOK
  <2>4. group' \in Group
    <3>1. [epoch |-> w.epoch, from |-> w.epoch, leaf |-> keys, active |-> TRUE] \in Group
      BY <2>1, <1>p DEF Welcome, Group, JoinerOK
    <3>2. QED
      BY <1>13, <3>1, <1>p DEF Consume, JoinerOK
  <2>5. keys' \in Package /\ keys'.id <= keys'.n
    <3>1. CASE keys' = keys
      BY <3>1, <1>p DEF JoinerOK
    <3>2. CASE keys' = [id |-> keys.id + 1, n |-> keys.n + 1] /\ keys.n < MaxKeys
      BY <3>2, <1>p, <1>q DEF JoinerOK, Package
    <3>3. QED
      BY <1>13, <3>1, <3>2 DEF Consume
  <2>6. admitted' \in 0 .. MaxGen
    <3>1. records[Joiner] \in SUBSET Record
      BY <1>p, <1>c DEF DocumentsOK
    <3>2. Deciding(records[Joiner]).gen \in 0 .. MaxGen /\ 0 \in 0 .. MaxGen
      BY <3>1, DecidingTyped, ReadmissionAssumption
    <3>3. QED
      BY <1>13, <3>2, <1>p DEF Consume, JoinerOK
  <2>7. unspent' \in BOOLEAN /\ request' \in [{Admin, Joiner} -> BOOLEAN] /\ forgot' \in BOOLEAN
    BY <1>13, <1>p DEF Consume, JoinerOK, DocumentsOK, BudgetsOK
  <2>8. JoinerOK'
    BY <1>13, <2>2, <2>3, <2>4, <2>5, <2>6, <2>7, <1>0, <1>p DEF Consume, JoinerOK
  <2>9. DocumentsOK'
    BY <1>13, <2>7, <1>0, <1>p DEF Consume, DocumentsOK
  <2>10. BudgetsOK'
    <3>1. busy' \in 0 .. setting.busy
      BY <1>0, <1>13, ContentionTyped DEF Consume
    <3>2. QED
      BY <1>13, <3>1, <2>7, <1>0, <1>p DEF Consume, BudgetsOK
  <2>11. QED
    BY <1>13, <2>8, <2>9, <2>10, <1>0, <1>e, <1>s DEF Consume, TypeOK
<1>14. ASSUME NEW d \in Contacts, NEW B \in SUBSET Accesses, Finish(d, B) PROVE TypeOK'
  <2>1. task[d].commits \in 0 .. MaxEpoch
    BY <1>14, <1>p DEF Finish, JoinerOK, Tasks, Idle
  <2>2. SettledGroup(records[Joiner], tombstone[Joiner], B) \in Group
    BY SettledTyped
  <2>3. group' \in Group
    BY <1>14, <2>1, <2>2, FollowedTyped DEF Finish
  <2>4. JoinerOK'
    BY <1>14, <2>3, <1>0, <1>p DEF Finish, JoinerOK, keyring, Tasks
  <2>5. request' \in [{Admin, Joiner} -> BOOLEAN] /\ missed' \in BOOLEAN
    BY <1>14, <1>p DEF Finish, Asks, DocumentsOK, BudgetsOK
  <2>6. DocumentsOK'
    BY <1>14, <2>5, <1>0, <1>p DEF Finish, DocumentsOK
  <2>7. BudgetsOK'
    <3>1. busy' \in 0 .. setting.busy
      BY <1>0, <1>14, ContentionTyped DEF Finish
    <3>2. QED
      BY <1>14, <3>1, <2>5, <1>0, <1>p DEF Finish, BudgetsOK
  <2>8. QED
    BY <1>14, <2>4, <2>6, <2>7, <1>0, <1>e, <1>s DEF Finish, TypeOK
<1>15. ASSUME NEW d \in Contacts, NEW B \in SUBSET Accesses, ToldRemoved(d, B) PROVE TypeOK'
  <2>1. group' \in Group
    BY <1>15, SettledTyped DEF ToldRemoved
  <2>2. JoinerOK'
    BY <1>15, <2>1, <1>0, <1>p DEF ToldRemoved, JoinerOK, keyring, running
  <2>3. request' \in [{Admin, Joiner} -> BOOLEAN] /\ missed' \in BOOLEAN
    BY <1>15, <1>p DEF ToldRemoved, Asks, DocumentsOK, BudgetsOK
  <2>4. DocumentsOK'
    BY <1>15, <2>3, <1>0, <1>p, <1>n DEF ToldRemoved, DocumentsOK
  <2>5. BudgetsOK'
    <3>1. busy' \in 0 .. setting.busy
      BY <1>0, <1>15, ContentionTyped DEF ToldRemoved
    <3>2. QED
      BY <1>15, <3>1, <2>3, <1>0, <1>p DEF ToldRemoved, BudgetsOK
  <2>6. QED
    BY <1>15, <2>2, <2>4, <2>5, <1>0, <1>e, <1>s DEF ToldRemoved, TypeOK
<1>16. ASSUME NEW from \in Present, NEW to \in Present, Exchange(from, to) PROVE TypeOK'
  <2>1. from \in Devices /\ to \in Devices
    BY <1>0, SettingFacts DEF Devices
  <2>2. tombstone' \in [Devices -> BOOLEAN]
    BY <1>16, <2>1, <1>p DEF Exchange, DocumentsOK
  <2>3. DocumentsOK'
    BY <1>16, <2>2, <1>0, <1>p DEF Exchange, DocumentsOK
  <2>4. EpochsOK'
    BY <1>16, <1>0, <1>p, <1>q DEF Exchange, EpochsOK, Epoch
  <2>5. QED
    BY <1>16, <2>3, <2>4, <1>0, <1>j, <1>s, <1>b DEF Exchange, TypeOK
<1>17. CASE FollowCommit
  <2>1. EpochsOK'
    BY <1>17, <1>0, <1>p, <1>q DEF FollowCommit, EpochsOK, Epoch
  <2>2. QED
    BY <1>17, <2>1, <1>0, <1>d, <1>j, <1>s, <1>b DEF FollowCommit, TypeOK, document
<1>18. CASE ClearRequest
  <2>1. DocumentsOK'
    BY <1>18, <1>0, <1>p DEF ClearRequest, DocumentsOK
  <2>2. JoinerOK'
    BY <1>18, <1>0, <1>p DEF ClearRequest, JoinerOK, local, keyring
  <2>3. QED
    BY <1>18, <2>1, <2>2, <1>0, <1>e, <1>s, <1>b DEF ClearRequest, TypeOK
<1>19. CASE Restart
  <2>1. group' \in Group
    BY <1>19, SettledTyped DEF Restart
  <2>2. keys' \in Package /\ keys'.id <= keys'.n
    BY <1>19, <1>p, <1>q DEF Restart, JoinerOK, Package
  <2>3. JoinerOK'
    BY <1>19, <2>1, <2>2, <1>0, <1>p, <1>n DEF Restart, JoinerOK, Tasks
  <2>4. SettledGroup(records[Joiner], tombstone[Joiner], {}).active \in BOOLEAN
    BY SettledTyped DEF Group
  <2>5. DocumentsOK'
    BY <1>19, <2>4, <1>0, <1>p, <1>n DEF Restart, DocumentsOK
  <2>6. StreamOK'
    BY <1>19 DEF Restart, NewStream, StreamOK
  <2>7. BudgetsOK'
    BY <1>19, <1>0, <1>p, SettingFacts DEF Restart, BudgetsOK
  <2>8. QED
    BY <1>19, <2>3, <2>5, <2>6, <2>7, <1>0, <1>e DEF Restart, TypeOK
<1>20. CASE UNCHANGED vars
  BY <1>20, <1>0, <1>d, <1>e, <1>j, <1>s, <1>b DEF vars, TypeOK, document
<1>21. CASE Rescreen
  <2>1. EpochsOK'
    BY <1>21, <1>0, <1>p DEF Rescreen, EpochsOK
  <2>2. QED
    BY <1>21, <2>1, <1>0, <1>d, <1>j, <1>s, <1>b DEF Rescreen, TypeOK, document
<1>22. QED
  BY <1>1, <1>2, <1>3, <1>4, <1>5, <1>6, <1>7, <1>8, <1>9, <1>11, <1>12, <1>13, <1>14,
     <1>15, <1>16, <1>17, <1>18, <1>19, <1>20, <1>21 DEF Next, SweepApproves, ApproveByHand

\* The model's state keeps its types, for every set of circumstances.
THEOREM TypeCorrect == Spec => []TypeOK
<1>1. TypeOK /\ Relayed /\ Relayed' /\ [Next]_vars => TypeOK'
  BY RecordsTravel, TypeStep
<1>2. QED
  BY <1>1, TypeStarts, RelayedInvariant, PTL DEF Spec

-----------------------------------------------------------------------------
(* What is under way                                                       *)

\* Welcome w is of an epoch that the Admin made, for the leaf it gave then.
Given(w) ==
  /\ 2 <= w.epoch /\ w.epoch <= Epoch
  /\ leaves[w.epoch] = w.leaf /\ w.leaf # NoPackage

\* The task of a snapshot from d has yet to consume Welcome w.
ToConsume(d, w) == task[d].step = "consume" /\ w = task[d].welcome /\ w # NoWelcome

\* Welcome w is in the Admin's snapshot under way.
OnWire(w) == wire # Nothing /\ w = wire.welcome /\ w # NoWelcome

\* Commits that are relayed were made, and the Joiner's group is at one of them.
CommitsMade ==
  /\ wire # Nothing => wire.commits <= Epoch
  /\ \A d \in Contacts : task[d] # Idle => task[d].commits <= Epoch
  /\ group # NoGroup => group.epoch \in 2 .. Epoch
  /\ group.active => leaves[group.epoch] = group.leaf

\* Welcomes are those the Admin made, and reach the Joiner from the Admin only,
\* in the order in which they were made.
WelcomesInOrder ==
  /\ welcome # NoWelcome => Given(welcome)
  /\ \A w \in Welcome :
       /\ OnWire(w) => Given(w) /\ (welcome # NoWelcome => w.epoch <= welcome.epoch)
       /\ ~ToConsume(Member, w)
       /\ ToConsume(Admin, w) =>
            /\ Given(w)
            /\ welcome # NoWelcome => w.epoch <= welcome.epoch
            /\ \A x \in Welcome : OnWire(x) => w.epoch <= x.epoch

\* How the Admin's group moves: not, by a removal, or by an approval, which
\* replaces the leaf that the Joiner had.
LEMMA GroupMoves ==
  ASSUME TypeOK, [Next]_vars
  PROVE  \/ UNCHANGED <<leaves, welcome, under>>
         \/ /\ Remove /\ welcome' = NoWelcome /\ under' = under
            /\ leaves' = leaves \/ (Epoch < MaxEpoch /\ leaves' = Append(leaves, NoPackage))
         \/ Approve /\ Admitted /\ published # Leaf
<1>1. CASE Remove
  BY <1>1 DEF Remove
<1>2. ASSUME Admitted PROVE published # Leaf
  <2>1. CASE Leaf = NoPackage
    BY <1>2, <2>1 DEF Admitted
  <2>2. CASE Leaf # NoPackage /\ (published = NoPackage \/ published.id = Leaf.id)
    <3>1. Place = "current"
      BY <2>2 DEF Place
    <3>2. QED
      BY <1>2, <3>1 DEF Admitted
  <2>3. CASE Leaf # NoPackage /\ published # NoPackage /\ published.id # Leaf.id
    BY <2>3
  <2>4. QED
    BY <2>1, <2>2, <2>3
<1>3. CASE Approve
  BY <1>2, <1>3 DEF Approve
<1>4. ASSUME NEW d \in KeyHolders, Readmit(d) PROVE UNCHANGED <<leaves, welcome, under>>
  BY <1>4 DEF Readmit, mls
<1>5. CASE SyncFails \/ SendToJoiner
  BY <1>5 DEF SyncFails, SendToJoiner, mls, document
<1>6. ASSUME NEW d \in Contacts, Connect(d) \/ Drop(d) PROVE UNCHANGED <<leaves, welcome, under>>
  BY <1>6 DEF Connect, Drop, mls, document
<1>7. CASE SendToAdmin \/ SendToMember
  BY <1>7 DEF SendToAdmin, SendToMember, mls
<1>8. ASSUME NEW B, MergeFromAdmin(B) \/ MergeFromMember(B) PROVE UNCHANGED <<leaves, welcome, under>>
  BY <1>8 DEF MergeFromAdmin, MergeFromMember, Merge, mls
<1>9. ASSUME NEW d \in Contacts, NEW B, Consume(d, B) \/ Finish(d, B) \/ ToldRemoved(d, B)
      PROVE  UNCHANGED <<leaves, welcome, under>>
  BY <1>9 DEF Consume, Finish, ToldRemoved, mls
<1>10. ASSUME NEW from, NEW to, Exchange(from, to) PROVE UNCHANGED <<leaves, welcome, under>>
  BY <1>10 DEF Exchange
<1>11. CASE FollowCommit \/ ClearRequest \/ Restart \/ Rescreen
  BY <1>11 DEF FollowCommit, ClearRequest, Restart, Rescreen, mls, document
<1>12. CASE UNCHANGED vars
  BY <1>12 DEF vars, mls, document
<1>13. QED
  BY <1>1, <1>3, <1>4, <1>5, <1>6, <1>7, <1>8, <1>9, <1>10, <1>11, <1>12
     DEF Next, SweepApproves, ApproveByHand

\* Epochs are never taken back, and an epoch made since has another leaf if it
\* was made by an approval.
LEMMA EpochsGrow ==
  ASSUME TypeOK, [Next]_vars
  PROVE  /\ Epoch \in Nat /\ Epoch' \in Nat /\ 2 <= Epoch /\ Epoch <= Epoch'
         /\ \A e \in 1 .. Epoch : leaves'[e] = leaves[e]
         /\ \A w \in Welcome : Given(w) => Given(w)'
         /\ \A e \in 1 .. Epoch : \A l :
              KeptSince(e, l)' => KeptSince(e, l) /\ under' = under
<1>0. EpochsOK /\ Epoch \in Nat /\ 2 <= Epoch /\ published \in Package /\ NoPackage \in Package
  BY EpochFacts, NothingTyped DEF TypeOK, DocumentsOK
<1>w. \A w \in Welcome : w.epoch \in Int
  BY SettingFacts DEF Welcome, TypeOK
<1> DEFINE Grows == /\ Epoch' \in Nat /\ Epoch <= Epoch'
                    /\ \A e \in 1 .. Epoch : leaves'[e] = leaves[e]
<1>1. CASE UNCHANGED <<leaves, welcome, under>>
  <2>1. Epoch' = Epoch /\ leaves' = leaves /\ under' = under
    BY <1>1 DEF Epoch
  <2>2. QED
    BY <1>0, <2>1 DEF Given, KeptSince
<1>2. ASSUME NEW q \in Package, Epoch < MaxEpoch, leaves' = Append(leaves, q)
      PROVE  Grows /\ Epoch' = Epoch + 1 /\ leaves'[Epoch + 1] = q
  BY <1>0, <1>2, AppendTyped DEF Epoch
<1>3. CASE /\ Remove /\ welcome' = NoWelcome /\ under' = under
           /\ leaves' = leaves \/ (Epoch < MaxEpoch /\ leaves' = Append(leaves, NoPackage))
  <2>1. Grows
    <3>1. CASE leaves' = leaves
      BY <1>0, <3>1 DEF Epoch
    <3>2. CASE Epoch < MaxEpoch /\ leaves' = Append(leaves, NoPackage)
      BY <1>0, <1>2, <3>2
    <3>3. QED
      BY <1>3, <3>1, <3>2
  <2>2. QED
    BY <1>0, <1>w, <1>3, <2>1 DEF Given, KeptSince
<1>4. CASE Approve /\ Admitted /\ published # Leaf
  <2>1. Grows /\ Epoch' = Epoch + 1 /\ leaves'[Epoch + 1] = published
    BY <1>0, <1>2, <1>4 DEF Admitted
  <2>2. leaves'[Epoch] = Leaf
    BY <1>0, <2>1 DEF Leaf
  <2>3. ASSUME NEW e \in 1 .. Epoch, NEW l, KeptSince(e, l)' PROVE FALSE
    <3>1. Epoch \in e .. Epoch' /\ Epoch + 1 \in e .. Epoch'
      BY <1>0, <2>1
    <3>2. leaves'[Epoch] = l /\ leaves'[Epoch + 1] = l
      BY <2>3, <3>1 DEF KeptSince
    <3>3. QED
      BY <1>4, <2>1, <2>2, <3>2
  <2>4. QED
    BY <1>0, <1>w, <2>1, <2>3 DEF Given
<1>5. QED
  BY <1>0, <1>1, <1>3, <1>4, GroupMoves

\* At first nothing is under way.
LEMMA UnderWayStarts == Init => CommitsMade /\ WelcomesInOrder
<1> SUFFICES ASSUME Init PROVE CommitsMade /\ WelcomesInOrder
  OBVIOUS
<1>1. PICK t \in {FALSE, setting.tombstoned} :
       /\ welcome = IF t THEN NoWelcome ELSE [leaf |-> [id |-> 1, n |-> 1], epoch |-> 2]
       /\ leaves = <<NoPackage, [id |-> 1, n |-> 1]>> \o (IF t THEN <<NoPackage>> ELSE <<>>)
       /\ group = IF t THEN NoGroup
                  ELSE [epoch |-> 2, from |-> 2, leaf |-> [id |-> 1, n |-> 1], active |-> TRUE]
  BY DEF Init
<1>2. wire = Nothing /\ task = [d \in Contacts |-> Idle] /\ TypeOK
  BY TypeStarts DEF Init
<1>3. leaves[2] = [id |-> 1, n |-> 1] /\ 2 <= Epoch /\ Epoch \in Nat
  BY <1>1, <1>2, EpochFacts DEF TypeOK
<1>4. \A w : ~OnWire(w) /\ ~ToConsume(Admin, w) /\ ~ToConsume(Member, w)
  BY <1>2 DEF OnWire, ToConsume, Idle, Contacts
<1>5. welcome # NoWelcome => Given(welcome)
  BY <1>1, <1>3 DEF Given, NoPackage
<1>6. CommitsMade
  BY <1>1, <1>2, <1>3 DEF CommitsMade, NoGroup
<1>7. QED
  BY <1>4, <1>5, <1>6 DEF WelcomesInOrder

\* What the Joiner's steps do to its group, its tasks and the wire.
GroupUntouched == group' = group /\ admitted' = admitted

\* A step may merge a snapshot, which then is a task; consume a Welcome, finish
\* a task or settle the group; or put the Admin's snapshot on the wire.
StreamStep ==
  \/ /\ GroupUntouched /\ UNCHANGED <<task, rotated, keys, restarts>>
     /\ wire' = wire \/ wire' = Nothing \/ (wire' = AdminSnapshot /\ UNCHANGED <<leaves, welcome, under>>)
  \/ \E B \in SUBSET Accesses :
       \/ MergeFromAdmin(B) \/ MergeFromMember(B)
       \/ \E d \in Contacts : Consume(d, B) \/ Finish(d, B) \/ ToldRemoved(d, B)
  \/ Restart

\* Every step is such a step.
LEMMA StreamSteps == ASSUME [Next]_vars PROVE StreamStep
<1>1. CASE Remove
  BY <1>1 DEF Remove, StreamStep, GroupUntouched, local, keyring, running, stream, budgets
<1>2. ASSUME NEW d \in KeyHolders, Readmit(d) PROVE StreamStep
  BY <1>2 DEF Readmit, StreamStep, GroupUntouched, local, keyring, running, stream, budgets
<1>3. CASE Approve
  BY <1>3 DEF Approve, StreamStep, GroupUntouched, local, keyring, running, stream, budgets
<1>4. CASE SyncFails
  BY <1>4 DEF SyncFails, StreamStep, GroupUntouched, NewStream, local, keyring, running, budgets
<1>5. ASSUME NEW d \in Contacts, Connect(d) PROVE StreamStep
  BY <1>5 DEF Connect, StreamStep, GroupUntouched, local, keyring, running, stream, budgets
<1>6. ASSUME NEW d \in Contacts, Drop(d) PROVE StreamStep
  BY <1>6 DEF Drop, StreamStep, GroupUntouched, NewStream, local, keyring, running, stream
<1>7. CASE SendToJoiner
  BY <1>7 DEF SendToJoiner, StreamStep, GroupUntouched, local, keyring, running, document, mls, budgets
<1>8. CASE SendToAdmin \/ SendToMember
  BY <1>8 DEF SendToAdmin, SendToMember, StreamStep, GroupUntouched, local, keyring, running, stream, budgets
<1>9. ASSUME NEW from, NEW to, Exchange(from, to) PROVE StreamStep
  BY <1>9 DEF Exchange, StreamStep, GroupUntouched, local, keyring, running, stream, budgets
<1>10. CASE FollowCommit \/ ClearRequest \/ Rescreen
  BY <1>10 DEF FollowCommit, ClearRequest, Rescreen, StreamStep, GroupUntouched, local, keyring, running, stream, budgets
<1>11. CASE UNCHANGED vars
  BY <1>11 DEF vars, StreamStep, GroupUntouched, local, keyring, running, stream, budgets
<1>12. QED
  BY <1>1, <1>2, <1>3, <1>4, <1>5, <1>6, <1>7, <1>8, <1>9, <1>10, <1>11
     DEF Next, StreamStep, SweepApproves, ApproveByHand

\* The Admin's snapshot carries its last Welcome and no more commits than it has.
LEMMA SnapshotMade ==
  ASSUME TypeOK, CommitsMade, WelcomesInOrder
  PROVE  AdminSnapshot.commits <= Epoch /\ AdminSnapshot.welcome = welcome
         /\ AdminSnapshot.records = records[Admin]
  BY EpochFacts DEF TypeOK, AdminSnapshot

\* Relayed commits were made, whatever step is next.
LEMMA CommitsMadeStep ==
  ASSUME TypeOK, TypeOK', CommitsMade, WelcomesInOrder, [Next]_vars
  PROVE  CommitsMade'
<1>0. /\ Epoch \in Nat /\ Epoch' \in Nat /\ 2 <= Epoch /\ Epoch <= Epoch'
      /\ \A e \in 1 .. Epoch : leaves'[e] = leaves[e]
  BY EpochsGrow
<1>c. MaxEpoch \in Nat /\ Epoch <= MaxEpoch /\ log <= Epoch /\ log \in Nat
  BY SettingFacts, EpochFacts DEF TypeOK, EpochsOK, Epoch
<1>1. \A d \in Contacts : task[d] # Idle => task[d].commits \in 0 .. Epoch
  BY <1>c DEF CommitsMade, TypeOK, JoinerOK, Tasks
<1>2. wire # Nothing => wire.commits \in 0 .. Epoch
  BY <1>c DEF CommitsMade, TypeOK, StreamOK, Snapshots
<1>g. group \in Group /\ task \in [Contacts -> Tasks]
  BY DEF TypeOK, JoinerOK
<1>w. ASSUME wire' \in {wire, Nothing, AdminSnapshot} PROVE wire' # Nothing => wire'.commits <= Epoch'
  <2>1. AdminSnapshot.commits <= Epoch /\ AdminSnapshot.commits \in Int
    BY SnapshotMade, <1>0 DEF AdminSnapshot
  <2>2. QED
    BY <1>0, <1>2, <1>w, <2>1
<1>t. ASSUME \A d \in Contacts : task'[d] # Idle => task[d] # Idle /\ task'[d].commits = task[d].commits
      PROVE  \A d \in Contacts : task'[d] # Idle => task'[d].commits <= Epoch'
  BY <1>0, <1>1, <1>t
<1>h. ASSUME group' \in {group, NoGroup}
      PROVE  /\ group' # NoGroup => group'.epoch \in 2 .. Epoch'
             /\ group'.active => leaves'[group'.epoch] = group'.leaf
  <2>1. CASE group' = NoGroup
    BY <2>1 DEF NoGroup
  <2>2. CASE group' = group /\ group # NoGroup
    BY <2>2, <1>0 DEF CommitsMade
  <2>3. QED
    BY <1>h, <2>1, <2>2
<1>3. CASE GroupUntouched /\ UNCHANGED task /\ wire' \in {wire, Nothing, AdminSnapshot}
  BY <1>3, <1>w, <1>t, <1>h DEF CommitsMade, GroupUntouched
<1>4. ASSUME NEW d \in Contacts, NEW s, NEW B, Merge(d, s, B), s.commits \in 0 .. Epoch,
             wire' \in {wire, Nothing}
      PROVE  CommitsMade'
  <2>1. group' = group /\ task' = [task EXCEPT ![d] = [step |-> "consume", welcome |-> s.welcome,
                                                        commits |-> s.commits]]
    BY <1>4 DEF Merge, local
  <2>2. \A c \in Contacts : task'[c] # Idle => task'[c].commits <= Epoch'
    BY <1>0, <1>1, <1>4, <1>g, <2>1
  <2>3. QED
    BY <1>4, <2>1, <2>2, <1>w, <1>h DEF CommitsMade
<1>5. ASSUME NEW B, MergeFromAdmin(B) PROVE CommitsMade'
  BY <1>2, <1>4, <1>5 DEF MergeFromAdmin, Contacts
<1>6. ASSUME NEW B, MergeFromMember(B) PROVE CommitsMade'
  <2> DEFINE s == [records |-> records[Member], tombstone |-> tombstone[Member],
                   request |-> FALSE, entry |-> NoEntry, welcome |-> NoWelcome,
                   commits |-> IF KnownToMember THEN log ELSE 0]
  <2>1. Merge(Member, s, B) /\ wire' = wire
    BY <1>6 DEF MergeFromMember
  <2>2. s.commits \in 0 .. Epoch /\ Member \in Contacts
    BY <1>0, <1>c DEF Contacts
  <2> HIDE DEF s
  <2>3. QED
    BY <1>4, <2>1, <2>2
<1>7. ASSUME NEW d \in Contacts, NEW B, Consume(d, B) PROVE CommitsMade'
  <2> DEFINE w == task[d].welcome
  <2>1. /\ task[d].step = "consume" /\ wire' = wire
        /\ task' = [task EXCEPT ![d] = [step |-> "settle", commits |-> task[d].commits]]
        /\ \/ group' = group
           \/ /\ w # NoWelcome /\ Joins(w)
              /\ group' = [epoch |-> w.epoch, from |-> w.epoch, leaf |-> keys, active |-> TRUE]
    BY <1>7 DEF Consume, stream
  <2>2. \A c \in Contacts : task'[c] # Idle => task[c] # Idle /\ task'[c].commits = task[c].commits
    BY <2>1, <1>g DEF Idle
  <2>3. CASE group' = group
    BY <2>1, <2>2, <2>3, <1>w, <1>t, <1>h DEF CommitsMade
  <2>4. CASE /\ w # NoWelcome /\ Joins(w)
             /\ group' = [epoch |-> w.epoch, from |-> w.epoch, leaf |-> keys, active |-> TRUE]
    <3>1. w \in Welcome
      BY <1>g, <2>1 DEF Tasks, Idle
    <3>2. Given(w)
      BY <3>1, <2>1, <2>4 DEF WelcomesInOrder, ToConsume, Contacts
    <3>3. w.leaf = keys /\ w.epoch \in Int
      BY <2>4, <3>1, <1>c DEF Joins, Opens, Welcome
    <3>4. group'.epoch \in 2 .. Epoch' /\ leaves'[group'.epoch] = group'.leaf
      BY <1>0, <2>4, <3>2, <3>3 DEF Given
    <3>5. QED
      BY <2>1, <2>2, <3>4, <1>w, <1>t DEF CommitsMade
  <2>5. QED
    BY <2>1, <2>3, <2>4
<1>8. ASSUME NEW d \in Contacts, NEW B, Finish(d, B) PROVE CommitsMade'
  <2> DEFINE g == SettledGroup(records[Joiner], tombstone[Joiner], B)
             e == task[d].commits
  <2>1. /\ task[d].step = "settle" /\ wire' = wire /\ task' = [task EXCEPT ![d] = Idle]
        /\ group' = Followed(g, e)
    BY <1>8 DEF Finish, stream
  <2>2. g \in Group /\ g \in {group, NoGroup}
    BY SettledTyped
  <2>3. e \in 0 .. Epoch /\ e \in 0 .. MaxEpoch
    <3>1. task[d] # Idle
      BY <2>1 DEF Idle
    <3>2. e \in 0 .. Epoch
      BY <1>1, <3>1
    <3>3. QED
      BY <1>0, <1>c, <3>2
  <2> HIDE DEF g, e
  <2>4. /\ Followed(g, e).leaf = g.leaf
        /\ \/ Followed(g, e) = g
           \/ /\ g.active
              /\ Followed(g, e).epoch \in g.epoch + 1 .. e
              /\ Followed(g, e).active => \A k \in g.epoch + 1 .. e : leaves[k] = g.leaf
    BY <2>2, <2>3, FollowedTyped
  <2>5. /\ group' # NoGroup => group'.epoch \in 2 .. Epoch'
        /\ group'.active => leaves'[group'.epoch] = group'.leaf
    <3>1. CASE Followed(g, e) = g
      BY <2>1, <2>2, <3>1, <1>h
    <3>2. CASE /\ g.active
               /\ Followed(g, e).epoch \in g.epoch + 1 .. e
               /\ Followed(g, e).active => \A k \in g.epoch + 1 .. e : leaves[k] = g.leaf
      <4>1. g = group /\ g.epoch \in 2 .. Epoch
        BY <2>2, <3>2 DEF NoGroup, CommitsMade
      <4>2. group'.epoch \in 3 .. Epoch /\ group'.epoch \in g.epoch + 1 .. e
        BY <2>1, <2>3, <3>2, <4>1, <1>0
      <4>3. group'.active => leaves[group'.epoch] = group'.leaf
        BY <2>1, <2>4, <3>2, <4>2
      <4>4. QED
        BY <1>0, <4>2, <4>3
    <3>3. QED
      BY <2>4, <3>1, <3>2
  <2>6. \A c \in Contacts : task'[c] # Idle => task[c] # Idle /\ task'[c].commits = task[c].commits
    BY <2>1, <1>g DEF Idle
  <2>7. QED
    BY <2>1, <2>5, <2>6, <1>w, <1>t DEF CommitsMade
<1>9. ASSUME NEW d \in Contacts, NEW B, ToldRemoved(d, B) PROVE CommitsMade'
  <2>1. group' \in {group, NoGroup} /\ task' = task /\ wire' = wire
    BY <1>9, SettledTyped DEF ToldRemoved, running, stream
  <2>2. QED
    BY <2>1, <1>w, <1>t, <1>h DEF CommitsMade
<1>10. CASE Restart
  <2>1. group' \in {group, NoGroup} /\ task' = [d \in Contacts |-> Idle] /\ wire' = Nothing
    BY <1>10, SettledTyped DEF Restart, NewStream
  <2>2. QED
    BY <2>1, <1>w, <1>t, <1>h DEF CommitsMade
<1>11. QED
  BY <1>3, <1>5, <1>6, <1>7, <1>8, <1>9, <1>10, StreamSteps DEF StreamStep

\* Welcomes stay in order, whatever step is next.
LEMMA WelcomesStep ==
  ASSUME TypeOK, TypeOK', CommitsMade, WelcomesInOrder, [Next]_vars, setting' = setting
  PROVE  WelcomesInOrder'
<1>0. /\ Epoch \in Nat /\ Epoch' \in Nat /\ 2 <= Epoch /\ Epoch <= Epoch'
      /\ \A w \in Welcome : Given(w) => Given(w)'
      /\ \A e \in 1 .. Epoch : leaves'[e] = leaves[e]
  BY EpochsGrow
<1>1. /\ Welcome' = Welcome /\ welcome \in Welcome /\ welcome' \in Welcome
      /\ \A w \in Welcome : w.epoch \in Int
  <2>1. Welcome' = Welcome
    BY DEF Welcome, Package, MaxEpoch, MaxKeys
  <2>2. welcome \in Welcome /\ welcome' \in Welcome
    BY <2>1 DEF TypeOK, DocumentsOK
  <2>3. \A w \in Welcome : w.epoch \in Int
    BY SettingFacts DEF Welcome, TypeOK
  <2>4. QED
    BY <2>1, <2>2, <2>3
\* The Admin's Welcome is the one it had, none, or one of a new epoch.
<1>2. /\ welcome' # NoWelcome => Given(welcome)'
      /\ \/ welcome' \in {welcome, NoWelcome}
         \/ welcome'.epoch = Epoch + 1
  <2>1. CASE UNCHANGED <<leaves, welcome, under>>
    BY <2>1, <1>0, <1>1 DEF WelcomesInOrder, Given, Epoch
  <2>2. CASE welcome' = NoWelcome
    BY <2>2
  <2>3. CASE Approve /\ Admitted /\ published # Leaf
    <3>1. published \in Package /\ published # NoPackage /\ EpochsOK /\ Epoch < MaxEpoch
      BY <2>3 DEF TypeOK, DocumentsOK, Admitted
    <3>2. /\ leaves' = Append(leaves, published)
          /\ welcome' = [leaf |-> published, epoch |-> Epoch + 1]
      BY <2>3 DEF Admitted
    <3>3. Len(leaves') = Epoch + 1 /\ leaves'[Epoch + 1] = published
      BY <3>1, <3>2, AppendTyped
    <3>4. QED
      BY <3>1, <3>2, <3>3, <1>0 DEF Given, Epoch
  <2>4. QED
    BY <2>1, <2>2, <2>3, GroupMoves
<1> DEFINE Ahead(w) == Given(w) /\ (welcome # NoWelcome => w.epoch <= welcome.epoch)
<1>3. \A w \in Welcome : Ahead(w) => Ahead(w)'
  <2>1. ASSUME NEW w \in Welcome, Ahead(w) PROVE Ahead(w)'
    <3>1. Given(w)' /\ w.epoch <= Epoch
      BY <2>1, <1>0 DEF Given
    <3>2. welcome' # NoWelcome => w.epoch <= welcome'.epoch
      BY <2>1, <3>1, <1>0, <1>1, <1>2
    <3>3. QED
      BY <3>1, <3>2
  <2>2. QED
    BY <2>1
<1>4. /\ \A w \in Welcome : OnWire(w) => Ahead(w)
      /\ \A w \in Welcome : ToConsume(Admin, w) =>
           Ahead(w) /\ \A x \in Welcome : OnWire(x) => w.epoch <= x.epoch
      /\ \A w \in Welcome : ~ToConsume(Member, w)
  BY DEF WelcomesInOrder
<1>5. ASSUME \A w \in Welcome :
               /\ OnWire(w)' => Ahead(w)
               /\ ~ToConsume(Member, w)'
               /\ ToConsume(Admin, w)' =>
                    Ahead(w) /\ \A x \in Welcome : OnWire(x)' => w.epoch <= x.epoch
      PROVE  WelcomesInOrder'
  BY <1>1, <1>2, <1>3, <1>5 DEF WelcomesInOrder
<1> HIDE DEF Ahead
<1>6. Admin \in Contacts /\ Member \in Contacts /\ Admin # Member /\ task \in [Contacts -> Tasks]
  BY ReadmissionAssumption DEF Contacts, TypeOK, JoinerOK
<1>7. CASE task' = task /\ wire' \in {wire, Nothing}
  BY <1>4, <1>5, <1>7 DEF OnWire, ToConsume
<1>8. CASE task' = task /\ wire' = AdminSnapshot
  <2>1. \A w \in Welcome : OnWire(w)' => w = welcome /\ w # NoWelcome
    BY <1>8, SnapshotMade DEF OnWire
  <2>2. \A w \in Welcome : w = welcome /\ w # NoWelcome => Ahead(w)
    BY <1>1 DEF Ahead, WelcomesInOrder
  <2>3. \A w \in Welcome : ToConsume(Admin, w) /\ welcome # NoWelcome => w.epoch <= welcome.epoch
    BY <1>4 DEF Ahead
  <2>4. QED
    BY <1>4, <1>5, <1>8, <2>1, <2>2, <2>3 DEF ToConsume
<1>9. ASSUME NEW B, MergeFromAdmin(B) PROVE WelcomesInOrder'
  <2>1. /\ wire # Nothing /\ wire' = Nothing /\ task'[Member] = task[Member]
        /\ task'[Admin].welcome = wire.welcome
    BY <1>6, <1>9 DEF MergeFromAdmin, Merge
  <2>2. \A w \in Welcome : ~OnWire(w)' /\ (ToConsume(Admin, w)' => OnWire(w))
    BY <2>1 DEF OnWire, ToConsume
  <2>3. QED
    BY <1>4, <1>5, <2>1, <2>2 DEF ToConsume
<1>10. ASSUME NEW B, MergeFromMember(B) PROVE WelcomesInOrder'
  <2>1. /\ wire' = wire /\ task'[Admin] = task[Admin]
        /\ task'[Member].welcome = NoWelcome
    BY <1>6, <1>10 DEF MergeFromMember, Merge
  <2>2. QED
    BY <1>4, <1>5, <2>1 DEF OnWire, ToConsume
<1>11. ASSUME NEW d \in Contacts, NEW B, Consume(d, B) \/ Finish(d, B) \/ ToldRemoved(d, B)
       PROVE  WelcomesInOrder'
  <2>1. /\ wire' = wire
        /\ \A c \in Contacts : task'[c] = task[c] \/ task'[c].step # "consume"
    BY <1>6, <1>11 DEF Consume, Finish, ToldRemoved, stream, running, Idle
  <2>2. QED
    BY <1>4, <1>5, <1>6, <2>1 DEF OnWire, ToConsume
<1>12. CASE Restart
  <2>1. wire' = Nothing /\ \A c \in Contacts : task'[c] = Idle
    BY <1>12 DEF Restart, NewStream
  <2>2. QED
    BY <1>5, <1>6, <2>1 DEF OnWire, ToConsume, Idle
<1>13. QED
  BY <1>7, <1>8, <1>9, <1>10, <1>11, <1>12, StreamSteps DEF StreamStep

\* What is under way was made, in order.
UnderWay == CommitsMade /\ WelcomesInOrder

\* So it is in every reachable state.
LEMMA UnderWayInvariant == Spec => [](TypeOK /\ Relayed /\ UnderWay)
<1>1. Init => UnderWay
  BY UnderWayStarts DEF UnderWay
<1>2. TypeOK /\ TypeOK' /\ Relayed /\ UnderWay /\ [Next]_vars => UnderWay'
  BY RecordsTravel, CommitsMadeStep, WelcomesStep DEF UnderWay
<1>3. QED
  BY <1>1, <1>2, TypeCorrect, RelayedInvariant, PTL DEF Spec

-----------------------------------------------------------------------------
(* A readmission costs no group that is still good                         *)

\* The device that holds records R has met the readmission that the last
\* approval was made under.
Knows(R) == under <= Deciding(R).gen

\* The Joiner was admitted under that readmission or a later one, or has met a
\* removal that came after.
Admission ==
  \/ under <= admitted
  \/ \E r \in records[Joiner] : r.st = "out" /\ under <= r.gen

\* A Welcome of a leaf the Admin still has travels with the records of its
\* approval, and whoever joined by it was admitted under them.
Approved ==
  /\ Knows(records[Admin])
  /\ \A w \in Welcome :
       /\ OnWire(w) /\ KeptSince(w.epoch, w.leaf) => Knows(wire.records)
       /\ ToConsume(Admin, w) /\ KeptSince(w.epoch, w.leaf) =>
            missed \/ Knows(records[Joiner])
  /\ Good => forgot \/ missed \/ Admission

\* More records decide at no lower generation.
LEMMA DecidingGrows ==
  ASSUME NEW T \in SUBSET Record, NEW R \in SUBSET T
  PROVE  Deciding(R).gen <= Deciding(T).gen
<1>1. CASE R = {}
  <2>1. Deciding(R).gen = 0
    BY <1>1 DEF Deciding, Unnamed
  <2>2. Deciding(T).gen \in Nat
    BY DecidingTyped, ReadmissionAssumption
  <2>3. QED
    BY <2>1, <2>2
<1>2. CASE R # {}
  <2>1. Deciding(R) \in T /\ Deciding(T) \in T
    BY <1>2, DecidingDecides
  <2>2. Outranks(Deciding(T), Deciding(R)) \/ Deciding(T) = Deciding(R)
    BY <2>1, DecidingDecides
  <2>3. Deciding(R) \in Record /\ Deciding(T) \in Record
    BY <2>1
  <2>4. QED
    BY <2>2, <2>3 DEF Outranks, Record
<1>3. QED
  BY <1>1, <1>2

\* At first the Joiner was admitted under no readmission.
LEMMA ApprovedStarts == Init => Approved
<1> SUFFICES ASSUME Init PROVE Approved
  OBVIOUS
<1>1. wire = Nothing /\ task = [d \in Contacts |-> Idle] /\ under = 0 /\ admitted = 0
  BY DEF Init
<1>2. records[Admin] = {}
  BY DEF Init, Devices, Contacts
<1>3. \A w : ~OnWire(w) /\ ~ToConsume(Admin, w)
  BY <1>1 DEF OnWire, ToConsume, Idle, Contacts
<1>4. QED
  BY <1>1, <1>2, <1>3 DEF Approved, Knows, Admission, Deciding, Unnamed

\* A readmission that the device has met since it was admitted is newer than the
\* last approval, as long as the group is good.
LEMMA ReadmissionIsNewer ==
  ASSUME TypeOK, Admission, ReadmittedSince(records[Joiner])
  PROVE  under < Deciding(records[Joiner]).gen
<1> DEFINE R == records[Joiner]
           D == Deciding(R)
<1>1. R \in SUBSET Record /\ R # {} /\ D.st = "in" /\ D.gen > admitted
  BY DEF TypeOK, DocumentsOK, Devices, ReadmittedSince, Says
<1>2. D \in Record /\ under \in Nat /\ admitted \in Nat
  BY <1>1, DecidingDecides DEF TypeOK, EpochsOK, JoinerOK
<1>3. CASE under <= admitted
  BY <1>1, <1>2, <1>3 DEF Record
<1>4. CASE \E r \in R : r.st = "out" /\ under <= r.gen
  <2>1. PICK r \in R : r.st = "out" /\ under <= r.gen
    BY <1>4
  <2>2. r \in Record /\ r # D
    BY <1>1, <2>1
  <2>3. Outranks(D, r)
    BY <1>1, <2>2, DecidingDecides
  <2>4. r.gen < D.gen
    BY <1>1, <2>3 DEF Outranks
  <2>5. QED
    BY <1>2, <2>1, <2>2, <2>4 DEF Record
<1>5. QED
  BY <1>3, <1>4 DEF Admission

\* A group that is good after its commits were followed was good before.
LEMMA FollowedGood ==
  ASSUME TypeOK, UnderWay, NEW e \in 0 .. Epoch, NEW g \in {group, NoGroup},
         group' = Followed(g, e), Good', leaves' = leaves
  PROVE  Good
<1>0. /\ Epoch \in Nat /\ 2 <= Epoch /\ Epoch <= MaxEpoch /\ MaxEpoch \in Nat /\ Epoch' = Epoch
      /\ group \in Group /\ NoGroup \in Group
  BY EpochFacts, SettingFacts, NothingTyped DEF TypeOK, JoinerOK, Epoch
<1>1. e \in 0 .. MaxEpoch /\ g \in Group
  BY <1>0
<1>2. /\ Followed(g, e).leaf = g.leaf
      /\ \/ Followed(g, e) = g
         \/ /\ g.active
            /\ Followed(g, e).epoch \in g.epoch + 1 .. e
            /\ Followed(g, e).active => \A k \in g.epoch + 1 .. e : leaves[k] = g.leaf
            /\ ~Followed(g, e).active => leaves[Followed(g, e).epoch] # g.leaf
  BY <1>1, FollowedTyped
<1>3. CASE Followed(g, e) = g
  BY <1>0, <1>3 DEF Good, KeptSince
<1>4. CASE /\ g.active
           /\ Followed(g, e).epoch \in g.epoch + 1 .. e
           /\ Followed(g, e).active => \A k \in g.epoch + 1 .. e : leaves[k] = g.leaf
           /\ ~Followed(g, e).active => leaves[Followed(g, e).epoch] # g.leaf
  <2>1. g = group /\ group # NoGroup
    BY <1>4 DEF NoGroup
  <2>2. group.epoch \in 2 .. Epoch /\ leaves[group.epoch] = group.leaf
    BY <1>4, <2>1 DEF UnderWay, CommitsMade
  <2>3. /\ group'.leaf = group.leaf /\ group'.epoch \in group.epoch + 1 .. e
        /\ group'.epoch \in 3 .. Epoch
    BY <1>0, <1>2, <1>4, <2>1, <2>2
  <2>4. \A k \in group'.epoch .. Epoch : leaves[k] = group.leaf
    BY <1>0, <2>3 DEF Good, KeptSince
  <2>5. leaves[group'.epoch] = group.leaf
    BY <1>0, <2>3, <2>4
  <2>6. \A k \in group.epoch + 1 .. e : leaves[k] = group.leaf
    BY <1>4, <2>1, <2>5
  <2>7. \A k \in group.epoch .. Epoch : leaves[k] = group.leaf
    <3>1. ASSUME NEW k \in group.epoch .. Epoch PROVE leaves[k] = group.leaf
      <4>1. k = group.epoch \/ k \in group.epoch + 1 .. e \/ k \in group'.epoch .. Epoch
        BY <1>0, <2>2, <2>3
      <4>2. QED
        BY <2>2, <2>4, <2>6, <4>1
    <3>2. QED
      BY <3>1
  <2>8. QED
    BY <2>1, <2>7 DEF Good, KeptSince
<1>5. QED
  BY <1>2, <1>3, <1>4

\* A step that consumes no Welcome leaves a good group that was good.
LEMMA GoodBefore ==
  ASSUME TypeOK, UnderWay, [Next]_vars, Good',
         \A d \in Contacts : \A B \in SUBSET Accesses : ~Consume(d, B)
  PROVE  Good /\ admitted' = admitted
<1>0. /\ Epoch \in Nat /\ 2 <= Epoch
      /\ \A e \in 1 .. Epoch : \A l : KeptSince(e, l)' => KeptSince(e, l)
  BY EpochsGrow
<1>1. ASSUME group' \in {group, NoGroup} PROVE Good
  <2>1. group' = group /\ group # NoGroup
    BY <1>1 DEF Good
  <2>2. group.epoch \in 1 .. Epoch
    BY <1>0, <2>1 DEF UnderWay, CommitsMade
  <2>3. KeptSince(group.epoch, group.leaf)'
    BY DEF Good
  <2>4. QED
    BY <1>0, <2>1, <2>2, <2>3 DEF Good
<1>2. CASE GroupUntouched
  BY <1>1, <1>2 DEF GroupUntouched
<1>3. ASSUME NEW B, MergeFromAdmin(B) \/ MergeFromMember(B) PROVE Good /\ admitted' = admitted
  <2>1. group' = group /\ admitted' = admitted
    BY <1>3 DEF MergeFromAdmin, MergeFromMember, Merge, local
  <2>2. QED
    BY <1>1, <2>1
<1>4. ASSUME NEW d \in Contacts, NEW B, Finish(d, B) PROVE Good /\ admitted' = admitted
  <2> DEFINE g == SettledGroup(records[Joiner], tombstone[Joiner], B)
  <2>1. /\ task[d].step = "settle" /\ group' = Followed(g, task[d].commits)
        /\ leaves' = leaves /\ admitted' = admitted
    BY <1>4 DEF Finish, mls
  <2>2. g \in {group, NoGroup}
    BY SettledTyped
  <2>3. task[d].commits \in 0 .. Epoch
    <3>1. task[d] # Idle
      BY <2>1 DEF Idle
    <3>2. task[d].commits \in Nat
      BY <3>1, SettingFacts DEF TypeOK, JoinerOK, Tasks
    <3>3. QED
      BY <3>1, <3>2, <1>0 DEF UnderWay, CommitsMade
  <2> HIDE DEF g
  <2>4. QED
    BY <2>1, <2>2, <2>3, FollowedGood
<1>5. ASSUME NEW d \in Contacts, NEW B, ToldRemoved(d, B) PROVE Good /\ admitted' = admitted
  <2>1. group' \in {group, NoGroup} /\ admitted' = admitted
    BY <1>5, SettledTyped DEF ToldRemoved
  <2>2. QED
    BY <1>1, <2>1
<1>6. CASE Restart
  <2>1. group' \in {group, NoGroup} /\ admitted' = admitted
    BY <1>6, SettledTyped DEF Restart
  <2>2. QED
    BY <1>1, <2>1
<1>7. QED
  BY <1>2, <1>3, <1>4, <1>5, <1>6, StreamSteps DEF StreamStep, GroupUntouched

\* Nothing that was given up is taken back.
LEMMA MissedStays == ASSUME TypeOK, [Next]_vars PROVE (missed => missed') /\ (forgot => forgot')
<1>1. missed \in BOOLEAN /\ forgot \in BOOLEAN
  BY DEF TypeOK, BudgetsOK
<1>2. CASE Remove \/ Approve \/ SyncFails
  BY <1>1, <1>2 DEF Remove, Approve, SyncFails, budgets
<1>3. ASSUME NEW d, Readmit(d) \/ Connect(d) \/ Drop(d) PROVE (missed => missed') /\ (forgot => forgot')
  BY <1>1, <1>3 DEF Readmit, Connect, Drop, budgets
<1>4. CASE SendToJoiner \/ SendToAdmin \/ SendToMember
  BY <1>1, <1>4 DEF SendToJoiner, SendToAdmin, SendToMember, budgets
<1>5. ASSUME NEW B, MergeFromAdmin(B) \/ MergeFromMember(B)
      PROVE  (missed => missed') /\ (forgot => forgot')
  BY <1>1, <1>5 DEF MergeFromAdmin, MergeFromMember, Merge
<1>6. ASSUME NEW d, NEW B, Consume(d, B) PROVE (missed => missed') /\ (forgot => forgot')
  BY <1>1, <1>6 DEF Consume
<1>7. ASSUME NEW d, NEW B, Finish(d, B) \/ ToldRemoved(d, B)
      PROVE  (missed => missed') /\ (forgot => forgot')
  BY <1>1, <1>7 DEF Finish, ToldRemoved, Asks
<1>8. ASSUME NEW from, NEW to, Exchange(from, to) PROVE (missed => missed') /\ (forgot => forgot')
  BY <1>1, <1>8 DEF Exchange, budgets
<1>9. CASE FollowCommit \/ ClearRequest \/ Restart \/ Rescreen \/ UNCHANGED vars
  BY <1>1, <1>9 DEF FollowCommit, ClearRequest, Restart, Rescreen, vars, budgets
<1>10. QED
  BY <1>2, <1>3, <1>4, <1>5, <1>6, <1>7, <1>8, <1>9 DEF Next, SweepApproves, ApproveByHand

\* Every step keeps Approved.
LEMMA ApprovedStep ==
  ASSUME TypeOK, TypeOK', Relayed, UnderWay, Approved, [Next]_vars
  PROVE  Approved'
<1>0. /\ Epoch \in Nat /\ 2 <= Epoch
      /\ \A e \in 1 .. Epoch : \A l : KeptSince(e, l)' => KeptSince(e, l) /\ under' = under
  BY EpochsGrow
<1>1. /\ \A d \in Devices : records[d] \subseteq records'[d]
      /\ records' \in [Devices -> SUBSET Record] /\ records \in [Devices -> SUBSET Record]
      /\ Admin \in Devices /\ Joiner \in Devices /\ setting' = setting
  BY RecordsTravel, RecordsGrow DEF Relayed, Devices, Contacts
<1>2. /\ under \in Nat /\ under' \in Nat /\ admitted \in Nat
      /\ \A R \in SUBSET Record : Deciding(R).gen \in Nat
  BY DecidingTyped DEF TypeOK, EpochsOK, JoinerOK
<1>w. Welcome' = Welcome /\ \A w \in Welcome : w.epoch \in Int
  <2>1. Welcome' = Welcome
    BY <1>1 DEF Welcome, Package, MaxEpoch, MaxKeys
  <2>2. QED
    BY <2>1, SettingFacts DEF Welcome, TypeOK
<1>m. (missed => missed') /\ (forgot => forgot')
  BY MissedStays
<1>k. ASSUME NEW d \in Devices, Knows(records[d]), under' = under PROVE Knows(records[d])'
  <2>1. Deciding(records[d]).gen <= Deciding(records'[d]).gen
    BY <1>1, DecidingGrows
  <2>2. Deciding(records[d]).gen \in Nat /\ Deciding(records'[d]).gen \in Nat
    BY <1>1, <1>2
  <2>3. QED
    BY <1>k, <1>2, <2>1, <2>2 DEF Knows
\* The Admin holds the readmission it approved under.
<1>3. Knows(records[Admin])'
  <2>1. CASE under' = under
    BY <1>1, <1>k, <2>1 DEF Approved
  <2>2. CASE Approve /\ Admitted
    BY <1>1, <1>2, <2>2 DEF Approve, Admitted, Knows
  <2>3. QED
    BY <2>1, <2>2, GroupMoves
\* A Welcome that was under way and is kept was kept.
<1>4. \A w \in Welcome : Given(w) /\ KeptSince(w.epoch, w.leaf)'
        => KeptSince(w.epoch, w.leaf) /\ under' = under
  BY <1>0, <1>w DEF Given
<1>5. \A w \in Welcome : OnWire(w) \/ ToConsume(Admin, w) => Given(w)
  BY DEF UnderWay, WelcomesInOrder
<1>6. \A w \in Welcome : OnWire(w)' /\ KeptSince(w.epoch, w.leaf)' => Knows(wire.records)'
  <2> SUFFICES ASSUME NEW w \in Welcome, OnWire(w)', KeptSince(w.epoch, w.leaf)'
               PROVE  Knows(wire.records)'
    OBVIOUS
  <2>1. wire' \in {wire, AdminSnapshot}
    BY RecordsTravel DEF OnWire
  <2>2. CASE wire' = wire
    <3>1. OnWire(w)
      BY <2>2 DEF OnWire
    <3>2. Knows(wire.records) /\ under' = under
      BY <3>1, <1>4, <1>5 DEF Approved
    <3>3. QED
      BY <2>2, <3>2 DEF Knows
  <2>3. CASE wire' = AdminSnapshot /\ wire' # wire
    <3>1. wire'.records = records[Admin] /\ wire'.welcome = welcome
      BY <2>3, SnapshotMade DEF UnderWay
    <3>2. w = welcome /\ welcome # NoWelcome
      BY <3>1 DEF OnWire
    <3>3. Given(w)
      BY <3>2 DEF UnderWay, WelcomesInOrder
    <3>4. under' = under
      BY <3>3, <1>4
    <3>5. QED
      BY <3>1, <3>4 DEF Approved, Knows
  <2>4. QED
    BY <2>1, <2>2, <2>3
<1>7. \A w \in Welcome : ToConsume(Admin, w)' /\ KeptSince(w.epoch, w.leaf)'
        => missed' \/ Knows(records[Joiner])'
  <2> SUFFICES ASSUME NEW w \in Welcome, ToConsume(Admin, w)', KeptSince(w.epoch, w.leaf)'
               PROVE  missed' \/ Knows(records[Joiner])'
    OBVIOUS
  <2>1. CASE ToConsume(Admin, w)
    <3>1. under' = under /\ (missed \/ Knows(records[Joiner]))
      BY <2>1, <1>4, <1>5 DEF Approved
    <3>2. QED
      BY <3>1, <1>1, <1>k, <1>m
  <2>2. CASE \E B : MergeFromAdmin(B) /\ OnWire(w)
    <3>1. PICK B : MergeFromAdmin(B)
      BY <2>2
    <3>2. Knows(wire.records) /\ under' = under
      BY <2>2, <1>4, <1>5 DEF Approved
    <3>3. CASE B # {}
      BY <3>1, <3>3 DEF MergeFromAdmin, Merge
    <3>4. CASE B = {}
      <4>1. records'[Joiner] = records[Joiner] \cup wire.records
        BY <3>1, <3>4, <1>1 DEF MergeFromAdmin, Merge
      <4>2. records'[Joiner] \in SUBSET Record /\ wire.records \in SUBSET records'[Joiner]
        BY <4>1, <1>1
      <4>3. Deciding(wire.records).gen <= Deciding(records'[Joiner]).gen
        BY <4>2, DecidingGrows
      <4>4. Deciding(wire.records).gen \in Nat /\ Deciding(records'[Joiner]).gen \in Nat
        BY <4>2, <1>2
      <4>5. QED
        BY <3>2, <4>3, <4>4, <1>2 DEF Knows
    <3>5. QED
      BY <3>3, <3>4
  <2>3. ToConsume(Admin, w) \/ \E B : MergeFromAdmin(B) /\ OnWire(w)
    <3>0. /\ Admin \in Contacts /\ Member \in Contacts /\ Admin # Member
          /\ task \in [Contacts -> Tasks]
      BY ReadmissionAssumption DEF Contacts, TypeOK, JoinerOK
    <3>1. CASE UNCHANGED task
      BY <3>1 DEF ToConsume
    <3>2. ASSUME NEW B, MergeFromAdmin(B) PROVE OnWire(w)
      BY <3>0, <3>2 DEF MergeFromAdmin, Merge, ToConsume, OnWire
    <3>3. ASSUME NEW B, MergeFromMember(B) PROVE ToConsume(Admin, w)
      <4>1. task'[Admin] = task[Admin]
        BY <3>0, <3>3 DEF MergeFromMember, Merge
      <4>2. QED
        BY <4>1 DEF ToConsume
    <3>4. ASSUME NEW d \in Contacts, NEW B, Consume(d, B) \/ Finish(d, B) \/ ToldRemoved(d, B)
          PROVE  ToConsume(Admin, w)
      <4>1. task'[Admin] = task[Admin] \/ task'[Admin].step # "consume"
        BY <3>0, <3>4 DEF Consume, Finish, ToldRemoved, running, Idle
      <4>2. QED
        BY <4>1 DEF ToConsume
    <3>5. CASE Restart
      BY <3>0, <3>5 DEF Restart, ToConsume, Idle
    <3>6. QED
      BY <3>1, <3>2, <3>3, <3>4, <3>5, StreamSteps DEF StreamStep
  <2>4. QED
    BY <2>1, <2>2, <2>3
\* A group that is good was good, or was just joined.
<1>8. ASSUME Good' PROVE forgot' \/ missed' \/ Admission'
  <2>1. ASSUME NEW d \in Contacts, NEW B \in SUBSET Accesses, Consume(d, B)
        PROVE  forgot' \/ missed' \/ Admission'
    <3> DEFINE w == task[d].welcome
               R == records[Joiner]
    <3>1. /\ task[d].step = "consume" /\ records' = records /\ leaves' = leaves /\ under' = under
          /\ forgot' = (forgot \/ B # {})
      BY <2>1 DEF Consume, mls
    <3>2. CASE w # NoWelcome /\ ~Handled(w) /\ Joins(w)
      <4>1. /\ group' = [epoch |-> w.epoch, from |-> w.epoch, leaf |-> keys, active |-> TRUE]
            /\ B = {} => admitted' = IF Says(R, "in") THEN Deciding(R).gen ELSE 0
        BY <2>1, <3>2 DEF Consume
      <4>2. w \in Welcome /\ ToConsume(d, w) /\ w.leaf = keys
        BY <3>1, <3>2 DEF TypeOK, JoinerOK, Tasks, Idle, ToConsume, Joins, Opens
      <4>3. d = Admin
        BY <4>2 DEF UnderWay, WelcomesInOrder, Contacts
      <4>4. KeptSince(w.epoch, w.leaf)
        BY <1>8, <3>1, <4>1, <4>2 DEF Good, KeptSince, Epoch
      <4>5. missed \/ Knows(R)
        BY <4>2, <4>3, <4>4 DEF Approved
      <4>6. CASE B = {} /\ Knows(R)
        <5>1. CASE Says(R, "in")
          BY <3>1, <4>1, <4>6, <5>1 DEF Knows, Admission
        <5>2. CASE R = {}
          <6>1. under = 0 /\ admitted' = 0
            BY <1>2, <4>1, <4>6, <5>2 DEF Knows, Deciding, Unnamed, Says
          <6>2. QED
            BY <3>1, <6>1 DEF Admission
        <5>3. CASE R # {} /\ ~Says(R, "in")
          <6>1. Deciding(R) \in R /\ R \in SUBSET Record
            BY <1>1, <5>3, DecidingDecides
          <6>2. Deciding(R).st = "out"
            BY <5>3, <6>1 DEF Says, Record
          <6>3. QED
            BY <3>1, <4>6, <6>1, <6>2 DEF Knows, Admission
        <5>4. QED
          BY <5>1, <5>2, <5>3
      <4>7. QED
        BY <3>1, <4>5, <4>6, <1>m
    <3>3. CASE ~(w # NoWelcome /\ ~Handled(w) /\ Joins(w))
      <4>1. group' = group /\ admitted' = admitted
        BY <2>1, <3>3 DEF Consume
      <4>2. Good
        BY <1>8, <3>1, <4>1 DEF Good, KeptSince, Epoch
      <4>3. QED
        BY <3>1, <4>1, <4>2, <1>m DEF Approved, Admission
    <3>4. QED
      BY <3>2, <3>3
  <2>2. CASE \A d \in Contacts : \A B \in SUBSET Accesses : ~Consume(d, B)
    <3>1. Good /\ admitted' = admitted
      BY <1>8, <2>2, GoodBefore
    <3>2. group # NoGroup /\ group.epoch \in 1 .. Epoch
      BY <3>1, <1>0 DEF Good, UnderWay, CommitsMade
    <3>3. CASE under' = under
      <4>1. Admission => Admission'
        BY <1>1, <3>1, <3>3 DEF Admission
      <4>2. QED
        BY <1>m, <3>1, <4>1 DEF Approved
    <3>4. CASE Approve /\ Admitted
      <4>1. group' = group
        BY <3>4 DEF Approve, local
      <4>2. KeptSince(group.epoch, group.leaf)'
        BY <1>8, <4>1 DEF Good
      <4>3. under' = under
        BY <1>0, <3>2, <4>1, <4>2
      <4>4. QED
        BY <3>3, <4>3
    <3>5. QED
      BY <3>3, <3>4, GroupMoves
  <2>3. QED
    BY <2>1, <2>2
<1>9. QED
  BY <1>3, <1>6, <1>7, <1>8, <1>w DEF Approved

\* In every reachable state the Joiner was admitted under the last approval.
LEMMA ApprovedInvariant == Spec => [](TypeOK /\ Relayed /\ UnderWay /\ Approved)
<1>1. TypeOK /\ TypeOK' /\ Relayed /\ UnderWay /\ Approved /\ [Next]_vars => Approved'
  BY ApprovedStep
<1>2. QED
  BY <1>1, ApprovedStarts, UnderWayInvariant, PTL DEF Spec

\* What LiveGroupKept says of a step.
GroupKept ==
  Good /\ group' = NoGroup /\ ~Removed(Joiner)' /\ ~forgot /\ ~missed
    => under < Deciding(records'[Joiner]).gen

\* A group is given up where the standing is settled, on a removal that is still
\* in force or on a readmission that is newer than the admission.
LEMMA GivenUpForCause ==
  ASSUME TypeOK, UnderWay, Approved, [Next]_vars
  PROVE  GroupKept
<1> SUFFICES ASSUME Good, group' = NoGroup, ~Removed(Joiner)', ~forgot, ~missed
             PROVE  under < Deciding(records'[Joiner]).gen
  BY DEF GroupKept
<1>0. group # NoGroup /\ Admission
  BY DEF Good, Approved
<1>1. ASSUME NEW t, NEW B, SettledGroup(records[Joiner], t, B) = NoGroup,
             records' = records, tombstone'[Joiner] = t
      PROVE  under < Deciding(records'[Joiner]).gen
  <2>1. Readmitted(records[Joiner], B) \/ RemovedBy(records[Joiner], t)
    BY <1>0, <1>1 DEF SettledGroup
  <2>2. ~RemovedBy(records[Joiner], t)
    BY <1>1 DEF Removed
  <2>3. ReadmittedSince(records[Joiner])
    BY <2>1, <2>2 DEF Readmitted
  <2>4. QED
    BY <1>0, <1>1, <2>3, ReadmissionIsNewer
<1>2. CASE GroupUntouched
  BY <1>0, <1>2 DEF GroupUntouched
<1>3. ASSUME NEW B, MergeFromAdmin(B) \/ MergeFromMember(B) PROVE FALSE
  BY <1>0, <1>3 DEF MergeFromAdmin, MergeFromMember, Merge, local
<1>4. ASSUME NEW d \in Contacts, NEW B, Consume(d, B) PROVE FALSE
  <2> DEFINE w == task[d].welcome
  <2>1. /\ task[d].step = "consume" /\ w # NoWelcome
        /\ group' = [epoch |-> w.epoch, from |-> w.epoch, leaf |-> keys, active |-> TRUE]
    BY <1>0, <1>4 DEF Consume
  <2>2. group'.active /\ ~NoGroup.active
    BY <2>1 DEF NoGroup
  <2>3. QED
    BY <2>2
<1>5. ASSUME NEW d \in Contacts, NEW B, Finish(d, B) PROVE under < Deciding(records'[Joiner]).gen
  <2> DEFINE g == SettledGroup(records[Joiner], tombstone[Joiner], B)
             e == task[d].commits
  <2>1. /\ task[d].step = "settle" /\ group' = Followed(g, e)
        /\ records' = records /\ tombstone' = tombstone
    BY <1>5 DEF Finish
  <2>2. g \in Group
    BY SettledTyped
  <2>3. e \in 0 .. MaxEpoch
    BY <2>1 DEF TypeOK, JoinerOK, Tasks, Idle
  <2>4. g = NoGroup
    <3>1. \/ Followed(g, e) = g
          \/ g.active /\ Followed(g, e).epoch \in g.epoch + 1 .. e
      BY <2>2, <2>3, FollowedTyped
    <3>2. ASSUME g.active /\ Followed(g, e).epoch \in g.epoch + 1 .. e PROVE FALSE
      <4>1. Followed(g, e).epoch = 0 /\ g.epoch \in Nat
        BY <2>1, <2>2, SettingFacts DEF NoGroup, Group, TypeOK
      <4>2. QED
        BY <3>2, <4>1, <2>3, SettingFacts DEF TypeOK
    <3>3. QED
      BY <2>1, <3>1, <3>2
  <2>5. QED
    BY <1>1, <2>1, <2>4
<1>6. ASSUME NEW d \in Contacts, NEW B, ToldRemoved(d, B)
      PROVE  under < Deciding(records'[Joiner]).gen
  BY <1>1, <1>6 DEF ToldRemoved
<1>7. CASE Restart
  BY <1>1, <1>7 DEF Restart
<1>8. QED
  BY <1>2, <1>3, <1>4, <1>5, <1>6, <1>7, StreamSteps DEF StreamStep

\* A readmission costs no group that is still good (settle_own_standing,
\* record_admission), for any number of removals, returns, approvals, lost
\* connections and restarts.
THEOREM LiveGroupIsKept == Spec => LiveGroupKept
<1>1. TypeOK /\ UnderWay /\ Approved /\ [Next]_vars => [GroupKept]_vars
  BY GivenUpForCause
<1>2. QED
  BY <1>1, ApprovedInvariant, PTL DEF Spec, LiveGroupKept, GroupKept

-----------------------------------------------------------------------------
(* One new identity for a Welcome that cannot be opened                    *)

\* Epochs up to e in which the Joiner has a leaf.
Leaves(e) == {k \in 2 .. e : leaves[k] # NoPackage}

\* The Welcome of epoch last is the last that could not be opened; it was met
\* before the last restart if it is not noted in rotated.
ReplacedBy(last) ==
  /\ last # 0 => last \in Leaves(Epoch)
  /\ rotated # NoWelcome => Given(rotated) /\ rotated.epoch = last
  /\ welcome # NoWelcome => last <= welcome.epoch
  /\ \A w \in Welcome : OnWire(w) \/ ToConsume(Admin, w) => last <= w.epoch
  /\ keys.id <= restarts + Cardinality(Leaves(last))
                + (IF last = 0 \/ rotated # NoWelcome THEN 1 ELSE 0)

Replaced == \E last \in 0 .. Epoch : ReplacedBy(last)

\* Leaves is a finite set, which grows with e, by one at least past a leaf.
LEMMA LeavesFacts ==
  ASSUME TypeOK, NEW e \in 0 .. Epoch
  PROVE  /\ IsFiniteSet(Leaves(e)) /\ Cardinality(Leaves(e)) \in Nat
         /\ \A c \in 0 .. e : Cardinality(Leaves(c)) <= Cardinality(Leaves(e))
         /\ \A c \in 0 .. e : c < e /\ e \in Leaves(e) =>
              Cardinality(Leaves(c)) + 1 <= Cardinality(Leaves(e))
<1>0. Epoch \in Nat
  BY EpochFacts DEF TypeOK
<1>1. \A c \in 0 .. Epoch : IsFiniteSet(Leaves(c)) /\ Cardinality(Leaves(c)) \in Nat
  <2>1. ASSUME NEW c \in 0 .. Epoch PROVE IsFiniteSet(Leaves(c))
    <3>1. IsFiniteSet(2 .. c)
      BY <1>0, FS_Interval
    <3>2. QED
      BY <3>1, FS_Subset DEF Leaves
  <2>2. QED
    BY <2>1, FS_CardinalityType
<1>2. ASSUME NEW c \in 0 .. e
      PROVE  /\ Cardinality(Leaves(c)) <= Cardinality(Leaves(e))
             /\ c < e /\ e \in Leaves(e) => Cardinality(Leaves(c)) + 1 <= Cardinality(Leaves(e))
  <2>1. c \in 0 .. Epoch /\ Leaves(c) \subseteq Leaves(e)
    BY <1>0 DEF Leaves
  <2>2. Cardinality(Leaves(c)) <= Cardinality(Leaves(e))
    BY <1>1, <2>1, FS_Subset
  <2>3. ASSUME c < e, e \in Leaves(e) PROVE Cardinality(Leaves(c)) + 1 <= Cardinality(Leaves(e))
    <3>1. e \notin Leaves(c)
      BY <1>0, <2>3 DEF Leaves
    <3>2. Leaves(c) \cup {e} \subseteq Leaves(e)
      BY <2>1, <2>3
    <3>3. /\ IsFiniteSet(Leaves(c) \cup {e})
          /\ Cardinality(Leaves(c) \cup {e}) = Cardinality(Leaves(c)) + 1
      BY <1>1, <2>1, <3>1, FS_AddElement
    <3>4. QED
      BY <1>1, <3>2, <3>3, FS_Subset
  <2>4. QED
    BY <2>2, <2>3
<1>3. QED
  BY <1>1, <1>2

\* The leaves of past epochs stay.
LEMMA LeavesStay ==
  ASSUME TypeOK, [Next]_vars
  PROVE  \A e \in 0 .. Epoch : Leaves(e)' = Leaves(e)
<1>0. Epoch \in Nat /\ \A e \in 1 .. Epoch : leaves'[e] = leaves[e]
  BY EpochsGrow
<1>1. ASSUME NEW e \in 0 .. Epoch PROVE Leaves(e)' = Leaves(e)
  <2>1. \A k \in 2 .. e : leaves'[k] = leaves[k]
    BY <1>0
  <2>2. QED
    BY <2>1 DEF Leaves
<1>2. QED
  BY <1>1

\* A Welcome under way is for a leaf.
LEMMA GivenLeaf ==
  ASSUME TypeOK, NEW w \in Welcome, Given(w)
  PROVE  w.epoch \in 2 .. Epoch /\ w.epoch \in Leaves(Epoch) /\ w.epoch \in Leaves(w.epoch)
<1>1. w.epoch \in Int /\ Epoch \in Nat
  BY SettingFacts, EpochFacts DEF TypeOK, Welcome
<1>2. QED
  BY <1>1 DEF Given, Leaves

\* At first no identity was replaced.
LEMMA ReplacedStarts == Init => Replaced
<1> SUFFICES ASSUME Init PROVE Replaced
  OBVIOUS
<1>1. TypeOK /\ UnderWay
  BY TypeStarts, UnderWayStarts DEF UnderWay
<1>2. /\ keys = [id |-> 1, n |-> 1] /\ restarts = 0 /\ rotated = NoWelcome
      /\ wire = Nothing /\ task = [d \in Contacts |-> Idle]
  BY DEF Init
<1>3. \A w : ~OnWire(w) /\ ~ToConsume(Admin, w)
  BY <1>2 DEF OnWire, ToConsume, Idle, Contacts
<1>4. 0 \in 0 .. Epoch /\ Cardinality(Leaves(0)) \in Nat
  BY <1>1, EpochFacts, LeavesFacts DEF TypeOK
<1>5. welcome # NoWelcome => 0 <= welcome.epoch
  BY <1>1, SettingFacts DEF TypeOK, DocumentsOK, Welcome
<1>6. keys.id = 1
  BY <1>2
<1>7. keys.id <= restarts + Cardinality(Leaves(0)) + 1
  BY <1>2, <1>4, <1>6
<1>8. ReplacedBy(0)
  BY <1>2, <1>3, <1>5, <1>7 DEF ReplacedBy
<1>9. QED
  BY <1>4, <1>8 DEF Replaced

\* A step that replaces no identity keeps the Welcome that was last.
LEMMA ReplacedStays ==
  ASSUME TypeOK, TypeOK', UnderWay, UnderWay', [Next]_vars, setting' = setting,
         NEW last \in 0 .. Epoch, ReplacedBy(last),
         \/ rotated' = rotated /\ keys'.id = keys.id /\ restarts' = restarts
         \/ rotated' = NoWelcome /\ keys'.id = keys.id /\ restarts' = restarts + 1,
         \A w \in Welcome : OnWire(w)' => OnWire(w) \/ (w = welcome /\ w # NoWelcome),
         \A w \in Welcome : ToConsume(Admin, w)' => OnWire(w) \/ ToConsume(Admin, w)
  PROVE  Replaced'
<1>0. /\ Epoch \in Nat /\ Epoch' \in Nat /\ Epoch <= Epoch'
      /\ \A w \in Welcome : Given(w) => Given(w)'
      /\ Leaves(last)' = Leaves(last)
      /\ last \in 0 .. Epoch'
  BY EpochsGrow, LeavesStay
<1>1. Welcome' = Welcome /\ welcome \in Welcome /\ rotated \in Welcome
  BY DEF Welcome, Package, MaxEpoch, MaxKeys, TypeOK, DocumentsOK, JoinerOK
<1>2. last # 0 => last \in Leaves(Epoch)'
  <2>1. Leaves(Epoch) \subseteq Leaves(Epoch)'
    <3>1. \A k \in 2 .. Epoch : leaves'[k] = leaves[k]
      BY <1>0, EpochsGrow
    <3>2. QED
      BY <1>0, <3>1 DEF Leaves
  <2>2. QED
    BY <2>1 DEF ReplacedBy
<1>3. rotated' # NoWelcome => Given(rotated)' /\ rotated'.epoch = last
  BY <1>0, <1>1 DEF ReplacedBy, Given
<1>4. welcome' # NoWelcome => last <= welcome'.epoch
  <2>1. CASE welcome' = welcome
    BY <2>1 DEF ReplacedBy
  <2>2. CASE Admitted
    BY <1>0, <2>2 DEF Admitted
  <2>3. QED
    BY <2>1, <2>2, GroupMoves
<1>5. \A w \in Welcome : OnWire(w)' \/ ToConsume(Admin, w)' => last <= w.epoch
  BY DEF ReplacedBy
<1>6. /\ restarts \in Nat /\ Cardinality(Leaves(last)) \in Nat /\ keys.id \in Nat
      /\ Cardinality(Leaves(0)) \in Nat
  BY LeavesFacts, SettingFacts, <1>0 DEF TypeOK, BudgetsOK, JoinerOK, Package
<1>7. keys'.id <= restarts' + Cardinality(Leaves(last))
                  + (IF last = 0 \/ rotated' # NoWelcome THEN 1 ELSE 0)
  BY <1>6 DEF ReplacedBy
<1>8. ReplacedBy(last)'
  BY <1>0, <1>1, <1>2, <1>3, <1>4, <1>5, <1>7 DEF ReplacedBy
<1>9. QED
  BY <1>0, <1>8 DEF Replaced

\* A Welcome that cannot be opened is past the last one, and is the last from now.
LEMMA ReplacedNow ==
  ASSUME TypeOK, TypeOK', UnderWay, [Next]_vars, setting' = setting,
         NEW last \in 0 .. Epoch, ReplacedBy(last),
         NEW w \in Welcome, ToConsume(Admin, w), rotated # w,
         rotated' = w, keys'.id = keys.id + 1, restarts' = restarts,
         leaves' = leaves, welcome' = welcome, wire' = wire,
         task'[Admin].step # "consume"
  PROVE  Replaced'
<1> DEFINE e == w.epoch
<1>1. /\ Given(w) /\ last <= e
      /\ welcome # NoWelcome => e <= welcome.epoch
      /\ \A x \in Welcome : OnWire(x) => e <= x.epoch
  BY DEF UnderWay, WelcomesInOrder, ReplacedBy
<1>2. e \in 2 .. Epoch /\ e \in Leaves(Epoch) /\ e \in Leaves(e) /\ Epoch \in Nat
  BY <1>1, GivenLeaf, EpochFacts DEF TypeOK
<1>3. Welcome' = Welcome /\ Epoch' = Epoch /\ \A c : Leaves(c)' = Leaves(c)
  BY DEF Welcome, Package, MaxEpoch, MaxKeys, Epoch, Leaves
<1>4. /\ Cardinality(Leaves(last)) \in Nat /\ Cardinality(Leaves(e)) \in Nat
      /\ Cardinality(Leaves(last)) <= Cardinality(Leaves(e))
      /\ last < e => Cardinality(Leaves(last)) + 1 <= Cardinality(Leaves(e))
      /\ Cardinality(Leaves(0)) + 1 <= Cardinality(Leaves(e)) /\ Cardinality(Leaves(0)) \in Nat
  <2>1. e \in 0 .. Epoch /\ last \in 0 .. e /\ 0 \in 0 .. e /\ 0 \in 0 .. Epoch
    BY <1>1, <1>2
  <2>2. QED
    BY <1>2, <2>1, LeavesFacts
<1>5. restarts \in Nat /\ keys.id \in Nat
  BY SettingFacts DEF TypeOK, BudgetsOK, JoinerOK, Package
<1>6. rotated # NoWelcome => last < e
  <2> SUFFICES ASSUME rotated # NoWelcome, last = e PROVE FALSE
    BY <1>1, <1>2
  <2>1. Given(rotated) /\ rotated.epoch = e /\ rotated \in Welcome
    BY DEF ReplacedBy, TypeOK, JoinerOK
  <2>2. rotated.leaf = w.leaf /\ rotated.epoch = w.epoch
    BY <1>1, <2>1 DEF Given
  <2>3. rotated = w
    BY <2>1, <2>2 DEF Welcome
  <2>4. QED
    BY <2>3
<1>7. keys.id + 1 <= restarts + Cardinality(Leaves(e)) + 1
  <2>1. CASE last = 0
    BY <1>1, <1>4, <1>5, <2>1 DEF ReplacedBy
  <2>2. CASE last # 0 /\ rotated = NoWelcome
    BY <1>4, <1>5, <2>2 DEF ReplacedBy
  <2>3. CASE rotated # NoWelcome
    BY <1>4, <1>5, <1>6, <2>3 DEF ReplacedBy
  <2>4. QED
    BY <2>1, <2>2, <2>3
<1>8. w # NoWelcome
  BY DEF ToConsume
<1>9. \A x \in Welcome : ~ToConsume(Admin, x)' /\ (OnWire(x)' => OnWire(x))
  BY DEF ToConsume, OnWire
<1>10. ReplacedBy(e)'
  <2>1. Given(w)'
    BY <1>1, <1>3 DEF Given
  <2>2. keys'.id <= restarts' + Cardinality(Leaves(e))
                    + (IF e = 0 \/ rotated' # NoWelcome THEN 1 ELSE 0)
    BY <1>7, <1>8
  <2> HIDE DEF e
  <2>3. e = w.epoch
    BY DEF e
  <2>4. QED
    BY <1>1, <1>2, <1>3, <1>9, <2>1, <2>2, <2>3 DEF ReplacedBy
<1>11. QED
  BY <1>2, <1>3, <1>10 DEF Replaced

\* Every step keeps Replaced.
LEMMA ReplacedStep ==
  ASSUME TypeOK, TypeOK', Relayed, UnderWay, UnderWay', Replaced, [Next]_vars
  PROVE  Replaced'
<1>0. PICK last \in 0 .. Epoch : ReplacedBy(last)
  BY DEF Replaced
<1>1. setting' = setting /\ wire' \in {wire, Nothing, AdminSnapshot}
  BY RecordsTravel
<1>2. \A w \in Welcome : OnWire(w)' => OnWire(w) \/ (w = welcome /\ w # NoWelcome)
  <2>1. AdminSnapshot.welcome = welcome
    BY SnapshotMade DEF UnderWay
  <2>2. QED
    BY <1>1, <2>1 DEF OnWire
<1>3. /\ Admin \in Contacts /\ Member \in Contacts /\ Admin # Member
      /\ task \in [Contacts -> Tasks]
  BY ReadmissionAssumption DEF Contacts, TypeOK, JoinerOK
<1>4. CASE GroupUntouched /\ UNCHANGED <<task, rotated, keys, restarts>>
  BY <1>0, <1>1, <1>2, <1>4, ReplacedStays DEF ToConsume
<1>5. ASSUME NEW B, MergeFromAdmin(B) PROVE Replaced'
  <2>1. /\ wire # Nothing /\ task'[Admin].welcome = wire.welcome
        /\ rotated' = rotated /\ keys' = keys /\ restarts' = restarts
    BY <1>3, <1>5 DEF MergeFromAdmin, Merge, local, keyring
  <2>2. \A w \in Welcome : ToConsume(Admin, w)' => OnWire(w)
    BY <2>1 DEF ToConsume, OnWire
  <2>3. QED
    BY <1>0, <1>1, <1>2, <2>1, <2>2, ReplacedStays
<1>6. ASSUME NEW B, MergeFromMember(B) PROVE Replaced'
  <2>1. /\ task'[Admin] = task[Admin]
        /\ rotated' = rotated /\ keys' = keys /\ restarts' = restarts
    BY <1>3, <1>6 DEF MergeFromMember, Merge, local, keyring
  <2>2. \A w \in Welcome : ToConsume(Admin, w)' => ToConsume(Admin, w)
    BY <2>1 DEF ToConsume
  <2>3. QED
    BY <1>0, <1>1, <1>2, <2>1, <2>2, ReplacedStays
<1>7. ASSUME NEW d \in Contacts, NEW B, Consume(d, B) PROVE Replaced'
  <2> DEFINE w == task[d].welcome
             spent == w # NoWelcome /\ ~Handled(w) /\ group = NoGroup /\ ~Opens(w)
  <2>1. /\ task[d].step = "consume" /\ restarts' = restarts /\ leaves' = leaves
        /\ welcome' = welcome /\ wire' = wire
        /\ rotated' = IF spent THEN w ELSE rotated
        /\ keys' = IF spent THEN [id |-> keys.id + 1, n |-> keys.n + 1] ELSE keys
    BY <1>7 DEF Consume, mls, stream
  <2>2. \A c \in Contacts : task'[c] = task[c] \/ task'[c].step # "consume"
    BY <1>3, <1>7 DEF Consume
  <2>3. CASE ~spent
    <3>1. \A x \in Welcome : ToConsume(Admin, x)' => ToConsume(Admin, x)
      BY <1>3, <2>2 DEF ToConsume
    <3>2. rotated' = rotated /\ keys' = keys
      BY <2>1, <2>3
    <3>3. QED
      BY <1>0, <1>1, <1>2, <2>1, <3>1, <3>2, ReplacedStays
  <2>4. CASE spent
    <3>1. w \in Welcome /\ ToConsume(d, w) /\ rotated # w
      BY <2>1, <2>4 DEF TypeOK, JoinerOK, Tasks, Idle, ToConsume, Handled
    <3>2. d = Admin
      BY <3>1 DEF UnderWay, WelcomesInOrder, Contacts
    <3>3. task'[Admin].step # "consume"
      BY <1>3, <1>7, <3>2 DEF Consume
    <3>4. rotated' = w /\ keys'.id = keys.id + 1
      BY <2>1, <2>4
    <3> HIDE DEF w, spent
    <3>5. QED
      BY <1>0, <1>1, <2>1, <3>1, <3>2, <3>3, <3>4, ReplacedNow
  <2>5. QED
    BY <2>3, <2>4
<1>8. ASSUME NEW d \in Contacts, NEW B, Finish(d, B) \/ ToldRemoved(d, B) PROVE Replaced'
  <2>1. rotated' = rotated /\ keys' = keys /\ restarts' = restarts
    BY <1>8 DEF Finish, ToldRemoved, keyring
  <2>2. \A c \in Contacts : task'[c] = task[c] \/ task'[c].step # "consume"
    BY <1>3, <1>8 DEF Finish, ToldRemoved, running, Idle
  <2>3. \A x \in Welcome : ToConsume(Admin, x)' => ToConsume(Admin, x)
    BY <1>3, <2>2 DEF ToConsume
  <2>4. QED
    BY <1>0, <1>1, <1>2, <2>1, <2>3, ReplacedStays
<1>9. CASE Restart
  <2>1. /\ rotated' = NoWelcome /\ keys' = [keys EXCEPT !.n = @ + 1] /\ restarts' = restarts + 1
        /\ task' = [d \in Contacts |-> Idle]
    BY <1>9 DEF Restart
  <2>2. keys'.id = keys.id
    BY <2>1 DEF TypeOK, JoinerOK, Package
  <2>3. \A x \in Welcome : ~ToConsume(Admin, x)'
    BY <1>3, <2>1 DEF ToConsume, Idle
  <2>4. QED
    BY <1>0, <1>1, <1>2, <2>1, <2>2, <2>3, ReplacedStays
<1>10. QED
  BY <1>4, <1>5, <1>6, <1>7, <1>8, <1>9, StreamSteps DEF StreamStep

\* Identities are bounded by approvals and restarts, however often a Welcome
\* that cannot be opened is resent (replace_mls_identity).
THEOREM KeysReplacedOnce == Spec => []KeysReplaced
<1>1. TypeOK /\ TypeOK' /\ Relayed /\ UnderWay /\ UnderWay' /\ Replaced /\ [Next]_vars => Replaced'
  BY ReplacedStep
<1>2. TypeOK /\ Replaced => KeysReplaced
  <2> SUFFICES ASSUME TypeOK, Replaced PROVE KeysReplaced
    OBVIOUS
  <2>1. PICK last \in 0 .. Epoch : ReplacedBy(last)
    BY DEF Replaced
  <2>2. Epoch \in Nat /\ Epoch \in 0 .. Epoch /\ last \in 0 .. Epoch
    BY EpochFacts DEF TypeOK
  <2>3. /\ Cardinality(Leaves(last)) <= Cardinality(Leaves(Epoch))
        /\ Cardinality(Leaves(last)) \in Nat /\ Cardinality(Leaves(Epoch)) \in Nat
    BY <2>2, LeavesFacts
  <2>4. restarts \in Nat /\ keys.id \in Nat
    BY SettingFacts DEF TypeOK, BudgetsOK, JoinerOK, Package
  <2>5. keys.id <= restarts + Cardinality(Leaves(last)) + 1
    BY <2>1, <2>3, <2>4 DEF ReplacedBy
  <2>6. keys.id <= 1 + restarts + Cardinality(Leaves(Epoch))
    BY <2>3, <2>4, <2>5
  <2>7. QED
    BY <2>6 DEF KeysReplaced, Leaves
<1>3. QED
  BY <1>1, <1>2, ReplacedStarts, UnderWayInvariant, PTL DEF Spec
=============================================================================
