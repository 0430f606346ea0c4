--------------------------- MODULE FileSyncProofs ---------------------------
(***************************************************************************)
(* Proofs about FileSync for runs of every length: what is tracked of the  *)
(* file is well formed, the ids of clients and of chunks stay apart, the   *)
(* saved state of a document is that of its file once a device has         *)
(* settled, a file that a user deleted stays deleted on that device, and   *)
(* devices that have settled hold the same file.                           *)
(*                                                                         *)
(* The invariant has four parts.  Basics says that client ids and the      *)
(* numbers of chunks are given out once, so that a tombstone's last entry  *)
(* is determined and a text that is read replaces the document's text.     *)
(* TiedUnlessRaced says how the file, its document and the saved state     *)
(* hang together on a device while flushes and events are under way.       *)
(* Phase says that a deletion is to be heard by the watcher, or held: it   *)
(* stands in the maps of the devices whatever is on the way, and the other *)
(* device has no file that is younger.                                     *)
(* Meets says what a stream has to do yet: Handshakes where it stands      *)
(* while it opens; Outdated why a tombstone that only one device takes to  *)
(* stand is about to be replaced; Calm, of a stream without a deletion     *)
(* that stands, that documents are on the way to where they lack; Doomed,  *)
(* of a stream with one, that the file is on its way out wherever it is.   *)
(***************************************************************************)
EXTENDS FileSyncInvariants, SequenceTheorems, FiniteSetTheorems, WellFoundedInduction, TLAPS

\* What is not there is neither a file nor a document.
LEMMA AbsentIsNoRecord ==
  /\ Absent \notin File
  /\ Absent \notin Doc
<1>1. DOMAIN Absent = {"none"}
  BY DEF Absent
<1>2. \A x \in File : DOMAIN x = {"text", "at"}
  BY DEF File
<1>3. \A x \in Doc : DOMAIN x = {"ins", "del"}
  BY DEF Doc
<1>4. QED
  BY <1>1, <1>2, <1>3

\* Of texts and documents.
LEMMA EmptyDocIs == EmptyDoc \in Doc
BY DEF EmptyDoc, Doc

\* A path without a document is read as an empty one.
LEMMA DocOrIs ==
  ASSUME NEW x \in DocOrNone
  PROVE  /\ DocOr(x) \in Doc
         /\ x # Absent => DocOr(x) = x
         /\ x = Absent => DocOr(x) = EmptyDoc
BY EmptyDocIs DEF DocOr, DocOrNone

\* Documents merge to documents.
LEMMA MergeIs ==
  ASSUME NEW x \in Doc, NEW y \in Doc
  PROVE  /\ Merge(x, y) \in Doc
         /\ Merge(x, y).ins = x.ins \cup y.ins
         /\ Merge(x, y).del = x.del \cup y.del
BY DEF Merge, Doc

\* What is seen of a document is in it.
LEMMA TextIs ==
  ASSUME NEW x \in Doc
  PROVE  TextOf(x) \in Text /\ IdsOf(x) \subseteq Ids /\ Seen(x) \subseteq x.ins
<1>1. Seen(x) \subseteq x.ins
  BY DEF Seen
<1>2. x.ins \subseteq Chunk
  BY DEF Doc
<1>3. \A c \in Chunk : c.id \in Ids /\ c.text \in Text
  BY DEF Chunk
<1>4. IdsOf(x) \subseteq Ids
  BY <1>2, <1>3 DEF IdsOf
<1>5. \A c \in Seen(x) : c.text \subseteq Versions
  BY <1>1, <1>2, <1>3 DEF Text
<1>6. TextOf(x) \in Text
  BY <1>5 DEF TextOf, Text
<1>7. QED
  BY <1>1, <1>4, <1>6

\* The chunk is one, with the next number of its device.
LEMMA NewChunkIs ==
  ASSUME FileSyncAssumption, SpentOK, NEW d \in Devices, NEW doc \in Doc, NEW text \in Text,
         spent.chunks[d] <= MaxChunks
  PROVE  /\ NewChunk(d, doc, text) \in Chunk
         /\ NewChunk(d, doc, text).id = <<d, spent.chunks[d] + 1>>
         /\ NewChunk(d, doc, text).text = text
         /\ NewChunk(d, doc, text).after = IdsOf(doc)
<1>1. spent.chunks[d] \in Nat
  BY DEF SpentOK
<1>2. <<d, spent.chunks[d] + 1>> \in Ids
  BY <1>1 DEF Ids, FileSyncAssumption, Devices
<1>3. IdsOf(doc) \subseteq Ids
  BY TextIs
<1>4. QED
  BY <1>2, <1>3 DEF NewChunk, Chunk

\* A replacement is an update: it inserts the chunk and removes what was seen.
LEMMA ReplacementIs ==
  ASSUME FileSyncAssumption, SpentOK, NEW d \in Devices, NEW doc \in Doc, NEW text \in Text,
         spent.chunks[d] <= MaxChunks
  PROVE  /\ Replacement(d, doc, text) \in Doc
         /\ Replacement(d, doc, text).ins = IF text = Blank THEN {} ELSE {NewChunk(d, doc, text)}
         /\ Replacement(d, doc, text).del = {c.id : c \in Seen(doc)}
<1>1. NewChunk(d, doc, text) \in Chunk
  BY NewChunkIs
<1>2. Seen(doc) \subseteq Chunk
  BY TextIs DEF Doc
<1>3. \A c \in Chunk : c.id \in Ids
  BY DEF Chunk
<1>4. {c.id : c \in Seen(doc)} \subseteq Ids
  BY <1>2, <1>3
<1>5. Replacement(d, doc, text) =
        [ins |-> IF text = Blank THEN {} ELSE {NewChunk(d, doc, text)}, del |-> {c.id : c \in Seen(doc)}]
  BY DEF Replacement, NewChunk
<1>6. QED
  BY <1>1, <1>4, <1>5 DEF Doc

\* A replacement replaces the text, if its chunk is new to the document.
LEMMA ReplacementReplaces ==
  ASSUME FileSyncAssumption, SpentOK, NEW d \in Devices, NEW doc \in Doc, NEW text \in Text,
         spent.chunks[d] <= MaxChunks,
         <<d, spent.chunks[d] + 1>> \notin IdsOf(doc),
         <<d, spent.chunks[d] + 1>> \notin doc.del,
         \A c \in doc.ins : <<d, spent.chunks[d] + 1>> \notin c.after
  PROVE  TextOf(Merge(doc, Replacement(d, doc, text))) = text
<1> DEFINE r == <<d, spent.chunks[d] + 1>>
           n == NewChunk(d, doc, text)
           u == Replacement(d, doc, text)
           m == Merge(doc, u)
           N == IF text = Blank THEN {} ELSE {n}
<1>1. /\ m.ins = doc.ins \cup N
      /\ m.del = doc.del \cup {c.id : c \in Seen(doc)}
  <2>1. u \in Doc /\ u.ins = N /\ u.del = {c.id : c \in Seen(doc)}
    BY ReplacementIs
  <2> HIDE DEF u, N
  <2>2. QED
    BY <2>1, MergeIs
<1>2. n.id = r /\ n.text = text /\ n.after = IdsOf(doc)
  BY NewChunkIs
<1> HIDE DEF r, n, u, m
<1>3. IdsOf(m) = IdsOf(doc) \cup {c.id : c \in N}
  BY <1>1 DEF IdsOf
<1>4. ASSUME NEW c \in doc.ins PROVE c \notin Seen(m)
  <2>1. SUFFICES ASSUME c \in Seen(m) PROVE FALSE
    OBVIOUS
  <2>2. c.id \notin m.del /\ c.after \subseteq IdsOf(m)
    BY <2>1 DEF Seen
  <2>3. c.after \subseteq IdsOf(doc)
    BY <2>2, <1>3, <1>2 DEF r
  <2>4. c \in Seen(doc)
    BY <2>2, <2>3, <1>1 DEF Seen
  <2>5. QED
    BY <2>2, <2>4, <1>1
<1>5. ASSUME text # Blank PROVE n \in Seen(m)
  <2>1. n.id \notin m.del
    BY <1>1, <1>2, TextIs DEF r, IdsOf
  <2>2. QED
    BY <2>1, <1>1, <1>2, <1>3, <1>5 DEF Seen
<1>6. Seen(m) \subseteq m.ins
  BY DEF Seen
<1>7. Seen(m) = N
  BY <1>1, <1>4, <1>5, <1>6
<1>8. QED
  <2>1. CASE text = Blank
    BY <1>7, <2>1 DEF TextOf, Blank, m, u
  <2>2. CASE text # Blank
    BY <1>2, <1>7, <2>2 DEF TextOf, m, u
  <2>3. QED
    BY <2>1, <2>2

-----------------------------------------------------------------------------
(* The order of tombstones                                                 *)

\* Every nonempty set of naturals has a least member.
LEMMA LeastMember ==
  ASSUME NEW S \in SUBSET Nat, S # {}
  PROVE  \E x \in S : \A y \in S : x <= y
<1> DEFINE less == {ss \in Nat \X Nat : ss[1] < ss[2]}
<1>1. IsWellFoundedOn(less, Nat)
  BY NatLessThanWellFounded DEF OpToRel
<1>2. PICK x \in S : \A y \in S : ~ (<<y, x>> \in less)
  BY <1>1, WFMin
<1>3. ASSUME NEW y \in S PROVE x <= y
  <2>1. y < x => <<y, x>> \in less
    OBVIOUS
  <2>2. QED
    BY <1>2, <2>1
<1>4. QED
  BY <1>3

\* A set that has 0 and the successor of each of its members has them all.
LEMMA SetInduction ==
  ASSUME NEW S, 0 \in S, \A n \in Nat : n \in S => n + 1 \in S
  PROVE  Nat \subseteq S
<1> SUFFICES ASSUME Nat \ S # {} PROVE FALSE
  OBVIOUS
<1>1. PICK x \in Nat \ S : \A y \in Nat \ S : x <= y
  BY LeastMember
<1>2. x # 0 /\ x - 1 \in Nat
  BY <1>1
<1>3. x - 1 \in S
  BY <1>1, <1>2
<1>4. x \in S
  BY <1>2, <1>3
<1>5. QED
  BY <1>1, <1>4

\* A chain is before one that continues it, or one that parts from it upwards.
LEMMA BeforeIs ==
  ASSUME NEW a \in Chain, NEW b \in Chain
  PROVE  Before(a, b) <=> Extends(b, a) \/ \E i \in Nat : PartsAt(a, b, i)
<1>1. Len(a) \in Nat /\ Len(b) \in Nat
  BY DEF Chain
<1>2. QED
  BY <1>1 DEF Before, Extends, PartsAt

\* A chain continues another if it agrees with it where that one reaches.
LEMMA ExtendsIs ==
  ASSUME NEW a \in Chain, NEW b \in Chain
  PROVE  Extends(b, a) <=> Len(a) < Len(b) /\ \A k \in 1 .. Len(a) : a[k] = b[k]
<1>1. Len(a) \in Nat /\ Len(b) \in Nat
  BY DEF Chain
<1>2. ASSUME Len(a) < Len(b)
      PROVE  /\ SubSeq(b, 1, Len(a)) \in Seq(Nat)
             /\ Len(SubSeq(b, 1, Len(a))) = Len(a)
             /\ \A k \in 1 .. Len(a) : SubSeq(b, 1, Len(a))[k] = b[k]
  BY <1>1, <1>2 DEF Chain
<1>3. ASSUME Len(a) < Len(b), \A k \in 1 .. Len(a) : a[k] = b[k]
      PROVE  SubSeq(b, 1, Len(a)) = a
  BY <1>1, <1>2, <1>3, SeqEqual DEF Chain
<1>4. QED
  BY <1>2, <1>3 DEF Extends

\* No chain is before itself, or on both sides of another.
LEMMA BeforeIrreflexive ==
  ASSUME NEW a \in Chain
  PROVE  ~Before(a, a)
<1>1. Len(a) \in Nat /\ \A i \in 1 .. Len(a) : a[i] \in Nat
  BY DEF Chain
<1>2. QED
  BY <1>1, BeforeIs DEF Extends, PartsAt

\* The order of chains is transitive.
LEMMA BeforeTransitive ==
  ASSUME NEW a \in Chain, NEW b \in Chain, NEW c \in Chain, Before(a, b), Before(b, c)
  PROVE  Before(a, c)
<1>1. /\ Len(a) \in Nat /\ Len(b) \in Nat /\ Len(c) \in Nat
      /\ \A i \in 1 .. Len(a) : a[i] \in Nat
      /\ \A i \in 1 .. Len(b) : b[i] \in Nat
      /\ \A i \in 1 .. Len(c) : c[i] \in Nat
  BY DEF Chain
<1>2. CASE Extends(b, a) /\ Extends(c, b)
  <2>1. Extends(c, a)
    BY <1>1, <1>2, ExtendsIs
  <2>2. QED
    BY <2>1, BeforeIs
<1>3. ASSUME NEW i \in Nat, Extends(b, a), PartsAt(b, c, i)
      PROVE  Before(a, c)
  <2>1. CASE i <= Len(a)
    <3>1. PartsAt(a, c, i)
      BY <1>1, <1>3, <2>1, ExtendsIs DEF PartsAt
    <3>2. QED
      BY <3>1, BeforeIs
  <2>2. CASE i > Len(a)
    <3>1. Extends(c, a)
      BY <1>1, <1>3, <2>2, ExtendsIs DEF PartsAt
    <3>2. QED
      BY <3>1, BeforeIs
  <2>3. QED
    BY <1>1, <2>1, <2>2
<1>4. ASSUME NEW i \in Nat, PartsAt(a, b, i), Extends(c, b)
      PROVE  Before(a, c)
  <2>1. PartsAt(a, c, i)
    BY <1>1, <1>4, ExtendsIs DEF PartsAt
  <2>2. QED
    BY <2>1, BeforeIs
<1>5. ASSUME NEW i \in Nat, NEW j \in Nat, PartsAt(a, b, i), PartsAt(b, c, j)
      PROVE  Before(a, c)
  <2>1. CASE i <= j
    <3>1. PartsAt(a, c, i)
      BY <1>1, <1>5, <2>1 DEF PartsAt
    <3>2. QED
      BY <3>1, BeforeIs
  <2>2. CASE j < i
    <3>1. PartsAt(a, c, j)
      BY <1>1, <1>5, <2>2 DEF PartsAt
    <3>2. QED
      BY <3>1, BeforeIs
  <2>3. QED
    BY <2>1, <2>2
<1>6. QED
  BY <1>2, <1>3, <1>4, <1>5, BeforeIs

\* Of two chains one is before the other.
LEMMA BeforeTotal ==
  ASSUME NEW a \in Chain, NEW b \in Chain, a # b
  PROVE  Before(a, b) \/ Before(b, a)
<1>1. /\ Len(a) \in Nat /\ Len(b) \in Nat
      /\ \A i \in 1 .. Len(a) : a[i] \in Nat
      /\ \A i \in 1 .. Len(b) : b[i] \in Nat
  BY DEF Chain
<1> DEFINE D == {i \in 1 .. Len(a) : i <= Len(b) /\ a[i] # b[i]}
<1>2. CASE D = {}
  <2>1. \A i \in 1 .. Len(a) : i <= Len(b) => a[i] = b[i]
    BY <1>2
  <2>2. CASE Len(a) < Len(b)
    BY <1>1, <2>1, <2>2, ExtendsIs, BeforeIs
  <2>3. CASE Len(b) < Len(a)
    BY <1>1, <2>1, <2>3, ExtendsIs, BeforeIs
  <2>4. Len(a) # Len(b)
    BY <1>1, <2>1, SeqEqual DEF Chain
  <2>5. QED
    BY <1>1, <2>2, <2>3, <2>4
<1>3. CASE D # {}
  <2>1. D \in SUBSET Nat
    BY <1>1
  <2>2. PICK i \in D : \A k \in D : i <= k
    BY <1>3, <2>1, LeastMember
  <2>3. \A k \in 1 .. i - 1 : a[k] = b[k]
    BY <1>1, <2>2
  <2>4. PartsAt(a, b, i) \/ PartsAt(b, a, i)
    BY <1>1, <2>2, <2>3 DEF PartsAt
  <2>5. QED
    BY <1>1, <2>2, <2>4, BeforeIs
<1>4. QED
  BY <1>2, <1>3

\* A finite set of items has a last one.
LEMMA LastItem ==
  ASSUME NEW S \in SUBSET Item, IsFiniteSet(S), S # {},
         \A x, y \in S : x.chain = y.chain => x = y
  PROVE  \E m \in S : LastOf(m, S)
<1> DEFINE HasLast(T) == \E m \in T : LastOf(m, T)
           N == {n \in Nat : \A T \in SUBSET S : Cardinality(T) = n + 1 => HasLast(T)}
<1>1. \A T \in SUBSET S : IsFiniteSet(T) /\ Cardinality(T) \in Nat
  BY FS_Subset, FS_CardinalityType
<1>2. \A x \in S : x.chain \in Chain
  BY DEF Item
<1>3. 0 \in N
  <2>1. ASSUME NEW T \in SUBSET S, Cardinality(T) = 1 PROVE HasLast(T)
    <3>1. \E x : T = {x}
      BY <1>1, <2>1, FS_Singleton
    <3>2. QED
      BY <3>1 DEF LastOf
  <2>2. QED
    BY <2>1
<1>4. ASSUME NEW n \in Nat, n \in N PROVE n + 1 \in N
  <2>1. ASSUME NEW T \in SUBSET S, Cardinality(T) = n + 2 PROVE HasLast(T)
    <3>1. IsFiniteSet(T) /\ T # {}
      BY <1>1, <2>1, FS_EmptySet
    <3>2. PICK x \in T : TRUE
      BY <3>1
    <3> DEFINE R == T \ {x}
    <3>3. Cardinality(R) = n + 1
      <4>1. Cardinality(T \ {x}) = Cardinality(T) - 1
        BY <3>1, FS_RemoveElement
      <4>2. QED
        BY <4>1, <2>1
    <3>4. PICK m \in R : LastOf(m, R)
      BY <1>4, <3>3
    <3>5. /\ x \in S /\ m \in S /\ x # m
          /\ x.chain \in Chain /\ m.chain \in Chain /\ x.chain # m.chain
      BY <1>2
    <3>6. CASE Before(x.chain, m.chain)
      BY <3>4, <3>6 DEF LastOf
    <3>7. CASE Before(m.chain, x.chain)
      <4>1. ASSUME NEW o \in T PROVE o = x \/ Before(o.chain, x.chain)
        <5>1. CASE o = x
          BY <5>1
        <5>2. CASE o = m
          BY <5>2, <3>7
        <5>3. CASE o # x /\ o # m
          <6>1. Before(o.chain, m.chain) /\ o.chain \in Chain
            BY <1>2, <3>4, <5>3 DEF LastOf
          <6>2. QED
            BY <6>1, <3>5, <3>7, BeforeTransitive
        <5>4. QED
          BY <5>1, <5>2, <5>3
      <4>2. QED
        BY <4>1 DEF LastOf
    <3>8. QED
      BY <3>5, <3>6, <3>7, BeforeTotal
  <2>2. \A T \in SUBSET S : Cardinality(T) = n + 1 + 1 => HasLast(T)
    <3> HIDE DEF HasLast
    <3>1. QED
      BY <2>1
  <2>3. QED
    BY <2>2
<1>5. Cardinality(S) - 1 \in N
  <2>1. Cardinality(S) \in Nat /\ Cardinality(S) # 0
    BY <1>1, FS_EmptySet
  <2> HIDE DEF N
  <2>2. QED
    BY <1>3, <1>4, <2>1, SetInduction
<1>6. QED
  BY <1>1, <1>5, FS_EmptySet

\* The last entry of a tombstone is one of its entries, and every other is before it.
LEMMA LastIs ==
  ASSUME NEW t \in Tomb, t.items # {}, Single(t)
  PROVE  /\ Last(t) \in t.items
         /\ \A o \in t.items : o = Last(t) \/ Before(o.chain, Last(t).chain)
<1>1. t.items \subseteq Item /\ IsFiniteSet(t.items)
  BY DEF Tomb
<1>2. PICK e \in t.items : LastOf(e, t.items)
  BY <1>1, LastItem DEF Single
<1>3. QED
  BY <1>2 DEF Last, LastOf

-----------------------------------------------------------------------------
(* Tombstones                                                              *)

\* No entry is a tombstone too.
LEMMA NoTombsIs == NoTombs \in Tomb
BY FS_EmptySet DEF NoTombs, Tomb

\* Tombstones join to a tombstone.
LEMMA JoinedIs ==
  ASSUME NEW t \in Tomb, NEW o \in Tomb
  PROVE  /\ Joined(t, o) \in Tomb
         /\ Joined(t, o).items = t.items \cup o.items
         /\ Joined(t, o).dead = t.dead \cup o.dead
<1>1. Joined(t, o) = [items |-> t.items \cup o.items, dead |-> t.dead \cup o.dead]
  BY DEF Joined
<1>2. IsFiniteSet(t.items \cup o.items)
  BY FS_Union DEF Tomb
<1>3. QED
  BY <1>1, <1>2 DEF Tomb

\* What a device knows is told apart by chains, and its last entry is an entry.
LEMMA KnownLast ==
  ASSUME Types, OneEntry, NEW d \in Devices, tombs[d].items # {}
  PROVE  /\ Last(tombs[d]) \in tombs[d].items
         /\ Last(tombs[d]) \in Item
         /\ \A o \in tombs[d].items : o = Last(tombs[d]) \/ Before(o.chain, Last(tombs[d]).chain)
<1>1. tombs[d] \in Tomb /\ tombs[d].items \subseteq Item
  BY DEF Types, ControlOK, Tomb
<1>2. Single(tombs[d])
  BY <1>1 DEF Single, OneEntry, Afoot
<1>3. QED
  BY <1>1, <1>2, LastIs

\* The update of record: one entry by this client, put after the last one, which goes.
LEMMA RecordedIs ==
  ASSUME Types, OneEntry, NEW d \in Devices
  PROVE  /\ Recorded(d) \in Tomb /\ NewEntry(d) \in Item
         /\ Recorded(d).items = {NewEntry(d)}
         /\ Recorded(d).dead = IF tombs[d].items = {} THEN {} ELSE {Last(tombs[d]).chain}
         /\ Author(NewEntry(d)) = client[d]
         /\ Len(NewEntry(d).chain) = 1 + IF tombs[d].items = {} THEN 0 ELSE Len(Last(tombs[d]).chain)
<1> DEFINE c == IF tombs[d].items = {} THEN <<client[d]>> ELSE Append(Last(tombs[d]).chain, client[d])
<1>1. client[d] \in Nat /\ now \in Nat
  BY DEF Types, ControlOK, SpentOK
<1>2. tombs[d].items # {} => Last(tombs[d]).chain \in Chain
  BY KnownLast DEF Item
<1>3. /\ c \in Chain
      /\ Len(c) = 1 + IF tombs[d].items = {} THEN 0 ELSE Len(Last(tombs[d]).chain)
      /\ c[Len(c)] = client[d]
  <2>1. CASE tombs[d].items = {}
    BY <1>1, <2>1 DEF Chain
  <2>2. CASE tombs[d].items # {}
    BY <1>1, <1>2, <2>2 DEF Chain
  <2>3. QED
    BY <2>1, <2>2
<1>4. NewEntry(d) = [chain |-> c, ts |-> now + 1]
  BY DEF NewEntry
<1>5. Recorded(d) = [items |-> {[chain |-> c, ts |-> now + 1]},
                     dead |-> IF tombs[d].items = {} THEN {} ELSE {Last(tombs[d]).chain}]
  BY DEF Recorded
<1> HIDE DEF c
<1>6. NewEntry(d) \in Item
  BY <1>1, <1>3, <1>4 DEF Item
<1>7. IsFiniteSet({NewEntry(d)})
  BY FS_Singleton
<1>8. Recorded(d) \in Tomb
  BY <1>2, <1>4, <1>5, <1>6, <1>7 DEF Tomb
<1>9. QED
  BY <1>3, <1>4, <1>5, <1>6, <1>8 DEF Author

\* The update of clear has no entry.
LEMMA ClearedIs ==
  ASSUME Types, OneEntry, NEW d \in Devices
  PROVE  Cleared(d) \in Tomb /\ Cleared(d).items = {}
<1>1. IsDeleted(tombs[d]) => Last(tombs[d]).chain \in Chain
  BY KnownLast DEF Item, IsDeleted
<1>2. QED
  BY <1>1, FS_EmptySet DEF Cleared, Tomb

-----------------------------------------------------------------------------
(* What is sent                                                            *)

\* The peer is the other device.
LEMMA PeerIs == \A d \in Devices : Peer(d) \in Devices /\ Peer(d) # d
BY DEF Peer, Devices

\* What is framed is what is sent.
LEMMA FrameIs ==
  ASSUME NEW t \in Tomb, NEW u \in DocOrNone
  PROVE  Frame(t, u) \in Sent /\ Frame(t, u).control = t /\ Frame(t, u).file = u
BY DEF Frame, Sent

\* One frame more for a device.
LEMMA AppendedIs ==
  ASSUME Types, NEW e \in Devices, NEW f \in Sent,
         frames' = [frames EXCEPT ![e] = Append(@, f)]
  PROVE  /\ frames' \in [Devices -> Seq(Sent)]
         /\ \A o \in Devices : \A i \in DOMAIN frames'[o] :
              \/ i \in DOMAIN frames[o] /\ frames'[o][i] = frames[o][i]
              \/ frames'[o][i] = f
<1>1. frames \in [Devices -> Seq(Sent)]
  BY DEF Types, StreamOK
<1>2. frames[e] \in Seq(Sent) /\ Append(frames[e], f) \in Seq(Sent)
  BY <1>1
<1>3. \A i \in DOMAIN Append(frames[e], f) :
        \/ i \in DOMAIN frames[e] /\ Append(frames[e], f)[i] = frames[e][i]
        \/ Append(frames[e], f)[i] = f
  BY <1>2
<1>4. frames'[e] = Append(frames[e], f) /\ \A o \in Devices : o # e => frames'[o] = frames[o]
  BY <1>1
<1>5. frames' \in [Devices -> Seq(Sent)]
  BY <1>1, <1>2
<1>6. QED
  BY <1>3, <1>4, <1>5

\* A broadcast joins the tombstone and sends the change if a stream listens.
LEMMA BroadcastIs ==
  ASSUME Types, NEW d \in Devices, NEW t \in Tomb, NEW u \in DocOrNone, NEW n \in Nat, Broadcast(d, t, u, n)
  PROVE  /\ tombs' \in [Devices -> Tomb]
         /\ tombs' = [tombs EXCEPT ![d] = Joined(tombs[d], t)]
         /\ frames' \in [Devices -> Seq(Sent)]
         /\ deletes' \in [Devices -> Nat]
         /\ \A o \in Devices : \A i \in DOMAIN frames'[o] :
              \/ i \in DOMAIN frames[o] /\ frames'[o][i] = frames[o][i]
              \/ frames'[o][i] = Frame(t, u)
         /\ stage[d] = "off" => frames' = frames /\ deletes' = deletes
<1>1. tombs \in [Devices -> Tomb] /\ deletes \in [Devices -> Nat] /\ frames \in [Devices -> Seq(Sent)]
  BY DEF Types, ControlOK, StreamOK
<1>2. tombs' = [tombs EXCEPT ![d] = Joined(tombs[d], t)]
  BY DEF Broadcast
<1>3. tombs' \in [Devices -> Tomb]
  BY <1>1, <1>2, JoinedIs
<1>4. deletes' \in [Devices -> Nat]
  BY <1>1, PeerIs DEF Broadcast
<1>5. Frame(t, u) \in Sent /\ Peer(d) \in Devices
  BY FrameIs, PeerIs
<1>6. frames' = frames \/ frames' = [frames EXCEPT ![Peer(d)] = Append(@, Frame(t, u))]
  BY DEF Broadcast
<1>7. /\ frames' \in [Devices -> Seq(Sent)]
      /\ \A o \in Devices : \A i \in DOMAIN frames'[o] :
           \/ i \in DOMAIN frames[o] /\ frames'[o][i] = frames[o][i]
           \/ frames'[o][i] = Frame(t, u)
  <2>1. CASE frames' = frames
    BY <1>1, <2>1
  <2>2. CASE frames' = [frames EXCEPT ![Peer(d)] = Append(@, Frame(t, u))]
    BY <1>5, <2>2, AppendedIs
  <2>3. QED
    BY <1>6, <2>1, <2>2
<1>8. stage[d] = "off" => frames' = frames /\ deletes' = deletes
  BY DEF Broadcast, Listening
<1>9. QED
  BY <1>2, <1>3, <1>4, <1>7, <1>8

\* A send adds one frame.
LEMMA SendIs ==
  ASSUME Types, NEW d \in Devices, NEW t \in Tomb, NEW u \in DocOrNone, Send(d, Frame(t, u))
  PROVE  /\ frames' \in [Devices -> Seq(Sent)]
         /\ deletes' = deletes
         /\ \A o \in Devices : \A i \in DOMAIN frames'[o] :
              \/ i \in DOMAIN frames[o] /\ frames'[o][i] = frames[o][i]
              \/ frames'[o][i] = Frame(t, u)
BY PeerIs, FrameIs, AppendedIs DEF Send

\* The ids of a document are ids.
LEMMA IdsIs == \A x \in Doc : IdsOf(x) \in SUBSET Ids
BY DEF IdsOf, Doc, Chunk

\* A diff is a document.
LEMMA DiffIs ==
  ASSUME NEW x \in Doc, NEW I
  PROVE  /\ Diff(x, I) \in Doc
         /\ Diff(x, I).ins = {c \in x.ins : c.id \notin I} /\ Diff(x, I).del = x.del
BY DEF Diff, Doc

\* What is answered is a document, or nothing.
LEMMA AnsweredIs ==
  ASSUME Types, NEW d \in Devices
  PROVE  Answered(d) \in DocOrNone
BY DocOrIs, DiffIs DEF Answered, Types, LocalOK, DocOrNone

\* So is what is pushed.
LEMMA PushedDocIs ==
  ASSUME Types, NEW d \in Devices
  PROVE  /\ PushedDoc(d) \in DocOrNone
         /\ PushedDoc(d) # Absent => /\ Advertised(d) /\ News(d) /\ docs[d] \in Doc
                                    /\ PushedDoc(d) = IF asked[d] THEN Diff(docs[d], told[d]) ELSE docs[d]
         /\ Advertised(d) /\ News(d) => PushedDoc(d) = IF asked[d] THEN Diff(docs[d], told[d]) ELSE docs[d]
<1>1. docs[d] \in DocOrNone
  BY DEF Types, LocalOK
<1>2. CASE Advertised(d) /\ News(d)
  <2>1. docs[d] \in Doc
    BY <1>1, <1>2 DEF Advertised, DocOrNone
  <2>2. PushedDoc(d) = IF asked[d] THEN Diff(docs[d], told[d]) ELSE docs[d]
    BY <1>2 DEF PushedDoc
  <2>3. QED
    BY <1>2, <2>1, <2>2, DiffIs DEF DocOrNone
<1>3. CASE ~(Advertised(d) /\ News(d))
  BY <1>3 DEF PushedDoc, DocOrNone
<1>4. QED
  BY <1>2, <1>3

\* A frame that is read was sent, and the others stay.
LEMMA ReadIs ==
  ASSUME Types, NEW d \in Devices, frames[d] # <<>>, frames' = [frames EXCEPT ![d] = Tail(@)]
  PROVE  /\ frames' \in [Devices -> Seq(Sent)]
         /\ Head(frames[d]) \in Sent
         /\ 1 \in DOMAIN frames[d] /\ Head(frames[d]) = frames[d][1]
         /\ \A o \in Devices : \A i \in DOMAIN frames'[o] :
              \E j \in DOMAIN frames[o] : frames'[o][i] = frames[o][j]
<1>1. frames \in [Devices -> Seq(Sent)]
  BY DEF Types, StreamOK
<1>2. frames[d] \in Seq(Sent) /\ Tail(frames[d]) \in Seq(Sent)
  BY <1>1
<1>3. Head(frames[d]) \in Sent /\ 1 \in DOMAIN frames[d] /\ Head(frames[d]) = frames[d][1]
  BY <1>2
<1>4. \A i \in DOMAIN Tail(frames[d]) : i + 1 \in DOMAIN frames[d] /\ Tail(frames[d])[i] = frames[d][i + 1]
  BY <1>2
<1>5. frames'[d] = Tail(frames[d]) /\ \A o \in Devices : o # d => frames'[o] = frames[o]
  BY <1>1
<1>6. frames' \in [Devices -> Seq(Sent)]
  BY <1>1, <1>2
<1>7. ASSUME NEW o \in Devices, NEW i \in DOMAIN frames'[o]
      PROVE  \E j \in DOMAIN frames[o] : frames'[o][i] = frames[o][j]
  BY <1>4, <1>5
<1>8. QED
  BY <1>3, <1>6, <1>7

-----------------------------------------------------------------------------
(* What the operations on the file, the document and the flushes make      *)

\* ingest_file in terms of what it reads and changes.
LEMMA IngestFileIs ==
  ASSUME FileSyncAssumption, Types, OneEntry, NEW d \in Devices, IngestFile(d)
  PROVE  /\ flag' = [flag EXCEPT ![d] = FALSE]
         /\ docs' = IF Changes(d) THEN [docs EXCEPT ![d] = Merge(DocOr(docs[d]), Change(d))]
                    ELSE IF Reads(d) THEN [docs EXCEPT ![d] = DocOr(docs[d])] ELSE docs
         /\ \/ saved' = IF Changes(d) THEN [saved EXCEPT ![d] = Merge(DocOr(docs[d]), Change(d))] ELSE saved
            \/ saved' = saved /\ missed' = missed + 1
         /\ missed' \in {missed, missed + 1}
         /\ spent' = IF Changes(d) THEN [spent EXCEPT !.chunks[d] = @ + 1] ELSE spent
         /\ Changes(d) => spent.chunks[d] < MaxChunks /\ disk[d].text \in Text /\ Change(d) \in Doc
         /\ DocOr(docs[d]) \in Doc
         /\ \E u \in DocOrNone : /\ u = IF Changes(d) THEN Change(d) ELSE Absent
                                 /\ Broadcast(d, Cleared(d), u, 0)
<1>1. DocOr(docs[d]) \in Doc
  BY DocOrIs DEF Types, LocalOK
<1>2. /\ flag' = [flag EXCEPT ![d] = FALSE]
      /\ docs' = IF Changes(d) THEN [docs EXCEPT ![d] = Merge(DocOr(docs[d]), Change(d))]
                 ELSE IF Reads(d) THEN [docs EXCEPT ![d] = DocOr(docs[d])] ELSE docs
      /\ \/ saved' = IF Changes(d) THEN [saved EXCEPT ![d] = Merge(DocOr(docs[d]), Change(d))] ELSE saved
         \/ saved' = saved /\ missed' = missed + 1
      /\ missed' \in {missed, missed + 1}
      /\ spent' = IF Changes(d) THEN [spent EXCEPT !.chunks[d] = @ + 1] ELSE spent
      /\ Changes(d) => spent.chunks[d] < MaxChunks
      /\ Broadcast(d, Cleared(d), IF Changes(d) THEN Change(d) ELSE Absent, 0)
  BY DEF IngestFile, Changes, Reads, Change, Save, Miss
<1>3. ASSUME Changes(d) PROVE disk[d].text \in Text /\ Change(d) \in Doc
  <2>1. disk[d] \in File
    BY <1>3 DEF Changes, Reads, Types, LocalOK
  <2>2. disk[d].text \in Text
    BY <2>1 DEF File
  <2>3. spent.chunks[d] <= MaxChunks
    BY DEF Types, SpentOK
  <2>4. QED
    BY <1>1, <2>2, <2>3, ReplacementIs DEF Change, Types
<1>4. QED
  BY <1>1, <1>2, <1>3 DEF DocOrNone

-----------------------------------------------------------------------------
(* Types                                                                   *)

\* A budget that is spent stays within its bound.
LEMMA SpendIs ==
  ASSUME FileSyncAssumption, SpentOK, NEW w \in {"writes", "others"}, Spend(w)
  PROVE  /\ spent' \in [writes : Nat, others : Nat, chunks : [Devices -> Nat]]
         /\ spent'.writes + spent'.others <= MaxEvents
         /\ spent'.chunks = spent.chunks
         /\ spent'.writes = spent.writes + (IF w = "writes" THEN 1 ELSE 0)
         /\ spent'.others = spent.others + (IF w = "others" THEN 1 ELSE 0)
<1>1. CASE w = "writes"
  <2>1. spent' = [spent EXCEPT !.writes = @ + 1] /\ spent.writes + spent.others < MaxEvents
    BY <1>1 DEF Spend
  <2>2. MaxEvents \in Nat
    BY DEF FileSyncAssumption
  <2>3. QED
    BY <1>1, <2>1, <2>2 DEF SpentOK
<1>2. CASE w = "others"
  <2>1. spent' = [spent EXCEPT !.others = @ + 1] /\ spent.writes + spent.others < MaxEvents
    BY <1>2 DEF Spend
  <2>2. MaxEvents \in Nat
    BY DEF FileSyncAssumption
  <2>3. QED
    BY <1>2, <2>1, <2>2 DEF SpentOK
<1>3. QED
  BY <1>1, <1>2

\* The flushes of a removed file are late, and are flushes.
LEMMA LateIs ==
  ASSUME Types, NEW d \in Devices, Late(d)
  PROVE  /\ flushes' \in [Devices -> SUBSET Flush]
         /\ \A o \in Devices : o # d => flushes'[o] = flushes[o]
         /\ \A f \in flushes'[d] : f.late /\ \E g \in flushes[d] : f.doc = g.doc /\ f.at = g.at
         /\ flushes'[d] = {} <=> flushes[d] = {}
<1>1. flushes \in [Devices -> SUBSET Flush]
  BY DEF Types, LocalOK
<1>2. flushes' = [flushes EXCEPT ![d] = {[f EXCEPT !.late = TRUE] : f \in flushes[d]}]
  BY DEF Late
<1>3. \A f \in Flush : /\ [f EXCEPT !.late = TRUE] \in Flush
                       /\ [f EXCEPT !.late = TRUE].late
                       /\ [f EXCEPT !.late = TRUE].doc = f.doc
                       /\ [f EXCEPT !.late = TRUE].at = f.at
  BY DEF Flush
<1>4. flushes'[d] = {[f EXCEPT !.late = TRUE] : f \in flushes[d]}
  BY <1>1, <1>2
<1>5. flushes[d] \subseteq Flush
  BY <1>1
<1>6. flushes'[d] \in SUBSET Flush
  BY <1>3, <1>4, <1>5
<1>7. \A o \in Devices : o # d => flushes'[o] = flushes[o]
  BY <1>1, <1>2
<1>8. flushes' \in [Devices -> SUBSET Flush]
  BY <1>1, <1>2, <1>4, <1>6
<1>9. \A f \in flushes'[d] : f.late /\ \E g \in flushes[d] : f.doc = g.doc /\ f.at = g.at
  BY <1>3, <1>4, <1>5
<1>10. flushes'[d] = {} <=> flushes[d] = {}
  BY <1>4
<1>11. QED
  BY <1>7, <1>8, <1>9, <1>10

\* A path that is no longer tracked.
LEMMA UntrackIs ==
  ASSUME Types, NEW d \in Devices, Untrack(d)
  PROVE  /\ docs' = [docs EXCEPT ![d] = Absent] /\ docs' \in [Devices -> DocOrNone]
         /\ saved' = [saved EXCEPT ![d] = Absent] /\ saved' \in [Devices -> DocOrNone]
         /\ flag' = [flag EXCEPT ![d] = FALSE] /\ flag' \in [Devices -> BOOLEAN]
         /\ Late(d) /\ flushes' \in [Devices -> SUBSET Flush]
<1>1. Late(d)
  BY DEF Untrack
<1>2. flushes' \in [Devices -> SUBSET Flush]
  BY <1>1, LateIs
<1>3. QED
  BY <1>1, <1>2 DEF Untrack, Types, LocalOK, DocOrNone

\* Events are added at the end, handled from the front, and dropped.
LEMMA EventsIs ==
  ASSUME Types, NEW d \in Devices
  PROVE  /\ \A e \in {"touch", "remove"} :
              [events EXCEPT ![d] = Append(@, e)] \in [Devices -> Seq({"touch", "remove"})]
         /\ events[d] # <<>> => [events EXCEPT ![d] = Tail(@)] \in [Devices -> Seq({"touch", "remove"})]
         /\ [events EXCEPT ![d] = <<>>] \in [Devices -> Seq({"touch", "remove"})]
<1>1. events \in [Devices -> Seq({"touch", "remove"})]
  BY DEF Types, LocalOK
<1>2. <<>> \in Seq({"touch", "remove"})
  OBVIOUS
<1>3. QED
  BY <1>1, <1>2

\* A path whose file goes as well.
LEMMA RemoveIs ==
  ASSUME Types, NEW d \in Devices, Remove(d)
  PROVE  /\ Untrack(d)
         /\ disk' = [disk EXCEPT ![d] = Absent] /\ disk' \in [Devices -> File \cup {Absent}]
         /\ events' = IF disk[d] = Absent THEN events ELSE [events EXCEPT ![d] = Append(@, "remove")]
         /\ events' \in [Devices -> Seq({"touch", "remove"})]
<1>1. /\ Untrack(d)
      /\ disk' = [disk EXCEPT ![d] = Absent]
      /\ events' = IF disk[d] = Absent THEN events ELSE [events EXCEPT ![d] = Append(@, "remove")]
  BY DEF Remove
<1>2. disk' \in [Devices -> File \cup {Absent}]
  BY <1>1 DEF Types, LocalOK
<1>3. events' \in [Devices -> Seq({"touch", "remove"})]
  <2>1. events \in [Devices -> Seq({"touch", "remove"})]
    BY DEF Types, LocalOK
  <2>2. QED
    BY <1>1, <2>1, EventsIs
<1>4. QED
  BY <1>1, <1>2, <1>3

\* A stream that ends leaves nothing on the way.
LEMMA OffIs ==
  ASSUME Off
  PROVE  /\ stage' \in [Devices -> Stages] /\ asked' \in [Devices -> BOOLEAN] /\ owed' \in [Devices -> BOOLEAN]
         /\ told' \in [Devices -> SUBSET Ids]
         /\ frames' \in [Devices -> Seq(Sent)] /\ deletes' \in [Devices -> Nat]
         /\ \A d \in Devices : stage'[d] = "off" /\ frames'[d] = <<>> /\ deletes'[d] = 0 /\ ~owed'[d]
<1>1. \A d \in Devices : stage'[d] = "off" /\ frames'[d] = <<>> /\ deletes'[d] = 0 /\ ~owed'[d]
  BY DEF Off
<1>2. <<>> \in Seq(Sent)
  OBVIOUS
<1>3. QED
  BY <1>1, <1>2 DEF Off, Stages

\* A file that is read: types.
LEMMA IngestFileTypes ==
  ASSUME FileSyncAssumption, Types, OneEntry, NEW d \in Devices, IngestFile(d)
  PROVE  /\ flag' \in [Devices -> BOOLEAN]
         /\ docs' \in [Devices -> DocOrNone] /\ saved' \in [Devices -> DocOrNone]
         /\ spent' \in [writes : Nat, others : Nat, chunks : [Devices -> Nat]]
         /\ spent'.writes + spent'.others <= MaxEvents
         /\ \A o \in Devices : spent'.chunks[o] <= MaxChunks
         /\ tombs' \in [Devices -> Tomb] /\ frames' \in [Devices -> Seq(Sent)] /\ deletes' \in [Devices -> Nat]
         /\ missed' \in Nat
<1>1. flag' \in [Devices -> BOOLEAN]
  BY IngestFileIs DEF Types, LocalOK
<1>2. DocOr(docs[d]) \in Doc /\ (Changes(d) => Merge(DocOr(docs[d]), Change(d)) \in Doc)
  BY IngestFileIs, MergeIs
<1>3. docs \in [Devices -> DocOrNone] /\ saved \in [Devices -> DocOrNone] /\ Doc \subseteq DocOrNone
  BY DEF Types, LocalOK, DocOrNone
<1>4. docs' \in [Devices -> DocOrNone] /\ saved' \in [Devices -> DocOrNone]
  BY <1>2, <1>3, IngestFileIs
<1>5. /\ spent' \in [writes : Nat, others : Nat, chunks : [Devices -> Nat]]
      /\ spent'.writes + spent'.others <= MaxEvents
      /\ \A o \in Devices : spent'.chunks[o] <= MaxChunks
  <2>1. spent' = IF Changes(d) THEN [spent EXCEPT !.chunks[d] = @ + 1] ELSE spent
    BY IngestFileIs
  <2>2. Changes(d) => spent.chunks[d] < MaxChunks
    BY IngestFileIs
  <2>3. CASE Changes(d)
    BY <2>1, <2>2, <2>3 DEF Types, SpentOK, FileSyncAssumption
  <2>4. CASE ~Changes(d)
    BY <2>1, <2>4 DEF Types, SpentOK
  <2>5. QED
    BY <2>3, <2>4
<1>6. tombs' \in [Devices -> Tomb] /\ frames' \in [Devices -> Seq(Sent)] /\ deletes' \in [Devices -> Nat]
  <2>1. PICK u \in DocOrNone : Broadcast(d, Cleared(d), u, 0)
    BY IngestFileIs
  <2>2. QED
    BY <2>1, ClearedIs, BroadcastIs
<1>7. missed' \in Nat
  BY IngestFileIs DEF Types, SpentOK
<1>8. QED
  BY <1>1, <1>4, <1>5, <1>6, <1>7

\* Every step keeps the types: one step of the proof for each action but Restart.
LEMMA TypesStep ==
  ASSUME FileSyncAssumption, Types, OneEntry, Next, \A d \in Devices : ~Starts(d)
  PROVE  Types'
<1>1. ASSUME NEW d \in Devices, Write(d) PROVE Types'
  <2>1. LocalOK'
    <3>1. events' \in [Devices -> Seq({"touch", "remove"})]
      BY <1>1, EventsIs DEF Write
    <3>2. now' \in Nat /\ {spent.writes + 1} \in Text
      BY <1>1, SpendIs DEF Write, Spend, Types, SpentOK, Text, Versions, FileSyncAssumption
    <3>3. disk' \in [Devices -> File \cup {Absent}]
      BY <1>1, <3>2 DEF Write, Types, LocalOK, File
    <3>4. QED
      BY <1>1, <3>1, <3>3 DEF Write, Types, LocalOK
  <2>2. StreamOK'
    BY <1>1 DEF Write, local, control, session, outgoing, ghosts, Types, StreamOK
  <2>3. ControlOK'
    BY <1>1 DEF Write, local, control, session, outgoing, ghosts, Types, ControlOK
  <2>4. SpentOK'
    <3>1. Spend("writes")
      BY <1>1 DEF Write
    <3>2. QED
      BY <1>1, <3>1, SpendIs DEF Write, ghosts, Types, SpentOK
  <2>5. QED
    BY <2>1, <2>2, <2>3, <2>4 DEF Types
<1>2. ASSUME NEW d \in Devices, Delete(d) PROVE Types'
  <2>1. LocalOK'
    <3>1. Late(d) /\ events' \in [Devices -> Seq({"touch", "remove"})]
      BY <1>2, EventsIs DEF Delete
    <3>2. QED
      BY <1>2, <3>1, LateIs DEF Delete, Types, LocalOK
  <2>2. StreamOK'
    BY <1>2 DEF Delete, local, control, session, outgoing, ghosts, Types, StreamOK
  <2>3. ControlOK'
    BY <1>2 DEF Delete, local, control, session, outgoing, ghosts, Types, ControlOK
  <2>4. SpentOK'
    <3>1. Spend("others")
      BY <1>2 DEF Delete
    <3>2. QED
      BY <1>2, <3>1, SpendIs DEF Delete, ghosts, Types, SpentOK
  <2>5. QED
    BY <2>1, <2>2, <2>3, <2>4 DEF Types
<1>3. ASSUME NEW d \in Devices, Ingest(d) PROVE Types'
  <2>1. LocalOK'
    <3>1. IngestFile(d)
      BY <1>3 DEF Ingest
    <3>2. events' \in [Devices -> Seq({"touch", "remove"})]
      BY <1>3, EventsIs DEF Ingest, Reported, Types, LocalOK, Handled
    <3>3. QED
      BY <1>3, <3>1, <3>2, IngestFileTypes DEF Ingest, Types, LocalOK
  <2>2. StreamOK'
    <3>1. IngestFile(d)
      BY <1>3 DEF Ingest
    <3>2. QED
      BY <1>3, <3>1, IngestFileTypes DEF Ingest, session, Types, StreamOK
  <2>3. ControlOK'
    <3>1. IngestFile(d)
      BY <1>3 DEF Ingest
    <3>2. QED
      BY <1>3, <3>1, IngestFileTypes DEF Ingest, Types, ControlOK
  <2>4. SpentOK'
    <3>1. IngestFile(d)
      BY <1>3 DEF Ingest
    <3>2. deferred' \in BOOLEAN /\ raced' \in BOOLEAN
      BY <1>3 DEF Ingest, ghosts, Types, SpentOK
    <3>3. QED
      BY <1>3, <3>1, <3>2, IngestFileTypes DEF Ingest, ghosts, Types, SpentOK
  <2>5. QED
    BY <2>1, <2>2, <2>3, <2>4 DEF Types
<1>3a. ASSUME NEW d \in Devices, IngestFails(d) PROVE Types'
  <2>1. /\ tombs' \in [Devices -> Tomb] /\ frames' \in [Devices -> Seq(Sent)] /\ deletes' \in [Devices -> Nat]
    <3>1. Broadcast(d, Cleared(d), Absent, 0)
      BY <1>3a DEF IngestFails
    <3>2. QED
      BY <3>1, ClearedIs, BroadcastIs DEF DocOrNone
  <2>2. LocalOK'
    <3>1. events' \in [Devices -> Seq({"touch", "remove"})]
      BY <1>3a, EventsIs DEF IngestFails, Reported, Handled
    <3>2. DocOr(docs[d]) \in Doc
      BY DocOrIs DEF Types, LocalOK
    <3>3. docs' \in [Devices -> DocOrNone]
      BY <1>3a, <3>2 DEF IngestFails, Types, LocalOK, DocOrNone
    <3>4. QED
      BY <1>3a, <3>1, <3>3 DEF IngestFails, Types, LocalOK
  <2>3. StreamOK'
    BY <1>3a, <2>1 DEF IngestFails, session, Types, StreamOK
  <2>4. ControlOK'
    BY <1>3a, <2>1 DEF IngestFails, Types, ControlOK
  <2>5. SpentOK'
    BY <1>3a DEF IngestFails, Miss, Types, SpentOK
  <2>6. QED
    BY <2>2, <2>3, <2>4, <2>5 DEF Types
<1>4. ASSUME NEW d \in Devices, Sweep(d) PROVE Types'
  <2>1. LocalOK'
    <3>1. IngestFile(d)
      BY <1>4 DEF Sweep
    <3>2. events' \in [Devices -> Seq({"touch", "remove"})]
      BY <1>4, EventsIs DEF Sweep, Types, LocalOK
    <3>3. QED
      BY <1>4, <3>1, <3>2, IngestFileTypes DEF Sweep, Types, LocalOK
  <2>2. StreamOK'
    <3>1. IngestFile(d)
      BY <1>4 DEF Sweep
    <3>2. QED
      BY <1>4, <3>1, IngestFileTypes DEF Sweep, session, Types, StreamOK
  <2>3. ControlOK'
    <3>1. IngestFile(d)
      BY <1>4 DEF Sweep
    <3>2. QED
      BY <1>4, <3>1, IngestFileTypes DEF Sweep, Types, ControlOK
  <2>4. SpentOK'
    <3>1. IngestFile(d)
      BY <1>4 DEF Sweep
    <3>2. deferred' \in BOOLEAN /\ raced' \in BOOLEAN
      BY <1>4 DEF Sweep, ghosts, Types, SpentOK
    <3>3. QED
      BY <1>4, <3>1, <3>2, IngestFileTypes DEF Sweep, ghosts, Types, SpentOK
  <2>5. QED
    BY <2>1, <2>2, <2>3, <2>4 DEF Types
<1>5. ASSUME NEW d \in Devices, RecordRemoval(d) PROVE Types'
  <2>1. LocalOK'
    <3>1. Untrack(d) /\ events' \in [Devices -> Seq({"touch", "remove"})]
      BY <1>5, EventsIs DEF RecordRemoval, Handled
    <3>2. QED
      BY <1>5, <3>1, UntrackIs DEF RecordRemoval, Types, LocalOK
  <2>2. StreamOK'
    <3>1. Broadcast(d, Recorded(d), Absent, 1)
      BY <1>5 DEF RecordRemoval
    <3>2. QED
      BY <1>5, <3>1, RecordedIs, BroadcastIs DEF RecordRemoval, session, Types, StreamOK, DocOrNone
  <2>3. ControlOK'
    <3>1. Broadcast(d, Recorded(d), Absent, 1)
      BY <1>5 DEF RecordRemoval
    <3>2. QED
      BY <1>5, <3>1, RecordedIs, BroadcastIs DEF RecordRemoval, Types, ControlOK, DocOrNone
  <2>4. SpentOK'
    BY <1>5 DEF RecordRemoval, local, control, session, outgoing, ghosts, Types, SpentOK
  <2>5. QED
    BY <2>1, <2>2, <2>3, <2>4 DEF Types
<1>6. ASSUME NEW d \in Devices, NEW f \in flushes[d], FlushRead(d, f) PROVE Types'
  <2>1. LocalOK'
    <3>1. f \in Flush /\ flushes[d] \subseteq Flush
      BY DEF Types, LocalOK
    <3>2. [f EXCEPT !.at = "write", !.doc = docs[d]] \in Flush
      BY <1>6, <3>1 DEF FlushRead, Flush, Types, LocalOK, DocOrNone
    <3>3. flushes' \in [Devices -> SUBSET Flush]
      BY <1>6, <3>1, <3>2 DEF FlushRead, Becomes, Types, LocalOK
    <3>4. QED
      BY <1>6, <3>3 DEF FlushRead, Types, LocalOK
  <2>2. StreamOK'
    BY <1>6 DEF FlushRead, local, control, session, outgoing, ghosts, Types, StreamOK
  <2>3. ControlOK'
    BY <1>6 DEF FlushRead, local, control, session, outgoing, ghosts, Types, ControlOK
  <2>4. SpentOK'
    BY <1>6 DEF FlushRead, local, control, session, outgoing, ghosts, Types, SpentOK
  <2>5. QED
    BY <2>1, <2>2, <2>3, <2>4 DEF Types
<1>7. ASSUME NEW d \in Devices, NEW f \in flushes[d], FlushNothing(d, f) PROVE Types'
  <2>1. LocalOK'
    <3>1. flushes' \in [Devices -> SUBSET Flush]
      BY <1>7 DEF FlushNothing, Becomes, Types, LocalOK
    <3>2. QED
      BY <1>7, <3>1 DEF FlushNothing, Types, LocalOK
  <2>2. StreamOK'
    BY <1>7 DEF FlushNothing, local, control, session, outgoing, ghosts, Types, StreamOK
  <2>3. ControlOK'
    BY <1>7 DEF FlushNothing, local, control, session, outgoing, ghosts, Types, ControlOK
  <2>4. SpentOK'
    BY <1>7 DEF FlushNothing, Miss, Types, SpentOK
  <2>5. QED
    BY <2>1, <2>2, <2>3, <2>4 DEF Types
<1>8. ASSUME NEW d \in Devices, NEW f \in flushes[d], FlushWrite(d, f) PROVE Types'
  <2>1. LocalOK'
    <3>1. f \in Flush /\ flushes[d] \subseteq Flush
      BY DEF Types, LocalOK
    <3>2. f.doc \in Doc /\ DocOr(docs[d]) \in Doc
      BY <3>1, DocOrIs DEF Flush, Types, LocalOK
    <3>3. flushes' \in [Devices -> SUBSET Flush]
      BY <1>8 DEF FlushWrite, Becomes, Types, LocalOK
    <3>4. saved' \in [Devices -> DocOrNone]
      BY <1>8, <3>2 DEF FlushWrite, Flushed, Save, Types, LocalOK, DocOrNone
    <3>5. disk' \in [Devices -> File \cup {Absent}]
      <4>1. [text |-> TextOf(f.doc), at |-> now] \in File
        BY <3>2, TextIs DEF File, Types, SpentOK
      <4>2. QED
        BY <1>8, <4>1 DEF FlushWrite, Types, LocalOK
    <3>6. events' \in [Devices -> Seq({"touch", "remove"})]
      <4>1. events[d] \in Seq({"touch", "remove"})
        BY DEF Types, LocalOK
      <4>2. <<"touch", "touch">> \in Seq({"touch", "remove"})
        OBVIOUS
      <4>3. events[d] \o <<"touch", "touch">> \in Seq({"touch", "remove"}) /\ Append(events[d], "touch") \in Seq({"touch", "remove"})
        BY <4>1, <4>2
      <4>4. QED
        BY <1>8, <4>3 DEF FlushWrite, Types, LocalOK
    <3>7. flag' \in [Devices -> BOOLEAN] /\ docs' \in [Devices -> DocOrNone]
      BY <1>8 DEF FlushWrite, Types, LocalOK
    <3>8. QED
      BY <3>3, <3>4, <3>5, <3>6, <3>7 DEF LocalOK
  <2>2. StreamOK'
    BY <1>8 DEF FlushWrite, local, control, session, outgoing, ghosts, Types, StreamOK
  <2>3. ControlOK'
    BY <1>8 DEF FlushWrite, local, control, session, outgoing, ghosts, Types, ControlOK
  <2>4. SpentOK'
    <3>1. spent' = spent \/ Spend("others")
      BY <1>8 DEF FlushWrite
    <3>2. /\ spent' \in [writes : Nat, others : Nat, chunks : [Devices -> Nat]]
          /\ spent'.writes + spent'.others <= MaxEvents
          /\ spent'.chunks = spent.chunks
      BY <3>1, SpendIs DEF Types, SpentOK
    <3>3. QED
      BY <1>8, <3>2 DEF FlushWrite, Save, Miss, Types, SpentOK
  <2>5. QED
    BY <2>1, <2>2, <2>3, <2>4 DEF Types
<1>8a. ASSUME NEW d \in Devices, NEW f \in flushes[d], FlushFails(d, f) PROVE Types'
  <2>1. LocalOK'
    <3>1. f \in Flush /\ flushes[d] \subseteq Flush
      BY DEF Types, LocalOK
    <3>2. f.doc \in Doc /\ DocOr(docs[d]) \in Doc
      BY <3>1, DocOrIs DEF Flush, Types, LocalOK
    <3>3. flushes' \in [Devices -> SUBSET Flush]
      BY <1>8a DEF FlushFails, Becomes, Types, LocalOK
    <3>4. saved' \in [Devices -> DocOrNone]
      BY <1>8a, <3>2 DEF FlushFails, Flushed, Types, LocalOK, DocOrNone
    <3>5. disk' \in [Devices -> File \cup {Absent}]
      <4>1. [text |-> Blank, at |-> now] \in File
        BY DEF File, Types, SpentOK, Blank, Text
      <4>2. QED
        BY <1>8a, <4>1 DEF FlushFails, Types, LocalOK
    <3>6. events' \in [Devices -> Seq({"touch", "remove"})]
      <4>1. events' = events \/ events' = [events EXCEPT ![d] = Append(@, "touch")]
        BY <1>8a DEF FlushFails
      <4>2. QED
        BY <4>1, EventsIs DEF Types, LocalOK
    <3>7. flag' \in [Devices -> BOOLEAN] /\ docs' \in [Devices -> DocOrNone]
      BY <1>8a DEF FlushFails, Types, LocalOK
    <3>8. QED
      BY <3>3, <3>4, <3>5, <3>6, <3>7 DEF LocalOK
  <2>2. StreamOK'
    BY <1>8a DEF FlushFails, local, control, session, outgoing, ghosts, Types, StreamOK
  <2>3. ControlOK'
    BY <1>8a DEF FlushFails, local, control, session, outgoing, ghosts, Types, ControlOK
  <2>4. SpentOK'
    BY <1>8a DEF FlushFails, Miss, Types, SpentOK
  <2>5. QED
    BY <2>1, <2>2, <2>3, <2>4 DEF Types
<1>9. ASSUME NEW d \in Devices, Answer(d) PROVE Types'
  <2>1. LocalOK'
    <3>1. DocOr(docs[d]) \in Doc
      BY DocOrIs DEF Types, LocalOK
    <3>2. docs' \in [Devices -> DocOrNone]
      BY <1>9, <3>1 DEF Answer, Types, LocalOK, DocOrNone
    <3>3. QED
      BY <1>9, <3>2 DEF Answer, Types, LocalOK
  <2>2. StreamOK'
    <3>1. tombs[d] \in Tomb /\ Answered(d) \in DocOrNone /\ IdsOf(DocOr(docs[d])) \in SUBSET Ids
      BY DocOrIs, AnsweredIs, IdsIs DEF Types, LocalOK, ControlOK
    <3>2. frames' \in [Devices -> Seq(Sent)] /\ deletes' = deletes
      BY <1>9, <3>1, SendIs DEF Answer, Answered
    <3>3. QED
      BY <1>9, <3>1, <3>2 DEF Answer, Types, StreamOK, Stages
  <2>3. ControlOK'
    BY <1>9 DEF Answer, local, control, session, outgoing, ghosts, Types, ControlOK
  <2>4. SpentOK'
    BY <1>9 DEF Answer, local, control, session, outgoing, ghosts, Types, SpentOK
  <2>5. QED
    BY <2>1, <2>2, <2>3, <2>4 DEF Types
<1>10. ASSUME NEW d \in Devices, Subscribe(d) PROVE Types'
  <2>1. LocalOK'
    BY <1>10 DEF Subscribe, local, control, session, outgoing, ghosts, Types, LocalOK
  <2>2. StreamOK'
    <3>1. QED
      BY <1>10 DEF Subscribe, outgoing, Types, StreamOK, Stages
  <2>3. ControlOK'
    BY <1>10 DEF Subscribe, local, control, session, outgoing, ghosts, Types, ControlOK
  <2>4. SpentOK'
    BY <1>10 DEF Subscribe, local, control, session, outgoing, ghosts, Types, SpentOK
  <2>5. QED
    BY <2>1, <2>2, <2>3, <2>4 DEF Types
<1>11. ASSUME NEW d \in Devices, Push(d) PROVE Types'
  <2>1. LocalOK'
    BY <1>11 DEF Push, local, control, session, outgoing, ghosts, Types, LocalOK
  <2>2. StreamOK'
    <3>1. tombs[d] \in Tomb /\ PushedDoc(d) \in DocOrNone
      BY PushedDocIs DEF Types, ControlOK
    <3>2. frames' \in [Devices -> Seq(Sent)] /\ deletes' = deletes
      BY <1>11, <3>1, SendIs DEF Push, PushedDoc
    <3>3. QED
      BY <1>11, <3>2 DEF Push, Types, StreamOK, Stages
  <2>3. ControlOK'
    BY <1>11 DEF Push, local, control, session, outgoing, ghosts, Types, ControlOK
  <2>4. SpentOK'
    BY <1>11 DEF Push, local, control, session, outgoing, ghosts, Types, SpentOK
  <2>5. QED
    BY <2>1, <2>2, <2>3, <2>4 DEF Types
<1>12. ASSUME NEW d \in Devices, Reconciles(d) PROVE Types'
  <2>1. LocalOK'
    <3>1. \/ Broadcast(d, Cleared(d), Absent, 0) /\ UNCHANGED local
          \/ UNCHANGED <<tombs, outgoing, local>>
          \/ UNCHANGED <<tombs, outgoing>> /\ Remove(d)
      BY <1>12 DEF Reconciles, Reconcile, local
    <3>2. CASE Remove(d)
      BY <3>2, RemoveIs, UntrackIs DEF LocalOK
    <3>3. CASE UNCHANGED local
      BY <3>3 DEF local, Types, LocalOK
    <3>4. QED
      BY <3>1, <3>2, <3>3 DEF local
  <2>2. StreamOK'
    <3>1. \/ Broadcast(d, Cleared(d), Absent, 0) /\ UNCHANGED local
          \/ UNCHANGED <<tombs, outgoing, local>>
          \/ UNCHANGED <<tombs, outgoing>> /\ Remove(d)
      BY <1>12 DEF Reconciles, Reconcile, local
    <3>2. frames' \in [Devices -> Seq(Sent)] /\ deletes' \in [Devices -> Nat]
      <4>1. CASE Broadcast(d, Cleared(d), Absent, 0)
        BY <4>1, ClearedIs, BroadcastIs DEF DocOrNone
      <4>2. CASE UNCHANGED outgoing
        BY <4>2 DEF outgoing, Types, StreamOK
      <4>3. QED
        BY <3>1, <4>1, <4>2 DEF outgoing
    <3>3. QED
      BY <1>12, <3>2 DEF Reconciles, Reconcile, Types, StreamOK, Stages
  <2>3. ControlOK'
    <3>1. \/ Broadcast(d, Cleared(d), Absent, 0) /\ UNCHANGED local
          \/ UNCHANGED <<tombs, outgoing, local>>
          \/ UNCHANGED <<tombs, outgoing>> /\ Remove(d)
      BY <1>12 DEF Reconciles, Reconcile, local
    <3>2. tombs' \in [Devices -> Tomb]
      <4>1. CASE Broadcast(d, Cleared(d), Absent, 0)
        BY <4>1, ClearedIs, BroadcastIs DEF DocOrNone
      <4>2. CASE tombs' = tombs
        BY <4>2 DEF Types, ControlOK
      <4>3. QED
        BY <3>1, <4>1, <4>2
    <3>3. QED
      BY <1>12, <3>2 DEF Reconciles, Reconcile, Types, ControlOK
  <2>4. SpentOK'
    BY <1>12 DEF Reconciles, Reconcile, local, control, session, outgoing, ghosts, Types, SpentOK
  <2>5. QED
    BY <2>1, <2>2, <2>3, <2>4 DEF Types
<1>13. ASSUME NEW d \in Devices, Receive(d) PROVE Types'
  <2>1. LocalOK'
    <3>1. /\ Head(frames[d]) \in Sent /\ frames' \in [Devices -> Seq(Sent)]
      <4>1. frames[d] # <<>> /\ frames' = [frames EXCEPT ![d] = Tail(@)]
        BY <1>13 DEF Receive, Reading
      <4>2. QED
        BY <4>1, ReadIs
    <3>2. docs' \in [Devices -> DocOrNone] /\ flushes' \in [Devices -> SUBSET Flush]
      <4> DEFINE u == Head(frames[d]).file
      <4>1. \/ docs' = docs /\ (Late(d) \/ flushes' = flushes)
            \/ /\ u # Absent
               /\ docs' = [docs EXCEPT ![d] = Merge(DocOr(@), u)]
               /\ flushes' = [flushes EXCEPT ![d] = @ \cup {Spawned}]
        BY <1>13 DEF Receive
      <4>2. u # Absent => Merge(DocOr(docs[d]), u) \in Doc
        BY <3>1, DocOrIs, MergeIs DEF Sent, DocOrNone, Types, LocalOK
      <4>3. Spawned \in Flush
        BY EmptyDocIs DEF Spawned, Flush
      <4>4. docs \in [Devices -> DocOrNone] /\ flushes \in [Devices -> SUBSET Flush]
        BY DEF Types, LocalOK
      <4> HIDE DEF u
      <4>5. CASE docs' = docs /\ (Late(d) \/ flushes' = flushes)
        BY <4>4, <4>5, LateIs
      <4>6. CASE docs' # docs \/ ~(Late(d) \/ flushes' = flushes)
        BY <4>1, <4>2, <4>3, <4>4, <4>6 DEF DocOrNone
      <4>7. QED
        BY <4>5, <4>6
    <3>3. QED
      BY <1>13, <3>2 DEF Receive, Types, LocalOK
  <2>2. StreamOK'
    <3>1. /\ Head(frames[d]) \in Sent /\ frames' \in [Devices -> Seq(Sent)]
      <4>1. frames[d] # <<>> /\ frames' = [frames EXCEPT ![d] = Tail(@)]
        BY <1>13 DEF Receive, Reading
      <4>2. QED
        BY <4>1, ReadIs
    <3>2. QED
      BY <1>13, <3>1 DEF Receive, Types, StreamOK
  <2>3. ControlOK'
    <3>1. /\ Head(frames[d]) \in Sent /\ frames' \in [Devices -> Seq(Sent)]
      <4>1. frames[d] # <<>> /\ frames' = [frames EXCEPT ![d] = Tail(@)]
        BY <1>13 DEF Receive, Reading
      <4>2. QED
        BY <4>1, ReadIs
    <3>2. tombs[d] \in Tomb /\ Head(frames[d]).control \in Tomb
      BY <3>1 DEF Sent, Types, ControlOK
    <3>3. Joined(tombs[d], Head(frames[d]).control) \in Tomb
      BY <3>2, JoinedIs
    <3>4. QED
      BY <1>13, <3>3 DEF Receive, Types, ControlOK
  <2>4. SpentOK'
    BY <1>13 DEF Receive, local, control, session, outgoing, ghosts, Types, SpentOK
  <2>5. QED
    BY <2>1, <2>2, <2>3, <2>4 DEF Types
<1>14. ASSUME NEW d \in Devices, ReceiveDelete(d) PROVE Types'
  <2>1. LocalOK'
    <3>1. Remove(d)
      BY <1>14 DEF ReceiveDelete
    <3>2. QED
      BY <3>1, RemoveIs, UntrackIs DEF LocalOK
  <2>2. StreamOK'
    <3>1. QED
      BY <1>14 DEF ReceiveDelete, session, Types, StreamOK
  <2>3. ControlOK'
    BY <1>14 DEF ReceiveDelete, local, control, session, outgoing, ghosts, Types, ControlOK
  <2>4. SpentOK'
    BY <1>14 DEF ReceiveDelete, local, control, session, outgoing, ghosts, Types, SpentOK
  <2>5. QED
    BY <2>1, <2>2, <2>3, <2>4 DEF Types
<1>15. ASSUME NEW d \in Devices, DropEvents(d) PROVE Types'
  <2>1. LocalOK'
    <3>1. events' \in [Devices -> Seq({"touch", "remove"})]
      BY <1>15, EventsIs DEF DropEvents
    <3>2. QED
      BY <1>15, <3>1 DEF DropEvents, Types, LocalOK
  <2>2. StreamOK'
    BY <1>15 DEF DropEvents, local, control, session, outgoing, ghosts, Types, StreamOK
  <2>3. ControlOK'
    BY <1>15 DEF DropEvents, local, control, session, outgoing, ghosts, Types, ControlOK
  <2>4. SpentOK'
    <3>1. Spend("others")
      BY <1>15 DEF DropEvents
    <3>2. QED
      BY <1>15, <3>1, SpendIs DEF DropEvents, Types, SpentOK
  <2>5. QED
    BY <2>1, <2>2, <2>3, <2>4 DEF Types
<1>16. ASSUME NEW d \in Devices, LoseDeletes(d) PROVE Types'
  <2>1. LocalOK'
    BY <1>16 DEF LoseDeletes, local, control, session, outgoing, ghosts, Types, LocalOK
  <2>2. StreamOK'
    <3>1. QED
      BY <1>16 DEF LoseDeletes, session, Types, StreamOK
  <2>3. ControlOK'
    BY <1>16 DEF LoseDeletes, local, control, session, outgoing, ghosts, Types, ControlOK
  <2>4. SpentOK'
    <3>1. Spend("others")
      BY <1>16 DEF LoseDeletes
    <3>2. QED
      BY <1>16, <3>1, SpendIs DEF LoseDeletes, Types, SpentOK
  <2>5. QED
    BY <2>1, <2>2, <2>3, <2>4 DEF Types
<1>17. ASSUME Connect PROVE Types'
  <2>1. LocalOK'
    BY <1>17 DEF Connect, local, control, session, outgoing, ghosts, Types, LocalOK
  <2>2. StreamOK'
    <3>1. \A d \in Devices : Advertised(Peer(d)) \in BOOLEAN
      BY DEF Advertised, IsDeleted
    <3>2. IdsOf(DocOr(docs[Initiator])) \in SUBSET Ids
      BY DocOrIs, IdsIs DEF Initiator, Devices, Types, LocalOK
    <3>3. QED
      BY <1>17, <3>1, <3>2 DEF Connect, outgoing, Types, StreamOK, Stages
  <2>3. ControlOK'
    BY <1>17 DEF Connect, local, control, session, outgoing, ghosts, Types, ControlOK
  <2>4. SpentOK'
    BY <1>17 DEF Connect, local, control, session, outgoing, ghosts, Types, SpentOK
  <2>5. QED
    BY <2>1, <2>2, <2>3, <2>4 DEF Types
<1>18. ASSUME Cut PROVE Types'
  <2>1. LocalOK'
    BY <1>18 DEF Cut, local, control, session, outgoing, ghosts, Types, LocalOK
  <2>2. StreamOK'
    <3>1. Off
      BY <1>18 DEF Cut
    <3>2. QED
      BY <3>1, OffIs DEF StreamOK
  <2>3. ControlOK'
    BY <1>18 DEF Cut, local, control, session, outgoing, ghosts, Types, ControlOK
  <2>4. SpentOK'
    <3>1. Spend("others")
      BY <1>18 DEF Cut
    <3>2. QED
      BY <1>18, <3>1, SpendIs DEF Cut, ghosts, Types, SpentOK
  <2>5. QED
    BY <2>1, <2>2, <2>3, <2>4 DEF Types
<1>19. QED
  BY <1>1, <1>2, <1>3, <1>3a, <1>4, <1>5, <1>6, <1>7, <1>8, <1>8a, <1>9, <1>10, <1>11, <1>12, <1>13, <1>14, <1>15, <1>16, <1>17, <1>18 DEF Next, Starts, Reconciles

\* A restart in these terms.
LEMMA RestartIs ==
  ASSUME FileSyncAssumption, Types, OneEntry, NEW d \in Devices, NEW ts \in Remembered(d), NEW kept \in BOOLEAN, Restart(d, ts, kept)
  PROVE  Restarted(d, ts, kept)
<1>1. /\ Off
      /\ Edited(d, ts, kept) => spent.chunks[d] < MaxChunks
      /\ spent' = [spent EXCEPT !.others = @ + 1, !.chunks[d] = IF Edited(d, ts, kept) THEN @ + 1 ELSE @]
      /\ spent.writes + spent.others < MaxEvents
      /\ client' = [client EXCEPT ![d] = Fresh]
      /\ disk' = [disk EXCEPT ![d] = IF Here(d, ts, kept) THEN @ ELSE Absent]
      /\ flag' = [flag EXCEPT ![d] = FALSE] /\ events' = [events EXCEPT ![d] = <<>>]
      /\ flushes' = [flushes EXCEPT ![d] = {}]
      /\ raced' = (raced \/ Unheard(d) \/ Forgets(d) \/ ts # Value(d) \/ (IsDeleted(tombs[d]) /\ kept # Spared(d)))
         /\ UNCHANGED <<now, erased, deferred, missed>>
  BY DEF Restart, Gone, Here, Old, Edited, Edit, Restored, Fresh
<1>2. docs' = [docs EXCEPT ![d] = IF Here(d, ts, kept) THEN Restored(d, ts, kept) ELSE Absent]
  BY DEF Restart, Gone, Here, Old, Edited, Edit, Restored
<1>3. saved' = [saved EXCEPT ![d] = IF Gone(ts, kept) THEN Absent ELSE IF Here(d, ts, kept) THEN Restored(d, ts, kept) ELSE @]
  <2>1. saved' = [saved EXCEPT ![d] = IF Gone(ts, kept) THEN Absent ELSE IF Here(d, ts, kept) THEN docs'[d] ELSE @]
    BY DEF Restart, Gone, Here
  <2>2. docs \in [Devices -> DocOrNone]
    BY DEF Types, LocalOK
  <2>3. Here(d, ts, kept) => docs'[d] = Restored(d, ts, kept)
    BY <1>2, <2>2
  <2>4. QED
    BY <2>1, <2>3
<1>4. Old(d) \in Doc
  BY DocOrIs DEF Old, Types, LocalOK
<1>5. Edited(d, ts, kept) => disk[d].text \in Text
  BY DEF Edited, Here, Types, LocalOK, File
<1>6. Edited(d, ts, kept) => Edit(d) \in Doc
  <2>1. spent.chunks[d] <= MaxChunks
    BY DEF Types, SpentOK
  <2>2. QED
    BY <1>4, <1>5, <2>1, ReplacementIs DEF Edit, Types
<1>7. Restored(d, ts, kept) \in Doc
  BY <1>4, <1>6, MergeIs DEF Restored
<1> DEFINE t == IF ts # NoTime THEN [items |-> {FreshEntry(ts)}, dead |-> {}] ELSE NoTombs
           s == IF ts # NoTime /\ kept THEN [t EXCEPT !.dead = {<<Fresh>>}] ELSE t
<1>8. tombs' = [tombs EXCEPT ![d] = s]
  BY DEF Restart, FreshEntry, Fresh
<1>9. Fresh \in Nat
  BY DEF Fresh, Types, SpentOK
<1>10. ts # NoTime => FreshEntry(ts) \in Item /\ ts \in Nat
  <2>1. ts # NoTime => ts \in Nat
    <3>1. IsDeleted(tombs[d]) => Last(tombs[d]) \in Item
      BY KnownLast DEF IsDeleted
    <3>2. \A e \in tombs[d].items : e.ts \in Nat
      BY DEF Types, ControlOK, Tomb, Item
    <3>3. QED
      BY <3>1, <3>2 DEF Remembered, Value, Item
  <2>2. <<Fresh>> \in Chain
    BY <1>9 DEF Chain
  <2>3. QED
    BY <2>1, <2>2 DEF FreshEntry, Item
<1>11. t \in Tomb /\ t.items = IF ts # NoTime THEN {FreshEntry(ts)} ELSE {}
  <2>1. CASE ts # NoTime
    BY <1>10, <2>1, FS_Singleton DEF Tomb
  <2>2. CASE ts = NoTime
    BY <2>2, NoTombsIs DEF NoTombs
  <2>3. QED
    BY <2>1, <2>2
<1>12. s \in Tomb /\ s.items = t.items
  <2> HIDE DEF t
  <2>1. <<Fresh>> \in Chain
    BY <1>9 DEF Chain
  <2>2. [t EXCEPT !.dead = {<<Fresh>>}] \in Tomb /\ [t EXCEPT !.dead = {<<Fresh>>}].items = t.items
    BY <1>11, <2>1 DEF Tomb
  <2>3. QED
    BY <1>11, <2>2
<1> HIDE DEF s, t
<1>13. tombs \in [Devices -> Tomb]
  BY DEF Types, ControlOK
<1>14. /\ \A o \in Devices : o # d => tombs'[o] = tombs[o]
       /\ tombs'[d].items = IF ts # NoTime THEN {FreshEntry(ts)} ELSE {}
       /\ tombs' \in [Devices -> Tomb]
  BY <1>8, <1>11, <1>12, <1>13
<1>15. QED
  BY <1>1, <1>2, <1>3, <1>4, <1>5, <1>6, <1>7, <1>10, <1>14 DEF Restarted

\* A restart keeps the types.
LEMMA RestartTypes ==
  ASSUME FileSyncAssumption, Types, OneEntry, NEW d \in Devices, NEW ts \in Remembered(d), NEW kept \in BOOLEAN, Restart(d, ts, kept)
  PROVE  Types'
<1>R. Restarted(d, ts, kept)
  BY RestartIs
<1>1. LocalOK'
  <2>1. /\ disk \in [Devices -> File \cup {Absent}]
        /\ docs \in [Devices -> DocOrNone] /\ saved \in [Devices -> DocOrNone]
        /\ flag \in [Devices -> BOOLEAN] /\ flushes \in [Devices -> SUBSET Flush]
        /\ Doc \subseteq DocOrNone /\ Absent \in DocOrNone
    BY DEF Types, LocalOK, DocOrNone
  <2>2. events' \in [Devices -> Seq({"touch", "remove"})]
    BY <1>R, EventsIs DEF Restarted
  <2>3. disk' \in [Devices -> File \cup {Absent}]
    <3>1. disk' = [disk EXCEPT ![d] = IF Here(d, ts, kept) THEN disk[d] ELSE Absent]
      BY <1>R DEF Restarted
    <3>2. QED
      BY <2>1, <3>1
  <2>4. docs' \in [Devices -> DocOrNone]
    BY <2>1, <1>R DEF Restarted
  <2>5. saved' \in [Devices -> DocOrNone]
    BY <2>1, <1>R DEF Restarted
  <2>6. flag' \in [Devices -> BOOLEAN]
    <3>1. flag' = [flag EXCEPT ![d] = FALSE]
      BY <1>R DEF Restarted
    <3>2. QED
      BY <2>1, <3>1
  <2>7. flushes' \in [Devices -> SUBSET Flush]
    <3>1. flushes' = [flushes EXCEPT ![d] = {}]
      BY <1>R DEF Restarted
    <3>2. QED
      BY <2>1, <3>1
  <2>8. QED
    BY <2>2, <2>3, <2>4, <2>5, <2>6, <2>7 DEF LocalOK
<1>2. StreamOK'
  BY <1>R, OffIs DEF Restarted, StreamOK
<1>3. ControlOK'
  <2>1. Fresh \in Nat
    BY DEF Fresh, Types, SpentOK
  <2>2. QED
    BY <2>1, <1>R DEF Restarted, Types, ControlOK
<1>4. SpentOK'
  <2>1. /\ spent' = [spent EXCEPT !.others = @ + 1, !.chunks[d] = IF Edited(d, ts, kept) THEN @ + 1 ELSE @]
        /\ spent.writes + spent.others < MaxEvents /\ (Edited(d, ts, kept) => spent.chunks[d] < MaxChunks)
    BY <1>R DEF Restarted
  <2>2. MaxEvents \in Nat /\ MaxChunks \in Nat
    BY DEF FileSyncAssumption
  <2>3. /\ spent' \in [writes : Nat, others : Nat, chunks : [Devices -> Nat]]
        /\ spent'.writes + spent'.others <= MaxEvents
        /\ \A o \in Devices : spent'.chunks[o] <= MaxChunks
    <3>1. /\ spent \in [writes : Nat, others : Nat, chunks : [Devices -> Nat]]
          /\ spent.chunks \in [Devices -> Nat] /\ \A o \in Devices : spent.chunks[o] <= MaxChunks
      BY DEF Types, SpentOK
    <3> DEFINE c == IF Edited(d, ts, kept) THEN spent.chunks[d] + 1 ELSE spent.chunks[d]
    <3>2. c \in Nat /\ c <= MaxChunks
      BY <2>1, <2>2, <3>1
    <3>3. spent' = [spent EXCEPT !.others = @ + 1, !.chunks[d] = c]
      BY <2>1
    <3> HIDE DEF c
    <3>4. spent' = [writes |-> spent.writes, others |-> spent.others + 1, chunks |-> [spent.chunks EXCEPT ![d] = c]]
      BY <3>1, <3>3
    <3>5. [spent.chunks EXCEPT ![d] = c] \in [Devices -> Nat]
      BY <3>1, <3>2
    <3>6. \A o \in Devices : [spent.chunks EXCEPT ![d] = c][o] <= MaxChunks
      BY <3>1, <3>2
    <3>7. QED
      BY <2>1, <2>2, <3>1, <3>4, <3>5, <3>6
  <2>4. UNCHANGED <<now, erased, deferred, missed>> /\ raced' \in BOOLEAN
    BY <1>R DEF Restarted, Unheard, Forgets, IsDeleted, Types, SpentOK
  <2>5. QED
    BY <2>3, <2>4 DEF Types, SpentOK
<1>5. QED
  BY <1>1, <1>2, <1>3, <1>4 DEF Types

-----------------------------------------------------------------------------
(* Times and the closed stream                                             *)

\* An event that is consumed without the file being read.
LEMMA IngestFailsIs ==
  ASSUME Types, OneEntry, NEW d \in Devices, IngestFails(d)
  PROVE  /\ Broadcast(d, Cleared(d), Absent, 0) /\ Cleared(d) \in Tomb /\ Absent \in DocOrNone
         /\ \/ docs' = docs
            \/ docs' = [docs EXCEPT ![d] = DocOr(docs[d])]
         /\ DocOr(docs[d]) \in Doc
BY ClearedIs, DocOrIs DEF IngestFails, DocOrNone, Types, LocalOK

\* Time goes on, and a file is what it was, goes, or is written by now.
LEMMA TimesStep ==
  ASSUME FileSyncAssumption, Types, OneEntry, Times, Next
  PROVE  Times'
<1> DEFINE Good == now' \in {now, now + 1}
                   /\ \A o \in Devices : \/ disk'[o] = disk[o] \/ disk'[o] = Absent
                                          \/ disk'[o].at <= now'
<1>1. now \in Nat /\ disk \in [Devices -> File \cup {Absent}]
  BY DEF Types, SpentOK, LocalOK
<1>2. ASSUME NEW d \in Devices, Write(d) PROVE Good
  BY <1>1, <1>2 DEF Write
<1>3. ASSUME NEW d \in Devices, Delete(d) PROVE Good
  BY <1>1, <1>3 DEF Delete
<1>4. ASSUME NEW d \in Devices, Ingest(d) PROVE Good
  BY <1>1, <1>4 DEF Ingest, local, outgoing, session, control, ghosts
<1>4a. ASSUME NEW d \in Devices, IngestFails(d) PROVE Good
  BY <1>1, <1>4a DEF IngestFails, local, outgoing, session, control, ghosts
<1>5. ASSUME NEW d \in Devices, RecordRemoval(d) PROVE Good
  BY <1>1, <1>5 DEF RecordRemoval, local, outgoing, session, control, ghosts
<1>6. ASSUME NEW d \in Devices, Sweep(d) PROVE Good
  BY <1>1, <1>6 DEF Sweep, local, outgoing, session, control, ghosts
<1>7. ASSUME NEW d \in Devices, NEW f \in flushes[d], FlushRead(d, f) PROVE Good
  BY <1>1, <1>7 DEF FlushRead, local, outgoing, session, control, ghosts
<1>8. ASSUME NEW d \in Devices, NEW f \in flushes[d], FlushNothing(d, f) PROVE Good
  BY <1>1, <1>8 DEF FlushNothing, local, outgoing, session, control, ghosts
<1>9. ASSUME NEW d \in Devices, NEW f \in flushes[d], FlushWrite(d, f) PROVE Good
  BY <1>1, <1>9 DEF FlushWrite
<1>9a. ASSUME NEW d \in Devices, NEW f \in flushes[d], FlushFails(d, f) PROVE Good
  BY <1>1, <1>9a DEF FlushFails
<1>10. ASSUME NEW d \in Devices, Answer(d) PROVE Good
  BY <1>1, <1>10 DEF Answer, local, outgoing, session, control, ghosts
<1>11. ASSUME NEW d \in Devices, Subscribe(d) PROVE Good
  BY <1>1, <1>11 DEF Subscribe, local, outgoing, session, control, ghosts
<1>12. ASSUME NEW d \in Devices, Push(d) PROVE Good
  BY <1>1, <1>12 DEF Push, local, outgoing, session, control, ghosts
<1>13. ASSUME NEW d \in Devices, Reconciles(d) PROVE Good
  <2>1. Remove(d) \/ disk' = disk
    BY <1>13 DEF Reconciles, Reconcile, local
  <2>2. now' = now
    BY <1>13 DEF Reconciles, Reconcile
  <2>3. QED
    BY <1>1, <2>1, <2>2 DEF Remove
<1>14. ASSUME NEW d \in Devices, Receive(d) PROVE Good
  BY <1>1, <1>14 DEF Receive, local, outgoing, session, control, ghosts
<1>15. ASSUME NEW d \in Devices, ReceiveDelete(d) PROVE Good
  <2>1. Remove(d) /\ now' = now
    BY <1>15 DEF ReceiveDelete
  <2>2. QED
    BY <1>1, <2>1 DEF Remove
<1>16. ASSUME NEW d \in Devices, DropEvents(d) PROVE Good
  BY <1>1, <1>16 DEF DropEvents, local, outgoing, session, control, ghosts
<1>17. ASSUME NEW d \in Devices, LoseDeletes(d) PROVE Good
  BY <1>1, <1>17 DEF LoseDeletes, local, outgoing, session, control, ghosts
<1>18. ASSUME NEW d \in Devices, NEW ts \in Remembered(d), NEW kept \in BOOLEAN, Restart(d, ts, kept) PROVE Good
  <2>R. Restarted(d, ts, kept)
    BY <1>18, RestartIs
  <2>1. disk' = [disk EXCEPT ![d] = IF Here(d, ts, kept) THEN disk[d] ELSE Absent] /\ now' = now
    BY <1>18, <2>R DEF Restarted
  <2>2. QED
    BY <1>1, <2>1
<1>19. ASSUME Connect PROVE Good
  BY <1>1, <1>19 DEF Connect, local, outgoing, session, control, ghosts
<1>20. ASSUME Cut PROVE Good
  BY <1>1, <1>20 DEF Cut, local, outgoing, session, control, ghosts
<1>21. Good
  BY <1>2, <1>3, <1>4, <1>4a, <1>5, <1>6, <1>7, <1>8, <1>9, <1>9a, <1>10, <1>11, <1>12, <1>13, <1>14, <1>15, <1>16, <1>17, <1>18, <1>19, <1>20 DEF Next, Starts, Reconciles
<1>22. \A o \in Devices : disk[o] # Absent => disk[o].at \in Nat
  BY <1>1 DEF File
<1>23. QED
  BY <1>1, <1>21, <1>22 DEF Times

\* What is on the way goes with the stream, and a closed one sends and reads nothing.
LEMMA ClosedStep ==
  ASSUME FileSyncAssumption, Types, OneEntry, Closed, Next
  PROVE  Closed'
<1>1. Devices = {1, 2} /\ 1 \in Devices /\ 2 \in Devices
  BY DEF Devices
<1>2. /\ stage \in [Devices -> Stages] /\ owed \in [Devices -> BOOLEAN]
      /\ \A d \in Devices : stage[d] = "off" => stage[1] = "off" /\ stage[2] = "off"
  BY <1>1 DEF Types, StreamOK, Closed
<1>3. ASSUME NEW d \in Devices, Write(d) PROVE Closed'
  BY <1>3 DEF Write, session, outgoing, Closed
<1>4. ASSUME NEW d \in Devices, Delete(d) PROVE Closed'
  BY <1>4 DEF Delete, session, outgoing, Closed
<1>5. ASSUME NEW d \in Devices, Ingest(d) PROVE Closed'
  <2>1. IngestFile(d) /\ UNCHANGED session
    BY <1>5 DEF Ingest
  <2>2. PICK u \in DocOrNone : Broadcast(d, Cleared(d), u, 0)
    BY <2>1, IngestFileIs
  <2>3. stage[d] = "off" => frames' = frames /\ deletes' = deletes
    BY <2>2, ClearedIs, BroadcastIs
  <2>4. QED
    BY <1>1, <1>2, <2>1, <2>3 DEF session, Closed
<1>5a. ASSUME NEW d \in Devices, IngestFails(d) PROVE Closed'
  <2>1. UNCHANGED session
    BY <1>5a DEF IngestFails
  <2>2. Broadcast(d, Cleared(d), Absent, 0) /\ Cleared(d) \in Tomb /\ Absent \in DocOrNone
    BY <1>5a, IngestFailsIs
  <2>3. stage[d] = "off" => frames' = frames /\ deletes' = deletes
    BY <2>2, BroadcastIs
  <2>4. QED
    BY <1>1, <1>2, <2>1, <2>3 DEF session, Closed
<1>6. ASSUME NEW d \in Devices, RecordRemoval(d) PROVE Closed'
  <2>1. Broadcast(d, Recorded(d), Absent, 1) /\ UNCHANGED session
    BY <1>6 DEF RecordRemoval
  <2>2. stage[d] = "off" => frames' = frames /\ deletes' = deletes
    BY <2>1, RecordedIs, BroadcastIs DEF DocOrNone
  <2>3. QED
    BY <1>1, <1>2, <2>1, <2>2 DEF session, Closed
<1>7. ASSUME NEW d \in Devices, Sweep(d) PROVE Closed'
  <2>1. IngestFile(d) /\ UNCHANGED session
    BY <1>7 DEF Sweep
  <2>2. PICK u \in DocOrNone : Broadcast(d, Cleared(d), u, 0)
    BY <2>1, IngestFileIs
  <2>3. stage[d] = "off" => frames' = frames /\ deletes' = deletes
    BY <2>2, ClearedIs, BroadcastIs
  <2>4. QED
    BY <1>1, <1>2, <2>1, <2>3 DEF session, Closed
<1>8. ASSUME NEW d \in Devices, NEW f \in flushes[d], FlushRead(d, f) PROVE Closed'
  BY <1>8 DEF FlushRead, session, outgoing, Closed
<1>9. ASSUME NEW d \in Devices, NEW f \in flushes[d], FlushNothing(d, f) PROVE Closed'
  BY <1>9 DEF FlushNothing, session, outgoing, Closed
<1>10. ASSUME NEW d \in Devices, NEW f \in flushes[d], FlushWrite(d, f) PROVE Closed'
  BY <1>10 DEF FlushWrite, session, outgoing, Closed
<1>10a. ASSUME NEW d \in Devices, NEW f \in flushes[d], FlushFails(d, f) PROVE Closed'
  BY <1>10a DEF FlushFails, session, outgoing, Closed
<1>11. ASSUME NEW d \in Devices, Answer(d) PROVE Closed'
  <2>1. stage[d] = "answer" /\ stage' = [stage EXCEPT ![d] = "subscribe"]
    BY <1>11 DEF Answer
  <2>2. QED
    BY <1>1, <1>2, <2>1 DEF Closed
<1>12. ASSUME NEW d \in Devices, Subscribe(d) PROVE Closed'
  <2>1. stage[d] = "subscribe" /\ stage' = [stage EXCEPT ![d] = "push"]
    BY <1>12 DEF Subscribe
  <2>2. QED
    BY <1>1, <1>2, <2>1 DEF Closed
<1>13. ASSUME NEW d \in Devices, Push(d) PROVE Closed'
  <2>1. stage[d] = "push" /\ stage' = [stage EXCEPT ![d] = "reconcile"]
    BY <1>13 DEF Push
  <2>2. QED
    BY <1>1, <1>2, <2>1 DEF Closed
<1>14. ASSUME NEW d \in Devices, Reconciles(d) PROVE Closed'
  <2>1. stage[d] = "reconcile" /\ stage' = [stage EXCEPT ![d] = "live"]
    BY <1>14 DEF Reconciles, Reconcile
  <2>2. QED
    BY <1>1, <1>2, <2>1 DEF Closed
<1>15. ASSUME NEW d \in Devices, Receive(d) PROVE Closed'
  <2>1. frames[d] # <<>> /\ stage' = stage
    BY <1>15 DEF Receive, Reading
  <2>2. QED
    BY <1>1, <1>2, <2>1 DEF Closed
<1>16. ASSUME NEW d \in Devices, ReceiveDelete(d) PROVE Closed'
  <2>1. stage[d] = "live" /\ stage' = stage
    BY <1>16 DEF ReceiveDelete, session
  <2>2. QED
    BY <1>1, <1>2, <2>1 DEF Closed
<1>17. ASSUME NEW d \in Devices, DropEvents(d) PROVE Closed'
  BY <1>17 DEF DropEvents, session, outgoing, Closed
<1>18. ASSUME NEW d \in Devices, LoseDeletes(d) PROVE Closed'
  <2>1. deletes[d] > 0 /\ stage' = stage
    BY <1>18 DEF LoseDeletes, session
  <2>2. QED
    BY <1>1, <1>2, <2>1 DEF Closed
<1>19. ASSUME NEW d \in Devices, NEW ts \in Remembered(d), NEW kept \in BOOLEAN, Restart(d, ts, kept) PROVE Closed'
  <2>R. Restarted(d, ts, kept)
    BY <1>19, RestartIs
  <2>Z. QED
    BY <1>1, <1>19, <2>R, OffIs DEF Restarted, Closed
<1>20. ASSUME Connect PROVE Closed'
  BY <1>1, <1>20 DEF Connect, Closed
<1>21. ASSUME Cut PROVE Closed'
  <2>1. Off
    BY <1>21 DEF Cut
  <2>2. QED
    BY <1>1, <2>1, OffIs DEF Closed
<1>22. QED
  BY <1>3, <1>4, <1>5, <1>5a, <1>6, <1>7, <1>8, <1>9, <1>10, <1>10a, <1>11, <1>12, <1>13, <1>14, <1>15, <1>16, <1>17, <1>18, <1>19, <1>20, <1>21 DEF Next, Starts, Reconciles

-----------------------------------------------------------------------------
(* The entries of tombstones                                               *)

\* Entries move along frames and joins.
LEMMA EntriesMove ==
  ASSUME Types,
         \A d \in Devices : tombs'[d] = tombs[d] \/ \E t \in Tomb : /\ tombs'[d] = Joined(tombs[d], t)
                                                                  /\ \A x \in t.items : Afoot(x),
         \A d \in Devices : \A i \in DOMAIN frames'[d] :
           \/ \E j \in DOMAIN frames[d] : frames'[d][i] = frames[d][j]
           \/ \A x \in frames'[d][i].control.items : Afoot(x)
  PROVE  NothingRecorded
<1>1. \A d \in Devices : tombs[d] \in Tomb
  BY DEF Types, ControlOK
<1>2. \A d \in Devices : /\ tombs[d].items \subseteq tombs'[d].items
                         /\ \A x \in tombs'[d].items : x \in tombs[d].items \/ Afoot(x)
  BY <1>1, JoinedIs
<1>3. ASSUME NEW x \in Item, Afoot(x)' PROVE Afoot(x)
  <2>1. PICK d \in Devices : \/ x \in tombs'[d].items
                             \/ \E i \in DOMAIN frames'[d] : x \in frames'[d][i].control.items
    BY <1>3 DEF Afoot
  <2>2. CASE x \in tombs'[d].items
    BY <1>2, <2>2 DEF Afoot
  <2>3. ASSUME NEW i \in DOMAIN frames'[d], x \in frames'[d][i].control.items PROVE Afoot(x)
    <3>1. CASE \E j \in DOMAIN frames[d] : frames'[d][i] = frames[d][j]
      BY <2>3, <3>1 DEF Afoot
    <3>2. CASE \A y \in frames'[d][i].control.items : Afoot(y)
      BY <2>3, <3>2
    <3>3. QED
      BY <3>1, <3>2
  <2>4. QED
    BY <2>1, <2>2, <2>3
<1>4. QED
  BY <1>2, <1>3 DEF NothingRecorded

\* A clearing adds no entry, and what is sent with it has none.
LEMMA ClearingMoves ==
  ASSUME Types, OneEntry, NEW d \in Devices, NEW u \in DocOrNone, Broadcast(d, Cleared(d), u, 0)
  PROVE  NothingRecorded
<1>1. Cleared(d) \in Tomb /\ Cleared(d).items = {}
  BY ClearedIs
<1>2. /\ tombs' = [tombs EXCEPT ![d] = Joined(tombs[d], Cleared(d))]
      /\ \A o \in Devices : \A i \in DOMAIN frames'[o] :
           \/ i \in DOMAIN frames[o] /\ frames'[o][i] = frames[o][i]
           \/ frames'[o][i] = Frame(Cleared(d), u)
  BY <1>1, BroadcastIs
<1>3. Frame(Cleared(d), u).control = Cleared(d)
  BY <1>1, FrameIs
<1>4. tombs \in [Devices -> Tomb]
  BY DEF Types, ControlOK
<1>5. \A o \in Devices : tombs'[o] = tombs[o] \/ \E t \in Tomb : /\ tombs'[o] = Joined(tombs[o], t)
                                                               /\ \A x \in t.items : Afoot(x)
  BY <1>1, <1>2, <1>4
<1>6. \A o \in Devices : \A i \in DOMAIN frames'[o] :
        \/ \E j \in DOMAIN frames[o] : frames'[o][i] = frames[o][j]
        \/ \A x \in frames'[o][i].control.items : Afoot(x)
  BY <1>1, <1>2, <1>3
<1>7. QED
  BY <1>5, <1>6, EntriesMove

\* A device sends what it knows.
LEMMA SendingMoves ==
  ASSUME Types, NEW d \in Devices, NEW u \in DocOrNone, Send(d, Frame(tombs[d], u)), UNCHANGED tombs
  PROVE  NothingRecorded
<1>1. tombs[d] \in Tomb
  BY DEF Types, ControlOK
<1>2. \A o \in Devices : \A i \in DOMAIN frames'[o] :
        \/ i \in DOMAIN frames[o] /\ frames'[o][i] = frames[o][i]
        \/ frames'[o][i] = Frame(tombs[d], u)
  BY <1>1, SendIs
<1>3. Frame(tombs[d], u).control = tombs[d]
  BY <1>1, FrameIs
<1>4. \A x \in tombs[d].items : Afoot(x)
  BY DEF Afoot
<1>5. \A o \in Devices : \A i \in DOMAIN frames'[o] :
        \/ \E j \in DOMAIN frames[o] : frames'[o][i] = frames[o][j]
        \/ \A x \in frames'[o][i].control.items : Afoot(x)
  BY <1>2, <1>3, <1>4
<1>6. QED
  BY <1>5, EntriesMove

\* Only a removal and a restart make entries.
LEMMA EntriesStep ==
  ASSUME FileSyncAssumption, Types, OneEntry, Next, \A d \in Devices : ~RecordRemoval(d) /\ ~Starts(d)
  PROVE  /\ NothingRecorded
         /\ client' = client
         /\ spent'.others >= spent.others
<1> DEFINE Good == NothingRecorded /\ client' = client
<1>0. ASSUME UNCHANGED <<tombs, frames>> PROVE NothingRecorded
  BY <1>0 DEF NothingRecorded, Afoot
<1>1. ASSUME NEW d \in Devices, Write(d) PROVE Good
  BY <1>0, <1>1 DEF Write, control, outgoing
<1>2. ASSUME NEW d \in Devices, Delete(d) PROVE Good
  BY <1>0, <1>2 DEF Delete, control, outgoing
<1>3. ASSUME NEW d \in Devices, Ingest(d) PROVE Good
  <2>1. IngestFile(d) /\ UNCHANGED client
    BY <1>3 DEF Ingest
  <2>2. PICK u \in DocOrNone : Broadcast(d, Cleared(d), u, 0)
    BY <2>1, IngestFileIs
  <2>3. QED
    BY <2>1, <2>2, ClearingMoves
<1>3a. ASSUME NEW d \in Devices, IngestFails(d) PROVE Good
  <2>1. UNCHANGED client
    BY <1>3a DEF IngestFails
  <2>2. Broadcast(d, Cleared(d), Absent, 0) /\ Absent \in DocOrNone
    BY <1>3a, IngestFailsIs
  <2>3. QED
    BY <2>1, <2>2, ClearingMoves
<1>4. ASSUME NEW d \in Devices, Sweep(d) PROVE Good
  <2>1. IngestFile(d) /\ UNCHANGED client
    BY <1>4 DEF Sweep
  <2>2. PICK u \in DocOrNone : Broadcast(d, Cleared(d), u, 0)
    BY <2>1, IngestFileIs
  <2>3. QED
    BY <2>1, <2>2, ClearingMoves
<1>5. ASSUME NEW d \in Devices, NEW f \in flushes[d], FlushRead(d, f) PROVE Good
  BY <1>0, <1>5 DEF FlushRead, control, outgoing
<1>6. ASSUME NEW d \in Devices, NEW f \in flushes[d], FlushNothing(d, f) PROVE Good
  BY <1>0, <1>6 DEF FlushNothing, control, outgoing
<1>7. ASSUME NEW d \in Devices, NEW f \in flushes[d], FlushWrite(d, f) PROVE Good
  BY <1>0, <1>7 DEF FlushWrite, control, outgoing
<1>7a. ASSUME NEW d \in Devices, NEW f \in flushes[d], FlushFails(d, f) PROVE Good
  BY <1>0, <1>7a DEF FlushFails, control, outgoing
<1>8. ASSUME NEW d \in Devices, Answer(d) PROVE Good
  <2>1. Answered(d) \in DocOrNone
    BY AnsweredIs
  <2>2. QED
    BY <1>8, <2>1, SendingMoves DEF Answer, Answered, control
<1>9. ASSUME NEW d \in Devices, Subscribe(d) PROVE Good
  BY <1>0, <1>9 DEF Subscribe, control, outgoing
<1>10. ASSUME NEW d \in Devices, Push(d) PROVE Good
  <2>1. PushedDoc(d) \in DocOrNone
    BY PushedDocIs
  <2>2. QED
    BY <1>10, <2>1, SendingMoves DEF Push, PushedDoc, control
<1>11. ASSUME NEW d \in Devices, Reconciles(d) PROVE Good
  <2>1. UNCHANGED client /\ (Broadcast(d, Cleared(d), Absent, 0) \/ UNCHANGED <<tombs, frames>>)
    BY <1>11 DEF Reconciles, Reconcile, outgoing
  <2>2. QED
    BY <1>0, <2>1, ClearingMoves DEF DocOrNone
<1>12. ASSUME NEW d \in Devices, Receive(d) PROVE Good
  <2>1. /\ frames[d] # <<>> /\ frames' = [frames EXCEPT ![d] = Tail(@)]
        /\ tombs' = [tombs EXCEPT ![d] = Joined(tombs[d], Head(frames[d]).control)] /\ UNCHANGED client
    BY <1>12 DEF Receive, Reading
  <2>2. Head(frames[d]).control \in Tomb /\ \A x \in Head(frames[d]).control.items : Afoot(x)
    BY <2>1, ReadIs DEF Sent, Afoot
  <2>3. \A o \in Devices : \A i \in DOMAIN frames'[o] : \E j \in DOMAIN frames[o] : frames'[o][i] = frames[o][j]
    BY <2>1, ReadIs
  <2>4. tombs \in [Devices -> Tomb]
    BY DEF Types, ControlOK
  <2>5. \A o \in Devices : tombs'[o] = tombs[o] \/ \E t \in Tomb : /\ tombs'[o] = Joined(tombs[o], t)
                                                                 /\ \A x \in t.items : Afoot(x)
    BY <2>1, <2>2, <2>4
  <2>6. NothingRecorded
    BY <2>3, <2>5, EntriesMove
  <2>7. QED
    BY <2>1, <2>6
<1>13. ASSUME NEW d \in Devices, ReceiveDelete(d) PROVE Good
  BY <1>0, <1>13 DEF ReceiveDelete, control, outgoing
<1>14. ASSUME NEW d \in Devices, DropEvents(d) PROVE Good
  BY <1>0, <1>14 DEF DropEvents, control, outgoing
<1>15. ASSUME NEW d \in Devices, LoseDeletes(d) PROVE Good
  BY <1>0, <1>15 DEF LoseDeletes, control, outgoing
<1>16. ASSUME Connect PROVE Good
  BY <1>0, <1>16 DEF Connect, control, outgoing
<1>17. ASSUME Cut PROVE Good
  <2>1. Off /\ UNCHANGED <<tombs, client>>
    BY <1>17 DEF Cut, control
  <2>2. \A o \in Devices : DOMAIN frames'[o] = {}
    BY <2>1, OffIs
  <2>3. NothingRecorded
    BY <2>1, <2>2, EntriesMove
  <2>4. QED
    BY <2>1, <2>3
<1>18. Good
  BY <1>1, <1>2, <1>3, <1>3a, <1>4, <1>5, <1>6, <1>7, <1>7a, <1>8, <1>9, <1>10, <1>11, <1>12, <1>13, <1>14, <1>15, <1>16, <1>17 DEF Next, Starts, Reconciles
<1>19. spent'.others >= spent.others
  <2>1. \/ spent' = spent \/ Spend("writes") \/ Spend("others")
        \/ \E d \in Devices : spent' = [spent EXCEPT !.chunks[d] = @ + 1]
    <3>1. ASSUME NEW d \in Devices, Ingest(d) \/ Sweep(d)
          PROVE  spent' = spent \/ spent' = [spent EXCEPT !.chunks[d] = @ + 1]
      BY <3>1 DEF Ingest, Sweep, IngestFile
    <3>2. ASSUME NEW d \in Devices, Write(d) PROVE spent' = spent \/ Spend("writes") \/ Spend("others")
      BY <3>2 DEF Write
    <3>3. ASSUME NEW d \in Devices, Delete(d) PROVE spent' = spent \/ Spend("writes") \/ Spend("others")
      BY <3>3 DEF Delete
    <3>4. ASSUME NEW d \in Devices, NEW f \in flushes[d], FlushRead(d, f) PROVE spent' = spent \/ Spend("writes") \/ Spend("others")
      BY <3>4 DEF FlushRead
    <3>5. ASSUME NEW d \in Devices, NEW f \in flushes[d], FlushNothing(d, f) PROVE spent' = spent \/ Spend("writes") \/ Spend("others")
      BY <3>5 DEF FlushNothing
    <3>6. ASSUME NEW d \in Devices, NEW f \in flushes[d], FlushWrite(d, f) PROVE spent' = spent \/ Spend("writes") \/ Spend("others")
      BY <3>6 DEF FlushWrite
    <3>6a. ASSUME NEW d \in Devices, NEW f \in flushes[d], FlushFails(d, f) PROVE spent' = spent \/ Spend("writes") \/ Spend("others")
      BY <3>6a DEF FlushFails
    <3>7. ASSUME NEW d \in Devices, Answer(d) PROVE spent' = spent \/ Spend("writes") \/ Spend("others")
      BY <3>7 DEF Answer
    <3>8. ASSUME NEW d \in Devices, Subscribe(d) PROVE spent' = spent \/ Spend("writes") \/ Spend("others")
      BY <3>8 DEF Subscribe
    <3>9. ASSUME NEW d \in Devices, Push(d) PROVE spent' = spent \/ Spend("writes") \/ Spend("others")
      BY <3>9 DEF Push
    <3>10. ASSUME NEW d \in Devices, Reconciles(d) PROVE spent' = spent \/ Spend("writes") \/ Spend("others")
      BY <3>10 DEF Reconciles, Reconcile
    <3>11. ASSUME NEW d \in Devices, Receive(d) PROVE spent' = spent \/ Spend("writes") \/ Spend("others")
      BY <3>11 DEF Receive
    <3>12. ASSUME NEW d \in Devices, ReceiveDelete(d) PROVE spent' = spent \/ Spend("writes") \/ Spend("others")
      BY <3>12 DEF ReceiveDelete
    <3>13. ASSUME NEW d \in Devices, DropEvents(d) PROVE spent' = spent \/ Spend("writes") \/ Spend("others")
      BY <3>13 DEF DropEvents
    <3>14. ASSUME NEW d \in Devices, LoseDeletes(d) PROVE spent' = spent \/ Spend("writes") \/ Spend("others")
      BY <3>14 DEF LoseDeletes
    <3>15. ASSUME Connect PROVE spent' = spent \/ Spend("writes") \/ Spend("others")
      BY <3>15 DEF Connect
    <3>16. ASSUME Cut PROVE spent' = spent \/ Spend("writes") \/ Spend("others")
      BY <3>16 DEF Cut
    <3>16a. ASSUME NEW d \in Devices, IngestFails(d) PROVE spent' = spent \/ Spend("writes") \/ Spend("others")
      BY <3>16a DEF IngestFails
    <3>17. QED
      BY <3>16a, <3>1, <3>2, <3>3, <3>4, <3>5, <3>6, <3>6a, <3>7, <3>8, <3>9, <3>10, <3>11, <3>12, <3>13, <3>14, <3>15, <3>16 DEF Next, Starts, Reconciles
  <2>2. ASSUME NEW d \in Devices, spent' = [spent EXCEPT !.chunks[d] = @ + 1] PROVE spent'.others = spent.others
    BY <2>2 DEF Types, SpentOK
  <2>3. spent.others \in Nat
    BY DEF Types, SpentOK
  <2>4. QED
    BY <2>1, <2>2, <2>3, SpendIs DEF Types
<1>20. QED
  BY <1>18, <1>19

\* A chain that is continued is after what it continues.
LEMMA BeforeAppended ==
  ASSUME NEW c \in Chain, NEW n \in Nat
  PROVE  Append(c, n) \in Chain /\ Before(c, Append(c, n))
<1>1. /\ Append(c, n) \in Chain /\ Len(Append(c, n)) = Len(c) + 1 /\ Len(c) \in Nat
      /\ \A k \in 1 .. Len(c) : Append(c, n)[k] = c[k]
  BY DEF Chain
<1>2. Extends(Append(c, n), c)
  <2> DEFINE a == Append(c, n)
  <2>1. a \in Chain /\ Len(c) < Len(a) /\ \A k \in 1 .. Len(c) : c[k] = a[k]
    BY <1>1
  <2> HIDE DEF a
  <2>2. Extends(a, c)
    BY <2>1, ExtendsIs
  <2>3. QED
    BY <2>2 DEF a
<1>3. QED
  BY <1>1, <1>2, BeforeIs

\* The entry that a device records is put after all it knows, and so it is a new one.
LEMMA NewEntryIsNew ==
  ASSUME Types, OneEntry, Entries, NEW d \in Devices, NEW x \in Item, Afoot(x)
  PROVE  x.chain # NewEntry(d).chain
<1> DEFINE n == NewEntry(d)
           last == Last(tombs[d])
<1>1. SUFFICES ASSUME x.chain = n.chain PROVE FALSE
  OBVIOUS
<1>2. n \in Item /\ Author(n) = client[d]
  BY RecordedIs
<1>3. x \in tombs[d].items
  BY <1>1, <1>2 DEF Entries, Author
<1>4. last \in Item /\ (x = last \/ Before(x.chain, last.chain))
  BY <1>3, KnownLast
<1>5. n.chain = Append(last.chain, client[d])
  BY <1>3 DEF NewEntry
<1>6. last.chain \in Chain /\ x.chain \in Chain /\ client[d] \in Nat
  BY <1>4 DEF Item, Types, ControlOK
<1> HIDE DEF n, last
<1>7. Before(last.chain, x.chain)
  BY <1>1, <1>5, <1>6, BeforeAppended
<1>8. Before(x.chain, x.chain)
  BY <1>4, <1>6, <1>7, BeforeTransitive
<1>9. QED
  BY <1>6, <1>8, BeforeIrreflexive

\* Entries stay apart: a device knows what its client made, and puts a new entry after all it knows.
LEMMA EntriesKept ==
  ASSUME FileSyncAssumption, Types, OneEntry, Clients, Entries, Next
  PROVE  OneEntry' /\ Clients' /\ Entries'
<1>1. /\ Devices = {1, 2} /\ client \in [Devices -> Nat]
      /\ spent.others \in Nat /\ tombs \in [Devices -> Tomb]
  BY DEF Devices, Types, ControlOK, SpentOK
<1>2. \A x \in Item : x.chain \in Chain /\ \A i \in 1 .. Len(x.chain) : x.chain[i] \in Nat
  BY DEF Item, Chain
<1>3. CASE \A d \in Devices : ~RecordRemoval(d) /\ ~Starts(d)
  <2>1. /\ \A d \in Devices : tombs[d].items \subseteq tombs'[d].items
        /\ \A x \in Item : Afoot(x)' => Afoot(x)
        /\ client' = client /\ spent'.others >= spent.others
    BY <1>3, EntriesStep DEF NothingRecorded
  <2>2. OneEntry'
    BY <2>1 DEF OneEntry
  <2>3. spent'.others \in Nat
    <3>1. Types'
      BY <1>3, TypesStep
    <3>2. QED
      BY <3>1 DEF Types, SpentOK
  <2>4. Clients'
    BY <1>1, <2>1, <2>3 DEF Clients
  <2>5. ASSUME NEW x \in Item, Afoot(x)'
        PROVE  /\ Len(x.chain) \in 1 .. MaxTombstones
               /\ Author(x) < 3 + spent'.others
               /\ \A d \in Devices : Author(x) = client'[d] => x \in tombs'[d].items
    <3>1. Author(x) \in Nat
      BY <1>2, <2>1, <2>5 DEF Entries, Author
    <3>2. QED
      BY <1>1, <2>1, <2>3, <2>5, <3>1 DEF Entries
  <2>6. QED
    BY <2>2, <2>4, <2>5 DEF Entries, Author
<1>4. ASSUME NEW d \in Devices, RecordRemoval(d) PROVE OneEntry' /\ Clients' /\ Entries'
  <2> DEFINE n == NewEntry(d)
  <2>1. /\ Broadcast(d, Recorded(d), Absent, 1) /\ client' = client /\ spent' = spent
        /\ tombs[d].items # {} => Len(Last(tombs[d]).chain) < MaxTombstones
    BY <1>4 DEF RecordRemoval
  <2>2. /\ Recorded(d) \in Tomb /\ n \in Item /\ Recorded(d).items = {n} /\ Author(n) = client[d]
        /\ Len(n.chain) = 1 + IF tombs[d].items = {} THEN 0 ELSE Len(Last(tombs[d]).chain)
    BY RecordedIs
  <2>3. /\ tombs' = [tombs EXCEPT ![d] = Joined(tombs[d], Recorded(d))]
        /\ \A o \in Devices : \A i \in DOMAIN frames'[o] :
             \/ i \in DOMAIN frames[o] /\ frames'[o][i] = frames[o][i]
             \/ frames'[o][i] = Frame(Recorded(d), Absent)
    <3>1. Absent \in DocOrNone /\ Recorded(d) \in Tomb
      BY <2>2 DEF DocOrNone
    <3>2. Broadcast(d, Recorded(d), Absent, 1)
      BY <2>1
    <3> HIDE DEF n
    <3>3. QED
      BY <3>1, <3>2, BroadcastIs
  <2>4. Frame(Recorded(d), Absent).control = Recorded(d)
    BY <2>2, FrameIs DEF DocOrNone
  <2>5. /\ tombs'[d].items = tombs[d].items \cup {n}
        /\ \A o \in Devices : o # d => tombs'[o] = tombs[o]
    BY <1>1, <2>2, <2>3, JoinedIs
  <2> HIDE DEF n
  <2>6. \A x \in Item : Afoot(x)' => Afoot(x) \/ x = n
    BY <2>2, <2>3, <2>4, <2>5 DEF Afoot
  <2>7. Len(n.chain) \in 1 .. MaxTombstones
    <3>1. tombs[d].items # {} => Last(tombs[d]).chain \in Chain
      BY KnownLast DEF Item
    <3>2. tombs[d].items # {} => Len(Last(tombs[d]).chain) \in Nat
      BY <3>1 DEF Chain
    <3>3. MaxTombstones \in Nat /\ MaxTombstones > 0
      BY DEF FileSyncAssumption
    <3>4. QED
      BY <2>1, <2>2, <3>2, <3>3
  <2>8. ASSUME NEW x \in Item, Afoot(x), x.chain = n.chain PROVE FALSE
    BY <2>8, NewEntryIsNew DEF n
  <2>9. OneEntry'
    BY <2>6, <2>8 DEF OneEntry
  <2>10. Clients'
    BY <2>1 DEF Clients
  <2>11. ASSUME NEW x \in Item, Afoot(x)'
         PROVE  /\ Len(x.chain) \in 1 .. MaxTombstones
                /\ Author(x) < 3 + spent'.others
                /\ \A o \in Devices : Author(x) = client'[o] => x \in tombs'[o].items
    <3>1. CASE x = n
      <4>1. client[d] < 3 + spent.others /\ \A o \in Devices : client[o] = client[d] => o = d
        BY <1>1 DEF Clients
      <4>2. QED
        BY <2>1, <2>2, <2>5, <2>7, <3>1, <4>1
    <3>2. CASE x # n
      BY <2>1, <2>5, <2>6, <2>11, <3>2 DEF Entries
    <3>3. QED
      BY <3>1, <3>2
  <2>12. QED
    BY <2>9, <2>10, <2>11 DEF Entries, Author
<1>5. ASSUME NEW d \in Devices, NEW ts \in Remembered(d), NEW kept \in BOOLEAN, Restart(d, ts, kept) PROVE OneEntry' /\ Clients' /\ Entries'
  <2>R. Restarted(d, ts, kept)
    BY <1>5, RestartIs
  <2> DEFINE n == FreshEntry(ts)
  <2>1. /\ client' = [client EXCEPT ![d] = Fresh] /\ Off
        /\ \A o \in Devices : o # d => tombs'[o] = tombs[o]
        /\ tombs'[d].items = IF ts # NoTime THEN {n} ELSE {}
        /\ ts # NoTime => n \in Item
    BY <1>5, <2>R DEF Restarted
  <2>2. spent'.others = spent.others + 1
    <3>1. spent' = [spent EXCEPT !.others = @ + 1, !.chunks[d] = IF Edited(d, ts, kept) THEN @ + 1 ELSE @]
      BY <1>5, <2>R DEF Restarted
    <3>2. QED
      BY <3>1 DEF Types, SpentOK
  <2>3. n.chain = <<Fresh>> /\ Len(n.chain) = 1 /\ Author(n) = Fresh
    BY DEF FreshEntry, Author
  <2>4. Fresh = 3 + spent.others
    BY DEF Fresh
  <2> HIDE DEF n
  <2>5. \A x \in Item : Afoot(x)' => \/ x = n /\ x \in tombs'[d].items
                                     \/ Afoot(x)
    <3>1. \A o \in Devices : DOMAIN frames'[o] = {}
      BY <2>1, OffIs
    <3>2. QED
      BY <2>1, <3>1 DEF Afoot
  <2>6. \A x \in Item : Afoot(x) => Author(x) < Fresh /\ x.chain # n.chain
    BY <2>3, <2>4 DEF Entries, Author
  <2>7. OneEntry'
    BY <2>5, <2>6 DEF OneEntry
  <2>8. /\ client'[d] = Fresh
        /\ \A o \in Devices : o # d => client'[o] = client[o] /\ client[o] < Fresh
    BY <1>1, <2>1, <2>4 DEF Clients
  <2>9. Clients'
    <3>1. Fresh < 3 + spent'.others
      BY <1>1, <2>2, <2>4
    <3>2. \A o \in Devices : client'[o] < 3 + spent'.others
      BY <1>1, <2>2, <2>4, <2>8, <3>1
    <3>3. client'[1] # client'[2]
      BY <1>1, <2>4, <2>8
    <3>4. QED
      BY <3>2, <3>3 DEF Clients
  <2>10. ASSUME NEW x \in Item, Afoot(x)'
         PROVE  /\ Len(x.chain) \in 1 .. MaxTombstones
                /\ Author(x) < 3 + spent'.others
                /\ \A o \in Devices : Author(x) = client'[o] => x \in tombs'[o].items
    <3>1. CASE x = n /\ x \in tombs'[d].items
      <4>1. \A o \in Devices : client'[o] = Fresh => o = d
        BY <1>1, <2>4, <2>8
      <4>2. 1 \in 1 .. MaxTombstones
        BY DEF FileSyncAssumption
      <4>3. Author(x) < 3 + spent'.others
        BY <1>1, <2>2, <2>3, <2>4, <3>1
      <4>4. Len(x.chain) \in 1 .. MaxTombstones
        BY <2>3, <3>1, <4>2
      <4>5. \A o \in Devices : Author(x) = client'[o] => x \in tombs'[o].items
        BY <2>3, <3>1, <4>1
      <4>6. QED
        BY <4>3, <4>4, <4>5
    <3>2. CASE Afoot(x)
      <4>1. Author(x) < Fresh /\ Len(x.chain) \in 1 .. MaxTombstones
        BY <2>6, <3>2 DEF Entries
      <4>2. Author(x) \in Nat
        BY <1>2, <4>1 DEF Author
      <4>3. \A o \in Devices : Author(x) = client'[o] => x \in tombs'[o].items
        BY <1>1, <2>1, <2>4, <2>8, <3>2, <4>1, <4>2 DEF Entries
      <4>4. QED
        BY <1>1, <2>2, <2>4, <4>1, <4>2, <4>3
    <3>3. QED
      BY <2>5, <2>10, <3>1, <3>2
  <2>11. QED
    BY <2>7, <2>9, <2>10 DEF Entries, Author
<1>6. QED
  BY <1>3, <1>4, <1>5 DEF Starts

-----------------------------------------------------------------------------
(* Documents and their chunks                                              *)

\* A document in use is made of what documents have.
LEMMA InUseIsOld == \A x : InUse(x) => OldDoc(x)
BY DEF OldDoc, HasChunk, HasId

\* So is one that has nothing.
LEMMA NothingIsOld == OldDoc(Absent) /\ OldDoc(EmptyDoc)
BY AbsentIsNoRecord DEF OldDoc, EmptyDoc

\* So is every document of a device, a flush or a frame.
LEMMA HereIsOld ==
  /\ \A d \in Devices : OldDoc(docs[d]) /\ OldDoc(saved[d]) /\ OldDoc(DocOr(docs[d])) /\ OldDoc(DocOr(saved[d]))
  /\ \A d \in Devices : \A f \in flushes[d] : OldDoc(f.doc)
  /\ \A d \in Devices : \A i \in DOMAIN frames[d] : OldDoc(frames[d][i].file)
<1>1. /\ \A d \in Devices : InUse(docs[d]) /\ InUse(saved[d])
      /\ \A d \in Devices : \A f \in flushes[d] : InUse(f.doc)
      /\ \A d \in Devices : \A i \in DOMAIN frames[d] : InUse(frames[d][i].file)
  BY DEF InUse
<1>2. QED
  BY <1>1, InUseIsOld, NothingIsOld DEF DocOr

\* Merging makes nothing new.
LEMMA MergeIsOld ==
  ASSUME NEW x \in Doc, NEW y \in Doc, OldDoc(x), OldDoc(y)
  PROVE  OldDoc(Merge(x, y))
BY MergeIs DEF OldDoc

\* Nor does a diff.
LEMMA DiffIsOld ==
  ASSUME NEW x \in Doc, OldDoc(x), NEW I
  PROVE  OldDoc(Diff(x, I))
BY DiffIs DEF OldDoc

\* What replaces the text of an old document adds one chunk.
LEMMA ReplacementIsNew ==
  ASSUME FileSyncAssumption, SpentOK, NEW d \in Devices, NEW x \in Doc, NEW text \in Text,
         spent.chunks[d] <= MaxChunks, OldDoc(x)
  PROVE  LET n == NewChunk(d, x, text)
             u == Replacement(d, x, text)
         IN  NewDoc(u, n) /\ NewDoc(Merge(x, u), n) /\ \A i \in n.after : HasId(i)
<1> DEFINE n == NewChunk(d, x, text)
           u == Replacement(d, x, text)
<1>1. u \in Doc /\ u.ins \subseteq {n} /\ u.del = {c.id : c \in Seen(x)}
  BY ReplacementIs
<1>2. n.after = IdsOf(x)
  BY NewChunkIs
<1> HIDE DEF n, u
<1>3. Seen(x) \subseteq x.ins
  BY TextIs
<1>4. \A c \in x.ins : HasId(c.id)
  BY DEF OldDoc, HasChunk, HasId
<1>5. \A i \in n.after : HasId(i)
  BY <1>2, <1>4 DEF IdsOf
<1>6. NewDoc(u, n)
  BY <1>1, <1>3, <1>4 DEF NewDoc
<1>7. Merge(x, u).ins = x.ins \cup u.ins /\ Merge(x, u).del = x.del \cup u.del
  BY <1>1, MergeIs
<1>8. NewDoc(Merge(x, u), n)
  BY <1>1, <1>3, <1>4, <1>7 DEF NewDoc, OldDoc
<1>9. QED
  BY <1>5, <1>6, <1>8 DEF n, u

\* Old documents at every place.
LEMMA DocsMove ==
  ASSUME \A d \in Devices : OldDoc(docs'[d]) /\ OldDoc(saved'[d]),
         \A d \in Devices : \A f \in flushes'[d] : OldDoc(f.doc),
         \A d \in Devices : \A i \in DOMAIN frames'[d] : OldDoc(frames'[d][i].file)
  PROVE  \A x \in Doc : InUse(x)' => OldDoc(x)
BY DEF InUse

\* Documents with at most one new chunk at every place.
LEMMA NewDocsMove ==
  ASSUME NEW n,
         \A d \in Devices : NewDoc(docs'[d], n) /\ NewDoc(saved'[d], n),
         \A d \in Devices : \A f \in flushes'[d] : NewDoc(f.doc, n),
         \A d \in Devices : \A i \in DOMAIN frames'[d] : NewDoc(frames'[d][i].file, n)
  PROVE  \A x \in Doc : InUse(x)' => NewDoc(x, n)
BY DEF InUse

\* A document without the new chunk is one with at most that.
LEMMA OldIsNew == \A x, n : OldDoc(x) => NewDoc(x, n)
BY DEF OldDoc, NewDoc

\* Late flushes have the documents they had.
LEMMA LateIsOld ==
  ASSUME Types, NEW d \in Devices, Late(d)
  PROVE  \A o \in Devices : \A f \in flushes'[o] : OldDoc(f.doc)
<1>1. \A f \in flushes'[d] : \E g \in flushes[d] : f.doc = g.doc
  BY LateIs
<1>2. \A o \in Devices : o # d => flushes'[o] = flushes[o]
  BY LateIs
<1>3. QED
  BY <1>1, <1>2, HereIsOld

\* What is on the way after a broadcast is what was, or its update.
LEMMA BroadcastIsOld ==
  ASSUME Types, NEW d \in Devices, NEW t \in Tomb, NEW u \in DocOrNone, NEW n \in Nat, Broadcast(d, t, u, n)
  PROVE  \A o \in Devices : \A i \in DOMAIN frames'[o] :
           frames'[o][i].file = u \/ OldDoc(frames'[o][i].file)
<1>1. \A o \in Devices : \A i \in DOMAIN frames'[o] :
        \/ i \in DOMAIN frames[o] /\ frames'[o][i] = frames[o][i]
        \/ frames'[o][i] = Frame(t, u)
  BY BroadcastIs
<1>2. Frame(t, u).file = u
  BY FrameIs
<1>3. QED
  BY <1>1, <1>2, HereIsOld

\* A path that is no longer tracked leaves old documents.
LEMMA UntrackIsOld ==
  ASSUME Types, NEW d \in Devices, Untrack(d)
  PROVE  /\ \A o \in Devices : OldDoc(docs'[o]) /\ OldDoc(saved'[o])
         /\ \A o \in Devices : \A f \in flushes'[o] : OldDoc(f.doc)
<1>1. docs' = [docs EXCEPT ![d] = Absent] /\ saved' = [saved EXCEPT ![d] = Absent] /\ Late(d)
  BY UntrackIs
<1>2. docs \in [Devices -> DocOrNone] /\ saved \in [Devices -> DocOrNone]
  BY DEF Types, LocalOK
<1>3. \A o \in Devices : docs'[o] \in {docs[o], Absent} /\ saved'[o] \in {saved[o], Absent}
  BY <1>1, <1>2
<1>4. \A o \in Devices : \A f \in flushes'[o] : OldDoc(f.doc)
  BY <1>1, LateIsOld
<1>5. QED
  BY <1>3, <1>4, HereIsOld, NothingIsOld

\* Only a text that is read, by the watcher or at a start, makes a chunk.
LEMMA DocsStep ==
  ASSUME FileSyncAssumption, Types, OneEntry, Next, \A d \in Devices : ~Ingest(d) /\ ~Sweep(d) /\ ~Starts(d)
  PROVE  /\ \A x \in Doc : InUse(x)' => OldDoc(x)
         /\ spent'.chunks = spent.chunks
<1> DEFINE Good == \A x \in Doc : InUse(x)' => OldDoc(x)
           Texts == \A o \in Devices : OldDoc(docs'[o]) /\ OldDoc(saved'[o])
           Flushing == \A o \in Devices : \A g \in flushes'[o] : OldDoc(g.doc)
           Sending == \A o \in Devices : \A i \in DOMAIN frames'[o] : OldDoc(frames'[o][i].file)
<1>a. ASSUME UNCHANGED <<docs, saved>> PROVE Texts
  BY <1>a, HereIsOld
<1>b. ASSUME UNCHANGED flushes PROVE Flushing
  BY <1>b, HereIsOld
<1>c. ASSUME UNCHANGED frames PROVE Sending
  BY <1>c, HereIsOld
<1>d. ASSUME Texts, Flushing, Sending PROVE Good
  BY <1>d, DocsMove
<1>e. /\ docs \in [Devices -> DocOrNone] /\ saved \in [Devices -> DocOrNone] /\ flushes \in [Devices -> SUBSET Flush]
      /\ \A d \in Devices : DocOr(docs[d]) \in Doc
  BY DocOrIs DEF Types, LocalOK
<1> HIDE DEF Good, Texts, Flushing, Sending
<1>1. ASSUME NEW d \in Devices, Write(d) PROVE Good
  <2>1. Texts
    BY <1>1, <1>a DEF Write, local, outgoing
  <2>2. Flushing
    BY <1>1, <1>b DEF Write, local, outgoing
  <2>3. Sending
    BY <1>1, <1>c DEF Write, local, outgoing
  <2>4. QED
    BY <2>1, <2>2, <2>3, <1>d
<1>2. ASSUME NEW d \in Devices, Delete(d) PROVE Good
  <2>1. Texts
    BY <1>2, <1>a DEF Delete, local, outgoing
  <2>2. Flushing
    BY <1>2, LateIsOld DEF Delete, Flushing
  <2>3. Sending
    BY <1>2, <1>c DEF Delete, local, outgoing
  <2>4. QED
    BY <2>1, <2>2, <2>3, <1>d
<1>3. ASSUME NEW d \in Devices, RecordRemoval(d) PROVE Good
  <2>1. Texts
    BY <1>3, UntrackIsOld DEF RecordRemoval, Texts
  <2>2. Flushing
    BY <1>3, UntrackIsOld DEF RecordRemoval, Flushing
  <2>3. Sending
    <3>1. Broadcast(d, Recorded(d), Absent, 1) /\ Recorded(d) \in Tomb /\ Absent \in DocOrNone
      BY <1>3, RecordedIs DEF RecordRemoval, DocOrNone
    <3>2. QED
      BY <3>1, BroadcastIsOld, NothingIsOld DEF Sending
  <2>4. QED
    BY <2>1, <2>2, <2>3, <1>d
<1>4. ASSUME NEW d \in Devices, NEW f \in flushes[d], FlushRead(d, f) PROVE Good
  <2>1. Texts
    BY <1>4, <1>a DEF FlushRead, local, outgoing
  <2>2. Flushing
    <3>1. f \in Flush /\ docs[d] \in Doc
      BY <1>e, <1>4 DEF FlushRead, DocOrNone
    <3>2. [f EXCEPT !.at = "write", !.doc = docs[d]].doc = docs[d]
      BY <3>1 DEF Flush
    <3>3. \A o \in Devices : \A g \in flushes'[o] :
            g \in flushes[o] \/ (o = d /\ g = [f EXCEPT !.at = "write", !.doc = docs[d]])
      BY <1>e, <1>4 DEF FlushRead, Becomes
    <3>4. QED
      BY <3>2, <3>3, HereIsOld DEF Flushing
  <2>3. Sending
    BY <1>4, <1>c DEF FlushRead, local, outgoing
  <2>4. QED
    BY <2>1, <2>2, <2>3, <1>d
<1>5. ASSUME NEW d \in Devices, NEW f \in flushes[d], FlushNothing(d, f) PROVE Good
  <2>1. Texts
    BY <1>5, <1>a DEF FlushNothing, local, outgoing
  <2>2. Flushing
    <3>1. \A o \in Devices : flushes'[o] \subseteq flushes[o]
      BY <1>e, <1>5 DEF FlushNothing, Becomes
    <3>2. QED
      BY <3>1, HereIsOld DEF Flushing
  <2>3. Sending
    BY <1>5, <1>c DEF FlushNothing, local, outgoing
  <2>4. QED
    BY <2>1, <2>2, <2>3, <1>d
<1>6. ASSUME NEW d \in Devices, NEW f \in flushes[d], FlushWrite(d, f) PROVE Good
  <2>1. Texts
    <3>1. \A o \in Devices : saved'[o] \in {saved[o], DocOr(docs[o])} \/ (o = d /\ saved'[o] = f.doc)
      BY <1>e, <1>6 DEF FlushWrite, Flushed, Save
    <3>2. docs' = docs
      BY <1>6 DEF FlushWrite
    <3>3. QED
      BY <3>1, <3>2, HereIsOld DEF Texts
  <2>2. Flushing
    <3>1. \A o \in Devices : flushes'[o] \subseteq flushes[o]
      BY <1>e, <1>6 DEF FlushWrite, Becomes
    <3>2. QED
      BY <3>1, HereIsOld DEF Flushing
  <2>3. Sending
    BY <1>6, <1>c DEF FlushWrite, local, outgoing
  <2>4. QED
    BY <2>1, <2>2, <2>3, <1>d
<1>6a. ASSUME NEW d \in Devices, NEW f \in flushes[d], FlushFails(d, f) PROVE Good
  <2>1. Texts
    <3>1. \A o \in Devices : saved'[o] \in {saved[o], DocOr(docs[o])} \/ (o = d /\ saved'[o] = f.doc)
      BY <1>e, <1>6a DEF FlushFails, Flushed
    <3>2. docs' = docs
      BY <1>6a DEF FlushFails
    <3>3. QED
      BY <3>1, <3>2, HereIsOld DEF Texts
  <2>2. Flushing
    <3>1. \A o \in Devices : flushes'[o] \subseteq flushes[o]
      BY <1>e, <1>6a DEF FlushFails, Becomes
    <3>2. QED
      BY <3>1, HereIsOld DEF Flushing
  <2>3. Sending
    BY <1>6a, <1>c DEF FlushFails, local, outgoing
  <2>4. QED
    BY <2>1, <2>2, <2>3, <1>d
<1>7. ASSUME NEW d \in Devices, Answer(d) PROVE Good
  <2>1. Texts
    <3>1. \A o \in Devices : docs'[o] \in {docs[o], DocOr(docs[o])} /\ saved' = saved
      BY <1>e, <1>7 DEF Answer
    <3>2. QED
      BY <3>1, HereIsOld DEF Texts
  <2>2. Flushing
    BY <1>7, <1>b DEF Answer, local, outgoing
  <2>3. Sending
    <3> DEFINE u == Answered(d)
    <3>1. tombs[d] \in Tomb /\ u \in DocOrNone /\ Send(d, Frame(tombs[d], u))
      BY <1>7, AnsweredIs DEF Answer, Answered, Types, ControlOK
    <3>2. OldDoc(u)
      BY <1>e, DiffIsOld, HereIsOld, NothingIsOld DEF Answered
    <3> HIDE DEF u
    <3>3. QED
      BY <3>1, <3>2, SendIs, FrameIs, HereIsOld DEF Sending
  <2>4. QED
    BY <2>1, <2>2, <2>3, <1>d
<1>8. ASSUME NEW d \in Devices, Subscribe(d) PROVE Good
  <2>1. Texts
    BY <1>8, <1>a DEF Subscribe, local, outgoing
  <2>2. Flushing
    BY <1>8, <1>b DEF Subscribe, local, outgoing
  <2>3. Sending
    BY <1>8, <1>c DEF Subscribe, local, outgoing
  <2>4. QED
    BY <2>1, <2>2, <2>3, <1>d
<1>9. ASSUME NEW d \in Devices, Push(d) PROVE Good
  <2>1. Texts
    BY <1>9, <1>a DEF Push, local, outgoing
  <2>2. Flushing
    BY <1>9, <1>b DEF Push, local, outgoing
  <2>3. Sending
    <3> DEFINE u == PushedDoc(d)
    <3>1. /\ tombs[d] \in Tomb /\ u \in DocOrNone /\ Send(d, Frame(tombs[d], u))
          /\ u = Absent \/ (docs[d] \in Doc /\ u \in {docs[d], Diff(docs[d], told[d])})
      BY <1>9, PushedDocIs DEF Push, PushedDoc, Types, ControlOK
    <3>2. OldDoc(u)
      BY <3>1, DiffIsOld, HereIsOld, NothingIsOld
    <3> HIDE DEF u
    <3>3. QED
      BY <3>1, <3>2, SendIs, FrameIs, HereIsOld DEF Sending
  <2>4. QED
    BY <2>1, <2>2, <2>3, <1>d
<1>10. ASSUME NEW d \in Devices, Reconciles(d) PROVE Good
  <2>1. Texts
    <3>1. Untrack(d) \/ UNCHANGED local
      BY <1>10 DEF Reconciles, Reconcile, Remove, local
    <3>2. QED
      BY <1>a, <3>1, UntrackIsOld DEF Texts, local
  <2>2. Flushing
    <3>1. Untrack(d) \/ UNCHANGED local
      BY <1>10 DEF Reconciles, Reconcile, Remove, local
    <3>2. QED
      BY <1>b, <3>1, UntrackIsOld DEF Flushing, local
  <2>3. Sending
    <3>1. Broadcast(d, Cleared(d), Absent, 0) \/ UNCHANGED frames
      BY <1>10 DEF Reconciles, Reconcile, outgoing
    <3>2. Cleared(d) \in Tomb /\ Absent \in DocOrNone
      BY ClearedIs DEF DocOrNone
    <3>3. QED
      BY <1>c, <3>1, <3>2, BroadcastIsOld, NothingIsOld DEF Sending
  <2>4. QED
    BY <2>1, <2>2, <2>3, <1>d
<1>11. ASSUME NEW d \in Devices, Receive(d) PROVE Good
  <2>1. Texts
    <3> DEFINE u == Head(frames[d]).file
    <3>1. frames[d] # <<>> /\ frames' = [frames EXCEPT ![d] = Tail(@)] /\ saved' = saved
      BY <1>11 DEF Receive, Reading
    <3>2. u \in DocOrNone /\ OldDoc(u)
      BY <3>1, ReadIs, HereIsOld DEF Sent
    <3>3. docs' = docs \/ (u # Absent /\ docs' = [docs EXCEPT ![d] = Merge(DocOr(@), u)])
      BY <1>11 DEF Receive
    <3> HIDE DEF u
    <3>4. u # Absent => OldDoc(Merge(DocOr(docs[d]), u))
      BY <1>e, <3>2, HereIsOld, MergeIsOld DEF DocOrNone
    <3>5. \A o \in Devices : docs'[o] = docs[o] \/ (u # Absent /\ docs'[o] = Merge(DocOr(docs[d]), u))
      BY <1>e, <3>3
    <3>6. QED
      BY <3>1, <3>4, <3>5, HereIsOld DEF Texts
  <2>2. Flushing
    <3>1. Late(d) \/ UNCHANGED flushes \/ flushes' = [flushes EXCEPT ![d] = @ \cup {Spawned}]
      BY <1>11 DEF Receive
    <3>2. OldDoc(Spawned.doc)
      BY NothingIsOld DEF Spawned
    <3>3. ASSUME flushes' = [flushes EXCEPT ![d] = @ \cup {Spawned}] PROVE Flushing
      <4>1. \A o \in Devices : \A g \in flushes'[o] : g \in flushes[o] \/ g = Spawned
        BY <1>e, <3>3
      <4>2. QED
        BY <3>2, <4>1, HereIsOld DEF Flushing
    <3>4. ASSUME Late(d) PROVE Flushing
      BY <3>4, LateIsOld DEF Flushing
    <3>5. QED
      BY <1>b, <3>1, <3>3, <3>4
  <2>3. Sending
    <3>1. frames[d] # <<>> /\ frames' = [frames EXCEPT ![d] = Tail(@)]
      BY <1>11 DEF Receive, Reading
    <3>2. QED
      BY <3>1, ReadIs, HereIsOld DEF Sending
  <2>4. QED
    BY <2>1, <2>2, <2>3, <1>d
<1>12. ASSUME NEW d \in Devices, ReceiveDelete(d) PROVE Good
  <2>1. Texts
    BY <1>12, UntrackIsOld DEF ReceiveDelete, Remove, Texts
  <2>2. Flushing
    BY <1>12, UntrackIsOld DEF ReceiveDelete, Remove, Flushing
  <2>3. Sending
    BY <1>12, <1>c DEF ReceiveDelete, local, outgoing
  <2>4. QED
    BY <2>1, <2>2, <2>3, <1>d
<1>13. ASSUME NEW d \in Devices, DropEvents(d) PROVE Good
  <2>1. Texts
    BY <1>13, <1>a DEF DropEvents, local, outgoing
  <2>2. Flushing
    BY <1>13, <1>b DEF DropEvents, local, outgoing
  <2>3. Sending
    BY <1>13, <1>c DEF DropEvents, local, outgoing
  <2>4. QED
    BY <2>1, <2>2, <2>3, <1>d
<1>14. ASSUME NEW d \in Devices, LoseDeletes(d) PROVE Good
  <2>1. Texts
    BY <1>14, <1>a DEF LoseDeletes, local, outgoing
  <2>2. Flushing
    BY <1>14, <1>b DEF LoseDeletes, local, outgoing
  <2>3. Sending
    BY <1>14, <1>c DEF LoseDeletes, local, outgoing
  <2>4. QED
    BY <2>1, <2>2, <2>3, <1>d
<1>15. ASSUME Connect PROVE Good
  <2>1. Texts
    BY <1>15, <1>a DEF Connect, local, outgoing
  <2>2. Flushing
    BY <1>15, <1>b DEF Connect, local, outgoing
  <2>3. Sending
    BY <1>15, <1>c DEF Connect, local, outgoing
  <2>4. QED
    BY <2>1, <2>2, <2>3, <1>d
<1>16. ASSUME Cut PROVE Good
  <2>1. Texts
    BY <1>16, <1>a DEF Cut, local, outgoing
  <2>2. Flushing
    BY <1>16, <1>b DEF Cut, local, outgoing
  <2>3. Sending
    <3>1. Off
      BY <1>16 DEF Cut
    <3>2. \A o \in Devices : DOMAIN frames'[o] = {}
      BY <3>1, OffIs
    <3>3. QED
      BY <3>2 DEF Sending
  <2>4. QED
    BY <2>1, <2>2, <2>3, <1>d
<1>16a. ASSUME NEW d \in Devices, IngestFails(d) PROVE Good
  <2>1. Texts
    <3>1. \A o \in Devices : docs'[o] \in {docs[o], DocOr(docs[o])} /\ saved' = saved
      BY <1>e, <1>16a DEF IngestFails
    <3>2. QED
      BY <3>1, HereIsOld DEF Texts
  <2>2. Flushing
    BY <1>16a, <1>b DEF IngestFails
  <2>3. Sending
    BY <1>16a, IngestFailsIs, BroadcastIsOld, NothingIsOld DEF Sending
  <2>4. QED
    BY <2>1, <2>2, <2>3, <1>d
<1>17. Good
  BY <1>16a, <1>1, <1>2, <1>3, <1>4, <1>5, <1>6, <1>6a, <1>7, <1>8, <1>9, <1>10, <1>11, <1>12, <1>13, <1>14, <1>15, <1>16 DEF Next, Starts, Reconciles
<1>18. spent'.chunks = spent.chunks
  <2>a. ASSUME spent' = spent \/ Spend("writes") \/ Spend("others") PROVE spent'.chunks = spent.chunks
    BY <2>a, SpendIs DEF Types
  <2>1. ASSUME NEW d \in Devices, Write(d) PROVE spent'.chunks = spent.chunks
    BY <2>a, <2>1 DEF Write
  <2>2. ASSUME NEW d \in Devices, Delete(d) PROVE spent'.chunks = spent.chunks
    BY <2>a, <2>2 DEF Delete
  <2>3. ASSUME NEW d \in Devices, RecordRemoval(d) PROVE spent'.chunks = spent.chunks
    BY <2>a, <2>3 DEF RecordRemoval
  <2>4. ASSUME NEW d \in Devices, NEW f \in flushes[d], FlushRead(d, f) PROVE spent'.chunks = spent.chunks
    BY <2>a, <2>4 DEF FlushRead
  <2>5. ASSUME NEW d \in Devices, NEW f \in flushes[d], FlushNothing(d, f) PROVE spent'.chunks = spent.chunks
    BY <2>a, <2>5 DEF FlushNothing
  <2>6. ASSUME NEW d \in Devices, NEW f \in flushes[d], FlushWrite(d, f) PROVE spent'.chunks = spent.chunks
    BY <2>a, <2>6 DEF FlushWrite
  <2>6a. ASSUME NEW d \in Devices, NEW f \in flushes[d], FlushFails(d, f) PROVE spent'.chunks = spent.chunks
    BY <2>a, <2>6a DEF FlushFails
  <2>7. ASSUME NEW d \in Devices, Answer(d) PROVE spent'.chunks = spent.chunks
    BY <2>a, <2>7 DEF Answer
  <2>8. ASSUME NEW d \in Devices, Subscribe(d) PROVE spent'.chunks = spent.chunks
    BY <2>a, <2>8 DEF Subscribe
  <2>9. ASSUME NEW d \in Devices, Push(d) PROVE spent'.chunks = spent.chunks
    BY <2>a, <2>9 DEF Push
  <2>10. ASSUME NEW d \in Devices, Reconciles(d) PROVE spent'.chunks = spent.chunks
    BY <2>a, <2>10 DEF Reconciles, Reconcile
  <2>11. ASSUME NEW d \in Devices, Receive(d) PROVE spent'.chunks = spent.chunks
    BY <2>a, <2>11 DEF Receive
  <2>12. ASSUME NEW d \in Devices, ReceiveDelete(d) PROVE spent'.chunks = spent.chunks
    BY <2>a, <2>12 DEF ReceiveDelete
  <2>13. ASSUME NEW d \in Devices, DropEvents(d) PROVE spent'.chunks = spent.chunks
    BY <2>a, <2>13 DEF DropEvents
  <2>14. ASSUME NEW d \in Devices, LoseDeletes(d) PROVE spent'.chunks = spent.chunks
    BY <2>a, <2>14 DEF LoseDeletes
  <2>15. ASSUME Connect PROVE spent'.chunks = spent.chunks
    BY <2>a, <2>15 DEF Connect
  <2>16. ASSUME Cut PROVE spent'.chunks = spent.chunks
    BY <2>a, <2>16 DEF Cut
  <2>16a. ASSUME NEW d \in Devices, IngestFails(d) PROVE spent'.chunks = spent.chunks
    BY <2>a, <2>16a DEF IngestFails
  <2>17. QED
    BY <2>16a, <2>1, <2>2, <2>3, <2>4, <2>5, <2>6, <2>6a, <2>7, <2>8, <2>9, <2>10, <2>11, <2>12, <2>13, <2>14, <2>15, <2>16 DEF Next, Starts, Reconciles
<1>19. QED
  BY <1>17, <1>18 DEF Good

\* ingest_file makes one chunk or none.
LEMMA IngestFileMakes ==
  ASSUME FileSyncAssumption, Types, OneEntry, NEW d \in Devices, IngestFile(d), UNCHANGED flushes
  PROVE  MakesNothing \/ \E n \in Chunk : Makes(d, n)
<1> DEFINE x == DocOr(docs[d])
           u == IF Changes(d) THEN Change(d) ELSE Absent
<1>1. /\ x \in Doc /\ OldDoc(x) /\ u \in DocOrNone
      /\ docs \in [Devices -> DocOrNone] /\ saved \in [Devices -> DocOrNone]
  BY IngestFileIs, HereIsOld DEF Types, LocalOK, DocOrNone
<1>2. Broadcast(d, Cleared(d), u, 0) /\ Cleared(d) \in Tomb
  BY IngestFileIs, ClearedIs
<1>3. \A o \in Devices : \A i \in DOMAIN frames'[o] : frames'[o][i].file = u \/ OldDoc(frames'[o][i].file)
  BY <1>1, <1>2, BroadcastIsOld
<1>4. CASE Changes(d)
  <2> DEFINE n == NewChunk(d, x, disk[d].text)
             m == Merge(x, Change(d))
  <2>1. /\ docs' = [docs EXCEPT ![d] = m] /\ (saved' = [saved EXCEPT ![d] = m] \/ saved' = saved)
        /\ spent' = [spent EXCEPT !.chunks[d] = @ + 1]
        /\ disk[d].text \in Text
    BY <1>4, IngestFileIs
  <2>2. SpentOK /\ spent.chunks[d] <= MaxChunks
    BY DEF Types, SpentOK
  <2>3. n \in Chunk /\ n.id = <<d, spent.chunks[d] + 1>>
    BY <1>1, <2>1, <2>2, NewChunkIs
  <2>4. NewDoc(u, n) /\ NewDoc(m, n) /\ \A i \in n.after : HasId(i)
    BY <1>1, <1>4, <2>1, <2>2, ReplacementIsNew DEF Change
  <2>5. spent'.chunks = [spent.chunks EXCEPT ![d] = @ + 1]
    BY <2>1, <2>2 DEF SpentOK
  <2> HIDE DEF n, m, u
  <2>6. \A o \in Devices : docs'[o] \in {docs[o], m} /\ saved'[o] \in {saved[o], m}
    BY <1>1, <2>1
  <2>7. \A o \in Devices : NewDoc(docs'[o], n) /\ NewDoc(saved'[o], n)
    BY <2>4, <2>6, HereIsOld, OldIsNew
  <2>8. \A o \in Devices : \A f \in flushes'[o] : NewDoc(f.doc, n)
    BY HereIsOld, OldIsNew
  <2>9. \A o \in Devices : \A i \in DOMAIN frames'[o] : NewDoc(frames'[o][i].file, n)
    BY <1>3, <2>4, OldIsNew
  <2>10. \A y \in Doc : InUse(y)' => NewDoc(y, n)
    BY <2>7, <2>8, <2>9, NewDocsMove
  <2>11. Makes(d, n)
    BY <2>3, <2>4, <2>5, <2>10 DEF Makes
  <2>12. QED
    BY <2>3, <2>11
<1>5. CASE ~Changes(d)
  <2>1. /\ docs' = docs \/ docs' = [docs EXCEPT ![d] = x]
        /\ saved' = saved /\ spent' = spent
    BY <1>5, IngestFileIs
  <2> HIDE DEF x
  <2>2. \A o \in Devices : docs'[o] \in {docs[o], x} /\ saved'[o] = saved[o]
    BY <1>1, <2>1
  <2>3. \A o \in Devices : OldDoc(docs'[o]) /\ OldDoc(saved'[o])
    BY <1>1, <2>2, HereIsOld
  <2>4. \A o \in Devices : \A f \in flushes'[o] : OldDoc(f.doc)
    BY HereIsOld
  <2>5. \A o \in Devices : \A i \in DOMAIN frames'[o] : OldDoc(frames'[o][i].file)
    BY <1>3, <1>5, NothingIsOld
  <2>6. MakesNothing
    BY <2>1, <2>3, <2>4, <2>5, DocsMove DEF MakesNothing
  <2>7. QED
    BY <2>6
<1>6. QED
  BY <1>4, <1>5

\* So does a restart.
LEMMA RestartMakes ==
  ASSUME FileSyncAssumption, Types, OneEntry, NEW d \in Devices, NEW ts \in Remembered(d), NEW kept \in BOOLEAN, Restart(d, ts, kept)
  PROVE  MakesNothing \/ \E n \in Chunk : Makes(d, n)
<1>R. Restarted(d, ts, kept)
  BY RestartIs
<1>1. /\ docs \in [Devices -> DocOrNone] /\ saved \in [Devices -> DocOrNone] /\ flushes \in [Devices -> SUBSET Flush]
      /\ Old(d) \in Doc /\ OldDoc(Old(d))
  BY <1>R, HereIsOld DEF Restarted, Types, LocalOK, Old
<1>2. \A o \in Devices : /\ docs'[o] \in {docs[o], Absent} \/ (Here(d, ts, kept) /\ docs'[o] = Restored(d, ts, kept))
                         /\ saved'[o] \in {saved[o], Absent} \/ (Here(d, ts, kept) /\ saved'[o] = Restored(d, ts, kept))
  <2>1. docs' = [docs EXCEPT ![d] = IF Here(d, ts, kept) THEN Restored(d, ts, kept) ELSE Absent]
    BY <1>R DEF Restarted
  <2>2. saved' = [saved EXCEPT ![d] = IF Gone(ts, kept) THEN Absent ELSE IF Here(d, ts, kept) THEN Restored(d, ts, kept) ELSE saved[d]]
    BY <1>R DEF Restarted
  <2>3. \A o \in Devices : docs'[o] \in {docs[o], Absent} \/ (Here(d, ts, kept) /\ docs'[o] = Restored(d, ts, kept))
    BY <1>1, <2>1
  <2>4. \A o \in Devices : saved'[o] \in {saved[o], Absent} \/ (Here(d, ts, kept) /\ saved'[o] = Restored(d, ts, kept))
    BY <1>1, <2>2
  <2>5. QED
    BY <2>3, <2>4
<1>3. \A o \in Devices : flushes'[o] \subseteq flushes[o]
  <2>1. flushes' = [flushes EXCEPT ![d] = {}]
    BY <1>R DEF Restarted
  <2>2. QED
    BY <1>1, <2>1
<1>4. \A o \in Devices : DOMAIN frames'[o] = {}
  <2>1. Off
    BY <1>R DEF Restarted
  <2>2. \A o \in Devices : frames'[o] = <<>>
    BY <2>1, OffIs
  <2>3. QED
    BY <2>2
<1>5. spent'.chunks = IF Edited(d, ts, kept) THEN [spent.chunks EXCEPT ![d] = @ + 1] ELSE spent.chunks
  <2>1. spent \in [writes : Nat, others : Nat, chunks : [Devices -> Nat]] /\ spent.chunks \in [Devices -> Nat]
    BY DEF Types, SpentOK
  <2>2. spent' = [spent EXCEPT !.others = @ + 1, !.chunks[d] = IF Edited(d, ts, kept) THEN @ + 1 ELSE @]
    BY <1>R DEF Restarted
  <2>3. CASE Edited(d, ts, kept)
    <3>1. spent' = [spent EXCEPT !.others = @ + 1, !.chunks[d] = @ + 1]
      BY <2>2, <2>3
    <3>2. QED
      BY <2>1, <2>3, <3>1
  <2>4. CASE ~Edited(d, ts, kept)
    <3>1. spent' = [spent EXCEPT !.others = @ + 1, !.chunks[d] = @]
      BY <2>2, <2>4
    <3>2. QED
      BY <2>1, <2>4, <3>1
  <2>5. QED
    BY <2>3, <2>4
<1>6. CASE Edited(d, ts, kept)
  <2> DEFINE n == NewChunk(d, Old(d), disk[d].text)
  <2>1. disk[d].text \in Text /\ SpentOK /\ spent.chunks[d] <= MaxChunks
    BY <1>6, <1>R DEF Restarted, Types, SpentOK
  <2>2. n \in Chunk /\ n.id = <<d, spent.chunks[d] + 1>>
    BY <1>1, <2>1, NewChunkIs
  <2>3. NewDoc(Restored(d, ts, kept), n) /\ \A i \in n.after : HasId(i)
    BY <1>1, <1>6, <2>1, ReplacementIsNew DEF Restored, Edit
  <2> HIDE DEF n
  <2>4. \A o \in Devices : NewDoc(docs'[o], n) /\ NewDoc(saved'[o], n)
    BY <1>2, <2>3, HereIsOld, NothingIsOld, OldIsNew
  <2>5. \A o \in Devices : \A f \in flushes'[o] : NewDoc(f.doc, n)
    BY <1>3, HereIsOld, OldIsNew
  <2>6. \A o \in Devices : \A i \in DOMAIN frames'[o] : NewDoc(frames'[o][i].file, n)
    BY <1>4
  <2>7. \A y \in Doc : InUse(y)' => NewDoc(y, n)
    BY <2>4, <2>5, <2>6, NewDocsMove
  <2>8. Makes(d, n)
    BY <1>5, <1>6, <2>2, <2>3, <2>7 DEF Makes
  <2>9. QED
    BY <2>2, <2>8
<1>7. CASE ~Edited(d, ts, kept)
  <2>1. Restored(d, ts, kept) = Old(d)
    BY <1>7 DEF Restored
  <2>2. \A o \in Devices : OldDoc(docs'[o]) /\ OldDoc(saved'[o])
    BY <1>1, <1>2, <2>1, HereIsOld, NothingIsOld
  <2>3. \A o \in Devices : \A f \in flushes'[o] : OldDoc(f.doc)
    BY <1>3, HereIsOld
  <2>4. \A o \in Devices : \A i \in DOMAIN frames'[o] : OldDoc(frames'[o][i].file)
    BY <1>4
  <2>5. MakesNothing
    BY <1>5, <1>7, <2>2, <2>3, <2>4, DocsMove DEF MakesNothing
  <2>6. QED
    BY <2>5
<1>8. QED
  BY <1>6, <1>7

\* Ids that were given out stay so.
LEMMA GivenStays ==
  ASSUME Types, NEW i \in Ids, Given(i),
         \A o \in Devices : spent'.chunks[o] \in Nat /\ spent.chunks[o] <= spent'.chunks[o]
  PROVE  Given(i)'
<1>1. \A o \in Devices : spent.chunks[o] \in Nat
  BY DEF Types, SpentOK
<1>2. i[1] \in Devices \cup {0} /\ i[2] \in Nat
  BY DEF Ids
<1>3. CASE i[1] = 0
  BY <1>3 DEF Given
<1>4. CASE i[1] # 0
  <2>1. i[1] \in Devices /\ i[2] <= spent.chunks[i[1]]
    BY <1>2, <1>4 DEF Given
  <2>2. i[2] <= spent'.chunks[i[1]]
    BY <1>1, <1>2, <2>1
  <2>3. QED
    BY <1>4, <2>2 DEF Given
<1>5. QED
  BY <1>3, <1>4

\* What an old document speaks of was given out.
LEMMA HasIdIsGiven ==
  ASSUME Numbered
  PROVE  /\ \A i : HasId(i) => i \in Ids /\ Given(i)
         /\ \A c : HasChunk(c) => c \in Chunk /\ c.id \in Ids /\ Given(c.id) /\ \A i \in c.after : i \in Ids /\ Given(i)
<1>1. \A x \in Doc : x.ins \subseteq Chunk /\ x.del \subseteq Ids
  BY DEF Doc
<1>2. \A c \in Chunk : c.id \in Ids /\ c.after \subseteq Ids
  BY DEF Chunk
<1>3. QED
  BY <1>1, <1>2 DEF HasId, HasChunk, Numbered

\* Chunks stay numbered and apart.
LEMMA ChunksKept ==
  ASSUME FileSyncAssumption, Types, Types', OneEntry, Numbered, OneChunk, Next
  PROVE  Numbered' /\ OneChunk'
<1>1. /\ spent.chunks \in [Devices -> Nat] /\ spent'.chunks \in [Devices -> Nat]
  BY DEF Types, SpentOK
<1>2. /\ \A x \in Doc : x.ins \subseteq Chunk /\ x.del \subseteq Ids
      /\ \A c \in Chunk : c.id \in Ids /\ c.after \subseteq Ids
  BY DEF Doc, Chunk
<1>3. \A b, c : HasChunk(b) /\ HasChunk(c) /\ b.id = c.id => b = c
  BY DEF HasChunk, OneChunk
<1>4. ASSUME MakesNothing PROVE Numbered' /\ OneChunk'
  <2>1. \A i \in Ids : Given(i) => Given(i)'
    BY <1>4 DEF Given, MakesNothing
  <2>2. \A x \in Doc : InUse(x)' => (\A c \in x.ins : HasChunk(c)) /\ \A i \in x.del : HasId(i)
    BY <1>4 DEF MakesNothing, OldDoc
  <2>3. Numbered'
    BY <2>1, <2>2, HasIdIsGiven DEF Numbered
  <2>4. OneChunk'
    BY <1>3, <2>2 DEF OneChunk
  <2>5. QED
    BY <2>3, <2>4
<1>5. ASSUME NEW d \in Devices, NEW n \in Chunk, Makes(d, n) PROVE Numbered' /\ OneChunk'
  <2>1. spent'.chunks[d] = spent.chunks[d] + 1 /\ \A o \in Devices : spent.chunks[o] <= spent'.chunks[o]
    BY <1>1, <1>5 DEF Makes
  <2>2. \A i \in Ids : Given(i) => Given(i)'
    BY <1>1, <2>1, GivenStays
  <2>3. n.id = <<d, spent.chunks[d] + 1>> /\ d # 0
    BY <1>5 DEF Makes, Devices
  <2>4. Given(n.id)' /\ ~Given(n.id)
    BY <1>1, <2>1, <2>3 DEF Given
  <2>5. \A i \in n.after : Given(i)'
    BY <1>5, <2>2, HasIdIsGiven DEF Makes
  <2>6. \A x \in Doc : InUse(x)' => (\A c \in x.ins : HasChunk(c) \/ c = n) /\ \A i \in x.del : HasId(i)
    BY <1>5 DEF Makes, NewDoc
  <2>7. Numbered'
    BY <2>2, <2>4, <2>5, <2>6, HasIdIsGiven DEF Numbered
  <2>8. \A c : HasChunk(c) => c.id # n.id
    BY <2>4, HasIdIsGiven
  <2>9. OneChunk'
    BY <1>3, <2>6, <2>8 DEF OneChunk
  <2>10. QED
    BY <2>7, <2>9
<1>6. CASE \A d \in Devices : ~Ingest(d) /\ ~Sweep(d) /\ ~Starts(d)
  BY <1>4, <1>6, DocsStep DEF MakesNothing
<1>7. ASSUME NEW d \in Devices, Ingest(d) \/ Sweep(d) PROVE Numbered' /\ OneChunk'
  <2>1. IngestFile(d) /\ UNCHANGED flushes
    BY <1>7 DEF Ingest, Sweep
  <2>2. QED
    BY <1>4, <1>5, <2>1, IngestFileMakes
<1>8. ASSUME NEW d \in Devices, NEW ts \in Remembered(d), NEW kept \in BOOLEAN, Restart(d, ts, kept) PROVE Numbered' /\ OneChunk'
  BY <1>4, <1>5, <1>8, RestartMakes
<1>9. QED
  BY <1>6, <1>7, <1>8 DEF Starts

-----------------------------------------------------------------------------
(* The invariant holds                                                     *)

\* It is a document with the chunk that nobody inserted.
LEMMA FirstIs ==
  ASSUME FileSyncAssumption
  PROVE  First \in Doc /\ First.del = {} /\ \A c \in First.ins : c.id = <<0, 1>> /\ c.after = {}
<1> DEFINE c == [id |-> <<0, 1>>, text |-> {0}, after |-> {}]
<1>1. <<0, 1>> \in Ids /\ {0} \in Text
  BY DEF Ids, Text, Versions, FileSyncAssumption
<1>2. c \in Chunk
  BY <1>1 DEF Chunk
<1>3. QED
  BY <1>2 DEF First, Doc

\* Nothing was recorded, and only the first document is in use.
LEMMA InitBasics ==
  ASSUME FileSyncAssumption, Init
  PROVE  Basics
<1>1. /\ now = 1
      /\ \/ disk = [d \in Devices |-> [text |-> {0}, at |-> 0]] /\ docs = [d \in Devices |-> First]
         \/ disk = [d \in Devices |-> Absent] /\ docs = [d \in Devices |-> Absent]
      /\ saved = docs
      /\ flag = [d \in Devices |-> FALSE] /\ events = [d \in Devices |-> <<>>]
      /\ flushes = [d \in Devices |-> {}]
      /\ tombs = [d \in Devices |-> NoTombs] /\ client = [d \in Devices |-> d]
      /\ stage = [d \in Devices |-> "off"] /\ asked = [d \in Devices |-> FALSE]
      /\ told = [d \in Devices |-> {}]
      /\ owed = [d \in Devices |-> FALSE] /\ frames = [d \in Devices |-> <<>>]
      /\ deletes = [d \in Devices |-> 0]
      /\ spent = [writes |-> 0, others |-> 0, chunks |-> [d \in Devices |-> 0]]
      /\ erased = {} /\ deferred = FALSE /\ raced = FALSE /\ missed = 0
  BY DEF Init, First
<1>2. \A d \in Devices : docs[d] \in {First, Absent} /\ saved[d] \in {First, Absent}
  BY <1>1
<1>3. \A d \in Devices : disk[d] \in {[text |-> {0}, at |-> 0], Absent}
  BY <1>1
<1>4. Types
  <2>1. [text |-> {0}, at |-> 0] \in File
    BY DEF File, Text, Versions, FileSyncAssumption
  <2>2. disk \in [Devices -> File \cup {Absent}]
    BY <1>1, <2>1
  <2>3. docs \in [Devices -> DocOrNone] /\ saved \in [Devices -> DocOrNone]
    BY <1>1, FirstIs DEF DocOrNone
  <2>4. LocalOK
    BY <1>1, <2>2, <2>3 DEF LocalOK
  <2>5. StreamOK
    BY <1>1 DEF StreamOK, Stages
  <2>6. ControlOK
    <3>1. tombs \in [Devices -> Tomb]
      BY <1>1, NoTombsIs
    <3>2. client \in [Devices -> Nat]
      BY <1>1 DEF Devices
    <3>3. QED
      BY <3>1, <3>2 DEF ControlOK
  <2>7. SpentOK
    <3>1. MaxEvents \in Nat /\ MaxChunks \in Nat
      BY DEF FileSyncAssumption
    <3>2. spent.writes = 0 /\ spent.others = 0 /\ spent.chunks = [d \in Devices |-> 0]
      BY <1>1
    <3>3. spent \in [writes : Nat, others : Nat, chunks : [Devices -> Nat]]
      BY <1>1
    <3>4. /\ now \in Nat /\ erased \in SUBSET Devices /\ deferred \in BOOLEAN /\ raced \in BOOLEAN
          /\ missed \in Nat
      BY <1>1
    <3>5. QED
      BY <3>1, <3>2, <3>3, <3>4 DEF SpentOK
  <2>8. QED
    BY <2>4, <2>5, <2>6, <2>7 DEF Types
<1>5. Times
  BY <1>1, <1>3 DEF Times
<1>6. Closed
  BY <1>1 DEF Closed, Devices
<1>7. Clients
  BY <1>1 DEF Clients, Devices
<1>8. \A x \in Item : ~Afoot(x)
  BY <1>1 DEF Afoot, NoTombs
<1>9. Entries /\ OneEntry
  BY <1>8 DEF Entries, OneEntry
<1>10. \A x \in Doc : InUse(x) => x = First
  BY <1>1, <1>2, AbsentIsNoRecord DEF InUse
<1>11. Given(<<0, 1>>)
  BY DEF Given
<1>12. Numbered
  BY <1>10, <1>11, FirstIs DEF Numbered
<1>13. OneChunk
  <2>1. \A b, c \in First.ins : b = c
    BY DEF First
  <2>2. QED
    BY <1>10, <2>1 DEF OneChunk
<1>14. QED
  BY <1>4, <1>5, <1>6, <1>7, <1>9, <1>12, <1>13 DEF Basics

\* Every step keeps it.
LEMMA BasicsStep ==
  ASSUME FileSyncAssumption, Basics, [Next]_vars
  PROVE  Basics'
<1>1. Types /\ Times /\ Closed /\ Clients /\ Entries /\ OneEntry /\ Numbered /\ OneChunk
  BY DEF Basics
<1>2. CASE Next
  <2>1. Types'
    <3>1. CASE \A d \in Devices : ~Starts(d)
      BY <1>1, <1>2, <3>1, TypesStep
    <3>2. ASSUME NEW d \in Devices, NEW ts \in Remembered(d), NEW kept \in BOOLEAN, Restart(d, ts, kept) PROVE Types'
      BY <1>1, <3>2, RestartTypes
    <3>3. QED
      BY <3>1, <3>2 DEF Starts
  <2>2. Times'
    BY <1>1, <1>2, TimesStep
  <2>3. Closed'
    BY <1>1, <1>2, ClosedStep
  <2>4. OneEntry' /\ Clients' /\ Entries'
    BY <1>1, <1>2, EntriesKept
  <2>5. Numbered' /\ OneChunk'
    BY <1>1, <1>2, <2>1, ChunksKept
  <2>6. QED
    BY <2>1, <2>2, <2>3, <2>4, <2>5 DEF Basics
<1>3. CASE UNCHANGED vars
  <2>1. /\ UNCHANGED <<now, disk, docs, saved, flag, events, flushes, tombs, client, stage, asked, told, owed>>
        /\ UNCHANGED <<frames, deletes, spent, erased, deferred, raced, missed>>
    BY <1>3 DEF vars, local, control, session, outgoing, ghosts
  <2>2. Types'
    BY <1>1, <2>1 DEF Types, LocalOK, StreamOK, ControlOK, SpentOK
  <2>3. Times' /\ Closed' /\ Clients'
    BY <1>1, <2>1 DEF Times, Closed, Clients
  <2>4. \A x : Afoot(x)' <=> Afoot(x)
    BY <2>1 DEF Afoot
  <2>5. Entries' /\ OneEntry'
    BY <1>1, <2>1, <2>4 DEF Entries, OneEntry
  <2>6. \A x : InUse(x)' <=> InUse(x)
    BY <2>1 DEF InUse
  <2>7. \A i : Given(i)' <=> Given(i)
    BY <2>1 DEF Given
  <2>8. Numbered' /\ OneChunk'
    BY <1>1, <2>6, <2>7 DEF Numbered, OneChunk
  <2>9. QED
    BY <2>2, <2>3, <2>5, <2>8 DEF Basics
<1>4. QED
  BY <1>2, <1>3

\* The first part of the invariant holds.
LEMMA BasicsHold ==
  ASSUME FileSyncAssumption
  PROVE  Spec => []Basics
<1>1. Init => Basics
  BY InitBasics
<1>2. Basics /\ [Next]_vars => Basics'
  BY BasicsStep
<1>3. QED
  BY <1>1, <1>2, PTL DEF Spec

\* Files are texts not of the future, a chunk's id stands for one chunk on every device, a
\* tombstone's chain stays within its bound, and a stream that is closed has nothing on the way.
THEOREM TypeCorrect ==
  ASSUME FileSyncAssumption
  PROVE  Spec => []TypeOK
<1>1. Basics => TypeOK
  <2> SUFFICES ASSUME Basics PROVE TypeOK
    OBVIOUS
  <2>1. Types /\ Times /\ Closed /\ Entries /\ OneChunk
    BY DEF Basics
  <2>2. \A f \in Files : f.text \in Text /\ f.at \in 0 .. now
    <3>1. SUFFICES ASSUME NEW d \in Devices, disk[d] # Absent PROVE disk[d].text \in Text /\ disk[d].at \in 0 .. now
      BY DEF Files
    <3>2. disk[d] \in File /\ now \in Nat
      BY <2>1, <3>1 DEF Types, LocalOK, SpentOK
    <3>3. QED
      BY <2>1, <3>1, <3>2 DEF File, Times
  <2>3. \A x \in Documents : x \in Doc /\ InUse(x)
    BY <2>1 DEF Documents, Types, LocalOK, DocOrNone, InUse
  <2>4. \A x \in Doc : x.ins \subseteq Chunk
    BY DEF Doc
  <2>5. \A c \in Chunk : c.id \in Ids /\ c.text \in Text
    BY DEF Chunk
  <2>6. \A c \in UNION {doc.ins : doc \in Documents} : c.id \in Ids /\ c.text \in Text
    BY <2>3, <2>4, <2>5
  <2>7. \A b, c \in UNION {doc.ins : doc \in Documents} : b.id = c.id => b = c
    BY <2>1, <2>3 DEF OneChunk
  <2>8. \A d \in Devices : \A e \in tombs[d].items : Len(e.chain) <= MaxTombstones
    <3>1. SUFFICES ASSUME NEW d \in Devices, NEW e \in tombs[d].items PROVE Len(e.chain) <= MaxTombstones
      OBVIOUS
    <3>2. e \in Item /\ Afoot(e)
      BY <2>1 DEF Types, ControlOK, Tomb, Afoot
    <3>3. QED
      BY <2>1, <3>2 DEF Entries, FileSyncAssumption
  <2>9. stage[1] = "off" => \A d \in Devices : frames[d] = <<>> /\ deletes[d] = 0 /\ ~owed[d]
    BY <2>1 DEF Closed
  <2>10. QED
    BY <2>2, <2>6, <2>7, <2>8, <2>9 DEF TypeOK
<1>2. QED
  BY <1>1, BasicsHold, PTL

-----------------------------------------------------------------------------
(* The saved state of a document and its file                              *)

\* It stays tied.
LEMMA StillTied ==
  ASSUME NEW o \in Devices, Tied(o), Still(o)
  PROVE  Tied(o)'
BY DEF Tied, GoneTogether, RemovalUnheard, OwnEventComes, Saved, TextComes, Still, Unheard

\* An event more, and an event less.
LEMMA EventAdded ==
  ASSUME NEW s \in Seq({"touch", "remove"}), NEW e \in {"touch", "remove"}
  PROVE  /\ Append(s, e) # <<>> /\ Len(Append(s, e)) = Len(s) + 1
         /\ s # <<>> => Len(Append(s, e)) >= 2
         /\ \A i \in DOMAIN s : i \in DOMAIN Append(s, e) /\ Append(s, e)[i] = s[i]
         /\ Len(s) + 1 \in DOMAIN Append(s, e) /\ Append(s, e)[Len(s) + 1] = e
OBVIOUS

\* What is left when the first event is handled.
LEMMA EventHandled ==
  ASSUME NEW s \in Seq({"touch", "remove"}), s # <<>>
  PROVE  /\ Len(Tail(s)) = Len(s) - 1
         /\ Len(s) >= 2 => Tail(s) # <<>>
         /\ \A i \in DOMAIN s : i = 1 \/ (i - 1 \in DOMAIN Tail(s) /\ Tail(s)[i - 1] = s[i])
         /\ Head(s) = s[1]
<1>1. Len(s) \in Nat /\ Len(s) >= 1 /\ Tail(s) \in Seq({"touch", "remove"})
  OBVIOUS
<1>2. Len(Tail(s)) = Len(s) - 1 /\ \A j \in 1 .. Len(s) - 1 : Tail(s)[j] = s[j + 1]
  OBVIOUS
<1>3. DOMAIN s = 1 .. Len(s) /\ DOMAIN Tail(s) = 1 .. Len(s) - 1
  <2>1. \A q \in Seq({"touch", "remove"}) : DOMAIN q = 1 .. Len(q)
    OBVIOUS
  <2>2. QED
    BY <1>1, <1>2, <2>1
<1>4. Len(s) >= 2 => Tail(s) # <<>>
  <2> DEFINE q == Tail(s)
  <2>1. q \in Seq({"touch", "remove"}) /\ Len(q) = Len(s) - 1
    BY <1>1, <1>2
  <2> HIDE DEF q
  <2>2. q = <<>> => Len(q) = 0
    BY EmptySeq
  <2>3. Len(s) >= 2 => q # <<>>
    BY <1>1, <2>1, <2>2
  <2>4. QED
    BY <2>3 DEF q
<1>5. ASSUME NEW i \in DOMAIN s, i # 1 PROVE i - 1 \in DOMAIN Tail(s) /\ Tail(s)[i - 1] = s[i]
  BY <1>1, <1>2, <1>3, <1>5
<1>6. QED
  BY <1>2, <1>4, <1>5

\* An editor's write is reported, after an event of a flush's own.
LEMMA WriteTied ==
  ASSUME Types, NEW d \in Devices, Tied(d), Write(d)
  PROVE  Tied(d)'
<1>1. events[d] \in Seq({"touch", "remove"}) /\ events \in [Devices -> Seq({"touch", "remove"})]
  BY DEF Types, LocalOK
<1>2. events'[d] = Append(events[d], "touch")
  BY <1>1 DEF Write
<1>3. docs' = docs /\ saved' = saved /\ flag' = flag /\ flushes' = flushes
  BY DEF Write
<1>4. disk'[d] # Absent
  <2>1. disk'[d] = [text |-> {spent.writes + 1}, at |-> now']
    BY DEF Write, Types, LocalOK
  <2>2. DOMAIN disk'[d] = {"text", "at"} /\ DOMAIN Absent = {"none"}
    BY <2>1 DEF Absent
  <2>3. QED
    BY <2>2
<1>5. events'[d] # <<>> /\ (events[d] # <<>> => Len(events'[d]) >= 2)
  BY <1>1, <1>2, EventAdded
<1>6. QED
  BY <1>3, <1>4, <1>5 DEF Tied, GoneTogether, RemovalUnheard, OwnEventComes, Saved, TextComes

\* The deletion of a file is reported.
LEMMA DeleteTied ==
  ASSUME Types, NEW d \in Devices, Tied(d), Delete(d)
  PROVE  Tied(d)'
<1>1. events[d] \in Seq({"touch", "remove"}) /\ events \in [Devices -> Seq({"touch", "remove"})]
  BY DEF Types, LocalOK
<1>2. events'[d] = Append(events[d], "remove")
  BY <1>1 DEF Delete
<1>3. docs' = docs /\ saved' = saved /\ flag' = flag /\ Late(d)
  BY DEF Delete
<1>4. disk'[d] = Absent
  BY DEF Delete, Types, LocalOK
<1>5. events'[d] # <<>> /\ Unheard(d)'
  BY <1>1, <1>2, EventAdded DEF Unheard
<1>6. (\A f \in flushes'[d] : f.late) /\ (flushes'[d] = {} <=> flushes[d] = {})
  BY <1>3, LateIs
<1>7. QED
  BY <1>3, <1>4, <1>5, <1>6 DEF Tied, GoneTogether, RemovalUnheard, OwnEventComes, Saved, TextComes

\* The number of a device's next chunk is new to every document.
LEMMA NextChunkIsNew ==
  ASSUME Basics, NEW d \in Devices, NEW x \in Doc, InUse(x) \/ x = EmptyDoc
  PROVE  LET r == <<d, spent.chunks[d] + 1>>
         IN  r \notin IdsOf(x) /\ r \notin x.del /\ \A c \in x.ins : r \notin c.after
<1> DEFINE r == <<d, spent.chunks[d] + 1>>
<1>1. spent.chunks[d] \in Nat /\ d # 0
  BY DEF Basics, Types, SpentOK, Devices
<1>2. ~Given(r)
  BY <1>1 DEF Given
<1>3. CASE x = EmptyDoc
  BY <1>3 DEF EmptyDoc, IdsOf
<1>4. CASE InUse(x)
  <2>1. /\ \A c \in x.ins : Given(c.id) /\ \A i \in c.after : Given(i)
        /\ \A i \in x.del : Given(i)
    BY <1>4 DEF Basics, Numbered
  <2>2. r \notin IdsOf(x) /\ r \notin x.del /\ \A c \in x.ins : r \notin c.after
    <3> HIDE DEF r
    <3>1. r \notin IdsOf(x)
      BY <1>2, <2>1 DEF IdsOf
    <3>2. r \notin x.del
      BY <1>2, <2>1
    <3>3. \A c \in x.ins : r \notin c.after
      BY <1>2, <2>1
    <3>4. QED
      BY <3>1, <3>2, <3>3
  <2>3. QED
    BY <2>2
<1>5. QED
  BY <1>3, <1>4

\* A text that is read becomes the document's.
LEMMA ReadText ==
  ASSUME FileSyncAssumption, Basics, NEW d \in Devices, NEW x \in Doc, InUse(x) \/ x = EmptyDoc,
         disk[d] # Absent, spent.chunks[d] <= MaxChunks
  PROVE  /\ TextOf(Merge(x, Replacement(d, x, disk[d].text))) = disk[d].text
         /\ Merge(x, Replacement(d, x, disk[d].text)) \in Doc
<1>1. disk[d].text \in Text /\ SpentOK
  BY DEF Basics, Types, LocalOK, File
<1>2. TextOf(Merge(x, Replacement(d, x, disk[d].text))) = disk[d].text
  BY <1>1, NextChunkIsNew, ReplacementReplaces
<1>3. QED
  BY <1>1, <1>2, ReplacementIs, MergeIs

\* What is left of a file that is read: the document has its text, and so has the saved state,
\* unless the text was the document's already.
LEMMA IngestFileReads ==
  ASSUME FileSyncAssumption, Basics, NEW d \in Devices, IngestFile(d)
  PROVE  /\ ~flag'[d]
         /\ Reads(d) => /\ docs'[d] # Absent /\ TextOf(docs'[d]) = disk[d].text
                        /\ saved'[d] \in {docs'[d], saved[d]}
                        /\ missed' = missed => saved'[d] = docs'[d] \/ docs'[d] = DocOr(docs[d])
         /\ ~Reads(d) => docs'[d] = docs[d] /\ saved'[d] = saved[d]
         /\ \A o \in Devices \ {d} : docs'[o] = docs[o] /\ saved'[o] = saved[o] /\ flag'[o] = flag[o]
<1> DEFINE x == DocOr(docs[d])
           new == Merge(x, Change(d))
<1>1. /\ docs \in [Devices -> DocOrNone] /\ saved \in [Devices -> DocOrNone] /\ flag \in [Devices -> BOOLEAN]
      /\ Types /\ OneEntry /\ missed \in Nat
  BY DEF Basics, Types, LocalOK, SpentOK
<1>2. /\ flag' = [flag EXCEPT ![d] = FALSE]
      /\ docs' = IF Changes(d) THEN [docs EXCEPT ![d] = new]
                  ELSE IF Reads(d) THEN [docs EXCEPT ![d] = x] ELSE docs
      /\ \/ saved' = IF Changes(d) THEN [saved EXCEPT ![d] = new] ELSE saved
         \/ saved' = saved /\ missed' = missed + 1
      /\ Changes(d) => spent.chunks[d] < MaxChunks
      /\ x \in Doc
  BY <1>1, IngestFileIs
<1>3. ASSUME Changes(d) PROVE new # Absent /\ TextOf(new) = disk[d].text
  <2>1. InUse(x) \/ x = EmptyDoc
    BY DEF DocOr, InUse
  <2>2. spent.chunks[d] <= MaxChunks /\ disk[d] # Absent
    BY <1>1, <1>2, <1>3 DEF Types, SpentOK, Changes, Reads
  <2>3. TextOf(new) = disk[d].text /\ new \in Doc
    BY <1>2, <2>1, <2>2, ReadText DEF Change
  <2>4. QED
    BY <2>3, AbsentIsNoRecord
<1>4. x # Absent
  BY <1>2, AbsentIsNoRecord
<1> HIDE DEF x, new
<1>5. CASE Changes(d)
  <2>1. /\ docs' = [docs EXCEPT ![d] = new]
        /\ saved' = [saved EXCEPT ![d] = new] \/ (saved' = saved /\ missed' # missed)
    BY <1>1, <1>2, <1>5
  <2>2. Reads(d)
    BY <1>5 DEF Changes
  <2>3. QED
    BY <1>1, <1>2, <1>3, <1>5, <2>1, <2>2
<1>6. CASE ~Changes(d) /\ Reads(d)
  <2>1. docs' = [docs EXCEPT ![d] = x] /\ saved' = saved
    BY <1>2, <1>6
  <2>2. TextOf(x) = disk[d].text
    BY <1>6 DEF Changes, x
  <2>3. QED
    BY <1>1, <1>2, <1>4, <1>6, <2>1, <2>2 DEF x
<1>7. CASE ~Reads(d)
  <2>1. docs' = docs /\ saved' = saved
    BY <1>2, <1>7 DEF Changes
  <2>2. QED
    BY <1>1, <1>2, <1>7, <2>1
<1>8. QED
  BY <1>5, <1>6, <1>7

\* A text that was read is the document's; an event that is not read is a flush's own, and after it
\* another comes if the text differs.
LEMMA IngestTied ==
  ASSUME FileSyncAssumption, Basics, NEW d \in Devices, Tied(d), Ingest(d), missed' = missed
  PROVE  Tied(d)'
<1>1. /\ events[d] \in Seq({"touch", "remove"}) /\ events \in [Devices -> Seq({"touch", "remove"})]
      /\ docs[d] \in DocOrNone
  BY DEF Basics, Types, LocalOK
<1>2. IngestFile(d) /\ disk' = disk /\ flushes' = flushes /\ events'[d] = Tail(events[d]) /\ events[d] # <<>>
  BY <1>1 DEF Ingest, Handled, Reported
<1>3. ~flag'[d]
  BY <1>2, IngestFileReads
<1>4. CASE Reads(d)
  <2>1. /\ docs'[d] # Absent /\ TextOf(docs'[d]) = disk[d].text /\ disk[d] # Absent
        /\ saved'[d] = docs'[d] \/ (saved'[d] = saved[d] /\ docs'[d] = DocOr(docs[d]))
    BY <1>2, <1>4, IngestFileReads DEF Reads
  <2>2. Saved(d)'
    BY <1>1, <1>2, <2>1, DocOrIs DEF Saved, Tied, GoneTogether
  <2>3. QED
    BY <1>2, <1>3, <2>1, <2>2 DEF Tied, GoneTogether, RemovalUnheard, OwnEventComes, TextComes
<1>5. CASE ~Reads(d)
  <2>1. docs'[d] = docs[d] /\ saved'[d] = saved[d]
    BY <1>2, <1>5, IngestFileReads
  <2>2. RemovalUnheard(d)'
    <3>1. SUFFICES ASSUME disk[d] = Absent, Unheard(d) PROVE Unheard(d)'
      BY <1>2, <2>1 DEF RemovalUnheard, Tied
    <3>2. Head(events[d]) = "touch"
      BY <3>1 DEF Ingest, Reported
    <3>3. PICK i \in DOMAIN events[d] : events[d][i] = "remove"
      BY <3>1 DEF Unheard
    <3>4. i # 1
      BY <1>1, <1>2, <3>2, <3>3, EventHandled
    <3>5. i - 1 \in DOMAIN Tail(events[d]) /\ Tail(events[d])[i - 1] = "remove"
      BY <1>1, <1>2, <3>3, <3>4, EventHandled
    <3>6. QED
      BY <1>2, <3>5 DEF Unheard
  <2>3. TextComes(d)'
    <3>1. SUFFICES ASSUME disk[d] # Absent, Len(events[d]) >= 2 PROVE events'[d] # <<>>
      BY <1>2, <1>3, <1>5, <2>1 DEF TextComes, Tied, Reads
    <3>2. QED
      BY <1>1, <1>2, <3>1, EventHandled
  <2>4. QED
    BY <1>2, <1>3, <2>1, <2>2, <2>3 DEF Tied, GoneTogether, OwnEventComes, Saved
<1>6. QED
  BY <1>4, <1>5

\* A file that the sweep finds is read.
LEMMA SweepTied ==
  ASSUME FileSyncAssumption, Basics, NEW d \in Devices, Tied(d), Sweep(d)
  PROVE  Tied(d)'
<1>1. IngestFile(d) /\ disk' = disk /\ flushes' = flushes /\ events' = events
  BY DEF Sweep
<1>2. docs[d] = Absent /\ disk[d] # Absent /\ saved[d] = Absent /\ Reads(d)
  BY DEF Sweep, Untracked, Reads, Tied, GoneTogether
<1>3. /\ ~flag'[d] /\ docs'[d] # Absent /\ TextOf(docs'[d]) = disk[d].text
      /\ saved'[d] = docs'[d] \/ saved'[d] = Absent
  BY <1>1, <1>2, IngestFileReads
<1>4. QED
  BY <1>1, <1>2, <1>3 DEF Tied, GoneTogether, RemovalUnheard, OwnEventComes, Saved, TextComes

\* A path that is no longer tracked has nothing to tie.
LEMMA UntrackTied ==
  ASSUME Basics, NEW d \in Devices, Untrack(d)
  PROVE  Tied(d)'
<1>1. Types
  BY DEF Basics
<1>2. docs'[d] = Absent /\ saved'[d] = Absent /\ ~flag'[d] /\ \A f \in flushes'[d] : f.late
  <2>1. /\ docs \in [Devices -> DocOrNone] /\ saved \in [Devices -> DocOrNone] /\ flag \in [Devices -> BOOLEAN]
    BY <1>1 DEF Types, LocalOK
  <2>2. docs'[d] = Absent /\ saved'[d] = Absent /\ ~flag'[d] /\ Late(d)
    BY <2>1 DEF Untrack
  <2>3. QED
    BY <1>1, <2>2, LateIs
<1>3. QED
  BY <1>2 DEF Tied, GoneTogether, RemovalUnheard, OwnEventComes, Saved, TextComes

\* A flush under way is not done.
LEMMA FlushReadTied ==
  ASSUME Basics, NEW d \in Devices, Tied(d), NEW f \in flushes[d], FlushRead(d, f)
  PROVE  Tied(d)'
<1>1. /\ docs' = docs /\ saved' = saved /\ disk' = disk /\ flag' = flag /\ events' = events /\ docs[d] # Absent
      /\ flushes \in [Devices -> SUBSET Flush]
  BY DEF FlushRead, Basics, Types, LocalOK
<1>2. flushes'[d] # {}
  BY <1>1 DEF FlushRead, Becomes
<1>3. QED
  BY <1>1, <1>2 DEF Tied, GoneTogether, RemovalUnheard, OwnEventComes, Saved, TextComes, Unheard

\* A flush that finds no document writes nothing.
LEMMA FlushNothingTied ==
  ASSUME Basics, NEW d \in Devices, Tied(d), NEW f \in flushes[d], FlushNothing(d, f), missed' = missed
  PROVE  Tied(d)'
<1>1. /\ docs' = docs /\ saved' = saved /\ disk' = disk /\ flag' = flag /\ events' = events /\ docs[d] = Absent
      /\ flushes \in [Devices -> SUBSET Flush]
  BY DEF FlushNothing, Miss, Basics, Types, LocalOK, SpentOK
<1>2. flushes'[d] \subseteq flushes[d]
  BY <1>1 DEF FlushNothing, Becomes
<1>3. QED
  BY <1>1, <1>2 DEF Tied, GoneTogether, RemovalUnheard, OwnEventComes, Saved, TextComes, Unheard

\* A flush that nothing overtook writes the text of the document, and saves it.
LEMMA FlushWriteTied ==
  ASSUME Basics, NEW d \in Devices, Tied(d), NEW f \in flushes[d], FlushWrite(d, f),
         ~raced', missed' = missed
  PROVE  Tied(d)'
<1>1. /\ missed \in Nat /\ docs \in [Devices -> DocOrNone] /\ saved \in [Devices -> DocOrNone] /\ flag \in [Devices -> BOOLEAN]
      /\ disk \in [Devices -> File \cup {Absent}] /\ events \in [Devices -> Seq({"touch", "remove"})]
  BY DEF Basics, Types, LocalOK, SpentOK
<1>2. ~f.late /\ f.doc = DocOr(docs[d])
  BY DEF FlushWrite, Overtaken
<1>3. docs[d] # Absent /\ f.doc = docs[d]
  BY <1>1, <1>2, DocOrIs DEF Tied, GoneTogether
<1>4. docs' = docs /\ saved'[d] = docs[d] /\ flag'[d]
  BY <1>1, <1>2, <1>3 DEF FlushWrite, Flushed, Save, Miss
<1>5. disk'[d] = [text |-> TextOf(docs[d]), at |-> now]
  BY <1>1, <1>3 DEF FlushWrite
<1>6. disk'[d] # Absent /\ disk'[d].text = TextOf(docs[d])
  <2>1. DOMAIN disk'[d] = {"text", "at"} /\ DOMAIN Absent = {"none"}
    BY <1>5 DEF Absent
  <2>2. QED
    BY <1>5, <2>1
<1>7. events'[d] # <<>>
  <2>1. CASE events' = [events EXCEPT ![d] = Append(@, "touch")]
    BY <1>1, <2>1, EventAdded
  <2>2. CASE events' = [events EXCEPT ![d] = @ \o <<"touch", "touch">>]
    <3>1. events'[d] = events[d] \o <<"touch", "touch">>
      BY <1>1, <2>2
    <3>2. Len(events'[d]) = Len(events[d]) + 2 /\ Len(events[d]) \in Nat
      BY <1>1, <3>1
    <3>3. QED
      BY <3>2
  <2>3. QED
    BY <2>1, <2>2 DEF FlushWrite
<1>8. QED
  BY <1>3, <1>4, <1>6, <1>7 DEF Tied, GoneTogether, RemovalUnheard, OwnEventComes, Saved, TextComes

\* A document made to answer a question has no saved state yet.
LEMMA AnswerTied ==
  ASSUME Basics, NEW d \in Devices, Tied(d), Answer(d)
  PROVE  Tied(d)'
<1>1. /\ saved' = saved /\ disk' = disk /\ flag' = flag /\ events' = events /\ flushes' = flushes
      /\ docs \in [Devices -> DocOrNone]
  BY DEF Answer, Basics, Types, LocalOK
<1>2. docs'[d] \in {docs[d], DocOr(docs[d])}
  BY <1>1 DEF Answer
<1>3. docs[d] # Absent => docs'[d] = docs[d]
  BY <1>1, <1>2, DocOrIs
<1>4. QED
  BY <1>1, <1>3 DEF Tied, GoneTogether, RemovalUnheard, OwnEventComes, Saved, TextComes, Unheard

\* An update that is applied has its flush to come.
LEMMA ReceiveTied ==
  ASSUME Basics, NEW d \in Devices, Tied(d), Receive(d)
  PROVE  Tied(d)'
<1>1. /\ saved' = saved /\ disk' = disk /\ flag' = flag /\ events' = events
      /\ docs \in [Devices -> DocOrNone] /\ flushes \in [Devices -> SUBSET Flush]
      /\ Types /\ Reading(d)
  BY DEF Receive, Basics, Types, LocalOK
<1>2. CASE docs' = docs /\ (Late(d) \/ UNCHANGED flushes)
  <2>1. /\ flushes'[d] = {} <=> flushes[d] = {}
        /\ (\A f \in flushes[d] : f.late) => \A f \in flushes'[d] : f.late
    BY <1>1, <1>2, LateIs
  <2>2. QED
    BY <1>1, <1>2, <2>1 DEF Tied, GoneTogether, RemovalUnheard, OwnEventComes, Saved, TextComes, Unheard
<1>3. ASSUME NEW u \in Doc, docs' = [docs EXCEPT ![d] = Merge(DocOr(@), u)],
             flushes' = [flushes EXCEPT ![d] = @ \cup {Spawned}]
      PROVE  Tied(d)'
  <2>1. docs'[d] # Absent
    <3>1. docs'[d] = Merge(DocOr(docs[d]), u)
      BY <1>1, <1>3
    <3>2. Merge(DocOr(docs[d]), u) \in Doc
      BY <1>1, DocOrIs, MergeIs
    <3>3. QED
      BY <3>1, <3>2, AbsentIsNoRecord
  <2>2. flushes'[d] # {}
    BY <1>1, <1>3
  <2>3. QED
    BY <1>1, <2>1, <2>2 DEF Tied, GoneTogether, RemovalUnheard, OwnEventComes, Saved, TextComes, Unheard
<1>4. Head(frames[d]).file \in DocOrNone
  <2>1. frames[d] # <<>> /\ frames' = [frames EXCEPT ![d] = Tail(@)]
    BY DEF Receive, Reading
  <2>2. Head(frames[d]) \in Sent
    BY <1>1, <2>1, ReadIs
  <2>3. QED
    BY <2>2 DEF Sent
<1>5. QED
  BY <1>2, <1>3, <1>4 DEF Receive, DocOrNone

\* The events that are dropped are of a file with no document.
LEMMA DropEventsTied ==
  ASSUME Basics, NEW d \in Devices, Tied(d), DropEvents(d)
  PROVE  Tied(d)'
BY DEF DropEvents, Tied, GoneTogether, RemovalUnheard, OwnEventComes, Saved, TextComes

\* A restart restores the document from its saved state and the file, and nothing is under way.
LEMMA RestartTied ==
  ASSUME FileSyncAssumption, Basics, NEW d \in Devices, Tied(d), NEW ts \in Remembered(d), NEW kept \in BOOLEAN, Restart(d, ts, kept), ~raced'
  PROVE  Tied(d)'
<1>R. Restarted(d, ts, kept)
  BY RestartIs DEF Basics
<1>1. /\ docs \in [Devices -> DocOrNone] /\ saved \in [Devices -> DocOrNone] /\ flag \in [Devices -> BOOLEAN]
      /\ disk \in [Devices -> File \cup {Absent}] /\ flushes \in [Devices -> SUBSET Flush]
      /\ Types /\ OneEntry
  BY DEF Basics, Types, LocalOK
<1>2. /\ docs'[d] = IF Here(d, ts, kept) THEN Restored(d, ts, kept) ELSE Absent
      /\ saved'[d] = IF Gone(ts, kept) THEN Absent ELSE IF Here(d, ts, kept) THEN Restored(d, ts, kept) ELSE saved[d]
      /\ disk'[d] = IF Here(d, ts, kept) THEN disk[d] ELSE Absent
      /\ ~flag'[d] /\ flushes'[d] = {} /\ ~Unheard(d)
  <2>1. docs' = [docs EXCEPT ![d] = IF Here(d, ts, kept) THEN Restored(d, ts, kept) ELSE Absent]
    BY <1>1, <1>R DEF Restarted
  <2>2. saved' = [saved EXCEPT ![d] = IF Gone(ts, kept) THEN Absent ELSE IF Here(d, ts, kept) THEN Restored(d, ts, kept) ELSE saved[d]]
    BY <1>1, <1>R DEF Restarted
  <2>3. disk' = [disk EXCEPT ![d] = IF Here(d, ts, kept) THEN disk[d] ELSE Absent]
    BY <1>1, <1>R DEF Restarted
  <2>4. flag' = [flag EXCEPT ![d] = FALSE] /\ flushes' = [flushes EXCEPT ![d] = {}] /\ ~Unheard(d)
    BY <1>1, <1>R DEF Restarted
  <2>5. docs'[d] = IF Here(d, ts, kept) THEN Restored(d, ts, kept) ELSE Absent
    BY <1>1, <2>1
  <2>6. saved'[d] = IF Gone(ts, kept) THEN Absent ELSE IF Here(d, ts, kept) THEN Restored(d, ts, kept) ELSE saved[d]
    BY <1>1, <2>2
  <2>7. disk'[d] = IF Here(d, ts, kept) THEN disk[d] ELSE Absent
    BY <1>1, <2>3
  <2>8. QED
    BY <1>1, <2>4, <2>5, <2>6, <2>7
<1>3. CASE ~Here(d, ts, kept)
  <2>1. docs'[d] = Absent /\ disk'[d] = Absent
    BY <1>2, <1>3
  <2>2. saved'[d] = Absent
    BY <1>2, <1>3 DEF Here, Tied, RemovalUnheard
  <2>3. QED
    BY <1>2, <2>1, <2>2 DEF Tied, GoneTogether, RemovalUnheard, OwnEventComes, Saved, TextComes
<1>4. CASE Here(d, ts, kept)
  <2>1. docs'[d] = Restored(d, ts, kept) /\ saved'[d] = Restored(d, ts, kept) /\ disk'[d] = disk[d] /\ disk[d] # Absent
    BY <1>2, <1>4 DEF Here
  <2>2. Restored(d, ts, kept) \in Doc /\ Old(d) \in Doc
    BY <1>1, <1>R DEF Restarted
  <2>3. TextOf(Restored(d, ts, kept)) = disk[d].text
    <3>1. CASE Edited(d, ts, kept)
      <4>1. InUse(Old(d)) \/ Old(d) = EmptyDoc
        BY DEF Old, DocOr, InUse
      <4>2. spent.chunks[d] <= MaxChunks
        BY <1>1 DEF Types, SpentOK
      <4>3. QED
        BY <2>1, <2>2, <3>1, <4>1, <4>2, ReadText DEF Restored, Edit
    <3>2. CASE ~Edited(d, ts, kept)
      BY <1>4, <3>2 DEF Edited, Restored
    <3>3. QED
      BY <3>1, <3>2
  <2>4. QED
    BY <1>2, <2>1, <2>2, <2>3, AbsentIsNoRecord DEF Tied, GoneTogether, RemovalUnheard, OwnEventComes, Saved, TextComes
<1>5. QED
  BY <1>3, <1>4

\* Every step does so: one step of the proof for each action.
LEMMA NextTied ==
  ASSUME FileSyncAssumption, Basics, Next
  PROVE  \E d \in Devices : TiedBy(d) /\ (Acts(d) \/ Connect \/ Cut)
<1>1. /\ docs \in [Devices -> DocOrNone] /\ saved \in [Devices -> DocOrNone] /\ flag \in [Devices -> BOOLEAN]
      /\ disk \in [Devices -> File \cup {Absent}] /\ flushes \in [Devices -> SUBSET Flush]
      /\ events \in [Devices -> Seq({"touch", "remove"})] /\ Types /\ OneEntry
      /\ missed \in Nat
  BY DEF Basics, Types, LocalOK, SpentOK
<1>2. ASSUME NEW d \in Devices, Write(d) PROVE TiedBy(d)
  BY <1>1, <1>2, WriteTied DEF Write, TiedBy, Still
<1>3. ASSUME NEW d \in Devices, Delete(d) PROVE TiedBy(d)
  BY <1>1, <1>3, DeleteTied DEF Delete, Late, TiedBy, Still
<1>4. ASSUME NEW d \in Devices, Ingest(d) PROVE TiedBy(d)
  <2>1. \A o \in Devices \ {d} : Still(o)
    BY <1>1, <1>4, IngestFileReads DEF Ingest, Handled, Still
  <2>2. missed' = missed \/ missed' # 0
    BY <1>1, <1>4, IngestFileIs DEF Ingest
  <2>3. QED
    BY <1>4, <2>1, <2>2, IngestTied DEF Ingest, TiedBy
<1>4a. ASSUME NEW d \in Devices, IngestFails(d) PROVE TiedBy(d)
  <2>1. \A o \in Devices \ {d} : Still(o)
    BY <1>1, <1>4a DEF IngestFails, Handled, Still
  <2>2. missed' # 0
    BY <1>1, <1>4a DEF IngestFails, Miss
  <2>3. QED
    BY <1>4a, <2>1, <2>2 DEF IngestFails, TiedBy
<1>5. ASSUME NEW d \in Devices, Sweep(d) PROVE TiedBy(d)
  <2>1. \A o \in Devices \ {d} : Still(o)
    BY <1>1, <1>5, IngestFileReads DEF Sweep, Still
  <2>2. missed' = missed \/ missed' # 0
    BY <1>1, <1>5, IngestFileIs DEF Sweep
  <2>3. QED
    BY <1>5, <2>1, <2>2, SweepTied DEF Sweep, TiedBy
<1>6. ASSUME NEW d \in Devices, RecordRemoval(d) PROVE TiedBy(d)
  BY <1>1, <1>6, UntrackTied DEF RecordRemoval, Untrack, Handled, Late, ghosts, TiedBy, Still
<1>7. ASSUME NEW d \in Devices, NEW f \in flushes[d], FlushRead(d, f) PROVE TiedBy(d)
  BY <1>1, <1>7, FlushReadTied DEF FlushRead, Becomes, ghosts, TiedBy, Still
<1>8. ASSUME NEW d \in Devices, NEW f \in flushes[d], FlushNothing(d, f) PROVE TiedBy(d)
  <2>1. \A o \in Devices \ {d} : Still(o)
    BY <1>1, <1>8 DEF FlushNothing, Becomes, Still
  <2>2. missed' = missed \/ missed' # 0
    BY <1>1, <1>8 DEF FlushNothing, Miss
  <2>3. QED
    BY <1>8, <2>1, <2>2, FlushNothingTied DEF FlushNothing, TiedBy
<1>9. ASSUME NEW d \in Devices, NEW f \in flushes[d], FlushWrite(d, f) PROVE TiedBy(d)
  <2>1. \A o \in Devices \ {d} : Still(o)
    BY <1>1, <1>9 DEF FlushWrite, Becomes, Save, Still
  <2>2. missed' = missed \/ missed' # 0
    BY <1>1, <1>9 DEF FlushWrite, Save, Miss
  <2>3. QED
    BY <1>9, <2>1, <2>2, FlushWriteTied DEF FlushWrite, TiedBy
<1>9a. ASSUME NEW d \in Devices, NEW f \in flushes[d], FlushFails(d, f) PROVE TiedBy(d)
  <2>1. \A o \in Devices \ {d} : Still(o)
    BY <1>1, <1>9a DEF FlushFails, Becomes, Still
  <2>2. missed' # 0
    BY <1>1, <1>9a DEF FlushFails, Miss
  <2>3. QED
    BY <1>9a, <2>1, <2>2 DEF FlushFails, TiedBy
<1>10. ASSUME NEW d \in Devices, Answer(d) PROVE TiedBy(d)
  BY <1>1, <1>10, AnswerTied DEF Answer, ghosts, TiedBy, Still
<1>11. ASSUME NEW d \in Devices, UNCHANGED local, UNCHANGED missed, raced => raced' PROVE TiedBy(d)
  <2>1. \A o \in Devices : Still(o)
    BY <1>11 DEF local, Still
  <2>2. QED
    BY <1>11, <2>1, StillTied DEF TiedBy
<1>12. ASSUME NEW d \in Devices, Remove(d), UNCHANGED missed, raced => raced' PROVE TiedBy(d)
  <2>1. Untrack(d)
    BY <1>12 DEF Remove
  <2>2. \A o \in Devices \ {d} : Still(o)
    BY <1>1, <1>12 DEF Remove, Untrack, Late, Still
  <2>3. (raced => raced') /\ missed' = missed
    BY <1>12
  <2>4. Tied(d)'
    BY <2>1, UntrackTied
  <2>5. QED
    BY <2>2, <2>3, <2>4 DEF TiedBy
<1>13. ASSUME NEW d \in Devices, Reconciles(d) PROVE TiedBy(d)
  BY <1>11, <1>12, <1>13 DEF Reconciles, Reconcile
<1>14. ASSUME NEW d \in Devices, ReceiveDelete(d) PROVE TiedBy(d)
  BY <1>12, <1>14 DEF ReceiveDelete
<1>15. ASSUME NEW d \in Devices, Receive(d) PROVE TiedBy(d)
  BY <1>1, <1>15, ReceiveTied DEF Receive, Late, TiedBy, Still
<1>16. ASSUME NEW d \in Devices, DropEvents(d) PROVE TiedBy(d)
  BY <1>1, <1>16, DropEventsTied DEF DropEvents, TiedBy, Still
<1>17. ASSUME NEW d \in Devices, NEW ts \in Remembered(d), NEW kept \in BOOLEAN, Restart(d, ts, kept) PROVE TiedBy(d)
  <2>R. Restarted(d, ts, kept)
    BY <1>1, <1>17, RestartIs
  <2>1. \A o \in Devices \ {d} : Still(o)
    <3>1. docs' = [docs EXCEPT ![d] = IF Here(d, ts, kept) THEN Restored(d, ts, kept) ELSE Absent]
      BY <1>1, <1>17, <2>R DEF Restarted
    <3>2. saved' = [saved EXCEPT ![d] = IF Gone(ts, kept) THEN Absent ELSE IF Here(d, ts, kept) THEN Restored(d, ts, kept) ELSE saved[d]]
      BY <1>1, <1>17, <2>R DEF Restarted
    <3>3. disk' = [disk EXCEPT ![d] = IF Here(d, ts, kept) THEN disk[d] ELSE Absent]
      BY <1>1, <1>17, <2>R DEF Restarted
    <3>4. /\ flag' = [flag EXCEPT ![d] = FALSE] /\ flushes' = [flushes EXCEPT ![d] = {}]
          /\ events' = [events EXCEPT ![d] = <<>>]
      BY <1>1, <1>17, <2>R DEF Restarted
    <3>5. \A o \in Devices \ {d} : docs'[o] = docs[o] /\ saved'[o] = saved[o] /\ disk'[o] = disk[o]
      BY <1>1, <3>1, <3>2, <3>3
    <3>6. \A o \in Devices \ {d} : flag'[o] = flag[o] /\ events'[o] = events[o] /\ flushes'[o] = flushes[o]
      BY <1>1, <3>4
    <3>7. QED
      BY <3>5, <3>6 DEF Still
  <2>2. (raced => raced') /\ missed' = missed
    BY <1>17, <2>R DEF Restarted
  <2>3. QED
    BY <1>17, <2>1, <2>2, RestartTied DEF TiedBy
<1>18. ASSUME NEW d \in Devices, Subscribe(d) \/ Push(d) \/ LoseDeletes(d) PROVE TiedBy(d)
  BY <1>11, <1>18 DEF Subscribe, Push, LoseDeletes, ghosts
<1>19. CASE Connect \/ Cut
  BY <1>11, <1>19 DEF Connect, Cut, ghosts, Devices
<1>20. ASSUME NEW d \in Devices, Acts(d) PROVE TiedBy(d)
  BY <1>2, <1>3, <1>4, <1>4a, <1>5, <1>6, <1>7, <1>8, <1>9, <1>9a, <1>10, <1>13, <1>14, <1>15, <1>16, <1>17, <1>18, <1>20 DEF Acts, Starts
<1>21. CASE \E d \in Devices : Acts(d)
  BY <1>20, <1>21
<1>22. QED
  BY <1>19, <1>21 DEF Next, Starts, Reconciles, Acts

\* The saved state, the document and the file are tied on every device, unless something came too late.
LEMMA TiedHold ==
  ASSUME FileSyncAssumption
  PROVE  Spec => []TiedUnlessRaced
<1>1. Init => TiedUnlessRaced
  <2> SUFFICES ASSUME Init, NEW d \in Devices PROVE Tied(d)
    BY DEF TiedUnlessRaced
  <2>1. /\ saved[d] = docs[d] /\ ~flag[d] /\ flushes[d] = {}
        /\ \/ disk[d] = [text |-> {0}, at |-> 0] /\ docs[d] = First
           \/ disk[d] = Absent /\ docs[d] = Absent
    BY DEF Init, First
  <2>2. TextOf(First) = {0}
    BY DEF TextOf, Seen, IdsOf, First
  <2>3. First # Absent
    BY FirstIs, AbsentIsNoRecord
  <2>4. disk[d] = Absent => docs[d] = Absent
    <3>1. DOMAIN [text |-> {0}, at |-> 0] = {"text", "at"} /\ DOMAIN Absent = {"none"}
      BY DEF Absent
    <3>2. [text |-> {0}, at |-> 0] # Absent
      BY <3>1
    <3>3. QED
      BY <2>1, <3>2
  <2>5. disk[d] # Absent => TextOf(docs[d]) = disk[d].text
    BY <2>1, <2>2
  <2>6. QED
    BY <2>1, <2>4, <2>5 DEF Tied, GoneTogether, RemovalUnheard, OwnEventComes, Saved, TextComes
<1>2. Basics /\ TiedUnlessRaced /\ [Next]_vars => TiedUnlessRaced'
  <2> SUFFICES ASSUME Basics, TiedUnlessRaced, [Next]_vars, ~raced', missed' = 0, NEW o \in Devices PROVE Tied(o)'
    BY DEF TiedUnlessRaced
  <2>1. CASE Next
    <3>1. PICK d \in Devices : TiedBy(d)
      BY <2>1, NextTied
    <3>2. Tied(o) /\ missed = 0
      BY <3>1 DEF TiedBy, TiedUnlessRaced
    <3>3. QED
      BY <3>1, <3>2, StillTied DEF TiedBy
  <2>2. CASE UNCHANGED vars
    <3>1. Still(o) /\ raced' = raced /\ missed' = missed
      BY <2>2 DEF vars, local, ghosts, Still
    <3>2. QED
      BY <3>1, StillTied DEF TiedUnlessRaced
  <2>3. QED
    BY <2>1, <2>2
<1>3. QED
  BY <1>1, <1>2, BasicsHold, PTL DEF Spec

\* On a device where nothing is under way the saved state of a document is that of its file, so that
\* the restoration at a start takes nothing for an edit: unless a flush, an event or a deletion came
\* too late, or a step was lost to a busy document or to a file that could not be read or written.
THEOREM SavedStateIsTheFile ==
  ASSUME FileSyncAssumption
  PROVE  Spec => []SavedMatchesUnlessRaced
<1>1. TiedUnlessRaced => SavedMatchesUnlessRaced
  BY DEF TiedUnlessRaced, Tied, Saved, TextComes, SavedMatchesUnlessRaced, SavedMatchesFile, Settled
<1>2. QED
  BY <1>1, TiedHold, PTL

-----------------------------------------------------------------------------
(* Deletions that stick                                                    *)

\* A device to which nothing was sent knows what it knew.
LEMMA ArrivedSame ==
  ASSUME NEW q \in Devices, tombs'[q] = tombs[q], frames'[q] = frames[q], NEW k \in Nat, NEW e
  PROVE  (Arrived(q, k, e)' <=> Arrived(q, k, e)) /\ (Struck(q, k, e)' <=> Struck(q, k, e))
BY DEF Arrived, Struck

\* If what is on the way is lost, nothing arrives.
LEMMA ArrivedOff ==
  ASSUME Types, NEW q \in Devices, tombs'[q] = tombs[q], frames'[q] = <<>>, NEW k \in Nat, NEW e
  PROVE  (Arrived(q, k, e)' <=> Arrived(q, 0, e)) /\ (Struck(q, k, e)' <=> Struck(q, 0, e))
<1>1. frames[q] \in Seq(Sent)
  BY DEF Types, StreamOK
<1>2. \A i \in DOMAIN frames[q] : ~(i <= 0)
  BY <1>1
<1>3. DOMAIN frames'[q] = {}
  OBVIOUS
<1>4. QED
  BY <1>2, <1>3 DEF Arrived, Struck

\* A frame that is sent arrives last.
LEMMA ArrivedAppended ==
  ASSUME Types, NEW q \in Devices, NEW f \in Sent, tombs'[q] = tombs[q], frames'[q] = Append(frames[q], f),
         NEW k \in Nat, NEW e
  PROVE  /\ k <= Len(frames[q]) => /\ Arrived(q, k, e)' <=> Arrived(q, k, e)
                                   /\ Struck(q, k, e)' <=> Struck(q, k, e)
         /\ k > Len(frames[q]) => /\ Arrived(q, k, e)' <=> Arrived(q, k, e) \/ e \in f.control.items
                                  /\ Struck(q, k, e)' <=> Struck(q, k, e) \/ e.chain \in f.control.dead
<1> DEFINE s == frames[q]
           t == frames'[q]
<1>1. s \in Seq(Sent)
  BY DEF Types, StreamOK
<1>2. /\ DOMAIN s = 1 .. Len(s) /\ Len(s) \in Nat
      /\ DOMAIN t = 1 .. Len(s) + 1
      /\ \A i \in 1 .. Len(s) : t[i] = s[i]
      /\ t[Len(s) + 1] = f
  BY <1>1
<1>3. s = frames[q] /\ t = frames'[q]
  OBVIOUS
<1> HIDE DEF s, t
<1>4. ASSUME k <= Len(s)
      PROVE  (Arrived(q, k, e)' <=> Arrived(q, k, e)) /\ (Struck(q, k, e)' <=> Struck(q, k, e))
  <2>1. \A i : (i \in DOMAIN t /\ i <= k) <=> (i \in DOMAIN s /\ i <= k)
    BY <1>2, <1>4
  <2>2. \A i : i \in DOMAIN s => t[i] = s[i]
    BY <1>2
  <2>3. QED
    BY <1>3, <2>1, <2>2 DEF Arrived, Struck
<1>5. ASSUME k > Len(s)
      PROVE  /\ Arrived(q, k, e)' <=> Arrived(q, k, e) \/ e \in f.control.items
             /\ Struck(q, k, e)' <=> Struck(q, k, e) \/ e.chain \in f.control.dead
  <2>1. \A i : (i \in DOMAIN t /\ i <= k) <=> (i \in DOMAIN s /\ i <= k) \/ i = Len(s) + 1
    BY <1>2, <1>5
  <2>2. \A i : i \in DOMAIN s => t[i] = s[i]
    BY <1>2
  <2>3. QED
    BY <1>2, <1>3, <2>1, <2>2 DEF Arrived, Struck
<1>6. QED
  BY <1>3, <1>4, <1>5

\* After a frame is read one less is to be read.
LEMMA ArrivedRead ==
  ASSUME Types, NEW q \in Devices, frames[q] # <<>>, frames'[q] = Tail(frames[q]),
         tombs'[q] = Joined(tombs[q], Head(frames[q]).control), NEW k \in Nat, NEW e
  PROVE  (Arrived(q, k, e)' <=> Arrived(q, k + 1, e)) /\ (Struck(q, k, e)' <=> Struck(q, k + 1, e))
<1> DEFINE s == frames[q]
           t == frames'[q]
           c == Head(frames[q]).control
<1>1. s \in Seq(Sent) /\ s # <<>> /\ t = Tail(s) /\ c = Head(s).control
  BY DEF Types, StreamOK
<1>2. /\ DOMAIN s = 1 .. Len(s) /\ Len(s) \in Nat /\ Len(s) >= 1
      /\ DOMAIN t = 1 .. Len(s) - 1
      /\ \A i \in 1 .. Len(s) - 1 : t[i] = s[i + 1]
      /\ Head(s) = s[1] /\ s[1] \in Sent
  BY <1>1
<1>3. tombs'[q].items = tombs[q].items \cup s[1].control.items /\ tombs'[q].dead = tombs[q].dead \cup s[1].control.dead
  BY <1>1, <1>2 DEF Joined
<1>4. s = frames[q] /\ t = frames'[q]
  OBVIOUS
<1> HIDE DEF s, t, c
<1>5. Arrived(q, k, e)' <=> e \in tombs'[q].items \/ \E i \in DOMAIN t : i <= k /\ e \in t[i].control.items
  BY <1>4 DEF Arrived
<1>6. Arrived(q, k + 1, e) <=> e \in tombs[q].items \/ \E i \in DOMAIN s : i <= k + 1 /\ e \in s[i].control.items
  BY <1>4 DEF Arrived
<1>7. Struck(q, k, e)' <=> e.chain \in tombs'[q].dead \/ \E i \in DOMAIN t : i <= k /\ e.chain \in t[i].control.dead
  BY <1>4 DEF Struck
<1>8. Struck(q, k + 1, e) <=> e.chain \in tombs[q].dead \/ \E i \in DOMAIN s : i <= k + 1 /\ e.chain \in s[i].control.dead
  BY <1>4 DEF Struck
<1>9. \A i \in DOMAIN t : i <= k => i + 1 \in DOMAIN s /\ i + 1 <= k + 1 /\ t[i] = s[i + 1]
  BY <1>2
<1>10. \A i \in DOMAIN s : i <= k + 1 => i = 1 \/ (i - 1 \in DOMAIN t /\ i - 1 <= k /\ t[i - 1] = s[i])
  BY <1>2
<1>11. 1 \in DOMAIN s /\ 1 <= k + 1
  BY <1>2
<1>12. Arrived(q, k, e)' <=> Arrived(q, k + 1, e)
  BY <1>3, <1>5, <1>6, <1>9, <1>10, <1>11
<1>13. Struck(q, k, e)' <=> Struck(q, k + 1, e)
  BY <1>3, <1>7, <1>8, <1>9, <1>10, <1>11
<1>14. QED
  BY <1>12, <1>13

\* A broadcast announces.
LEMMA BroadcastAnnounces ==
  ASSUME NEW d \in Devices, NEW t \in Tomb, NEW u \in DocOrNone, NEW n, Broadcast(d, t, u, n)
  PROVE  Announces(d, t)
<1>1. Frame(t, u) \in Sent /\ Frame(t, u).control = t
  BY FrameIs
<1>2. tombs' = [tombs EXCEPT ![d] = Joined(@, t)]
  BY DEF Broadcast
<1>3. frames' = frames \/ frames' = [frames EXCEPT ![Peer(d)] = Append(@, Frame(t, u))]
  BY DEF Broadcast
<1>4. QED
  BY <1>1, <1>2, <1>3 DEF Announces

\* A change that is none is nothing, or a frame without deletions.
LEMMA NothingAnnounced ==
  ASSUME Types, NEW p \in Devices, Announces(p, NoTombs)
  PROVE  Idle \/ Tells(p)
<1>1. tombs \in [Devices -> Tomb] /\ tombs[p] \in Tomb
  BY DEF Types, ControlOK
<1>2. Joined(tombs[p], NoTombs) = tombs[p]
  BY <1>1 DEF Joined, NoTombs, Tomb
<1>3. tombs' = tombs
  BY <1>1, <1>2 DEF Announces
<1>4. CASE UNCHANGED frames
  BY <1>3, <1>4 DEF Idle
<1>5. CASE \E f \in Sent : f.control = NoTombs /\ frames' = [frames EXCEPT ![Peer(p)] = Append(@, f)]
  BY <1>3, <1>5 DEF Tells
<1>6. QED
  BY <1>4, <1>5 DEF Announces

\* Nothing moves.
LEMMA IdleMoves ==
  ASSUME Known, Idle
  PROVE  Moves
<1>1. tombs' = tombs
  BY DEF Idle
<1>2. \A q \in Devices : \A i \in DOMAIN frames'[q] : frames'[q] = frames[q]
  BY DEF Idle
<1>3. QED
  BY <1>1, <1>2 DEF Moves, Known

\* What is sent is known to the sender.
LEMMA TellsMoves ==
  ASSUME Types, Known, NEW p \in Devices, Tells(p)
  PROVE  Moves
<1>1. PICK f \in Sent : /\ f.control = tombs[p] \/ f.control = NoTombs
                        /\ frames' = [frames EXCEPT ![Peer(p)] = Append(@, f)]
  BY DEF Tells
<1>2. tombs' = tombs
  BY DEF Tells
<1>3. \A o \in Devices : \A i \in DOMAIN frames'[o] :
        \/ i \in DOMAIN frames[o] /\ frames'[o][i] = frames[o][i]
        \/ o = Peer(p) /\ frames'[o][i] = f
  <2>1. frames \in [Devices -> Seq(Sent)] /\ Peer(p) \in Devices
    BY PeerIs DEF Types, StreamOK
  <2>2. \A o \in Devices : o # Peer(p) => frames'[o] = frames[o]
    BY <1>1, <2>1
  <2>3. \A o \in Devices : \A i \in DOMAIN frames'[o] :
          \/ i \in DOMAIN frames[o] /\ frames'[o][i] = frames[o][i]
          \/ frames'[o][i] = f
    BY <1>1, <2>1, AppendedIs
  <2>4. QED
    BY <2>2, <2>3
<1>4. Peer(Peer(p)) = p
  BY DEF Peer, Devices
<1>5. f.control.items \subseteq tombs[p].items /\ f.control.dead \subseteq tombs[p].dead
  BY <1>1 DEF NoTombs
<1>6. Known'
  BY <1>2, <1>3, <1>4, <1>5 DEF Known
<1>7. QED
  BY <1>2, <1>6 DEF Moves

\* What is read was known to the sender.
LEMMA HearsMoves ==
  ASSUME Types, Known, NEW r \in Devices, Hears(r)
  PROVE  Moves
<1> DEFINE c == Head(frames[r]).control
<1>1. /\ frames'[r] = Tail(frames[r]) /\ frames[r] # <<>>
      /\ tombs'[r] = Joined(tombs[r], c)
      /\ \A o \in Devices : o # r => tombs'[o] = tombs[o]
      /\ frames' = [frames EXCEPT ![r] = Tail(@)]
  BY DEF Hears, Types, StreamOK, ControlOK
<1>2. /\ 1 \in DOMAIN frames[r] /\ Head(frames[r]) = frames[r][1]
      /\ \A o \in Devices : \A i \in DOMAIN frames'[o] :
               \E j \in DOMAIN frames[o] : frames'[o][i] = frames[o][j]
  BY <1>1, ReadIs
<1>3. c.items \subseteq tombs[Peer(r)].items /\ c.dead \subseteq tombs[Peer(r)].dead
  BY <1>2 DEF Known
<1>4. tombs'[r].items = tombs[r].items \cup c.items /\ tombs'[r].dead = tombs[r].dead \cup c.dead
  BY <1>1 DEF Joined
<1> HIDE DEF c
<1>5. Peer(r) \in Devices
  BY PeerIs
<1>6. \A q \in Devices : tombs[q].items \subseteq tombs'[q].items /\ tombs[q].dead \subseteq tombs'[q].dead
  BY <1>1, <1>4
<1>7. Known'
  <2>1. ASSUME NEW q \in Devices, NEW i \in DOMAIN frames'[q]
        PROVE  /\ frames'[q][i].control.items \subseteq tombs'[Peer(q)].items
               /\ frames'[q][i].control.dead \subseteq tombs'[Peer(q)].dead
    <3>1. PICK j \in DOMAIN frames[q] : frames'[q][i] = frames[q][j]
      BY <1>2
    <3>2. Peer(q) \in Devices
      BY PeerIs
    <3>3. QED
      BY <1>6, <3>1, <3>2 DEF Known
  <2>2. QED
    BY <2>1 DEF Known
<1>8. QED
  BY <1>1, <1>3, <1>4, <1>5, <1>6, <1>7 DEF Moves

\* What survives survives moves, and the latest deletion stays the latest.
LEMMA MovesKeep ==
  ASSUME Moves
  PROVE  /\ \A e : Alive(e) => Alive(e)'
         /\ Survives => Survives'
         /\ now' = now => \A q \in Devices : Latest(q) => Latest(q)'
<1>1. \A e : Alive(e) => Alive(e)'
  BY DEF Moves, Alive
<1>2. Survives => Survives'
  BY <1>1 DEF Moves, Survives
<1>3. now' = now => \A q \in Devices : Latest(q) => Latest(q)'
  BY <1>1 DEF Moves, Latest
<1>4. QED
  BY <1>1, <1>2, <1>3

\* A deletion that nobody removed is not removed by what is on the way.
LEMMA AliveIsNotStruck ==
  ASSUME Known, NEW e, Alive(e)
  PROVE  \A q \in Devices : \A k \in Nat : ~Struck(q, k, e)
BY PeerIs DEF Known, Alive, Struck

\* A deletion stands though what is on the way is lost.
LEMMA StandingIdle ==
  ASSUME Types, Idle, NEW q \in Devices, \A k \in Nat : Standing(q, k), NEW k \in Nat
  PROVE  Standing(q, k)'
<1>1. tombs'[q] = tombs[q]
  BY DEF Idle
<1>2. CASE frames'[q] = frames[q]
  <2>1. PICK e \in Item : Arrived(q, k, e) /\ ~Struck(q, k, e)
    BY DEF Standing
  <2>2. Arrived(q, k, e)' /\ ~Struck(q, k, e)'
    BY <1>1, <1>2, <2>1, ArrivedSame
  <2>3. QED
    BY <2>2 DEF Standing
<1>3. CASE frames'[q] = <<>>
  <2>1. PICK e \in Item : Arrived(q, 0, e) /\ ~Struck(q, 0, e)
    BY DEF Standing
  <2>2. Arrived(q, k, e)' /\ ~Struck(q, k, e)'
    BY <1>1, <1>3, <2>1, ArrivedOff
  <2>3. QED
    BY <2>2 DEF Standing
<1>4. QED
  BY <1>2, <1>3 DEF Idle

\* A deletion stands when a frame is sent that has a deletion nobody removed, or nothing.
LEMMA StandingAppended ==
  ASSUME Types, NEW q \in Devices, NEW f \in Sent, tombs'[q] = tombs[q], frames'[q] = Append(frames[q], f),
         \A k \in Nat : Standing(q, k), NEW k \in Nat,
         \/ f.control = NoTombs
         \/ \E e \in Item : /\ e \in tombs[q].items \cup f.control.items
                            /\ e.chain \notin f.control.dead
                            /\ \A n \in Nat : ~Struck(q, n, e)
  PROVE  Standing(q, k)'
<1>1. Len(frames[q]) \in Nat
  BY DEF Types, StreamOK
<1>2. CASE k <= Len(frames[q]) \/ f.control = NoTombs
  <2>1. PICK e \in Item : Arrived(q, k, e) /\ ~Struck(q, k, e)
    BY DEF Standing
  <2>2. e \notin NoTombs.items /\ e.chain \notin NoTombs.dead
    BY DEF NoTombs
  <2>3. Arrived(q, k, e)' /\ ~Struck(q, k, e)'
    BY <1>1, <1>2, <2>1, <2>2, ArrivedAppended
  <2>4. QED
    BY <2>3 DEF Standing
<1>3. ASSUME k > Len(frames[q]),
             NEW e \in Item, e \in tombs[q].items \cup f.control.items, e.chain \notin f.control.dead,
             \A n \in Nat : ~Struck(q, n, e)
      PROVE  Standing(q, k)'
  <2>1. e \in tombs[q].items => Arrived(q, k, e)
    BY DEF Arrived
  <2>2. Arrived(q, k, e)' /\ ~Struck(q, k, e)'
    BY <1>3, <2>1, ArrivedAppended
  <2>3. QED
    BY <2>2 DEF Standing
<1>4. QED
  BY <1>1, <1>2, <1>3

\* A deletion stands when a device tells the other all it knows, as one that survives is known to one
\* of them.
LEMMA StandingTells ==
  ASSUME Types, Known, NEW p \in Devices, Tells(p), Survives, NEW q \in Devices,
         \A k \in Nat : Standing(q, k), NEW k \in Nat
  PROVE  Standing(q, k)'
<1>1. PICK f \in Sent : /\ f.control = tombs[p] \/ f.control = NoTombs
                        /\ frames' = [frames EXCEPT ![Peer(p)] = Append(@, f)]
  BY DEF Tells
<1>2. tombs' = tombs /\ frames \in [Devices -> Seq(Sent)]
  BY DEF Tells, Types, StreamOK
<1>3. CASE q # Peer(p)
  <2>1. frames'[q] = frames[q]
    BY <1>1, <1>2, <1>3
  <2>2. PICK e \in Item : Arrived(q, k, e) /\ ~Struck(q, k, e)
    BY DEF Standing
  <2>3. Arrived(q, k, e)' /\ ~Struck(q, k, e)'
    BY <1>2, <2>1, <2>2, ArrivedSame
  <2>4. QED
    BY <2>3 DEF Standing
<1>4. CASE q = Peer(p)
  <2>1. frames'[q] = Append(frames[q], f) /\ tombs'[q] = tombs[q]
    BY <1>1, <1>2, <1>4
  <2>2. PICK e \in Item : Alive(e) /\ \E o \in Devices : e \in tombs[o].items
    BY DEF Survives
  <2>3. \A n \in Nat : ~Struck(q, n, e)
    BY <2>2, AliveIsNotStruck
  <2>4. f.control = tombs[p] => e \in tombs[q].items \cup f.control.items /\ e.chain \notin f.control.dead
    BY <1>4, <2>2 DEF Devices, Peer, Alive
  <2>5. QED
    BY <1>1, <2>1, <2>3, <2>4, StandingAppended
<1>5. QED
  BY <1>3, <1>4

\* What stands whatever is read stands when a frame is read.
LEMMA StandingHears ==
  ASSUME Types, NEW r \in Devices, Hears(r), NEW q \in Devices, \A k \in Nat : Standing(q, k), NEW k \in Nat
  PROVE  Standing(q, k)'
<1>1. tombs \in [Devices -> Tomb] /\ frames \in [Devices -> Seq(Sent)]
  BY DEF Types, ControlOK, StreamOK
<1>2. CASE q # r
  <2>1. tombs'[q] = tombs[q] /\ frames'[q] = frames[q]
    BY <1>1, <1>2 DEF Hears
  <2>2. PICK e \in Item : Arrived(q, k, e) /\ ~Struck(q, k, e)
    BY DEF Standing
  <2>3. Arrived(q, k, e)' /\ ~Struck(q, k, e)'
    BY <2>1, <2>2, ArrivedSame
  <2>4. QED
    BY <2>3 DEF Standing
<1>3. CASE q = r
  <2>1. /\ tombs'[q] = Joined(tombs[q], Head(frames[q]).control) /\ frames'[q] = Tail(frames[q])
        /\ frames[q] # <<>>
    BY <1>1, <1>3 DEF Hears
  <2>2. k + 1 \in Nat
    OBVIOUS
  <2>3. PICK e \in Item : Arrived(q, k + 1, e) /\ ~Struck(q, k + 1, e)
    BY <2>2 DEF Standing
  <2>4. Arrived(q, k, e)' /\ ~Struck(q, k, e)'
    BY <2>1, <2>3, ArrivedRead
  <2>5. QED
    BY <2>4 DEF Standing
<1>4. QED
  BY <1>2, <1>3

\* What stands now is an entry that the device did not remove.
LEMMA StandingIsHere ==
  ASSUME Types', NEW q \in Devices, Standing(q, 0)'
  PROVE  \E e \in tombs'[q].items : e.chain \notin tombs'[q].dead
<1>1. PICK e \in Item : Arrived(q, 0, e)' /\ ~Struck(q, 0, e)'
  BY DEF Standing
<1>2. frames'[q] \in Seq(Sent)
  BY DEF Types, StreamOK
<1>3. \A i \in DOMAIN frames'[q] : ~(i <= 0)
  BY <1>2
<1>4. QED
  BY <1>1, <1>3 DEF Arrived, Struck

\* It does when nothing moves.
LEMMA IdleKeeps ==
  ASSUME Types, Known, Idle, now' = now
  PROVE  Kept
<1>1. Moves
  BY IdleMoves
<1>2. tombs' = tombs
  BY DEF Idle
<1>3. ASSUME NEW q \in Devices, Core(q) PROVE Core(q)'
  <2>1. \A k \in Nat : Standing(q, k)'
    BY <1>3, StandingIdle DEF Core
  <2>2. IsDeleted(tombs'[q])
    BY <1>2, <1>3 DEF Core
  <2>3. QED
    BY <1>1, <1>3, <2>1, <2>2, MovesKeep DEF Core
<1>4. QED
  BY <1>1, <1>3, MovesKeep DEF Kept, Sticky

\* A device tells what it knows.
LEMMA TellsKeeps ==
  ASSUME Types, Known, NEW p \in Devices, Tells(p), now' = now
  PROVE  Kept
<1>1. Moves
  BY TellsMoves
<1>2. tombs' = tombs
  BY DEF Tells
<1>3. ASSUME NEW q \in Devices, Core(q) PROVE Core(q)'
  <2>1. \A k \in Nat : Standing(q, k)'
    BY <1>3, StandingTells DEF Core
  <2>2. IsDeleted(tombs'[q])
    BY <1>2, <1>3 DEF Core
  <2>3. QED
    BY <1>1, <1>3, <2>1, <2>2, MovesKeep DEF Core
<1>4. QED
  BY <1>1, <1>3, MovesKeep DEF Kept, Sticky

\* It does when a frame is read, unless the deletion is masked by one that was removed.
LEMMA HearsKeeps ==
  ASSUME Types, Types', Known, NEW r \in Devices, Hears(r), ~Masked(tombs'[r]), now' = now
  PROVE  Kept
<1>1. Moves
  BY HearsMoves
<1>2. ASSUME NEW q \in Devices, Core(q) PROVE Core(q)'
  <2>1. \A k \in Nat : Standing(q, k)'
    BY <1>2, StandingHears DEF Core
  <2>2. CASE q = r
    <3>1. \E e \in tombs'[q].items : e.chain \notin tombs'[q].dead
      BY <2>1, StandingIsHere
    <3>2. IsDeleted(tombs'[q])
      BY <2>2, <3>1 DEF Masked
    <3>3. QED
      BY <1>1, <1>2, <2>1, <3>2, MovesKeep DEF Core
  <2>3. CASE q # r
    <3>1. tombs'[q] = tombs[q]
      BY <2>3 DEF Hears, Types, ControlOK
    <3>2. QED
      BY <1>1, <1>2, <2>1, <3>1, MovesKeep DEF Core
  <2>4. QED
    BY <2>2, <2>3
<1>3. QED
  BY <1>1, <1>2, MovesKeep DEF Kept, Sticky

\* What is announced is known to the one that announces it.
LEMMA AnnouncesIs ==
  ASSUME Types, Known, NEW p \in Devices, NEW t \in Tomb, Announces(p, t)
  PROVE  /\ tombs'[p].items = tombs[p].items \cup t.items /\ tombs'[p].dead = tombs[p].dead \cup t.dead
         /\ \A o \in Devices : o # p => tombs'[o] = tombs[o]
         /\ Known'
<1>1. /\ tombs'[p] = Joined(tombs[p], t)
      /\ \A o \in Devices : o # p => tombs'[o] = tombs[o]
  BY DEF Announces, Types, ControlOK
<1>2. tombs'[p].items = tombs[p].items \cup t.items /\ tombs'[p].dead = tombs[p].dead \cup t.dead
  BY <1>1 DEF Joined
<1>3. \A q \in Devices : tombs[q].items \subseteq tombs'[q].items /\ tombs[q].dead \subseteq tombs'[q].dead
  BY <1>1, <1>2
<1>4. \A o \in Devices : \A i \in DOMAIN frames'[o] :
        \/ i \in DOMAIN frames[o] /\ frames'[o][i] = frames[o][i]
        \/ o = Peer(p) /\ frames'[o][i].control = t
  <2>1. CASE UNCHANGED frames
    BY <2>1
  <2>2. ASSUME NEW f \in Sent, f.control = t, frames' = [frames EXCEPT ![Peer(p)] = Append(@, f)]
        PROVE  \A o \in Devices : \A i \in DOMAIN frames'[o] :
                 \/ i \in DOMAIN frames[o] /\ frames'[o][i] = frames[o][i]
                 \/ o = Peer(p) /\ frames'[o][i].control = t
    <3>1. frames \in [Devices -> Seq(Sent)] /\ Peer(p) \in Devices
      BY PeerIs DEF Types, StreamOK
    <3>2. \A o \in Devices : o # Peer(p) => frames'[o] = frames[o]
      BY <2>2, <3>1
    <3>3. \A o \in Devices : \A i \in DOMAIN frames'[o] :
            \/ i \in DOMAIN frames[o] /\ frames'[o][i] = frames[o][i]
            \/ frames'[o][i] = f
      BY <2>2, <3>1, AppendedIs
    <3>4. QED
      BY <2>2, <3>2, <3>3
  <2>3. QED
    BY <2>1, <2>2 DEF Announces
<1>5. Peer(Peer(p)) = p
  BY DEF Peer, Devices
<1>6. ASSUME NEW q \in Devices, NEW i \in DOMAIN frames'[q]
      PROVE  /\ frames'[q][i].control.items \subseteq tombs'[Peer(q)].items
             /\ frames'[q][i].control.dead \subseteq tombs'[Peer(q)].dead
  <2>1. CASE i \in DOMAIN frames[q] /\ frames'[q][i] = frames[q][i]
    BY <1>3, <2>1, PeerIs DEF Known
  <2>2. CASE q = Peer(p) /\ frames'[q][i].control = t
    BY <1>2, <1>5, <2>2
  <2>3. QED
    BY <1>4, <2>1, <2>2
<1>7. Known'
  BY <1>6 DEF Known
<1>8. QED
  BY <1>1, <1>2, <1>7

\* An entry that is alive and known to a device stands there.
LEMMA AliveStands ==
  ASSUME Known', NEW q \in Devices, NEW e \in Item, e \in tombs'[q].items, Alive(e)', NEW k \in Nat
  PROVE  Standing(q, k)' /\ Survives'
<1>1. Survives'
  BY DEF Survives
<1>2. Arrived(q, k, e)'
  BY DEF Arrived
<1>3. ~Struck(q, k, e)'
  BY PeerIs DEF Known, Alive, Struck
<1>4. QED
  BY <1>1, <1>2, <1>3 DEF Standing

\* What is kept is.
LEMMA KeptIsHeldOn ==
  ASSUME Kept
  PROVE  HeldOn
BY PeerIs DEF Kept, HeldOn, Held

\* A file that outdates all that its device knows to stand clears nothing that is held.
LEMMA ClearHolds ==
  ASSUME Basics, Known, NEW p \in Devices, Announces(p, Cleared(p)),
         IsDeleted(tombs[p]), disk[p] # Absent, ~Stands(p), now' = now
  PROVE  HeldOn
<1> DEFINE last == Last(tombs[p])
<1>1. Types /\ OneEntry /\ Times /\ tombs[p].items # {}
  BY DEF Basics, IsDeleted
<1>2. last \in tombs[p].items /\ last \in Item /\ last.chain \notin tombs[p].dead
  BY <1>1, KnownLast DEF IsDeleted
<1>3. Cleared(p) \in Tomb /\ Cleared(p).items = {} /\ Cleared(p).dead = {last.chain}
  BY <1>1, ClearedIs DEF Cleared
<1> HIDE DEF last
<1>4. /\ tombs'[p].dead = tombs[p].dead \cup {last.chain}
      /\ \A o \in Devices : o # p => tombs'[o] = tombs[o]
      /\ Known'
  BY <1>1, <1>3, AnnouncesIs
<1>5. ASSUME NEW d \in Devices, Held(d)
      PROVE  Core(d)' /\ Latest(d)'
  <2>1. d # p /\ Peer(d) = p
    BY <1>5 DEF Held, Sticky, Body, Devices, Peer
  <2>2. ~Sticky(p)
    BY DEF Sticky, Body
  <2>3. PICK g \in Item : g \in tombs[d].items /\ Alive(g) /\ g.ts = now
    BY <1>5, <2>1, <2>2 DEF Held, Latest
  <2>4. g.chain # last.chain
    <3>1. SUFFICES ASSUME g.chain = last.chain PROVE FALSE
      OBVIOUS
    <3>2. Afoot(g) /\ Afoot(last)
      BY <1>2, <2>3 DEF Afoot
    <3>3. g = last
      BY <1>1, <1>2, <3>1, <3>2 DEF OneEntry
    <3>4. disk[p].at <= last.ts
      BY <1>1, <2>3, <3>3 DEF Times
    <3>5. QED
      BY <1>2, <3>4 DEF Stands
  <2>5. Alive(g)'
    BY <1>4, <2>3, <2>4 DEF Alive
  <2>6. g \in tombs'[d].items
    BY <1>4, <2>1, <2>3
  <2>7. Survives' /\ \A k \in Nat : Standing(d, k)'
    <3>1. 0 \in Nat
      OBVIOUS
    <3>2. QED
      BY <1>4, <2>5, <2>6, <3>1, AliveStands
  <2>8. IsDeleted(tombs'[d])
    BY <1>4, <1>5, <2>1 DEF Held, Sticky, Core
  <2>9. QED
    BY <2>3, <2>5, <2>6, <2>7, <2>8 DEF Core, Latest
<1>6. QED
  BY <1>5 DEF HeldOn

\* A file that is read, or found younger than the deletion at the opening of a stream.
LEMMA ClearingHolds ==
  ASSUME Basics, Known, NEW p \in Devices, NEW u \in DocOrNone, Broadcast(p, Cleared(p), u, 0),
         ~ClearsFresh(p), now' = now
  PROVE  HeldOn
<1>1. Types /\ OneEntry
  BY DEF Basics
<1>2. Announces(p, Cleared(p))
  BY <1>1, ClearedIs, BroadcastAnnounces
<1>3. CASE IsDeleted(tombs[p])
  <2>1. ~Stands(p)
    BY <1>3 DEF ClearsFresh
  <2>2. disk[p] # Absent
    <3>1. tombs[p].items # {}
      BY <1>3 DEF IsDeleted
    <3>2. Last(tombs[p]) \in tombs[p].items /\ Last(tombs[p]).chain \notin tombs[p].dead
      BY <1>1, <1>3, <3>1, KnownLast DEF IsDeleted
    <3>3. QED
      BY <2>1, <3>2 DEF Stands
  <2>3. QED
    BY <1>2, <1>3, <2>1, <2>2, ClearHolds
<1>4. CASE ~IsDeleted(tombs[p])
  <2>1. Cleared(p) = NoTombs
    BY <1>4 DEF Cleared, NoTombs
  <2>2. Idle \/ Tells(p)
    BY <1>1, <1>2, <2>1, NothingAnnounced
  <2>3. QED
    BY <1>1, <2>2, IdleKeeps, TellsKeeps, KeptIsHeldOn
<1>5. QED
  BY <1>3, <1>4

\* A removed chain is not that of the entry that is recorded: its device would have it.
LEMMA RecordedIsAlive ==
  ASSUME Basics, DeadMade, NEW d \in Devices
  PROVE  Alive(NewEntry(d))
<1> DEFINE n == NewEntry(d)
<1>1. Types /\ OneEntry /\ Entries /\ tombs[d] \in Tomb
  BY DEF Basics, Types, ControlOK
<1>2. Author(n) = client[d]
  BY <1>1, RecordedIs
<1>3. ASSUME NEW q \in Devices, n.chain \in tombs[q].dead PROVE FALSE
  <2>1. PICK e \in tombs[d].items : e.chain = n.chain
    BY <1>2, <1>3 DEF DeadMade, Made, Author
  <2>2. e \in Item /\ Afoot(e)
    BY <1>1 DEF Tomb, Afoot
  <2>3. QED
    BY <1>1, <2>1, <2>2, NewEntryIsNew
<1>4. QED
  BY <1>3 DEF Alive

\* The device that records a removal knows the latest deletion, and on the other one nothing is cleared.
LEMMA RecordHolds ==
  ASSUME FileSyncAssumption, Basics, Basics', Known, DeadMade, NEW p \in Devices, RecordRemoval(p)
  PROVE  /\ Core(p)' /\ Latest(p)'
         /\ \A d \in Devices : Core(d) => Core(d)'
         /\ Known'
<1> DEFINE last == Last(tombs[p])
           t == Recorded(p)
<1>0. PICK n : n = NewEntry(p)
  OBVIOUS
<1>1. Types /\ OneEntry /\ Clients /\ Entries
  BY DEF Basics
<1>2. Types' /\ OneEntry'
  BY DEF Basics
<1>3. /\ t \in Tomb /\ n \in Item /\ t.items = {n}
      /\ t.dead = IF tombs[p].items = {} THEN {} ELSE {last.chain}
  BY <1>1, <1>0, RecordedIs
<1>4. Announces(p, t)
  BY <1>3, BroadcastAnnounces DEF RecordRemoval, DocOrNone
<1>5. /\ tombs'[p].items = tombs[p].items \cup {n} /\ tombs'[p].dead = tombs[p].dead \cup t.dead
      /\ \A o \in Devices : o # p => tombs'[o] = tombs[o]
      /\ Known'
  BY <1>1, <1>3, <1>4, AnnouncesIs
<1>6. tombs[p].items # {} => /\ last \in tombs[p].items /\ last \in Item
                             /\ \A o \in tombs[p].items : o = last \/ Before(o.chain, last.chain)
  BY <1>1, KnownLast
<1>7. n.ts = now'
  BY <1>0 DEF NewEntry, RecordRemoval
<1>8. Alive(n)'
  <2>1. Alive(n)
    BY <1>0, RecordedIsAlive
  <2>2. tombs[p].items # {} => n.chain # last.chain
    BY <1>1, <1>6, <1>0, NewEntryIsNew DEF Afoot
  <2>3. QED
    BY <1>3, <1>5, <2>1, <2>2 DEF Alive
<1>9. n \in tombs'[p].items
  BY <1>5
<1>10. Survives' /\ \A k \in Nat : Standing(p, k)'
  <2> HIDE DEF t, last
  <2>1. 0 \in Nat
    OBVIOUS
  <2>2. QED
    BY <1>3, <1>5, <1>8, <1>9, <2>1, AliveStands
<1>11. Last(tombs'[p]) = n
  <2> DEFINE m == Last(tombs'[p])
  <2>1. tombs'[p] \in Tomb /\ Single(tombs'[p])
    <3>1. tombs'[p] \in Tomb
      BY <1>2 DEF Types, ControlOK
    <3>2. \A x \in tombs'[p].items : x \in Item /\ Afoot(x)'
      BY <3>1 DEF Tomb, Afoot
    <3>3. QED
      BY <1>2, <3>1, <3>2 DEF Single, OneEntry
  <2>2. m \in tombs'[p].items /\ \A o \in tombs'[p].items : o = m \/ Before(o.chain, m.chain)
    BY <1>9, <2>1, LastIs
  <2>3. SUFFICES ASSUME m # n PROVE FALSE
    OBVIOUS
  <2>4. m \in tombs[p].items /\ Before(n.chain, m.chain)
    BY <1>5, <1>9, <2>2, <2>3
  <2>5. m \in Item /\ m.chain \in Chain /\ n.chain \in Chain /\ last.chain \in Chain
    BY <1>3, <1>6, <2>1, <2>2, <2>4 DEF Tomb, Item
  <2>6. n.chain = Append(last.chain, client[p]) /\ client[p] \in Nat
    BY <1>1, <1>0, <2>4 DEF NewEntry, Types, ControlOK
  <2>7. m = last \/ Before(m.chain, last.chain)
    BY <1>6, <2>4
  <2> HIDE DEF m, last
  <2>8. Before(last.chain, n.chain)
    BY <2>5, <2>6, BeforeAppended
  <2>9. Before(n.chain, last.chain)
    BY <2>4, <2>5, <2>7, BeforeTransitive
  <2>10. Before(n.chain, n.chain)
    BY <2>5, <2>8, <2>9, BeforeTransitive
  <2>11. QED
    BY <2>5, <2>10, BeforeIrreflexive
<1>12. IsDeleted(tombs'[p])
  BY <1>8, <1>9, <1>11 DEF IsDeleted, Alive
<1>13. Core(p)'
  BY <1>10, <1>12 DEF Core
<1>14. Latest(p)'
  BY <1>3, <1>7, <1>8, <1>9 DEF Latest
<1>15. ASSUME NEW d \in Devices, Core(d), d # p PROVE Core(d)'
  <2> HIDE DEF t, last
  <2>1. tombs'[d] = tombs[d] /\ IsDeleted(tombs'[d]) /\ d = Peer(p)
    BY <1>5, <1>15 DEF Core, Devices, Peer
  <2>2. ASSUME NEW k \in Nat PROVE Standing(d, k)'
    <3>1. PICK e \in Item : Arrived(d, k, e) /\ ~Struck(d, k, e)
      BY <1>15 DEF Core, Standing
    <3>2. CASE UNCHANGED frames
      <4>1. Arrived(d, k, e)' /\ ~Struck(d, k, e)'
        BY <2>1, <3>1, <3>2, ArrivedSame
      <4>2. QED
        BY <4>1 DEF Standing
    <3>3. ASSUME NEW f \in Sent, f.control = t, frames' = [frames EXCEPT ![Peer(p)] = Append(@, f)]
          PROVE  Standing(d, k)'
      <4>1. frames'[d] = Append(frames[d], f)
        BY <1>1, <2>1, <3>3 DEF Types, StreamOK
      <4>2. Len(frames[d]) \in Nat
        BY <1>1 DEF Types, StreamOK
      <4>3. CASE k <= Len(frames[d])
        <5>1. Arrived(d, k, e)' /\ ~Struck(d, k, e)'
          BY <1>1, <2>1, <3>1, <4>1, <4>3, ArrivedAppended
        <5>2. QED
          BY <5>1 DEF Standing
      <4>4. CASE k > Len(frames[d])
        <5>1. n \in f.control.items
          BY <1>3, <3>3
        <5>2. Arrived(d, k, n)'
          BY <1>1, <2>1, <4>1, <4>4, <5>1, ArrivedAppended
        <5>3. ~Struck(d, k, n)'
          BY <1>5, <1>8, PeerIs DEF Known, Alive, Struck
        <5>4. QED
          BY <1>3, <5>2, <5>3 DEF Standing
      <4>5. QED
        BY <4>2, <4>3, <4>4
    <3>4. QED
      BY <1>4, <3>2, <3>3 DEF Announces
  <2>3. QED
    BY <1>10, <2>1, <2>2 DEF Core
<1>16. QED
  BY <1>5, <1>13, <1>14, <1>15

\* What a start removes: the entry that it made, of a deletion that the file outdates.
LEMMA RestartRemoves ==
  ASSUME Types, NEW d \in Devices, NEW ts \in Remembered(d), NEW kept \in BOOLEAN, Restart(d, ts, kept)
  PROVE  /\ tombs'[d].dead \subseteq {<<Fresh>>}
         /\ tombs'[d].dead # {} => disk[d] # Absent /\ tombs'[d].items # {}
<1> DEFINE t == IF ts # NoTime THEN [items |-> {FreshEntry(ts)}, dead |-> {}] ELSE NoTombs
           s == IF ts # NoTime /\ kept THEN [t EXCEPT !.dead = {<<Fresh>>}] ELSE t
<1>1. tombs' = [tombs EXCEPT ![d] = s]
  BY DEF Restart, FreshEntry, Fresh
<1>2. tombs'[d] = s
  BY <1>1 DEF Types, ControlOK
<1>3. t.dead = {} /\ t = [items |-> t.items, dead |-> {}]
  BY DEF NoTombs
<1>4. ts # NoTime => t.items # {}
  OBVIOUS
<1>5. kept => disk[d] # Absent
  BY DEF Restart, Spares
<1> HIDE DEF t
<1>6. CASE ts # NoTime /\ kept
  <2>1. s = [items |-> t.items, dead |-> {<<Fresh>>}]
    BY <1>3, <1>6
  <2>2. QED
    BY <1>2, <1>4, <1>5, <1>6, <2>1
<1>7. CASE ~(ts # NoTime /\ kept)
  BY <1>2, <1>3, <1>7
<1>8. QED
  BY <1>6, <1>7

\* The chain of a start's entry is new: it was not removed, and nobody has an entry with it.
LEMMA FreshIsNew ==
  ASSUME Basics, DeadMade
  PROVE  /\ \A q \in Devices : <<Fresh>> \notin tombs[q].dead
         /\ \A q \in Devices : \A e \in tombs[q].items : e.chain # <<Fresh>>
<1>1. Types /\ Entries /\ tombs \in [Devices -> Tomb]
  BY DEF Basics, Types, ControlOK
<1>2. Fresh \in Nat /\ Fresh = 3 + spent.others
  BY <1>1 DEF Fresh, Types, SpentOK
<1>3. <<Fresh>>[Len(<<Fresh>>)] = Fresh
  OBVIOUS
<1>4. \A q \in Devices : <<Fresh>> \notin tombs[q].dead
  BY <1>2, <1>3 DEF DeadMade, Made
<1>5. ASSUME NEW q \in Devices, NEW e \in tombs[q].items PROVE e.chain # <<Fresh>>
  <2>1. e \in Item /\ Afoot(e)
    BY <1>1 DEF Tomb, Afoot
  <2>2. QED
    BY <1>1, <1>2, <1>3, <2>1 DEF Entries, Author
<1>6. QED
  BY <1>4, <1>5

\* A start keeps the deletion, with its time, if it is the latest the device knows; what the other
\* device knows was not removed by the one that starts.
LEMMA RestartKeeps ==
  ASSUME FileSyncAssumption, Basics, Basics', DeadMade, Stamped, NEW p \in Devices, NEW ts \in Remembered(p), NEW kept \in BOOLEAN, Restart(p, ts, kept), ~raced'
  PROVE  Kept /\ Known'
<1>R. Restarted(p, ts, kept)
  BY RestartIs DEF Basics
<1>0. PICK n : n = FreshEntry(ts)
  OBVIOUS
<1>1. /\ Types /\ OneEntry /\ Types' /\ OneEntry'
      /\ tombs \in [Devices -> Tomb] /\ tombs' \in [Devices -> Tomb]
  BY DEF Basics, Types, ControlOK
<1>2. /\ Off /\ now' = now
      /\ \A o \in Devices : o # p => tombs'[o] = tombs[o]
      /\ tombs'[p].items = IF ts # NoTime THEN {n} ELSE {}
      /\ ts # NoTime => n \in Item /\ ts \in Nat
      /\ ~Forgets(p) /\ ts = Value(p)
  BY <1>0, <1>1, <1>R DEF Restarted
<1>3. n.chain = <<Fresh>> /\ n.ts = ts
  BY <1>0 DEF FreshEntry
<1>3a. IsDeleted(tombs[p]) => ts = Last(tombs[p]).ts /\ ts # NoTime
  <2>1. SUFFICES ASSUME IsDeleted(tombs[p]) PROVE Last(tombs[p]).ts # NoTime
    BY <1>2 DEF Value
  <2>2. Last(tombs[p]) \in Item
    BY <1>1, <2>1, KnownLast DEF IsDeleted
  <2>3. QED
    BY <2>2 DEF Item, NoTime
<1>4. \A q \in Devices : frames'[q] = <<>>
  BY <1>2, OffIs
<1>5. Known'
  BY <1>4 DEF Known
<1>6. tombs'[p].dead \subseteq {<<Fresh>>} /\ (tombs'[p].dead # {} => disk[p] # Absent)
  BY <1>1, RestartRemoves
<1>7. ASSUME Sticky(p) PROVE Core(p)' /\ (Latest(p) => Latest(p)')
  <2>1. disk[p] = Absent /\ IsDeleted(tombs[p])
    BY <1>7 DEF Sticky, Body, Core
  <2>2. tombs'[p].items = {n} /\ tombs'[p].dead = {} /\ n \in Item
    BY <1>2, <1>3a, <1>6, <2>1
  <2>3. Alive(n)'
    BY <1>2, <1>3, <2>2, FreshIsNew DEF Alive
  <2>4. Survives' /\ \A k \in Nat : Standing(p, k)'
    <3>1. 0 \in Nat
      OBVIOUS
    <3>2. QED
      BY <1>5, <2>2, <2>3, <3>1, AliveStands
  <2>5. Last(tombs'[p]) = n
    <3>1. Single(tombs'[p]) /\ tombs'[p] \in Tomb
      BY <1>1, <2>2 DEF Single
    <3>2. QED
      BY <2>2, <3>1, LastIs
  <2>6. IsDeleted(tombs'[p])
    BY <2>2, <2>5 DEF IsDeleted
  <2>7. ASSUME Latest(p) PROVE Latest(p)'
    <3> DEFINE last == Last(tombs[p])
    <3>1. PICK g \in Item : g \in tombs[p].items /\ Alive(g) /\ g.ts = now
      BY <2>7 DEF Latest
    <3>2. ~(g.ts > last.ts)
      BY <1>2, <2>1, <3>1 DEF Forgets, Alive
    <3>3. last \in tombs[p].items /\ last \in Item
      BY <1>1, <3>1, KnownLast
    <3>4. last.ts <= now /\ last.ts \in Nat /\ now \in Nat
      BY <1>1, <3>3 DEF Stamped, Item, Types, SpentOK
    <3>5. n.ts = now'
      BY <1>2, <1>3, <1>3a, <2>1, <3>1, <3>2, <3>4
    <3>6. QED
      BY <2>2, <2>3, <3>5 DEF Latest
  <2>8. QED
    BY <2>4, <2>6, <2>7 DEF Core
<1>8. ASSUME NEW q \in Devices, q # p, Sticky(q) PROVE Core(q)' /\ (Latest(q) => Latest(q)')
  <2>1. tombs'[q] = tombs[q] /\ IsDeleted(tombs'[q]) /\ \A k \in Nat : Standing(q, k)
    BY <1>2, <1>8 DEF Sticky, Core
  <2>2. \A e \in tombs[q].items : Alive(e)' <=> e.chain \notin tombs[q].dead
    <3>1. \A o \in Devices : o = p \/ o = q
      BY <1>8 DEF Devices
    <3>2. \A e \in tombs[q].items : e.chain # <<Fresh>>
      BY FreshIsNew
    <3>3. QED
      BY <1>6, <2>1, <3>1, <3>2 DEF Alive
  <2>3. PICK e \in Item : Arrived(q, 0, e) /\ ~Struck(q, 0, e)
    BY <2>1 DEF Standing
  <2>4. e \in tombs[q].items /\ e.chain \notin tombs[q].dead
    <3>1. frames[q] \in Seq(Sent)
      BY <1>1 DEF Types, StreamOK
    <3>2. \A i \in DOMAIN frames[q] : ~(i <= 0)
      BY <3>1
    <3>3. QED
      BY <2>3, <3>2 DEF Arrived, Struck
  <2>5. Alive(e)' /\ e \in tombs'[q].items
    BY <2>1, <2>2, <2>4
  <2>6. Survives' /\ \A k \in Nat : Standing(q, k)'
    <3>1. 0 \in Nat
      OBVIOUS
    <3>2. QED
      BY <1>5, <2>5, <3>1, AliveStands
  <2>7. Latest(q) => Latest(q)'
    BY <1>2, <2>1, <2>2 DEF Latest, Alive
  <2>8. QED
    BY <2>1, <2>6, <2>7 DEF Core
<1>9. QED
  BY <1>5, <1>7, <1>8 DEF Kept

\* What moves grows.
LEMMA MovesGrow ==
  ASSUME Moves
  PROVE  Grown
BY DEF Moves, Grown

\* So does what is cleared.
LEMMA ClearingGrows ==
  ASSUME Types, OneEntry, Known, NEW p \in Devices, NEW u \in DocOrNone, Broadcast(p, Cleared(p), u, 0)
  PROVE  Grown
<1>1. Cleared(p) \in Tomb /\ Cleared(p).items = {} /\ Announces(p, Cleared(p))
  BY ClearedIs, BroadcastAnnounces
<1>2. /\ tombs'[p].items = tombs[p].items /\ tombs'[p].dead = tombs[p].dead \cup Cleared(p).dead
      /\ \A o \in Devices : o # p => tombs'[o] = tombs[o]
      /\ Known'
  BY <1>1, AnnouncesIs
<1>3. \A x \in Cleared(p).dead : \E e \in tombs[p].items : x = e.chain
  BY KnownLast DEF Cleared, IsDeleted
<1>4. QED
  BY <1>2, <1>3 DEF Grown

\* What happens to the maps and to what is held in a step that is neither a removal recorded nor a start:
\* one step of the proof for each action.
LEMMA MapsStep ==
  ASSUME FileSyncAssumption, Basics, Basics', Known, Next, \A d \in Devices : ~RecordRemoval(d) /\ ~Starts(d)
  PROVE  /\ Grown
         /\ now' \in {now, now + 1}
         /\ ~raced' /\ erased' # {} => HeldOn
<1> DEFINE Good == /\ Grown
                   /\ now' \in {now, now + 1}
                   /\ ~raced' /\ erased' # {} => HeldOn
<1>0. Types /\ Types' /\ OneEntry
  BY DEF Basics
<1>1. ASSUME UNCHANGED <<tombs, frames, now>> PROVE Good
  <2>1. Idle
    BY <1>1 DEF Idle
  <2>2. QED
    BY <1>0, <1>1, <2>1, IdleMoves, MovesGrow, IdleKeeps, KeptIsHeldOn
<1>2. ASSUME NEW d \in Devices, NEW u \in DocOrNone, Broadcast(d, Cleared(d), u, 0), now' = now,
             ~raced' => ~ClearsFresh(d)
      PROVE  Good
  BY <1>0, <1>2, ClearingGrows, ClearingHolds
<1>3. ASSUME NEW d \in Devices, Tells(d), now' = now PROVE Good
  BY <1>0, <1>3, TellsMoves, MovesGrow, TellsKeeps, KeptIsHeldOn
<1>4. ASSUME NEW d \in Devices, Write(d) PROVE Good
  <2>1. Idle /\ erased' = {} /\ now' = now + 1
    BY <1>4 DEF Write, Idle, control, outgoing
  <2>2. QED
    BY <2>1, IdleMoves, MovesGrow
<1>5. ASSUME NEW d \in Devices, Delete(d) PROVE Good
  BY <1>1, <1>5 DEF Delete, control, outgoing
<1>6. ASSUME NEW d \in Devices, Ingest(d) PROVE Good
  <2>1. IngestFile(d) /\ now' = now /\ raced' = (raced \/ ClearsFresh(d))
    BY <1>6 DEF Ingest
  <2>2. PICK u \in DocOrNone : Broadcast(d, Cleared(d), u, 0)
    BY <1>0, <2>1, IngestFileIs
  <2>3. ~raced' => ~ClearsFresh(d)
    BY <2>1
  <2>4. QED
    BY <1>2, <2>1, <2>2, <2>3
<1>6a. ASSUME NEW d \in Devices, IngestFails(d) PROVE Good
  <2>1. Broadcast(d, Cleared(d), Absent, 0) /\ now' = now /\ (~raced' => ~ClearsFresh(d))
    BY <1>6a DEF IngestFails
  <2>2. QED
    BY <1>2, <2>1 DEF DocOrNone
<1>7. ASSUME NEW d \in Devices, Sweep(d) PROVE Good
  <2>1. IngestFile(d) /\ now' = now /\ ~ClearsFresh(d)
    BY <1>7 DEF Sweep, Untracked, ClearsFresh
  <2>2. PICK u \in DocOrNone : Broadcast(d, Cleared(d), u, 0)
    BY <1>0, <2>1, IngestFileIs
  <2>3. QED
    BY <1>2, <2>1, <2>2
<1>8. ASSUME NEW d \in Devices, NEW f \in flushes[d],
                FlushRead(d, f) \/ FlushNothing(d, f) \/ FlushWrite(d, f) \/ FlushFails(d, f)
      PROVE  Good
  BY <1>1, <1>8 DEF FlushRead, FlushNothing, FlushWrite, FlushFails, control, outgoing
<1>9. ASSUME NEW d \in Devices, Answer(d) PROVE Good
  <2>1. Answered(d) \in DocOrNone /\ tombs[d] \in Tomb
    BY <1>0, AnsweredIs DEF Types, ControlOK
  <2>2. Tells(d) /\ now' = now
    BY <1>9, <2>1, FrameIs DEF Answer, Answered, Send, Tells, control
  <2>3. QED
    BY <1>3, <2>2
<1>10. ASSUME NEW d \in Devices, Push(d) PROVE Good
  <2>1. PushedDoc(d) \in DocOrNone /\ tombs[d] \in Tomb
    BY <1>0, PushedDocIs DEF Types, ControlOK
  <2>2. Tells(d) /\ now' = now
    BY <1>10, <2>1, FrameIs DEF Push, PushedDoc, Send, Tells, control
  <2>3. QED
    BY <1>3, <2>2
<1>11. ASSUME NEW d \in Devices, Subscribe(d) \/ ReceiveDelete(d) \/ DropEvents(d) \/ LoseDeletes(d) PROVE Good
  BY <1>1, <1>11 DEF Subscribe, ReceiveDelete, DropEvents, LoseDeletes, control, outgoing
<1>12. ASSUME NEW d \in Devices, NEW kept \in BOOLEAN, Reconcile(d, kept) PROVE Good
  <2>1. now' = now
    BY <1>12 DEF Reconcile
  <2>2. CASE IsDeleted(tombs[d]) /\ kept
    <3>1. Broadcast(d, Cleared(d), Absent, 0) /\ (~raced' => ~ClearsFresh(d))
      BY <1>12, <2>2 DEF Reconcile
    <3>2. QED
      BY <1>2, <2>1, <3>1 DEF DocOrNone
  <2>3. CASE ~(IsDeleted(tombs[d]) /\ kept)
    BY <1>1, <1>12, <2>1, <2>3 DEF Reconcile, outgoing
  <2>4. QED
    BY <2>2, <2>3
<1>13. ASSUME NEW d \in Devices, Receive(d) PROVE Good
  <2>1. /\ Hears(d) /\ now' = now
        /\ ~raced' => ~Masked(Joined(tombs[d], Head(frames[d]).control))
    BY <1>13 DEF Receive, Reading, Hears
  <2>2. tombs'[d] = Joined(tombs[d], Head(frames[d]).control)
    BY <1>0, <2>1 DEF Hears, Types, ControlOK
  <2>3. ~raced' => ~Masked(tombs'[d])
    BY <2>1, <2>2
  <2>4. QED
    BY <1>0, <2>1, <2>3, HearsMoves, MovesGrow, HearsKeeps, KeptIsHeldOn
<1>14. CASE Connect
  BY <1>1, <1>14 DEF Connect, control, outgoing
<1>15. CASE Cut
  <2>1. tombs' = tombs /\ now' = now /\ \A q \in Devices : frames'[q] = <<>>
    BY <1>15, OffIs DEF Cut, control
  <2>2. Idle
    BY <2>1 DEF Idle
  <2>3. QED
    BY <1>0, <2>1, <2>2, IdleMoves, MovesGrow, IdleKeeps, KeptIsHeldOn
<1>16. QED
  BY <1>4, <1>5, <1>6, <1>6a, <1>7, <1>8, <1>9, <1>10, <1>11, <1>12, <1>13, <1>14, <1>15 DEF Next, Starts, Reconciles

\* Entries that are removed stay those of clients that were started, whose devices have them.
LEMMA DeadStaysMade ==
  ASSUME Basics, Basics', DeadMade, client' = client, spent'.others >= spent.others,
         \A q \in Devices : tombs[q].items \subseteq tombs'[q].items,
         \A q \in Devices : \A x \in tombs'[q].dead :
           \E o \in Devices : x \in tombs[o].dead \/ \E e \in tombs[o].items : x = e.chain
  PROVE  DeadMade'
<1>1. tombs \in [Devices -> Tomb] /\ spent.others \in Nat /\ spent'.others \in Nat /\ Entries
  BY DEF Basics, Types, ControlOK, SpentOK
<1>2. ASSUME NEW o \in Devices, NEW e \in tombs[o].items PROVE Made(e.chain)
  <2>1. e \in Item /\ Afoot(e)
    BY <1>1 DEF Tomb, Afoot
  <2>2. e.chain \in Chain /\ Len(e.chain) >= 1
    BY <1>1, <2>1 DEF Entries, Item
  <2>3. e.chain[Len(e.chain)] < 3 + spent.others
    BY <1>1, <2>1 DEF Entries, Author
  <2>4. \A r \in Devices : e.chain[Len(e.chain)] = client[r] => e \in tombs[r].items
    BY <1>1, <2>1 DEF Entries, Author
  <2>5. QED
    BY <2>2, <2>3, <2>4 DEF Made
<1>3. ASSUME NEW x, Made(x) PROVE Made(x)'
  <2>1. x[Len(x)] \in Nat
    BY <1>3 DEF Made, Chain
  <2>2. x[Len(x)] < 3 + spent'.others
    BY <1>1, <1>3, <2>1 DEF Made
  <2>3. QED
    BY <1>3, <2>2 DEF Made
<1>4. ASSUME NEW q \in Devices, NEW x \in tombs'[q].dead PROVE Made(x)'
  <2>1. PICK o \in Devices : x \in tombs[o].dead \/ \E e \in tombs[o].items : x = e.chain
    OBVIOUS
  <2>2. Made(x)
    BY <1>2, <2>1 DEF DeadMade
  <2>3. QED
    BY <1>3, <2>2
<1>5. QED
  BY <1>4 DEF DeadMade

\* A start removes nothing but what it made.
LEMMA RestartDeadMade ==
  ASSUME FileSyncAssumption, Basics, Basics', DeadMade, NEW p \in Devices, NEW ts \in Remembered(p), NEW kept \in BOOLEAN, Restart(p, ts, kept)
  PROVE  DeadMade'
<1>R. Restarted(p, ts, kept)
  BY RestartIs DEF Basics
<1>0. PICK n : n = FreshEntry(ts)
  OBVIOUS
<1>10. PICK c : c = Fresh
  OBVIOUS
<1>1. Types /\ OneEntry /\ Clients /\ client \in [Devices -> Nat] /\ spent.others \in Nat /\ c = 3 + spent.others
  BY <1>10 DEF Basics, Types, ControlOK, SpentOK, Fresh
<1>2. /\ client' = [client EXCEPT ![p] = c]
      /\ \A o \in Devices : o # p => tombs'[o] = tombs[o]
      /\ tombs'[p].items = IF ts # NoTime THEN {n} ELSE {}
  BY <1>0, <1>1, <1>10, <1>R DEF Restarted
<1>3. n.chain = <<c>>
  BY <1>0, <1>10 DEF FreshEntry
<1>4. tombs'[p].dead \subseteq {<<c>>} /\ (tombs'[p].dead # {} => tombs'[p].items # {})
  BY <1>1, <1>10, RestartRemoves
<1>5. spent'.others = spent.others + 1
  <2>1. spent' = [spent EXCEPT !.others = @ + 1, !.chunks[p] = IF Edited(p, ts, kept) THEN @ + 1 ELSE @]
    BY <1>1, <1>R DEF Restarted
  <2>2. QED
    BY <1>1, <2>1 DEF Types, SpentOK
<1>6. client'[p] = c /\ \A o \in Devices : o # p => client'[o] = client[o] /\ client[o] # c
  BY <1>1, <1>2 DEF Clients
<1>7. ASSUME NEW x \in tombs'[p].dead PROVE Made(x)'
  <2>1. x = <<c>> /\ tombs'[p].items = {n}
    BY <1>2, <1>4
  <2>2. x \in Chain /\ Len(x) = 1 /\ x[Len(x)] = c /\ c < 3 + spent'.others
    BY <1>1, <1>5, <2>1 DEF Chain
  <2>3. \A r \in Devices : x[Len(x)] = client'[r] => \E e \in tombs'[r].items : e.chain = x
    BY <1>3, <1>6, <2>1, <2>2
  <2>4. QED
    BY <2>2, <2>3 DEF Made
<1>8. ASSUME NEW q \in Devices, q # p, NEW x \in tombs'[q].dead PROVE Made(x)'
  <2>1. Made(x) /\ x \in tombs[q].dead
    BY <1>2, <1>8 DEF DeadMade
  <2>2. x \in Chain /\ Len(x) >= 1 /\ x[Len(x)] < c /\ x[Len(x)] \in Nat
    BY <1>1, <2>1 DEF Made, Chain
  <2>3. \A r \in Devices : x[Len(x)] = client'[r] => \E e \in tombs'[r].items : e.chain = x
    BY <1>1, <1>2, <1>6, <2>1, <2>2 DEF Made
  <2>4. QED
    BY <1>1, <1>5, <2>2, <2>3 DEF Made
<1>9. QED
  BY <1>7, <1>8 DEF DeadMade

\* No entry comes from the future.
LEMMA StampedStep ==
  ASSUME Basics, Basics', Stamped, now' \in {now, now + 1},
         \A q \in Devices : \A e \in tombs'[q].items :
           \/ \E o \in Devices : e \in tombs[o].items
           \/ e.ts <= now'
  PROVE  Stamped'
<1>1. now \in Nat /\ tombs \in [Devices -> Tomb]
  BY DEF Basics, Types, SpentOK, ControlOK
<1>2. \A o \in Devices : \A e \in tombs[o].items : e.ts \in Nat /\ e.ts <= now
  BY <1>1 DEF Stamped, Tomb, Item
<1>3. QED
  BY <1>1, <1>2 DEF Stamped

\* Every step keeps what is known of deletions and when they were made.
LEMMA MadeStep ==
  ASSUME FileSyncAssumption, Basics, Basics', Known, DeadMade, Stamped, Next
  PROVE  Known' /\ DeadMade' /\ Stamped'
<1>0. Types /\ OneEntry /\ Entries /\ now \in Nat
  BY DEF Basics, Types, SpentOK
<1>1. CASE \A d \in Devices : ~RecordRemoval(d) /\ ~Starts(d)
  <2>1. Grown /\ now' \in {now, now + 1}
    BY <1>1, MapsStep
  <2>2. client' = client /\ spent'.others >= spent.others
    BY <1>0, <1>1, EntriesStep
  <2>3. DeadMade'
    BY <2>1, <2>2, DeadStaysMade DEF Grown
  <2>4. Stamped'
    BY <2>1, StampedStep DEF Grown
  <2>5. QED
    BY <2>1, <2>3, <2>4 DEF Grown
<1>2. ASSUME NEW d \in Devices, RecordRemoval(d) PROVE Known' /\ DeadMade' /\ Stamped'
  <2>0. PICK n : n = NewEntry(d)
    OBVIOUS
  <2>1. /\ Recorded(d) \in Tomb /\ Recorded(d).items = {n}
        /\ Recorded(d).dead = IF tombs[d].items = {} THEN {} ELSE {Last(tombs[d]).chain}
    BY <1>0, <2>0, RecordedIs
  <2>2. Announces(d, Recorded(d))
    BY <1>2, <2>1, BroadcastAnnounces DEF RecordRemoval, DocOrNone
  <2>3. /\ tombs'[d].items = tombs[d].items \cup {n} /\ tombs'[d].dead = tombs[d].dead \cup Recorded(d).dead
        /\ \A o \in Devices : o # d => tombs'[o] = tombs[o]
        /\ Known'
    BY <1>0, <2>1, <2>2, AnnouncesIs
  <2>4. now' = now + 1 /\ client' = client /\ spent' = spent /\ n.ts = now'
    BY <1>2, <2>0 DEF RecordRemoval, NewEntry
  <2>5. \A x \in Recorded(d).dead : \E e \in tombs[d].items : x = e.chain
    BY <1>0, <2>1, KnownLast
  <2>6. DeadMade'
    <3>1. spent'.others >= spent.others
      BY <2>4 DEF Basics, Types, SpentOK
    <3>2. QED
      BY <2>3, <2>4, <2>5, <3>1, DeadStaysMade
  <2>7. Stamped'
    BY <1>0, <2>3, <2>4, StampedStep
  <2>8. QED
    BY <2>3, <2>6, <2>7
<1>3. ASSUME NEW d \in Devices, NEW ts \in Remembered(d), NEW kept \in BOOLEAN, Restart(d, ts, kept) PROVE Known' /\ DeadMade' /\ Stamped'
  <2>R. Restarted(d, ts, kept)
    BY <1>0, <1>3, RestartIs
  <2>0. PICK n : n = FreshEntry(ts)
    OBVIOUS
  <2>1. /\ Off /\ now' = now
        /\ \A o \in Devices : o # d => tombs'[o] = tombs[o]
        /\ tombs'[d].items = IF ts # NoTime THEN {n} ELSE {}
    BY <1>0, <1>3, <2>0, <2>R DEF Restarted
  <2>2. Known'
    BY <2>1, OffIs DEF Known
  <2>3. DeadMade'
    BY <1>3, RestartDeadMade
  <2>4. ts # NoTime => n.ts <= now'
    <3>1. IsDeleted(tombs[d]) => Last(tombs[d]) \in tombs[d].items
      BY <1>0, KnownLast DEF IsDeleted
    <3>2. ts = NoTime \/ \E e \in tombs[d].items : ts = e.ts
      BY <1>3, <3>1 DEF Remembered, Value
    <3>3. QED
      BY <2>0, <2>1, <3>2 DEF FreshEntry, Stamped
  <2>5. Stamped'
    BY <2>1, <2>4, StampedStep
  <2>6. QED
    BY <2>2, <2>3, <2>5
<1>4. QED
  BY <1>1, <1>2, <1>3 DEF Starts

\* A removal stays unheard when an event is added.
LEMMA UnheardAdded ==
  ASSUME Types, NEW d \in Devices, NEW e \in {"touch", "remove"}, events'[d] = Append(events[d], e)
  PROVE  (Unheard(d) => Unheard(d)') /\ (e = "remove" => Unheard(d)')
<1> DEFINE s == events[d]
           t == events'[d]
<1>1. s \in Seq({"touch", "remove"}) /\ t = Append(s, e)
  BY DEF Types, LocalOK
<1>2. s = events[d] /\ t = events'[d]
  OBVIOUS
<1> HIDE DEF s, t
<1>3. /\ \A i \in DOMAIN s : i \in DOMAIN t /\ t[i] = s[i]
      /\ Len(s) + 1 \in DOMAIN t /\ t[Len(s) + 1] = e
  BY <1>1, EventAdded
<1>4. QED
  BY <1>2, <1>3 DEF Unheard

\* It stays so when a touch is handled.
LEMMA UnheardHandled ==
  ASSUME Types, NEW d \in Devices, events[d] # <<>>, Head(events[d]) = "touch", events'[d] = Tail(events[d]),
         Unheard(d)
  PROVE  Unheard(d)'
<1> DEFINE s == events[d]
           t == events'[d]
<1>1. s \in Seq({"touch", "remove"}) /\ s # <<>> /\ t = Tail(s) /\ Head(s) = "touch"
  BY DEF Types, LocalOK
<1>2. s = events[d] /\ t = events'[d]
  OBVIOUS
<1> HIDE DEF s, t
<1>3. Head(s) = s[1] /\ \A i \in DOMAIN s : i = 1 \/ (i - 1 \in DOMAIN t /\ t[i - 1] = s[i])
  BY <1>1, EventHandled
<1>4. PICK i \in DOMAIN s : s[i] = "remove"
  BY <1>2 DEF Unheard
<1>5. i # 1
  BY <1>1, <1>3, <1>4
<1>6. QED
  BY <1>2, <1>3, <1>4, <1>5 DEF Unheard

\* A device that nothing happened to.
LEMMA StillBody ==
  ASSUME NEW q \in Devices, disk'[q] = disk[q], events'[q] = events[q], flushes'[q] = flushes[q]
  PROVE  BodyOn(q)
BY DEF BodyOn, Sticky, Body, Unheard

\* A path whose file goes.
LEMMA RemoveBody ==
  ASSUME Types, NEW d \in Devices, Remove(d)
  PROVE  \A q \in Devices : BodyOn(q)
<1>1. /\ disk' = [disk EXCEPT ![d] = Absent]
      /\ events' = IF disk[d] = Absent THEN events ELSE [events EXCEPT ![d] = Append(@, "remove")]
      /\ Late(d)
  BY RemoveIs, UntrackIs
<1>2. \A f \in flushes'[d] : f.late
  BY <1>1, LateIs
<1>3. disk'[d] = Absent
  BY <1>1 DEF Types, LocalOK
<1>4. disk[d] = Absent => events' = events
  BY <1>1
<1>5. BodyOn(d)
  BY <1>2, <1>3, <1>4 DEF BodyOn, Body, Unheard
<1>6. ASSUME NEW q \in Devices, q # d PROVE BodyOn(q)
  <2>1. disk'[q] = disk[q]
    BY <1>1, <1>6 DEF Types, LocalOK
  <2>2. flushes'[q] = flushes[q]
    BY <1>1, <1>6, LateIs
  <2>3. events'[q] = events[q]
    BY <1>1, <1>6 DEF Types, LocalOK
  <2>4. QED
    BY <2>1, <2>2, <2>3, StillBody
<1>7. QED
  BY <1>5, <1>6

\* Every step but a removal recorded and a user's write: one step of the proof for each action.
LEMMA BodiesStep ==
  ASSUME FileSyncAssumption, Basics, Basics', Known, DeadMade, Stamped, Next, ~raced', erased' # {},
         \A d \in Devices : ~RecordRemoval(d)
  PROVE  BodiesOn
<1>0. /\ Types /\ OneEntry /\ Types'
      /\ disk \in [Devices -> File \cup {Absent}] /\ flushes \in [Devices -> SUBSET Flush]
      /\ events \in [Devices -> Seq({"touch", "remove"})] /\ erased \in SUBSET Devices
  BY DEF Basics, Types, LocalOK, SpentOK
<1>1. ASSUME UNCHANGED <<disk, events, flushes, erased>> PROVE BodiesOn
  BY <1>1, StillBody DEF BodiesOn
<1>2. ASSUME NEW d \in Devices, Write(d) PROVE FALSE
  BY <1>2 DEF Write
<1>3. ASSUME NEW d \in Devices, Delete(d) PROVE BodiesOn
  <2>1. /\ disk[d] # Absent /\ disk' = [disk EXCEPT ![d] = Absent]
        /\ events' = [events EXCEPT ![d] = Append(@, "remove")]
        /\ erased' = erased \cup {d} /\ Late(d)
    BY <1>3 DEF Delete
  <2>2. disk'[d] = Absent /\ events'[d] = Append(events[d], "remove")
    BY <1>0, <2>1
  <2>3. Unheard(d)'
    BY <1>0, <2>2, UnheardAdded
  <2>4. ~Sticky(d)
    BY <2>1 DEF Sticky, Body
  <2>5. \A q \in Devices : q # d => disk'[q] = disk[q] /\ events'[q] = events[q] /\ flushes'[q] = flushes[q]
    BY <1>0, <2>1, LateIs
  <2>6. QED
    BY <2>1, <2>2, <2>3, <2>4, <2>5, StillBody DEF BodiesOn, BodyOn
<1>4. ASSUME NEW d \in Devices, Ingest(d) PROVE BodiesOn
  <2>1. /\ events[d] # <<>> /\ (Head(events[d]) = "touch" \/ disk[d] # Absent)
        /\ events' = [events EXCEPT ![d] = Tail(@)] /\ UNCHANGED <<disk, flushes, erased>>
    BY <1>4 DEF Ingest, Reported, Handled
  <2>2. events'[d] = Tail(events[d])
    BY <1>0, <2>1
  <2>3. BodyOn(d)
    BY <1>0, <2>1, <2>2, UnheardHandled DEF BodyOn, Sticky, Body
  <2>4. \A q \in Devices : q # d => BodyOn(q)
    BY <1>0, <2>1, StillBody
  <2>5. QED
    BY <2>1, <2>3, <2>4 DEF BodiesOn
<1>4a. ASSUME NEW d \in Devices, IngestFails(d) PROVE BodiesOn
  <2>1. /\ events[d] # <<>> /\ (Head(events[d]) = "touch" \/ disk[d] # Absent)
        /\ events' = [events EXCEPT ![d] = Tail(@)] /\ UNCHANGED <<disk, flushes, erased>>
    BY <1>4a DEF IngestFails, Reported, Handled
  <2>2. events'[d] = Tail(events[d])
    BY <1>0, <2>1
  <2>3. BodyOn(d)
    BY <1>0, <2>1, <2>2, UnheardHandled DEF BodyOn, Sticky, Body
  <2>4. \A q \in Devices : q # d => BodyOn(q)
    BY <1>0, <2>1, StillBody
  <2>5. QED
    BY <2>1, <2>3, <2>4 DEF BodiesOn
<1>5. ASSUME NEW d \in Devices, Sweep(d) PROVE BodiesOn
  BY <1>1, <1>5 DEF Sweep, ghosts
<1>6. ASSUME NEW d \in Devices, NEW f \in flushes[d], NEW g, Becomes(d, f, g), \A h \in g : f.late => h.late,
             UNCHANGED <<disk, events, erased>>
      PROVE  BodiesOn
  <2>1. flushes'[d] = (flushes[d] \ {f}) \cup g /\ \A q \in Devices : q # d => flushes'[q] = flushes[q]
    BY <1>0, <1>6 DEF Becomes
  <2>2. BodyOn(d)
    BY <1>6, <2>1 DEF BodyOn, Sticky, Body, Unheard
  <2>3. \A q \in Devices : q # d => BodyOn(q)
    BY <1>6, <2>1, StillBody
  <2>4. QED
    BY <1>6, <2>2, <2>3 DEF BodiesOn
<1>7. ASSUME NEW d \in Devices, NEW f \in flushes[d], FlushRead(d, f) PROVE BodiesOn
  <2>1. f \in Flush
    BY <1>0
  <2>2. [f EXCEPT !.at = "write", !.doc = docs[d]].late = f.late
    BY <2>1 DEF Flush
  <2>3. QED
    BY <1>6, <1>7, <2>2 DEF FlushRead, ghosts
<1>8. ASSUME NEW d \in Devices, NEW f \in flushes[d], FlushNothing(d, f) PROVE BodiesOn
  BY <1>6, <1>8 DEF FlushNothing, ghosts
<1>9. ASSUME NEW d \in Devices, NEW f \in flushes[d], FlushWrite(d, f) PROVE BodiesOn
  <2>1. ~f.late /\ ~Unheard(d) /\ UNCHANGED erased
    BY <1>9 DEF FlushWrite, Overtaken
  <2>2. BodyOn(d)
    BY <2>1 DEF BodyOn, Sticky, Body
  <2>3. ASSUME NEW q \in Devices, q # d PROVE BodyOn(q)
    <3>1. disk'[q] = disk[q] /\ flushes'[q] = flushes[q]
      BY <1>0, <1>9, <2>3 DEF FlushWrite, Becomes
    <3>2. events'[q] = events[q]
      BY <1>0, <1>9, <2>3 DEF FlushWrite
    <3>3. QED
      BY <3>1, <3>2, StillBody
  <2>4. QED
    BY <2>1, <2>2, <2>3 DEF BodiesOn
<1>9a. ASSUME NEW d \in Devices, NEW f \in flushes[d], FlushFails(d, f) PROVE BodiesOn
  <2>1. ~f.late /\ ~Unheard(d) /\ UNCHANGED erased
    BY <1>9a DEF FlushFails, Overtaken
  <2>2. BodyOn(d)
    BY <2>1 DEF BodyOn, Sticky, Body
  <2>3. ASSUME NEW q \in Devices, q # d PROVE BodyOn(q)
    <3>1. disk'[q] = disk[q] /\ flushes'[q] = flushes[q]
      BY <1>0, <1>9a, <2>3 DEF FlushFails, Becomes
    <3>2. events'[q] = events[q]
      BY <1>0, <1>9a, <2>3 DEF FlushFails
    <3>3. QED
      BY <3>1, <3>2, StillBody
  <2>4. QED
    BY <2>1, <2>2, <2>3 DEF BodiesOn
<1>10. ASSUME NEW d \in Devices, Answer(d) \/ Subscribe(d) \/ Push(d) \/ LoseDeletes(d) PROVE BodiesOn
  BY <1>1, <1>10 DEF Answer, Subscribe, Push, LoseDeletes, local, ghosts
<1>11. ASSUME NEW d \in Devices, Reconciles(d) PROVE BodiesOn
  <2>1. UNCHANGED erased /\ (Remove(d) \/ UNCHANGED local)
    BY <1>11 DEF Reconciles, Reconcile
  <2>2. QED
    BY <1>0, <1>1, <2>1, RemoveBody DEF local, BodiesOn
<1>12. ASSUME NEW d \in Devices, ReceiveDelete(d) PROVE BodiesOn
  BY <1>0, <1>12, RemoveBody DEF ReceiveDelete, BodiesOn
<1>13. ASSUME NEW d \in Devices, Receive(d) PROVE BodiesOn
  <2> DEFINE t == Joined(tombs[d], Head(frames[d]).control)
  <2>1. /\ UNCHANGED <<disk, events, erased>> /\ now' = now
        /\ Hears(d) /\ (~raced' => ~Masked(t))
        /\ \/ UNCHANGED flushes \/ Late(d)
           \/ ~IsDeleted(t) /\ flushes' = [flushes EXCEPT ![d] = @ \cup {Spawned}]
    BY <1>13 DEF Receive, Reading, Hears, Refused
  <2>2. tombs'[d] = t
    BY <1>0, <2>1 DEF Hears, Types, ControlOK
  <2>3. ~Masked(tombs'[d])
    BY <2>1, <2>2
  <2>4. Kept
    BY <1>0, <2>1, <2>3, HearsKeeps
  <2>5. Sticky(d) => IsDeleted(t)
    BY <2>2, <2>4 DEF Kept, Core
  <2>6. Sticky(d) => Body(d)'
    <3>1. Late(d) => \A f \in flushes'[d] : f.late
      BY <1>0, LateIs
    <3>2. QED
      BY <2>1, <2>5, <3>1 DEF Sticky, Body
  <2>7. \A q \in Devices : q # d => flushes'[q] = flushes[q]
    BY <1>0, <2>1, LateIs
  <2>8. BodyOn(d)
    BY <2>1, <2>6 DEF BodyOn, Unheard
  <2>9. \A q \in Devices : q # d => BodyOn(q)
    BY <2>1, <2>7, StillBody
  <2>10. QED
    BY <2>1, <2>8, <2>9 DEF BodiesOn
<1>14. ASSUME NEW d \in Devices, DropEvents(d) PROVE BodiesOn
  <2>1. disk[d] # Absent /\ events' = [events EXCEPT ![d] = <<>>] /\ UNCHANGED <<disk, flushes, erased>>
    BY <1>14 DEF DropEvents
  <2>2. BodyOn(d)
    BY <2>1 DEF BodyOn, Sticky, Body
  <2>3. \A q \in Devices : q # d => BodyOn(q)
    BY <1>0, <2>1, StillBody
  <2>4. QED
    BY <2>1, <2>2, <2>3 DEF BodiesOn
<1>15. ASSUME NEW d \in Devices, NEW ts \in Remembered(d), NEW kept \in BOOLEAN, Restart(d, ts, kept) PROVE BodiesOn
  <2>R. Restarted(d, ts, kept)
    BY <1>0, <1>15, RestartIs
  <2>1. /\ disk' = [disk EXCEPT ![d] = IF Here(d, ts, kept) THEN @ ELSE Absent]
        /\ events' = [events EXCEPT ![d] = <<>>] /\ flushes' = [flushes EXCEPT ![d] = {}]
        /\ UNCHANGED erased /\ ~Unheard(d)
    BY <1>0, <1>15, <2>R DEF Restarted
  <2>2. disk'[d] = IF Here(d, ts, kept) THEN disk[d] ELSE Absent
    BY <1>0, <2>1
  <2>3. flushes'[d] = {}
    BY <1>0, <2>1
  <2>4. BodyOn(d)
    BY <2>1, <2>2, <2>3 DEF BodyOn, Sticky, Body
  <2>5. \A q \in Devices : q # d => BodyOn(q)
    BY <1>0, <2>1, StillBody
  <2>6. QED
    BY <2>1, <2>4, <2>5 DEF BodiesOn
<1>16. CASE Connect \/ Cut
  BY <1>1, <1>16 DEF Connect, Cut, local, ghosts
<1>17. QED
  BY <1>2, <1>3, <1>4, <1>4a, <1>5, <1>7, <1>8, <1>9, <1>9a, <1>10, <1>11, <1>12, <1>13, <1>14, <1>15, <1>16 DEF Next, Starts, Reconciles

\* A deletion that is held, in maps that go on and with bodies that go on, is held.
LEMMA PhaseOn ==
  ASSUME Basics', Phase, HeldOn, BodiesOn, ~raced
  PROVE  Phase'
<1>1. ASSUME NEW d \in erased', d \in Devices PROVE disk'[d] = Absent /\ (Unheard(d)' \/ Held(d)')
  <2>1. CASE disk'[d] = Absent /\ Unheard(d)'
    BY <2>1
  <2>2. CASE d \in erased /\ Unheard(d)
    BY <1>1, <2>2 DEF Phase, BodiesOn, BodyOn
  <2>3. CASE d \in erased /\ Held(d)
    <3>1. Sticky(d)'
      BY <1>1, <2>3 DEF HeldOn, BodiesOn, BodyOn, Held, Sticky
    <3>2. Latest(d)' \/ Sticky(Peer(d))'
      BY <1>1, <2>3, PeerIs DEF HeldOn, BodiesOn, BodyOn, Sticky
    <3>3. disk'[d] = Absent
      BY <3>1 DEF Sticky, Body
    <3>4. QED
      BY <3>1, <3>2, <3>3 DEF Held
  <2>4. QED
    BY <1>1, <2>1, <2>2, <2>3 DEF Phase, BodiesOn
<1>2. erased' \in SUBSET Devices
  BY DEF Basics, Types, SpentOK
<1>3. QED
  BY <1>1, <1>2 DEF Phase

\* A removal that is recorded makes the deletion stick.
LEMMA RecordPhase ==
  ASSUME FileSyncAssumption, Basics, Basics', Known, DeadMade, Phase, NEW p \in Devices, RecordRemoval(p)
  PROVE  Phase'
<1>0. Types /\ disk \in [Devices -> File \cup {Absent}]
  BY DEF Basics, Types, LocalOK
<1>1. /\ Core(p)' /\ Latest(p)'
      /\ \A d \in Devices : Core(d) => Core(d)'
  BY RecordHolds
<1>2. disk[p] = Absent /\ UNCHANGED <<disk, erased, raced>> /\ Late(p) /\ events' = [events EXCEPT ![p] = Tail(@)]
  BY DEF RecordRemoval, Handled, Untrack, ghosts
<1>3. Sticky(p)'
  BY <1>0, <1>1, <1>2, LateIs DEF Sticky, Body
<1>4. ASSUME NEW d \in Devices, d # p, Sticky(d) PROVE Sticky(d)'
  BY <1>0, <1>1, <1>2, <1>4, LateIs DEF Sticky, Body
<1>5. \A d \in Devices : d # p => events'[d] = events[d]
  BY <1>0, <1>2 DEF Types, LocalOK
<1>6. ASSUME NEW d \in erased', d \in Devices, ~raced PROVE disk'[d] = Absent /\ (Unheard(d)' \/ Held(d)')
  <2>1. disk'[d] = Absent /\ (Unheard(d) \/ Held(d))
    BY <1>2, <1>6 DEF Phase
  <2>2. CASE d = p
    BY <1>1, <1>3, <2>1, <2>2 DEF Held
  <2>3. CASE d # p /\ Held(d)
    <3>1. Peer(d) = p
      BY <1>6, <2>3 DEF Devices, Peer
    <3>2. Sticky(d)'
      BY <1>4, <1>6, <2>3 DEF Held
    <3>3. QED
      BY <1>3, <2>1, <3>1, <3>2 DEF Held
  <2>4. CASE d # p /\ Unheard(d)
    BY <1>5, <1>6, <2>1, <2>4 DEF Unheard
  <2>5. QED
    BY <2>1, <2>2, <2>3, <2>4
<1>7. erased' \in SUBSET Devices
  BY DEF Basics, Types, SpentOK
<1>8. QED
  BY <1>2, <1>6, <1>7 DEF Phase

\* Nothing is deleted at first.
LEMMA InitDeletions ==
  ASSUME FileSyncAssumption, Init
  PROVE  Deletions
<1>1. Basics
  BY InitBasics
<1>2. /\ \A q \in Devices : tombs[q] = NoTombs /\ frames[q] = <<>>
      /\ erased = {}
  BY DEF Init
<1>3. Known
  BY <1>2 DEF Known
<1>4. DeadMade /\ Stamped
  BY <1>2 DEF DeadMade, Stamped, NoTombs
<1>5. Phase
  BY <1>2 DEF Phase
<1>6. QED
  BY <1>1, <1>3, <1>4, <1>5 DEF Deletions

\* A race is not forgotten.
LEMMA RacedStays ==
  ASSUME FileSyncAssumption, Basics, Next, raced
  PROVE  raced'
BY NextTied DEF TiedBy

\* A step keeps the invariant.
LEMMA DeletionsStep ==
  ASSUME FileSyncAssumption, Deletions, [Next]_vars
  PROVE  Deletions'
<1>1. Basics'
  BY BasicsStep DEF Deletions
<1>2. CASE UNCHANGED vars
  <2>1. /\ tombs' = tombs /\ frames' = frames /\ client' = client /\ now' = now /\ spent' = spent
        /\ disk' = disk /\ flushes' = flushes /\ events' = events /\ erased' = erased /\ raced' = raced
    BY <1>2 DEF vars, local, control, session, outgoing, ghosts
  <2>2. Known' /\ Stamped' /\ DeadMade'
    BY <2>1 DEF Deletions, Known, Stamped, DeadMade, Made
  <2>3. \A q \in Devices : (Sticky(q) <=> Sticky(q)') /\ (Latest(q) <=> Latest(q)') /\ (Unheard(q) <=> Unheard(q)')
    BY <2>1 DEF Sticky, Body, Core, Survives, Alive, Standing, Arrived, Struck, Latest, Unheard
  <2>4. Phase'
    BY <2>1, <2>3, PeerIs DEF Deletions, Phase, Held, Basics, Types, SpentOK
  <2>5. QED
    BY <1>1, <2>2, <2>4 DEF Deletions
<1>3. CASE Next
  <2>1. Known' /\ DeadMade' /\ Stamped'
    BY <1>1, <1>3, MadeStep DEF Deletions
  <2>2. Phase'
    <3>1. CASE raced' \/ erased' = {}
      BY <3>1 DEF Phase
    <3>2. ASSUME NEW p \in Devices, RecordRemoval(p) PROVE Phase'
      BY <1>1, <3>2, RecordPhase DEF Deletions
    <3>3. CASE ~raced' /\ erased' # {} /\ \A d \in Devices : ~RecordRemoval(d)
      <4>1. BodiesOn
        BY <1>1, <1>3, <3>3, BodiesStep DEF Deletions
      <4>2. HeldOn
        <5>1. CASE \A d \in Devices : ~Starts(d)
          BY <1>1, <1>3, <3>3, <5>1, MapsStep DEF Deletions
        <5>2. ASSUME NEW d \in Devices, NEW ts \in Remembered(d), NEW kept \in BOOLEAN, Restart(d, ts, kept) PROVE HeldOn
          BY <1>1, <3>3, <5>2, RestartKeeps, KeptIsHeldOn DEF Deletions
        <5>3. QED
          BY <5>1, <5>2 DEF Starts
      <4>3. ~raced
        BY <1>1, <1>3, <3>3, RacedStays DEF Deletions
      <4>4. QED
        BY <1>1, <4>1, <4>2, <4>3, PhaseOn DEF Deletions
    <3>4. QED
      BY <3>1, <3>2, <3>3
  <2>3. QED
    BY <1>1, <2>1, <2>2 DEF Deletions
<1>4. QED
  BY <1>2, <1>3

\* The invariant holds.
LEMMA DeletionsHold ==
  ASSUME FileSyncAssumption
  PROVE  Spec => []Deletions
<1>1. Init => Deletions
  BY InitDeletions
<1>2. Deletions /\ [Next]_vars => Deletions'
  BY DeletionsStep
<1>3. QED
  BY <1>1, <1>2, PTL DEF Spec

\* What a user deleted does not come back to that user's disk while nobody writes the file again,
\* neither from a peer that missed the deletion, nor with an update on the way, nor at a start: unless
\* a flush, an event or a deletion came too late, a device forgot a deletion, or the time that a flush
\* or a peer's clock gave spared the file. Steps lost to a busy document or file do not bring it back.
THEOREM DeletedStaysDeleted ==
  ASSUME FileSyncAssumption
  PROVE  Spec => []DeletionSticks
<1>1. Deletions => DeletionSticks
  BY DEF Deletions, Phase, DeletionSticks
<1>2. QED
  BY <1>1, DeletionsHold, PTL

-----------------------------------------------------------------------------
(* A stream that is open                                                   *)

\* It comes after those that are on the way.
LEMMA SendsIs ==
  ASSUME Types, NEW p \in Devices, NEW f \in Sent, Sends(p, f)
  PROVE  /\ frames'[p] = frames[p]
         /\ frames'[Peer(p)] = Append(frames[Peer(p)], f) /\ frames'[Peer(p)] # <<>>
         /\ Len(frames[Peer(p)]) \in Nat /\ Len(frames'[Peer(p)]) = Len(frames[Peer(p)]) + 1
         /\ DOMAIN frames[Peer(p)] = 1 .. Len(frames[Peer(p)])
         /\ DOMAIN frames'[Peer(p)] = 1 .. Len(frames[Peer(p)]) + 1
         /\ \A i \in 1 .. Len(frames[Peer(p)]) : frames'[Peer(p)][i] = frames[Peer(p)][i]
         /\ frames'[Peer(p)][Len(frames[Peer(p)]) + 1] = f
<1> DEFINE s == frames[Peer(p)]
<1>1. frames \in [Devices -> Seq(Sent)] /\ Peer(p) \in Devices /\ Peer(p) # p
  BY PeerIs DEF Types, StreamOK
<1>2. frames'[p] = frames[p] /\ frames'[Peer(p)] = Append(s, f)
  BY <1>1 DEF Sends
<1>3. s \in Seq(Sent)
  BY <1>1
<1> HIDE DEF s
<1>4. /\ Len(s) \in Nat /\ Len(Append(s, f)) = Len(s) + 1 /\ Append(s, f) # <<>>
      /\ DOMAIN s = 1 .. Len(s) /\ DOMAIN Append(s, f) = 1 .. Len(s) + 1
      /\ \A i \in 1 .. Len(s) : Append(s, f)[i] = s[i]
      /\ Append(s, f)[Len(s) + 1] = f
  BY <1>3
<1>5. QED
  BY <1>2, <1>4 DEF s

\* A change is sent if a stream listens, and there is one.
LEMMA BroadcastSends ==
  ASSUME NEW d \in Devices, NEW t, NEW u, NEW n, Broadcast(d, t, u, n)
  PROVE  /\ frames' = frames \/ (Listening(d) /\ Sends(d, Frame(t, u)))
         /\ Listening(d) /\ u # Absent => Sends(d, Frame(t, u))
         /\ t = NoTombs /\ u = Absent => frames' = frames
         /\ deletes' = IF Listening(d) THEN [deletes EXCEPT ![Peer(d)] = @ + n] ELSE deletes
BY DEF Broadcast, Sends

\* The frame that is read, and those that are left.
LEMMA ReceiveReads ==
  ASSUME Types, NEW d \in Devices, Receive(d)
  PROVE  /\ frames[d] # <<>> /\ Head(frames[d]) = frames[d][1] /\ frames[d][1] \in Sent
         /\ frames'[Peer(d)] = frames[Peer(d)] /\ frames'[d] = Tail(frames[d])
         /\ Len(frames[d]) \in Nat /\ Len(frames[d]) >= 1 /\ Len(frames'[d]) = Len(frames[d]) - 1
         /\ DOMAIN frames[d] = 1 .. Len(frames[d])
         /\ DOMAIN frames'[d] = 1 .. Len(frames[d]) - 1
         /\ \A i \in 1 .. Len(frames[d]) - 1 : frames'[d][i] = frames[d][i + 1]
<1> DEFINE s == frames[d]
<1>1. frames \in [Devices -> Seq(Sent)] /\ Peer(d) \in Devices /\ Peer(d) # d
  BY PeerIs DEF Types, StreamOK
<1>2. frames[d] # <<>> /\ frames' = [frames EXCEPT ![d] = Tail(@)]
  BY DEF Receive, Reading
<1>3. frames'[Peer(d)] = frames[Peer(d)] /\ frames'[d] = Tail(s)
  BY <1>1, <1>2
<1>4. s \in Seq(Sent) /\ s # <<>>
  BY <1>1, <1>2
<1> HIDE DEF s
<1>5. /\ Len(s) \in Nat /\ Len(s) >= 1 /\ Len(Tail(s)) = Len(s) - 1
      /\ DOMAIN s = 1 .. Len(s) /\ DOMAIN Tail(s) = 1 .. Len(s) - 1
      /\ \A i \in 1 .. Len(s) - 1 : Tail(s)[i] = s[i + 1]
      /\ Head(s) = s[1] /\ s[1] \in Sent
  BY <1>4
<1>6. QED
  BY <1>3, <1>4, <1>5 DEF s

\* A device that listens may send.
LEMMA SendsHandshakes ==
  ASSUME Types, Handshakes, stage' = stage, owed' = owed,
         frames' = frames \/ \E p \in Devices : Listening(p) /\ \E f \in Sent : Sends(p, f)
  PROVE  Handshakes'
<1>1. CASE frames' = frames
  BY <1>1 DEF Handshakes, Handshake, Open, Opening
<1>2. ASSUME NEW p \in Devices, Listening(p), NEW f \in Sent, Sends(p, f), Open PROVE \A d \in Devices : Handshake(d)'
  <2>1. frames'[p] = frames[p] /\ Len(frames'[Peer(p)]) = Len(frames[Peer(p)]) + 1 /\ Len(frames[Peer(p)]) \in Nat
    BY <1>2, SendsIs
  <2>2. Handshake(p)'
    BY <1>2, <2>1 DEF Handshakes, Handshake, Opening
  <2>3. frames'[Peer(p)] # <<>>
    BY <1>2, SendsIs
  <2>4. Peer(Peer(p)) = p /\ Peer(p) \in Devices /\ \A d \in Devices : d = p \/ d = Peer(p)
    BY DEF Peer, Devices
  <2>5. ~Opening(p) /\ stage[p] # "answer"
    BY <1>2 DEF Listening, Opening
  <2>6. Handshake(Peer(p))'
    BY <1>2, <2>3, <2>4, <2>5 DEF Handshakes, Handshake, Opening
  <2>7. QED
    BY <2>2, <2>4, <2>6
<1>3. QED
  BY <1>1, <1>2 DEF Handshakes, Open

\* Every step keeps it.
LEMMA HandshakesStep ==
  ASSUME FileSyncAssumption, Basics, Basics', Handshakes, Next
  PROVE  Handshakes'
<1>0. /\ Types /\ Types' /\ OneEntry /\ Closed
      /\ stage \in [Devices -> Stages] /\ owed \in [Devices -> BOOLEAN] /\ frames \in [Devices -> Seq(Sent)]
  BY DEF Basics, Types, StreamOK
<1>p. /\ \A d \in Devices : Peer(d) \in Devices /\ Peer(d) # d /\ Peer(Peer(d)) = d
      /\ \A d, o \in Devices : o = d \/ o = Peer(d)
  BY DEF Peer, Devices
<1>c. \A d \in Devices : stage[d] # "off" => Open
  BY <1>0 DEF Closed, Open, Devices
<1>1. ASSUME UNCHANGED <<stage, owed, frames>> PROVE Handshakes'
  BY <1>1 DEF Handshakes, Handshake, Open, Opening
<1>2. ASSUME NEW d \in Devices, NEW t \in Tomb, NEW u \in DocOrNone, NEW n, Broadcast(d, t, u, n), stage' = stage, owed' = owed
      PROVE  Handshakes'
  <2>1. Frame(t, u) \in Sent
    BY <1>2, FrameIs
  <2>2. frames' = frames \/ (Listening(d) /\ Sends(d, Frame(t, u)))
    BY <1>2, BroadcastSends
  <2>3. QED
    BY <1>0, <1>2, <2>1, <2>2, SendsHandshakes
<1>3. ASSUME NEW d \in Devices, Write(d) \/ Delete(d) \/ ReceiveDelete(d) \/ DropEvents(d) \/ LoseDeletes(d) PROVE Handshakes'
  BY <1>1, <1>3 DEF Write, Delete, ReceiveDelete, DropEvents, LoseDeletes, session, outgoing
<1>4. ASSUME NEW d \in Devices, Ingest(d) \/ Sweep(d) PROVE Handshakes'
  <2>1. IngestFile(d) /\ stage' = stage /\ owed' = owed
    BY <1>4 DEF Ingest, Sweep, session
  <2>2. PICK u \in DocOrNone : Broadcast(d, Cleared(d), u, 0)
    BY <1>0, <2>1, IngestFileIs
  <2>3. QED
    BY <1>0, <1>2, <2>1, <2>2, ClearedIs
<1>4a. ASSUME NEW d \in Devices, IngestFails(d) PROVE Handshakes'
  BY <1>0, <1>2, <1>4a, ClearedIs DEF IngestFails, session, DocOrNone
<1>5. ASSUME NEW d \in Devices, RecordRemoval(d) PROVE Handshakes'
  BY <1>0, <1>2, <1>5, RecordedIs DEF RecordRemoval, session, DocOrNone
<1>6. ASSUME NEW d \in Devices, NEW f \in flushes[d],
                FlushRead(d, f) \/ FlushNothing(d, f) \/ FlushWrite(d, f) \/ FlushFails(d, f)
      PROVE  Handshakes'
  BY <1>1, <1>6 DEF FlushRead, FlushNothing, FlushWrite, FlushFails, session, outgoing
<1>7. ASSUME NEW d \in Devices, Answer(d) PROVE Handshakes'
  <2>1. PICK f \in Sent : Sends(d, f)
    <3>1. Answered(d) \in DocOrNone /\ tombs[d] \in Tomb
      BY <1>0, AnsweredIs DEF Types, ControlOK
    <3>2. QED
      BY <1>7, <3>1, FrameIs DEF Answer, Answered, Send, Sends
  <2>2. /\ stage[d] = "answer" /\ (d = Initiator => ~owed[d])
        /\ stage' = [stage EXCEPT ![d] = "subscribe"] /\ owed' = owed
    BY <1>7 DEF Answer
  <2>3. /\ frames'[d] = frames[d] /\ frames'[Peer(d)] # <<>>
        /\ Len(frames'[Peer(d)]) = Len(frames[Peer(d)]) + 1 /\ Len(frames[Peer(d)]) \in Nat
    BY <1>0, <2>1, SendsIs
  <2>4. Handshake(d) /\ Handshake(Peer(d))
    BY <1>p, <1>c, <2>2 DEF Handshakes
  <2>5. stage'[d] = "subscribe" /\ stage'[Peer(d)] = stage[Peer(d)]
    BY <1>0, <1>p, <2>2
  <2>6. owed[Peer(d)] /\ frames[Peer(d)] = <<>>
    BY <1>p, <2>2, <2>4 DEF Handshake
  <2>7. Handshake(d)'
    BY <1>p, <2>2, <2>3, <2>4, <2>5 DEF Handshake, Opening
  <2>8. Handshake(Peer(d))'
    BY <1>p, <2>2, <2>3, <2>4, <2>5, <2>6 DEF Handshake, Opening
  <2>9. QED
    BY <1>p, <2>7, <2>8 DEF Handshakes
<1>8. ASSUME NEW d \in Devices, Subscribe(d) PROVE Handshakes'
  <2>1. /\ stage[d] = "subscribe" /\ ~owed[d] /\ stage' = [stage EXCEPT ![d] = "push"] /\ owed' = owed /\ frames' = frames
    BY <1>8 DEF Subscribe, outgoing
  <2>2. Handshake(d) /\ Handshake(Peer(d))
    BY <1>p, <1>c, <2>1 DEF Handshakes
  <2>3. stage'[d] = "push" /\ stage'[Peer(d)] = stage[Peer(d)]
    BY <1>0, <1>p, <2>1
  <2>4. Handshake(d)' /\ Handshake(Peer(d))'
    BY <1>p, <2>1, <2>2, <2>3 DEF Handshake, Opening
  <2>5. QED
    BY <1>p, <2>4 DEF Handshakes
<1>9. ASSUME NEW d \in Devices, Push(d) PROVE Handshakes'
  <2>1. PICK f \in Sent : Sends(d, f)
    <3>1. PushedDoc(d) \in DocOrNone /\ tombs[d] \in Tomb
      BY <1>0, PushedDocIs DEF Types, ControlOK
    <3>2. QED
      BY <1>9, <3>1, FrameIs DEF Push, PushedDoc, Send, Sends
  <2>2. stage[d] = "push" /\ stage' = [stage EXCEPT ![d] = "reconcile"] /\ owed' = owed
    BY <1>9 DEF Push
  <2>3. frames'[d] = frames[d] /\ frames'[Peer(d)] # <<>>
    BY <1>0, <2>1, SendsIs
  <2>4. Handshake(d) /\ Handshake(Peer(d))
    BY <1>p, <1>c, <2>2 DEF Handshakes
  <2>5. stage'[d] = "reconcile" /\ stage'[Peer(d)] = stage[Peer(d)]
    BY <1>0, <1>p, <2>2
  <2>6. Handshake(d)' /\ Handshake(Peer(d))'
    BY <1>p, <2>2, <2>3, <2>4, <2>5 DEF Handshake, Opening
  <2>7. QED
    BY <1>p, <2>6 DEF Handshakes
<1>10. ASSUME NEW d \in Devices, Reconciles(d) PROVE Handshakes'
  <2>1. stage[d] = "reconcile" /\ stage' = [stage EXCEPT ![d] = "live"] /\ owed' = owed
    BY <1>10 DEF Reconciles, Reconcile
  <2>2. Handshake(d) /\ Handshake(Peer(d))
    BY <1>p, <1>c, <2>1 DEF Handshakes
  <2>3. frames'[d] = frames[d] /\ (frames[Peer(d)] # <<>> => frames'[Peer(d)] # <<>>)
    <3>1. frames' = frames \/ \E f \in Sent : Sends(d, f)
      BY <1>0, <1>10, ClearedIs, FrameIs, BroadcastSends DEF Reconciles, Reconcile, outgoing, DocOrNone
    <3>2. ASSUME NEW f \in Sent, Sends(d, f) PROVE frames'[d] = frames[d] /\ frames'[Peer(d)] # <<>>
      BY <1>0, <3>2, SendsIs
    <3>3. QED
      BY <3>1, <3>2
  <2>4. stage'[d] = "live" /\ stage'[Peer(d)] = stage[Peer(d)]
    BY <1>0, <1>p, <2>1
  <2>5. Handshake(d)' /\ Handshake(Peer(d))'
    BY <1>p, <2>1, <2>2, <2>3, <2>4 DEF Handshake, Opening
  <2>6. QED
    BY <1>p, <2>5 DEF Handshakes
<1>11. ASSUME NEW d \in Devices, Receive(d) PROVE Handshakes'
  <2>1. /\ owed[d] \/ stage[d] = "live"
        /\ owed' = [owed EXCEPT ![d] = FALSE] /\ stage' = stage
    BY <1>11 DEF Receive, Reading
  <2>2. /\ frames[d] # <<>> /\ frames'[Peer(d)] = frames[Peer(d)] /\ Len(frames[d]) \in Nat
        /\ Len(frames'[d]) = Len(frames[d]) - 1
    BY <1>0, <1>11, ReceiveReads
  <2>3. Open
    BY <1>0, <1>c, <2>1 DEF Closed, Open, Devices
  <2>4. Handshake(d) /\ Handshake(Peer(d))
    BY <1>p, <2>3 DEF Handshakes
  <2>5. ~owed'[d] /\ owed'[Peer(d)] = owed[Peer(d)]
    BY <1>0, <1>p, <2>1
  <2>6. Handshake(d)'
    BY <2>1, <2>2, <2>4, <2>5 DEF Handshake, Opening
  <2>7. Handshake(Peer(d))'
    BY <1>p, <2>1, <2>2, <2>4, <2>5 DEF Handshake, Opening
  <2>8. QED
    BY <1>p, <2>6, <2>7 DEF Handshakes
<1>12. CASE Connect
  <2>1. stage = [d \in Devices |-> "off"] /\ stage' = [d \in Devices |-> "answer"] /\ owed' = [d \in Devices |-> TRUE] /\ frames' = frames
    BY <1>12 DEF Connect, outgoing
  <2>2. \A d \in Devices : frames[d] = <<>>
    BY <1>0, <2>1 DEF Closed, Devices
  <2>3. \A d \in Devices : Handshake(d)'
    BY <1>p, <2>1, <2>2 DEF Handshake, Opening
  <2>4. QED
    BY <2>3 DEF Handshakes
<1>13. ASSUME NEW d \in Devices, Starts(d) \/ Cut PROVE Handshakes'
  <2>1. Off
    BY <1>0, <1>13, RestartIs DEF Cut, Starts, Restarted
  <2>2. ~Open'
    BY <2>1, OffIs DEF Open, Devices
  <2>3. QED
    BY <2>2 DEF Handshakes
<1>14. QED
  BY <1>3, <1>4, <1>4a, <1>5, <1>6, <1>7, <1>8, <1>9, <1>10, <1>11, <1>12, <1>13 DEF Next, Starts, Reconciles, Devices

-----------------------------------------------------------------------------
(* A document without a saved state                                        *)

\* A path that is no longer tracked has no file.
LEMMA UntrackUnsaved ==
  ASSUME Types, NEW d \in Devices, Untrack(d), disk'[d] = Absent
  PROVE  Unsaved(d)'
<1>1. docs'[d] = Absent /\ ~flag'[d]
  BY UntrackIs DEF Types, LocalOK
<1>2. QED
  BY <1>1 DEF Unsaved

\* A file that is read is saved if the document changes.
LEMMA IngestFileUnsaved ==
  ASSUME FileSyncAssumption, Types, OneEntry, NEW d \in Devices, Unsaved(d), IngestFile(d),
         disk' = disk, flushes' = flushes, missed' = missed
  PROVE  Unsaved(d)'
<1>1. /\ docs \in [Devices -> DocOrNone] /\ saved \in [Devices -> DocOrNone] /\ flag \in [Devices -> BOOLEAN]
      /\ disk \in [Devices -> File \cup {Absent}]
      /\ missed \in Nat
  BY DEF Types, LocalOK, SpentOK
<1>2. /\ flag' = [flag EXCEPT ![d] = FALSE]
      /\ docs' = IF Changes(d) THEN [docs EXCEPT ![d] = Merge(DocOr(docs[d]), Change(d))]
                 ELSE IF Reads(d) THEN [docs EXCEPT ![d] = DocOr(docs[d])] ELSE docs
      /\ saved' = IF Changes(d) THEN [saved EXCEPT ![d] = Merge(DocOr(docs[d]), Change(d))] ELSE saved
      /\ Changes(d) => Change(d) \in Doc
      /\ DocOr(docs[d]) \in Doc
  <2>1. missed' # missed + 1
    BY <1>1
  <2>2. QED
    BY <2>1, IngestFileIs
<1>3. CASE Changes(d)
  <2>1. saved'[d] = Merge(DocOr(docs[d]), Change(d))
    BY <1>1, <1>2, <1>3
  <2>2. saved'[d] # Absent
    BY <1>2, <1>3, <2>1, MergeIs, AbsentIsNoRecord
  <2>3. QED
    BY <2>2 DEF Unsaved
<1>4. CASE ~Changes(d)
  <2>1. saved'[d] = saved[d] /\ ~flag'[d]
    BY <1>1, <1>2, <1>4
  <2>2. docs'[d] = docs[d] \/ docs'[d] = DocOr(docs[d])
    BY <1>1, <1>2, <1>4
  <2>3. QED
    BY <2>1, <2>2 DEF Unsaved, DocOr
<1>5. QED
  BY <1>3, <1>4

\* Every step keeps it.
LEMMA UnsavedStep ==
  ASSUME FileSyncAssumption, Basics, \A d \in Devices : Unsaved(d), Next
  PROVE  \A d \in Devices : Unsaved(d)'
<1>1. /\ docs \in [Devices -> DocOrNone] /\ saved \in [Devices -> DocOrNone] /\ flag \in [Devices -> BOOLEAN]
      /\ disk \in [Devices -> File \cup {Absent}] /\ flushes \in [Devices -> SUBSET Flush]
      /\ Types /\ OneEntry
      /\ missed \in Nat
  BY DEF Basics, Types, LocalOK, SpentOK
<1>2. PICK d \in Devices : TiedBy(d) /\ (Acts(d) \/ Connect \/ Cut)
  BY NextTied
<1>3. ASSUME NEW o \in Devices, Still(o) PROVE Unsaved(o)'
  BY <1>2, <1>3 DEF TiedBy, Unsaved, Still
<1>m. ASSUME missed' # missed PROVE Unsaved(d)'
  BY <1>2, <1>m DEF TiedBy, Unsaved
<1>4. ASSUME UNCHANGED <<docs, saved, flag, flushes, disk>> PROVE Unsaved(d)'
  BY <1>m, <1>4 DEF Unsaved
<1>5. ASSUME Write(d) PROVE Unsaved(d)'
  <2>1. disk'[d].text = {spent.writes + 1}
    BY <1>1, <1>5 DEF Write
  <2>2. QED
    BY <1>5, <2>1 DEF Write, Unsaved, Blank
<1>6. ASSUME Delete(d) PROVE Unsaved(d)'
  <2>1. /\ docs' = docs /\ saved' = saved /\ flag' = flag /\ Late(d)
        /\ disk'[d] = Absent /\ missed' = missed
    BY <1>1, <1>6 DEF Delete
  <2>2. flushes'[d] = {} <=> flushes[d] = {}
    BY <1>1, <2>1, LateIs
  <2>3. QED
    BY <2>1, <2>2 DEF Unsaved
<1>7. ASSUME Ingest(d) \/ Sweep(d) PROVE Unsaved(d)'
  BY <1>1, <1>7, <1>m, IngestFileUnsaved DEF Ingest, Sweep
<1>8. ASSUME RecordRemoval(d) PROVE Unsaved(d)'
  BY <1>1, <1>8, UntrackUnsaved DEF RecordRemoval
<1>9. ASSUME NEW f \in flushes[d], FlushRead(d, f) PROVE Unsaved(d)'
  <2>1. flushes'[d] # {} /\ docs' = docs /\ saved' = saved /\ flag' = flag /\ disk' = disk
        /\ missed' = missed
    BY <1>1, <1>9 DEF FlushRead, Becomes, ghosts
  <2>2. QED
    BY <2>1 DEF Unsaved
<1>10. ASSUME NEW f \in flushes[d], FlushNothing(d, f) PROVE Unsaved(d)'
  <2>1. SUFFICES ASSUME missed' = missed PROVE Unsaved(d)'
    BY <1>m
  <2>2. docs[d] = Absent /\ docs' = docs /\ saved' = saved /\ flag' = flag /\ disk' = disk
    BY <1>1, <1>10, <2>1 DEF FlushNothing, Miss
  <2>3. QED
    BY <2>1, <2>2 DEF Unsaved
<1>11. ASSUME NEW f \in flushes[d], FlushWrite(d, f) PROVE Unsaved(d)'
  <2>1. f.doc \in Doc /\ DocOr(docs[d]) \in Doc
    BY <1>1, DocOrIs DEF Flush
  <2>2. SUFFICES ASSUME missed' = missed PROVE Unsaved(d)'
    BY <1>m
  <2>3. saved'[d] \in Doc
    BY <1>1, <1>11, <2>1, <2>2 DEF FlushWrite, Flushed, Save, Miss
  <2>4. QED
    BY <2>3, AbsentIsNoRecord DEF Unsaved
<1>11a. ASSUME NEW f \in flushes[d], FlushFails(d, f) PROVE Unsaved(d)'
  BY <1>1, <1>11a, <1>m DEF FlushFails, Miss
<1>11b. ASSUME IngestFails(d) PROVE Unsaved(d)'
  BY <1>1, <1>11b, <1>m DEF IngestFails, Miss
<1>12. ASSUME Answer(d) PROVE Unsaved(d)'
  <2>1. /\ docs'[d] = docs[d] \/ docs'[d] = DocOr(docs[d])
        /\ UNCHANGED <<saved, flag, flushes, disk, missed>>
    BY <1>1, <1>12 DEF Answer, ghosts
  <2>2. QED
    BY <2>1 DEF Unsaved, DocOr
<1>13. ASSUME Subscribe(d) \/ Push(d) \/ LoseDeletes(d) \/ DropEvents(d) \/ Connect \/ Cut PROVE Unsaved(d)'
  BY <1>4, <1>13 DEF Subscribe, Push, LoseDeletes, DropEvents, Connect, Cut, local
<1>14. ASSUME Remove(d) PROVE Unsaved(d)'
  <2>1. Untrack(d) /\ disk'[d] = Absent
    BY <1>1, <1>14, RemoveIs
  <2>2. QED
    BY <1>1, <2>1, UntrackUnsaved
<1>15. ASSUME Reconciles(d) PROVE Unsaved(d)'
  BY <1>4, <1>14, <1>15 DEF Reconciles, Reconcile, local
<1>16. ASSUME ReceiveDelete(d) PROVE Unsaved(d)'
  BY <1>14, <1>16 DEF ReceiveDelete
<1>17. ASSUME Receive(d) PROVE Unsaved(d)'
  <2>1. /\ UNCHANGED <<saved, flag, disk, missed>>
        /\ \/ docs' = docs /\ (Late(d) \/ UNCHANGED flushes)
           \/ flushes' = [flushes EXCEPT ![d] = @ \cup {Spawned}]
    BY <1>17 DEF Receive
  <2>2. (docs' = docs /\ (flushes'[d] = {} <=> flushes[d] = {})) \/ flushes'[d] # {}
    BY <1>1, <2>1, LateIs
  <2>3. QED
    BY <2>1, <2>2 DEF Unsaved
<1>18. ASSUME NEW ts \in Remembered(d), NEW kept \in BOOLEAN, Restart(d, ts, kept) PROVE Unsaved(d)'
  <2>R. Restarted(d, ts, kept)
    BY <1>1, <1>18, RestartIs
  <2>1. docs' = [docs EXCEPT ![d] = IF Here(d, ts, kept) THEN Restored(d, ts, kept) ELSE Absent]
    BY <1>1, <1>18, <2>R DEF Restarted
  <2>2. saved' = [saved EXCEPT ![d] = IF Gone(ts, kept) THEN Absent ELSE IF Here(d, ts, kept) THEN Restored(d, ts, kept) ELSE saved[d]]
    BY <1>1, <1>18, <2>R DEF Restarted
  <2>3. disk' = [disk EXCEPT ![d] = IF Here(d, ts, kept) THEN disk[d] ELSE Absent]
    BY <1>1, <1>18, <2>R DEF Restarted
  <2>4. flag' = [flag EXCEPT ![d] = FALSE] /\ Restored(d, ts, kept) \in Doc
    BY <1>1, <1>18, <2>R DEF Restarted
  <2>5. docs'[d] = IF Here(d, ts, kept) THEN Restored(d, ts, kept) ELSE Absent
    BY <1>1, <2>1
  <2>6. saved'[d] = IF Gone(ts, kept) THEN Absent ELSE IF Here(d, ts, kept) THEN Restored(d, ts, kept) ELSE saved[d]
    BY <1>1, <2>2
  <2>7. disk'[d] = IF Here(d, ts, kept) THEN disk[d] ELSE Absent
    BY <1>1, <2>3
  <2>8. ~flag'[d]
    BY <1>1, <2>4
  <2>9. CASE Here(d, ts, kept)
    <3>1. saved'[d] # Absent
      BY <2>4, <2>6, <2>9, AbsentIsNoRecord DEF Here
    <3>2. QED
      BY <3>1 DEF Unsaved
  <2>10. CASE ~Here(d, ts, kept)
    BY <2>5, <2>7, <2>8, <2>10 DEF Unsaved
  <2>11. QED
    BY <2>9, <2>10
<1>19. Unsaved(d)'
  BY <1>2, <1>5, <1>6, <1>7, <1>8, <1>9, <1>10, <1>11, <1>11a, <1>11b, <1>12, <1>13, <1>15, <1>16, <1>17, <1>18 DEF Acts, Starts
<1>20. QED
  BY <1>2, <1>3, <1>19 DEF TiedBy

-----------------------------------------------------------------------------
(* What one device removed and the other does not know to be gone          *)

\* How the maps move in a step that is neither a removal recorded nor a start.
LEMMA StepMoves ==
  ASSUME FileSyncAssumption, Basics, Next, \A d \in Devices : ~RecordRemoval(d) /\ ~Starts(d)
  PROVE  Idle \/ \E p \in Devices : Tells(p) \/ Hears(p) \/ Clears(p)
<1> DEFINE Good == Idle \/ \E p \in Devices : Tells(p) \/ Hears(p) \/ Clears(p)
<1>0. Types /\ OneEntry
  BY DEF Basics
<1>1. ASSUME UNCHANGED <<tombs, frames>> PROVE Good
  BY <1>1 DEF Idle
<1>2. ASSUME NEW d \in Devices, NEW u \in DocOrNone, Broadcast(d, Cleared(d), u, 0), ~raced' => ~ClearsFresh(d)
      PROVE  Good
  <2>1. Announces(d, Cleared(d))
    BY <1>0, <1>2, ClearedIs, BroadcastAnnounces
  <2>2. CASE IsDeleted(tombs[d])
    <3>1. tombs[d].items # {} /\ Last(tombs[d]) \in tombs[d].items /\ Last(tombs[d]).chain \notin tombs[d].dead
      BY <1>0, <2>2, KnownLast DEF IsDeleted
    <3>2. ~raced' => disk[d] # Absent
      BY <1>2, <2>2, <3>1 DEF ClearsFresh, Stands
    <3>3. QED
      BY <2>1, <2>2, <3>2 DEF Clears
  <2>3. CASE ~IsDeleted(tombs[d])
    <3>1. Cleared(d) = NoTombs
      BY <2>3 DEF Cleared, NoTombs
    <3>2. QED
      BY <1>0, <2>1, <3>1, NothingAnnounced
  <2>4. QED
    BY <2>2, <2>3
<1>3. ASSUME NEW d \in Devices, Write(d) \/ Delete(d) PROVE Good
  BY <1>1, <1>3 DEF Write, Delete, control, outgoing
<1>4. ASSUME NEW d \in Devices, Ingest(d) \/ Sweep(d) PROVE Good
  <2>1. IngestFile(d) /\ (~raced' => ~ClearsFresh(d))
    BY <1>4 DEF Ingest, Sweep, Untracked, ClearsFresh
  <2>2. PICK u \in DocOrNone : Broadcast(d, Cleared(d), u, 0)
    BY <1>0, <2>1, IngestFileIs
  <2>3. QED
    BY <1>2, <2>1, <2>2
<1>4a. ASSUME NEW d \in Devices, IngestFails(d) PROVE Good
  <2>1. Broadcast(d, Cleared(d), Absent, 0) /\ (~raced' => ~ClearsFresh(d))
    BY <1>4a DEF IngestFails
  <2>2. QED
    BY <1>2, <2>1 DEF DocOrNone
<1>5. ASSUME NEW d \in Devices, NEW f \in flushes[d],
                FlushRead(d, f) \/ FlushNothing(d, f) \/ FlushWrite(d, f) \/ FlushFails(d, f)
      PROVE  Good
  BY <1>1, <1>5 DEF FlushRead, FlushNothing, FlushWrite, FlushFails, control, outgoing
<1>6. ASSUME NEW d \in Devices, Answer(d) PROVE Good
  <2>1. Answered(d) \in DocOrNone /\ tombs[d] \in Tomb
    BY <1>0, AnsweredIs DEF Types, ControlOK
  <2>2. Tells(d)
    BY <1>6, <2>1, FrameIs DEF Answer, Answered, Send, Tells, control
  <2>3. QED
    BY <2>2
<1>7. ASSUME NEW d \in Devices, Push(d) PROVE Good
  <2>1. PushedDoc(d) \in DocOrNone /\ tombs[d] \in Tomb
    BY <1>0, PushedDocIs DEF Types, ControlOK
  <2>2. Tells(d)
    BY <1>7, <2>1, FrameIs DEF Push, PushedDoc, Send, Tells, control
  <2>3. QED
    BY <2>2
<1>8. ASSUME NEW d \in Devices, Subscribe(d) \/ ReceiveDelete(d) \/ DropEvents(d) \/ LoseDeletes(d) PROVE Good
  BY <1>1, <1>8 DEF Subscribe, ReceiveDelete, DropEvents, LoseDeletes, control, outgoing
<1>9. ASSUME NEW d \in Devices, NEW kept \in BOOLEAN, Reconcile(d, kept) PROVE Good
  <2>1. CASE IsDeleted(tombs[d]) /\ kept
    <3>1. Broadcast(d, Cleared(d), Absent, 0) /\ (~raced' => ~ClearsFresh(d))
      BY <1>9, <2>1 DEF Reconcile
    <3>2. QED
      BY <1>2, <3>1 DEF DocOrNone
  <2>2. CASE ~(IsDeleted(tombs[d]) /\ kept)
    BY <1>1, <1>9, <2>2 DEF Reconcile, outgoing
  <2>3. QED
    BY <2>1, <2>2
<1>10. ASSUME NEW d \in Devices, Receive(d) PROVE Good
  <2>1. Hears(d)
    BY <1>10 DEF Receive, Reading, Hears
  <2>2. QED
    BY <2>1
<1>11. CASE Connect
  BY <1>1, <1>11 DEF Connect, control, outgoing
<1>12. CASE Cut
  <2>1. tombs' = tombs /\ \A q \in Devices : frames'[q] = <<>>
    BY <1>12, OffIs DEF Cut, control
  <2>2. QED
    BY <2>1 DEF Idle
<1>13. QED
  BY <1>3, <1>4, <1>4a, <1>5, <1>6, <1>7, <1>8, <1>9, <1>10, <1>11, <1>12 DEF Next, Starts, Reconciles

\* A text at a time is a file.
LEMMA FileIsSome == \A text, at : [text |-> text, at |-> at] # Absent
<1>1. ASSUME NEW text, NEW at, [text |-> text, at |-> at] = Absent PROVE FALSE
  <2>1. "text" \in DOMAIN [text |-> text, at |-> at] /\ "text" \notin DOMAIN Absent
    BY DEF Absent
  <2>2. QED
    BY <1>1, <2>1
<1>2. QED
  BY <1>1

\* It does until the removal is recorded, or the device starts.
LEMMA TouchedStep ==
  ASSUME FileSyncAssumption, Basics, Next, \A d \in Devices : ~RecordRemoval(d) /\ ~Starts(d)
  PROVE  \A q \in Devices : Touched(q) => Touched(q)'
<1>0. Types /\ disk \in [Devices -> File \cup {Absent}] /\ events \in [Devices -> Seq({"touch", "remove"})]
  BY DEF Basics, Types, LocalOK
<1>1. PICK d \in Devices : TiedBy(d) /\ (Acts(d) \/ Connect \/ Cut)
  BY NextTied
<1>2. ASSUME disk'[d] = disk[d], events'[d] = events[d] PROVE Touched(d) => Touched(d)'
  BY <1>2 DEF Touched, Unheard
<1>3. ASSUME disk'[d] # Absent PROVE Touched(d) => Touched(d)'
  BY <1>3 DEF Touched
<1>4. ASSUME Write(d) PROVE Touched(d) => Touched(d)'
  <2>1. disk' = [disk EXCEPT ![d] = [text |-> {spent.writes + 1}, at |-> now']]
    BY <1>4 DEF Write
  <2>2. disk'[d] = [text |-> {spent.writes + 1}, at |-> now']
    BY <1>0, <2>1
  <2>3. disk'[d] # Absent
    BY <2>2, FileIsSome
  <2>4. QED
    BY <1>3, <2>3
<1>5. ASSUME Delete(d) PROVE Touched(d)'
  <2>1. events' = [events EXCEPT ![d] = Append(@, "remove")]
    BY <1>5 DEF Delete
  <2>2. events'[d] = Append(events[d], "remove")
    BY <1>0, <2>1
  <2>3. QED
    BY <1>0, <2>2, UnheardAdded DEF Touched
<1>6. ASSUME Ingest(d) PROVE Touched(d) => Touched(d)'
  <2>1. /\ events[d] # <<>> /\ (Head(events[d]) = "touch" \/ disk[d] # Absent) /\ disk' = disk
        /\ events' = [events EXCEPT ![d] = Tail(@)]
    BY <1>6 DEF Ingest, Reported, Handled
  <2>2. events'[d] = Tail(events[d])
    BY <1>0, <2>1
  <2>3. QED
    BY <1>0, <2>1, <2>2, UnheardHandled DEF Touched
<1>6a. ASSUME IngestFails(d) PROVE Touched(d) => Touched(d)'
  <2>1. /\ events[d] # <<>> /\ (Head(events[d]) = "touch" \/ disk[d] # Absent) /\ disk' = disk
        /\ events' = [events EXCEPT ![d] = Tail(@)]
    BY <1>6a DEF IngestFails, Reported, Handled
  <2>2. events'[d] = Tail(events[d])
    BY <1>0, <2>1
  <2>3. QED
    BY <1>0, <2>1, <2>2, UnheardHandled DEF Touched
<1>7. ASSUME NEW f \in flushes[d], FlushWrite(d, f) PROVE Touched(d)'
  <2>1. disk' = [disk EXCEPT ![d] = [text |-> TextOf(f.doc), at |-> now]]
    BY <1>7 DEF FlushWrite
  <2>2. disk'[d] = [text |-> TextOf(f.doc), at |-> now]
    BY <1>0, <2>1
  <2>3. disk'[d] # Absent
    BY <2>2, FileIsSome
  <2>4. QED
    BY <2>3 DEF Touched
<1>7a. ASSUME NEW f \in flushes[d], FlushFails(d, f) PROVE Touched(d) => Touched(d)'
  <2>1. \/ disk' = disk /\ events' = events
        \/ disk' = [disk EXCEPT ![d] = [text |-> Blank, at |-> now]]
    BY <1>7a DEF FlushFails
  <2>2. (disk' = disk /\ events' = events) \/ disk'[d] # Absent
    BY <1>0, <2>1, FileIsSome
  <2>3. QED
    BY <1>2, <1>3, <2>2
<1>8. ASSUME NEW f \in flushes[d], FlushRead(d, f) \/ FlushNothing(d, f) PROVE Touched(d) => Touched(d)'
  BY <1>2, <1>8 DEF FlushRead, FlushNothing
<1>9. ASSUME Sweep(d) \/ Answer(d) \/ Subscribe(d) \/ Push(d) \/ Receive(d) \/ LoseDeletes(d) \/ Connect \/ Cut
      PROVE  Touched(d) => Touched(d)'
  BY <1>2, <1>9 DEF Sweep, Answer, Subscribe, Push, Receive, LoseDeletes, Connect, Cut, local
<1>10. ASSUME Remove(d) PROVE Touched(d) => Touched(d)'
  <2>1. /\ disk'[d] = Absent
        /\ events' = IF disk[d] = Absent THEN events ELSE [events EXCEPT ![d] = Append(@, "remove")]
    BY <1>0, <1>10, RemoveIs
  <2>2. CASE disk[d] = Absent
    <3>1. disk'[d] = disk[d] /\ events'[d] = events[d]
      BY <2>1, <2>2
    <3>2. QED
      BY <1>2, <3>1
  <2>3. CASE disk[d] # Absent
    <3>1. events'[d] = Append(events[d], "remove")
      BY <1>0, <2>1, <2>3
    <3>2. QED
      BY <1>0, <3>1, UnheardAdded DEF Touched
  <2>4. QED
    BY <2>2, <2>3
<1>11. ASSUME Reconciles(d) PROVE Touched(d) => Touched(d)'
  BY <1>2, <1>10, <1>11 DEF Reconciles, Reconcile, local
<1>12. ASSUME ReceiveDelete(d) PROVE Touched(d) => Touched(d)'
  BY <1>10, <1>12 DEF ReceiveDelete
<1>13. ASSUME DropEvents(d) PROVE Touched(d) => Touched(d)'
  BY <1>3, <1>13 DEF DropEvents
<1>14. Touched(d) => Touched(d)'
  BY <1>1, <1>4, <1>5, <1>6, <1>6a, <1>7, <1>7a, <1>8, <1>9, <1>11, <1>12, <1>13 DEF Acts
<1>15. ASSUME NEW q \in Devices, q # d PROVE Touched(q) => Touched(q)'
  BY <1>1, <1>15 DEF TiedBy, Still, Touched, Unheard
<1>16. QED
  BY <1>14, <1>15

\* What is cleared, or put after, is known to the one that does it.
LEMMA KnownDeadAnnounced ==
  ASSUME Basics, KnownDead, NEW p \in Devices, NEW t \in Tomb, Announces(p, t), Known,
         \A e \in t.items : \A q \in Devices : e.chain \notin tombs[q].dead,
         \A x \in t.dead : \E e \in tombs[p].items : x = e.chain
  PROVE  KnownDead'
<1>0. Types /\ OneEntry /\ tombs \in [Devices -> Tomb]
  BY DEF Basics, Types, ControlOK
<1>1. /\ tombs'[p].items = tombs[p].items \cup t.items /\ tombs'[p].dead = tombs[p].dead \cup t.dead
      /\ \A o \in Devices : o # p => tombs'[o] = tombs[o]
  BY <1>0, AnnouncesIs
<1>2. ASSUME NEW d \in Devices, NEW x \in tombs'[Peer(d)].items, x.chain \in tombs'[d].dead
      PROVE  x.chain \in tombs'[Peer(d)].dead \/ x \in tombs'[d].items
  <2>0. Peer(d) \in Devices /\ Peer(d) # d
    BY PeerIs
  <2>1. CASE d = p
    <3>1. x \in tombs[Peer(d)].items /\ tombs'[Peer(d)] = tombs[Peer(d)]
      BY <1>1, <1>2, <2>0, <2>1
    <3>2. CASE x.chain \in tombs[d].dead
      BY <1>1, <2>1, <3>1, <3>2 DEF KnownDead
    <3>3. CASE x.chain \in t.dead
      <4>1. PICK e \in tombs[p].items : x.chain = e.chain
        BY <3>3
      <4>2. x \in Item /\ e \in Item /\ Afoot(x) /\ Afoot(e)
        BY <1>0, <2>0, <3>1 DEF Tomb, Afoot
      <4>3. x = e
        BY <1>0, <4>1, <4>2 DEF OneEntry
      <4>4. QED
        BY <1>1, <2>1, <4>3
    <3>4. QED
      BY <1>1, <1>2, <2>1, <3>2, <3>3
  <2>2. CASE Peer(d) = p
    <3>1. tombs'[d] = tombs[d]
      BY <1>1, <2>0, <2>2
    <3>2. x \in tombs[Peer(d)].items
      BY <1>1, <1>2, <2>2, <3>1
    <3>3. QED
      BY <1>1, <1>2, <2>2, <3>1, <3>2 DEF KnownDead
  <2>3. QED
    BY <2>1, <2>2 DEF Peer, Devices
<1>3. QED
  BY <1>2 DEF KnownDead

\* It holds at every step.
LEMMA KnownDeadStep ==
  ASSUME FileSyncAssumption, Basics, Known, DeadMade, KnownDead, Next
  PROVE  KnownDead'
<1>0. Types /\ OneEntry /\ tombs \in [Devices -> Tomb]
  BY DEF Basics, Types, ControlOK
<1>1. ASSUME tombs' = tombs PROVE KnownDead'
  BY <1>1 DEF KnownDead
<1>2. ASSUME NEW r \in Devices, Hears(r) PROVE KnownDead'
  <2> DEFINE c == Head(frames[r]).control
  <2>1. /\ tombs'[r] = Joined(tombs[r], c)
        /\ \A o \in Devices : o # r => tombs'[o] = tombs[o]
        /\ 1 \in DOMAIN frames[r] /\ Head(frames[r]) = frames[r][1]
    BY <1>0, <1>2, ReadIs DEF Hears
  <2>2. c.items \subseteq tombs[Peer(r)].items /\ c.dead \subseteq tombs[Peer(r)].dead
    BY <2>1 DEF Known
  <2>3. tombs'[r].items = tombs[r].items \cup c.items /\ tombs'[r].dead = tombs[r].dead \cup c.dead
    BY <2>1 DEF Joined
  <2> HIDE DEF c
  <2>4. Peer(r) \in Devices /\ Peer(r) # r /\ Peer(Peer(r)) = r /\ \A d \in Devices : d = r \/ d = Peer(r)
    BY DEF Peer, Devices
  <2>5. \A x \in tombs'[Peer(r)].items :
          x.chain \in tombs'[r].dead => x.chain \in tombs'[Peer(r)].dead \/ x \in tombs'[r].items
    BY <2>1, <2>2, <2>3, <2>4 DEF KnownDead
  <2>6. \A x \in tombs'[r].items :
          x.chain \in tombs'[Peer(r)].dead => x.chain \in tombs'[r].dead \/ x \in tombs'[Peer(r)].items
    BY <2>1, <2>2, <2>3, <2>4 DEF KnownDead
  <2>7. QED
    BY <2>4, <2>5, <2>6 DEF KnownDead
<1>3. ASSUME NEW p \in Devices, Clears(p) PROVE KnownDead'
  <2>1. Cleared(p) \in Tomb /\ Cleared(p).items = {}
    BY <1>0, ClearedIs
  <2>2. \A x \in Cleared(p).dead : \E e \in tombs[p].items : x = e.chain
    BY <1>0, KnownLast DEF Cleared, IsDeleted
  <2>3. QED
    BY <1>3, <2>1, <2>2, KnownDeadAnnounced DEF Clears
<1>4. ASSUME NEW p \in Devices, RecordRemoval(p) PROVE KnownDead'
  <2>1. PICK n : n = NewEntry(p)
    OBVIOUS
  <2>2. /\ Recorded(p) \in Tomb /\ Recorded(p).items = {n}
        /\ Recorded(p).dead = IF tombs[p].items = {} THEN {} ELSE {Last(tombs[p]).chain}
    BY <1>0, <2>1, RecordedIs
  <2>3. Announces(p, Recorded(p))
    BY <1>4, <2>2, BroadcastAnnounces DEF RecordRemoval, DocOrNone
  <2>4. \A q \in Devices : n.chain \notin tombs[q].dead
    BY <2>1, RecordedIsAlive DEF Alive
  <2>5. \A x \in Recorded(p).dead : \E e \in tombs[p].items : x = e.chain
    BY <1>0, <2>2, KnownLast
  <2>6. QED
    BY <2>2, <2>3, <2>4, <2>5, KnownDeadAnnounced
<1>5. ASSUME NEW p \in Devices, NEW ts \in Remembered(p), NEW kept \in BOOLEAN, Restart(p, ts, kept) PROVE KnownDead'
  <2>R. Restarted(p, ts, kept)
    BY <1>0, <1>5, RestartIs
  <2>1. PICK n : n = FreshEntry(ts)
    OBVIOUS
  <2>2. /\ \A o \in Devices : o # p => tombs'[o] = tombs[o]
        /\ tombs'[p].items \subseteq {n}
    BY <1>0, <1>5, <2>1, <2>R DEF Restarted
  <2>3. n.chain = <<Fresh>>
    BY <2>1 DEF FreshEntry
  <2>4. tombs'[p].dead \subseteq {<<Fresh>>}
    BY <1>0, <1>5, RestartRemoves
  <2>5. /\ \A q \in Devices : <<Fresh>> \notin tombs[q].dead
        /\ \A q \in Devices : \A e \in tombs[q].items : e.chain # <<Fresh>>
    BY FreshIsNew
  <2>6. Peer(p) \in Devices /\ Peer(p) # p /\ Peer(Peer(p)) = p /\ \A d \in Devices : d = p \/ d = Peer(p)
    BY DEF Peer, Devices
  <2>7. \A x \in tombs'[Peer(p)].items : x.chain \notin tombs'[p].dead
    BY <2>2, <2>4, <2>5, <2>6
  <2>8. \A x \in tombs'[p].items : x.chain \notin tombs'[Peer(p)].dead
    BY <2>2, <2>3, <2>5, <2>6
  <2>9. QED
    BY <2>6, <2>7, <2>8 DEF KnownDead
<1>6. CASE \A d \in Devices : ~RecordRemoval(d) /\ ~Starts(d)
  <2>1. Idle \/ \E p \in Devices : Tells(p) \/ Hears(p) \/ Clears(p)
    BY <1>6, StepMoves
  <2>2. QED
    BY <1>1, <1>2, <1>3, <2>1 DEF Idle, Tells
<1>7. QED
  BY <1>4, <1>5, <1>6 DEF Starts

\* It is so as long as the same arrives, and more is removed.
LEMMA SameMissed ==
  ASSUME NEW d \in Devices, NEW k \in Nat, NEW j \in Nat, NEW e \in Item,
         \A x \in Item : Arrived(d, k, x)' <=> Arrived(d, j, x),
         Struck(d, j, e) => Struck(d, k, e)',
         tombs'[Peer(d)] = tombs[Peer(d)], tombs[Peer(d)].items \subseteq Item,
         Touched(Peer(d)) => Touched(Peer(d))',
         Missed(d, j, e) => Excused(d, j), Missed(d, k, e)'
  PROVE  Excused(d, k)'
<1>1. Missed(d, j, e)
  BY DEF Missed, Newest
<1>2. QED
  BY <1>1 DEF Excused

\* A device records a removal: its entry is one the other has not seen.
LEMMA RecordOutdated ==
  ASSUME FileSyncAssumption, Basics, Known, DeadMade, KnownDead, Outdated, ~raced,
         NEW p \in Devices, RecordRemoval(p), NEW d \in Devices, NEW k \in Nat, NEW e \in Item, Missed(d, k, e)'
  PROVE  Excused(d, k)'
<1>0. /\ Types /\ OneEntry /\ Entries /\ tombs \in [Devices -> Tomb] /\ frames \in [Devices -> Seq(Sent)]
      /\ Len(frames[d]) \in Nat
  BY DEF Basics, Types, ControlOK, StreamOK
<1>1. PICK n : n = NewEntry(p)
  OBVIOUS
<1>2. /\ Recorded(p) \in Tomb /\ Recorded(p).items = {n} /\ n \in Item
      /\ Recorded(p).dead = IF tombs[p].items = {} THEN {} ELSE {Last(tombs[p]).chain}
  BY <1>0, <1>1, RecordedIs
<1>3. Announces(p, Recorded(p))
  BY <1>2, BroadcastAnnounces DEF RecordRemoval, DocOrNone
<1>4. /\ tombs'[p].items = tombs[p].items \cup {n} /\ tombs'[p].dead = tombs[p].dead \cup Recorded(p).dead
      /\ \A o \in Devices : o # p => tombs'[o] = tombs[o]
  BY <1>0, <1>2, <1>3, AnnouncesIs
<1>5. Alive(n)
  BY <1>1, RecordedIsAlive
<1>6. \A x \in Item : Afoot(x) => x.chain # n.chain
  BY <1>0, <1>1, NewEntryIsNew
<1>7. Peer(d) \in Devices /\ Peer(d) # d /\ Peer(Peer(d)) = d /\ \A o \in Devices : o = d \/ o = Peer(d)
  BY DEF Peer, Devices
<1>8. \A q \in Devices, j \in Nat, x \in Item : Arrived(q, j, x) => Afoot(x)
  BY DEF Arrived, Afoot
<1>9. tombs[p].items # {} => /\ Last(tombs[p]) \in tombs[p].items /\ Last(tombs[p]) \in Item
                             /\ \A o \in tombs[p].items : o = Last(tombs[p]) \/ Before(o.chain, Last(tombs[p]).chain)
  BY <1>0, KnownLast
<1>10. CASE p = d
  <2>1. tombs'[Peer(d)] = tombs[Peer(d)] /\ frames'[d] = frames[d]
    <3>1. UNCHANGED frames \/ \E f \in Sent : frames' = [frames EXCEPT ![Peer(p)] = Append(@, f)]
      BY <1>3 DEF Announces
    <3>2. QED
      BY <1>0, <1>4, <1>7, <1>10, <3>1
  <2>2. \A x : Arrived(d, k, x)' <=> Arrived(d, k, x) \/ x = n
    BY <1>4, <1>10, <2>1 DEF Arrived
  <2>3. \A x : Struck(d, k, x) => Struck(d, k, x)'
    BY <1>4, <1>10, <2>1 DEF Struck
  <2>4. e # n
    BY <1>5, <1>7, <2>1 DEF Missed, Alive
  <2>5. Missed(d, k, e)
    BY <2>1, <2>2, <2>3, <2>4 DEF Missed, Newest
  <2>6. Excused(d, k)
    BY <2>5 DEF Outdated
  <2>7. Touched(Peer(d)) => Touched(Peer(d))'
    <3>1. disk'[Peer(d)] = disk[Peer(d)] /\ events'[Peer(d)] = events[Peer(d)]
      BY <1>0, <1>7, <1>10 DEF RecordRemoval, Handled, Types, LocalOK
    <3>2. QED
      BY <3>1 DEF Touched, Unheard
  <2>8. \A g \in tombs[Peer(d)].items : g # n
    BY <1>0, <1>6, <1>7 DEF Tomb, Afoot
  <2>9. QED
    BY <2>1, <2>2, <2>6, <2>7, <2>8 DEF Excused
<1>11. CASE p = Peer(d)
  <2>1. tombs'[d] = tombs[d]
    BY <1>4, <1>7, <1>11
  <2>2. CASE \A x : (Arrived(d, k, x)' <=> Arrived(d, k, x))
    <3>1. ~Arrived(d, k, n)'
      BY <1>2, <1>6, <1>8, <2>2
    <3>2. n \in tombs'[p].items /\ n.chain \notin tombs'[p].dead
      <4>1. tombs[p].items # {} => n.chain # Last(tombs[p]).chain
        BY <1>6, <1>9 DEF Afoot
      <4>2. QED
        BY <1>2, <1>4, <1>5, <4>1 DEF Alive
    <3>3. QED
      BY <1>11, <3>1, <3>2 DEF Excused
  <2>3. ASSUME NEW f \in Sent, f.control = Recorded(p), frames' = [frames EXCEPT ![Peer(p)] = Append(@, f)],
               k > Len(frames[d])
        PROVE  FALSE
    <3>1. frames'[d] = Append(frames[d], f)
      BY <1>0, <1>7, <1>11, <2>3
    <3>2. \A x : /\ Arrived(d, k, x)' <=> Arrived(d, k, x) \/ x \in f.control.items
                 /\ Struck(d, k, x)' <=> Struck(d, k, x) \/ x.chain \in f.control.dead
      BY <1>0, <2>1, <2>3, <3>1, ArrivedAppended
    <3>3. Arrived(d, k, n)'
      BY <1>2, <2>3, <3>2
    <3>4. n = e \/ Before(n.chain, e.chain)
      BY <1>2, <3>3 DEF Missed, Newest
    <3>5. e.chain \in tombs'[p].dead /\ ~Struck(d, k, e)
      BY <1>11, <3>2 DEF Missed
    <3>6. e # n
      <4>1. tombs[p].items # {} => n.chain # Last(tombs[p]).chain
        BY <1>6, <1>9 DEF Afoot
      <4>2. QED
        BY <1>2, <1>4, <1>5, <3>5, <4>1 DEF Alive
    <3>7. Arrived(d, k, e)
      BY <1>2, <2>3, <3>2, <3>6 DEF Missed
    <3>8. e \in tombs[p].items
      <4>1. CASE e.chain \in tombs[p].dead
        <5>1. e \in tombs[d].items \/ e \in tombs[p].items
          BY <1>7, <1>11, <3>7 DEF Arrived, Known
        <5>2. e.chain \notin tombs[d].dead
          BY <3>5 DEF Struck
        <5>3. QED
          BY <1>7, <1>11, <4>1, <5>1, <5>2 DEF KnownDead
      <4>2. CASE e.chain \notin tombs[p].dead
        <5>1. tombs[p].items # {} /\ e.chain = Last(tombs[p]).chain
          BY <1>2, <1>4, <3>5, <4>2
        <5>2. Afoot(e) /\ Afoot(Last(tombs[p]))
          BY <1>8, <1>9, <3>7, <5>1 DEF Afoot
        <5>3. QED
          BY <1>0, <1>9, <5>1, <5>2 DEF OneEntry
      <4>3. QED
        BY <4>1, <4>2
    <3>9. PICK last : last = Last(tombs[p])
      OBVIOUS
    <3>10. last \in Item /\ (e = last \/ Before(e.chain, last.chain))
      BY <1>9, <3>8, <3>9
    <3>11. n.chain = Append(last.chain, client[p]) /\ client[p] \in Nat
      BY <1>0, <1>1, <3>8, <3>9 DEF NewEntry, Types, ControlOK
    <3>12. e.chain \in Chain /\ n.chain \in Chain /\ last.chain \in Chain
      BY <1>2, <3>10 DEF Item
    <3>13. Before(last.chain, n.chain)
      BY <3>11, <3>12, BeforeAppended
    <3>14. Before(last.chain, e.chain)
      BY <3>4, <3>6, <3>12, <3>13, BeforeTransitive
    <3>15. QED
      BY <3>10, <3>12, <3>14, BeforeTransitive, BeforeIrreflexive
  <2>4. CASE UNCHANGED frames
    <3>1. \A x : (Arrived(d, k, x)' <=> Arrived(d, k, x))
      BY <2>1, <2>4 DEF Arrived
    <3>2. QED
      BY <2>2, <3>1
  <2>5. ASSUME NEW f \in Sent, f.control = Recorded(p), frames' = [frames EXCEPT ![Peer(p)] = Append(@, f)],
               k <= Len(frames[d])
        PROVE  Excused(d, k)'
    <3>1. frames'[d] = Append(frames[d], f)
      BY <1>0, <1>7, <1>11, <2>5
    <3>2. \A x : (Arrived(d, k, x)' <=> Arrived(d, k, x))
      BY <1>0, <2>1, <2>5, <3>1, ArrivedAppended
    <3>3. QED
      BY <2>2, <3>2
  <2>6. k <= Len(frames[d]) \/ k > Len(frames[d])
    BY <1>0
  <2>7. QED
    BY <1>3, <2>3, <2>4, <2>5, <2>6 DEF Announces
<1>12. QED
  BY <1>7, <1>10, <1>11

\* Every step keeps it.
LEMMA OutdatedStep ==
  ASSUME FileSyncAssumption, Basics, Basics', Known, DeadMade, KnownDead, Outdated, Next
  PROVE  Outdated'
<1>0. /\ Types /\ OneEntry /\ tombs \in [Devices -> Tomb] /\ frames \in [Devices -> Seq(Sent)]
      /\ Types' /\ tombs' \in [Devices -> Tomb]
  BY DEF Basics, Types, ControlOK, StreamOK
<1> SUFFICES ASSUME ~raced', NEW d \in Devices, NEW k \in Nat, NEW e \in Item, Missed(d, k, e)'
             PROVE  Excused(d, k)'
  BY DEF Outdated
<1>1. ~raced
  BY RacedStays
<1>2. PICK p \in Devices : p = Peer(d) /\ p # d /\ Peer(p) = d /\ (\A o \in Devices : o = d \/ o = p)
  BY DEF Peer, Devices
<1>3. \A j \in Nat : Missed(d, j, e) => Excused(d, j)
  BY <1>1 DEF Outdated
<1>4. tombs[p].items \subseteq Item
  BY <1>0 DEF Tomb
<1>5. ASSUME NEW q \in Devices, RecordRemoval(q) PROVE Excused(d, k)'
  BY <1>1, <1>5, RecordOutdated
<1>6. ASSUME NEW q \in Devices, NEW ts \in Remembered(q), NEW kept \in BOOLEAN, Restart(q, ts, kept) PROVE FALSE
  <2>R. Restarted(q, ts, kept)
    BY <1>0, <1>6, RestartIs
  <2>1. PICK n : n = FreshEntry(ts)
    OBVIOUS
  <2>2. /\ \A o \in Devices : o # q => tombs'[o] = tombs[o]
        /\ tombs'[q].items \subseteq {n} /\ Off
    BY <1>0, <1>6, <2>1, <2>R DEF Restarted
  <2>3. n.chain = <<Fresh>> /\ tombs'[q].dead \subseteq {<<Fresh>>}
    BY <1>0, <1>6, <2>1, RestartRemoves DEF FreshEntry
  <2>4. /\ \A o \in Devices : <<Fresh>> \notin tombs[o].dead
        /\ \A o \in Devices : \A x \in tombs[o].items : x.chain # <<Fresh>>
    BY FreshIsNew
  <2>5. e \in tombs'[d].items /\ e.chain \in tombs'[p].dead
    BY <1>2, <2>2, OffIs DEF Missed, Arrived
  <2>6. QED
    BY <1>2, <2>2, <2>3, <2>4, <2>5
<1>7. ASSUME \A q \in Devices : ~RecordRemoval(q) /\ ~Starts(q) PROVE Excused(d, k)'
  <2>1. Touched(p) => Touched(p)'
    BY <1>7, TouchedStep
  <2>2. ASSUME NEW j \in Nat, tombs'[p] = tombs[p],
               \A x : (Arrived(d, k, x)' <=> Arrived(d, j, x)) /\ (Struck(d, j, x) => Struck(d, k, x)')
        PROVE  Excused(d, k)'
    BY <1>2, <1>3, <1>4, <2>1, <2>2, SameMissed
  <2>3. CASE Idle
    <3>1. \A q \in Devices : tombs'[q] = tombs[q]
      BY <2>3 DEF Idle
    <3>2. CASE frames'[d] = frames[d]
      <4>1. \A x : (Arrived(d, k, x)' <=> Arrived(d, k, x)) /\ (Struck(d, k, x)' <=> Struck(d, k, x))
        BY <3>1, <3>2, ArrivedSame
      <4>2. QED
        BY <2>2, <3>1, <4>1
    <3>3. CASE frames'[d] = <<>>
      <4>1. \A x : (Arrived(d, k, x)' <=> Arrived(d, 0, x)) /\ (Struck(d, k, x)' <=> Struck(d, 0, x))
        BY <1>0, <3>1, <3>3, ArrivedOff
      <4>2. 0 \in Nat
        OBVIOUS
      <4>3. QED
        BY <2>2, <3>1, <4>1, <4>2
    <3>4. QED
      BY <2>3, <3>2, <3>3 DEF Idle
  <2>4. CASE Tells(d)
    <3>1. tombs' = tombs /\ frames'[d] = frames[d]
      BY <1>0, <1>2, <2>4 DEF Tells
    <3>2. \A x : (Arrived(d, k, x)' <=> Arrived(d, k, x)) /\ (Struck(d, k, x)' <=> Struck(d, k, x))
      BY <3>1, ArrivedSame
    <3>3. QED
      BY <2>2, <3>1, <3>2
  <2>5. CASE Tells(p)
    <3>1. PICK f \in Sent : /\ f.control = tombs[p] \/ f.control = NoTombs
                            /\ frames' = [frames EXCEPT ![Peer(p)] = Append(@, f)]
      BY <2>5 DEF Tells
    <3>2. tombs' = tombs /\ frames'[d] = Append(frames[d], f) /\ Len(frames[d]) \in Nat
      BY <1>0, <1>2, <2>5, <3>1 DEF Tells
    <3>3. CASE k <= Len(frames[d])
      <4>1. \A x : (Arrived(d, k, x)' <=> Arrived(d, k, x)) /\ (Struck(d, k, x)' <=> Struck(d, k, x))
        BY <1>0, <3>2, <3>3, ArrivedAppended
      <4>2. QED
        BY <2>2, <3>2, <4>1
    <3>4. CASE k > Len(frames[d])
      <4>1. \A x : /\ Arrived(d, k, x)' <=> Arrived(d, k, x) \/ x \in f.control.items
                   /\ Struck(d, k, x)' <=> Struck(d, k, x) \/ x.chain \in f.control.dead
        BY <1>0, <3>2, <3>4, ArrivedAppended
      <4>2. f.control = NoTombs
        BY <1>2, <3>1, <3>2, <4>1 DEF Missed
      <4>3. \A x : (Arrived(d, k, x)' <=> Arrived(d, k, x)) /\ (Struck(d, k, x)' <=> Struck(d, k, x))
        BY <4>1, <4>2 DEF NoTombs
      <4>4. QED
        BY <2>2, <3>2, <4>3
    <3>5. QED
      BY <3>2, <3>3, <3>4
  <2>6. CASE Hears(d)
    <3>1. /\ frames[d] # <<>> /\ frames'[d] = Tail(frames[d]) /\ tombs'[p] = tombs[p]
          /\ tombs'[d] = Joined(tombs[d], Head(frames[d]).control)
      BY <1>0, <1>2, <2>6 DEF Hears
    <3>2. \A x : (Arrived(d, k, x)' <=> Arrived(d, k + 1, x)) /\ (Struck(d, k, x)' <=> Struck(d, k + 1, x))
      BY <1>0, <3>1, ArrivedRead
    <3>3. k + 1 \in Nat
      OBVIOUS
    <3>4. QED
      BY <2>2, <3>1, <3>2, <3>3
  <2>7. CASE Hears(p)
    <3> DEFINE c == Head(frames[p]).control
    <3>1. /\ tombs'[d] = tombs[d] /\ frames'[d] = frames[d]
          /\ tombs'[p] = Joined(tombs[p], c)
          /\ 1 \in DOMAIN frames[p] /\ Head(frames[p]) = frames[p][1]
      BY <1>0, <1>2, <2>7, ReadIs DEF Hears
    <3>2. c.items \subseteq tombs[d].items /\ c.dead \subseteq tombs[d].dead
      BY <1>2, <3>1 DEF Known
    <3>3. tombs'[p].items = tombs[p].items \cup c.items /\ tombs'[p].dead = tombs[p].dead \cup c.dead
      BY <3>1 DEF Joined
    <3> HIDE DEF c
    <3>4. \A x : (Arrived(d, k, x)' <=> Arrived(d, k, x)) /\ (Struck(d, k, x)' <=> Struck(d, k, x))
      BY <3>1, ArrivedSame
    <3>5. e.chain \notin tombs[d].dead
      BY <3>4 DEF Missed, Struck
    <3>6. Missed(d, k, e)
      BY <1>2, <3>2, <3>3, <3>4, <3>5 DEF Missed, Newest
    <3>7. Excused(d, k)
      BY <1>3, <3>6
    <3>8. ASSUME NEW g \in tombs[p].items, g.chain \notin tombs[p].dead, ~Arrived(d, k, g)
          PROVE  g.chain \notin tombs'[p].dead
      <4>1. g \notin tombs[d].items
        BY <3>8 DEF Arrived
      <4>2. g.chain \notin tombs[d].dead
        BY <1>2, <3>8, <4>1 DEF KnownDead
      <4>3. QED
        BY <3>2, <3>3, <3>8, <4>2
    <3>9. QED
      BY <1>2, <2>1, <3>3, <3>4, <3>7, <3>8 DEF Excused
  <2>8. CASE Clears(d)
    <3>1. Cleared(d) \in Tomb /\ Cleared(d).items = {} /\ Announces(d, Cleared(d))
      BY <1>0, <2>8, ClearedIs DEF Clears
    <3>2. /\ tombs'[d].items = tombs[d].items /\ tombs[d].dead \subseteq tombs'[d].dead
          /\ tombs'[p] = tombs[p]
      <4>1. /\ tombs'[d].items = tombs[d].items \cup Cleared(d).items
            /\ tombs'[d].dead = tombs[d].dead \cup Cleared(d).dead
            /\ tombs'[p] = tombs[p]
        <5>1. tombs' = [tombs EXCEPT ![d] = Joined(@, Cleared(d))]
          BY <3>1 DEF Announces
        <5>2. tombs'[d] = Joined(tombs[d], Cleared(d)) /\ tombs'[p] = tombs[p]
          BY <1>0, <1>2, <5>1
        <5>3. QED
          BY <5>2 DEF Joined
      <4>2. QED
        BY <3>1, <4>1
    <3>3. frames'[d] = frames[d]
      BY <1>0, <1>2, <3>1 DEF Announces
    <3>4. \A x : (Arrived(d, k, x)' <=> Arrived(d, k, x)) /\ (Struck(d, k, x) => Struck(d, k, x)')
      BY <3>2, <3>3 DEF Arrived, Struck
    <3>5. QED
      BY <2>2, <3>2, <3>4
  <2>9. CASE Clears(p)
    BY <1>2, <2>1, <2>9 DEF Clears, Touched, Excused
  <2>10. QED
    BY <1>2, <1>7, <2>3, <2>4, <2>5, <2>6, <2>7, <2>8, <2>9, StepMoves
<1>8. QED
  BY <1>5, <1>6, <1>7 DEF Starts

-----------------------------------------------------------------------------
(* What a stream does that nothing disturbs                                *)

\* A broadcast without deletions.
LEMMA BroadcastNothing ==
  ASSUME Types, NEW d \in Devices, NEW u \in DocOrNone, Broadcast(d, NoTombs, u, 0)
  PROVE  /\ UNCHANGED <<tombs, deletes>>
         /\ u = Absent => frames' = frames
         /\ u # Absent => IF Listening(d) THEN Sends(d, Frame(NoTombs, u)) ELSE frames' = frames
<1>1. /\ tombs \in [Devices -> Tomb] /\ deletes \in [Devices -> Nat] /\ Peer(d) \in Devices
  BY PeerIs DEF Types, ControlOK, StreamOK
<1>2. tombs' = tombs
  <2>1. Joined(tombs[d], NoTombs) = tombs[d]
    BY <1>1 DEF Joined, NoTombs, Tomb
  <2>2. tombs' = [tombs EXCEPT ![d] = Joined(@, NoTombs)]
    BY DEF Broadcast
  <2>3. QED
    BY <1>1, <2>1, <2>2
<1>3. deletes' = deletes
  <2>1. deletes' = deletes \/ deletes' = [deletes EXCEPT ![Peer(d)] = @ + 0]
    BY DEF Broadcast
  <2>2. QED
    BY <1>1, <2>1
<1>4. QED
  BY <1>2, <1>3 DEF Broadcast, Sends

\* A document that is changed is not empty after it.
LEMMA ChangedIsNotEmpty ==
  ASSUME NEW p \in Devices, Changes(p), DocOr(docs[p]) \in Doc, Change(p) \in Doc
  PROVE  Merge(DocOr(docs[p]), Change(p)) # EmptyDoc
<1> SUFFICES ASSUME Merge(DocOr(docs[p]), Change(p)) = EmptyDoc PROVE FALSE
  OBVIOUS
<1>1. DocOr(docs[p]).ins = {} /\ Change(p).ins = {}
  BY MergeIs DEF EmptyDoc
<1>2. TextOf(DocOr(docs[p])) = Blank
  BY <1>1 DEF TextOf, Seen, Blank
<1>3. disk[p].text = Blank
  BY <1>1 DEF Change, Replacement
<1>4. QED
  BY <1>2, <1>3 DEF Changes

\* A file that is read by a device in a clean stream.
LEMMA ReadsFlow ==
  ASSUME FileSyncAssumption, Basics, NEW p \in Devices, Tied(p), Unsaved(p), IngestFile(p), ~IsDeleted(tombs[p]),
         missed = 0, UNCHANGED <<stage, owed, asked, told>>, WatchedOn
  PROVE  Quiet \/ \E u \in Doc : Edits(p, u)
<1>0. Types /\ OneEntry /\ docs \in [Devices -> DocOrNone]
  BY DEF Basics, Types, LocalOK
<1>1. /\ docs' = IF Changes(p) THEN [docs EXCEPT ![p] = Merge(DocOr(docs[p]), Change(p))]
                 ELSE IF Reads(p) THEN [docs EXCEPT ![p] = DocOr(docs[p])] ELSE docs
      /\ Changes(p) => Change(p) \in Doc
  BY <1>0, IngestFileIs
<1>2. Cleared(p) = NoTombs
  BY DEF Cleared, NoTombs
<1>3. CASE Changes(p)
  <2>1. PICK u : u = Change(p)
    OBVIOUS
  <2>2. u \in Doc /\ Broadcast(p, NoTombs, u, 0)
    BY <1>0, <1>1, <1>2, <1>3, <2>1, IngestFileIs
  <2>3. u \in DocOrNone /\ u # Absent
    BY <2>2, AbsentIsNoRecord DEF DocOrNone
  <2>4. docs' = [docs EXCEPT ![p] = Merge(DocOr(docs[p]), u)]
    BY <1>1, <1>3, <2>1
  <2>5. docs'[p] # EmptyDoc
    <3>1. DocOr(docs[p]) \in Doc
      BY <1>0, DocOrIs
    <3>2. QED
      BY <1>0, <1>1, <1>3, <2>1, <2>4, <3>1, ChangedIsNotEmpty
  <2>5a. Edits(p, u)
    BY <1>0, <2>2, <2>3, <2>4, <2>5, BroadcastNothing DEF Edits
  <2>6. QED
    BY <2>2, <2>5a
<1>4. CASE ~Changes(p)
  <2>1. Broadcast(p, NoTombs, Absent, 0)
    BY <1>0, <1>2, <1>4, IngestFileIs
  <2>2. UNCHANGED <<tombs, deletes, frames>>
    BY <1>0, <2>1, BroadcastNothing DEF DocOrNone
  <2>3. docs' = docs
    <3>1. CASE docs[p] = Absent
      <4>1. saved[p] = Absent
        BY <3>1 DEF Tied, GoneTogether
      <4>2. disk[p] # Absent => disk[p].text # Blank
        BY <4>1 DEF Unsaved
      <4>3. TextOf(DocOr(docs[p])) = Blank
        BY <3>1 DEF DocOr, TextOf, Seen, EmptyDoc, Blank
      <4>4. ~Reads(p)
        BY <1>4, <4>2, <4>3 DEF Changes, Reads
      <4>5. QED
        BY <1>1, <1>4, <4>4
    <3>2. CASE docs[p] # Absent
      BY <1>0, <1>1, <1>4, <3>2 DEF DocOr
    <3>3. QED
      BY <3>1, <3>2
  <2>4. QED
    BY <2>2, <2>3 DEF Quiet
<1>5. QED
  BY <1>3, <1>4

\* Every step of a clean stream: one step of the proof for each action.
LEMMA CleanSteps ==
  ASSUME FileSyncAssumption, Basics, TiedUnlessRaced, \A d \in Devices : Unsaved(d), Next, Open, Clean'
  PROVE  /\ Clean
         /\ Flows \/ \E p \in Devices : RecordRemoval(p)
<1>0. /\ Types /\ OneEntry /\ disk \in [Devices -> File \cup {Absent}]
      /\ events \in [Devices -> Seq({"touch", "remove"})] /\ stage \in [Devices -> Stages]
  BY DEF Basics, Types, LocalOK, StreamOK
<1>2. \A d \in Devices : stage[d] # "off"
  BY DEF Basics, Closed, Open, Devices
<1>3. PICK p \in Devices : TiedBy(p) /\ (Acts(p) \/ Connect \/ Cut)
  BY NextTied
<1>m. missed = 0 /\ missed' = 0 /\ ~Miss
  BY <1>3 DEF TiedBy, Clean, Miss
<1>1. ~raced /\ \A d \in Devices : Tied(d)
  BY <1>m, RacedStays DEF Clean, TiedUnlessRaced
<1>4. ASSUME Watched(p)' \/ ~IsDeleted(tombs[p]) \/ (disk'[p] = disk[p] /\ events'[p] = events[p]) PROVE WatchedOn
  <2>1. \A o \in Devices : o # p => disk'[o] = disk[o] /\ events'[o] = events[o]
    BY <1>3 DEF TiedBy, Still
  <2>2. QED
    BY <1>4, <2>1 DEF WatchedOn, Watched
<1> DEFINE Good == (deferred => deferred') /\ (Flows \/ RecordRemoval(p))
<1>5. ASSUME Write(p) PROVE Good
  <2>1. events' = [events EXCEPT ![p] = Append(@, "touch")]
    BY <1>5 DEF Write
  <2>2. events'[p] # <<>>
    BY <1>0, <2>1
  <2>3. WatchedOn
    BY <1>4, <2>2 DEF Watched
  <2>4. QED
    BY <1>5, <2>3 DEF Write, Quiet, Flows, control, session, outgoing
<1>6. ASSUME Delete(p) PROVE Good
  <2>1. disk'[p] = Absent
    BY <1>0, <1>6 DEF Delete
  <2>2. WatchedOn
    BY <1>4, <2>1 DEF Watched
  <2>3. QED
    BY <1>6, <2>2 DEF Delete, Quiet, Flows, control, session, outgoing
<1>7. ASSUME Ingest(p) PROVE Good
  <2>1. /\ IngestFile(p) /\ UNCHANGED <<stage, owed, asked, told>>
        /\ deferred' = (deferred \/ (IsDeleted(tombs[p]) /\ stage[p] # "off"))
    BY <1>7 DEF Ingest, session
  <2>2. ~IsDeleted(tombs[p])
    BY <1>2, <2>1 DEF Clean
  <2>3. WatchedOn
    BY <1>4, <2>2
  <2>4. QED
    BY <1>1, <1>m, <2>1, <2>2, <2>3, ReadsFlow DEF Flows
<1>7a. ~IngestFails(p) /\ \A f \in flushes[p] : ~FlushFails(p, f)
  BY <1>m DEF IngestFails, FlushFails
<1>8. ASSUME Sweep(p) PROVE Good
  <2>1. IngestFile(p) /\ UNCHANGED <<stage, owed, asked, told, deferred>> /\ ~IsDeleted(tombs[p])
    BY <1>8 DEF Sweep, Untracked, session
  <2>2. WatchedOn
    BY <1>4, <2>1
  <2>3. QED
    BY <1>1, <1>m, <2>1, <2>2, ReadsFlow DEF Flows
<1>9. ASSUME RecordRemoval(p) PROVE Good
  BY <1>9 DEF RecordRemoval
<1>10. ASSUME NEW f \in flushes[p], FlushRead(p, f) \/ FlushNothing(p, f) PROVE Good
  <2>1. WatchedOn
    BY <1>4, <1>10 DEF FlushRead, FlushNothing
  <2>2. QED
    BY <1>10, <2>1 DEF FlushRead, FlushNothing, Quiet, Flows, control, session, outgoing, ghosts
<1>11. ASSUME NEW f \in flushes[p], FlushWrite(p, f) PROVE Good
  <2>1. \/ events' = [events EXCEPT ![p] = Append(@, "touch")]
        \/ events' = [events EXCEPT ![p] = @ \o <<"touch", "touch">>]
    BY <1>11 DEF FlushWrite
  <2>2. events'[p] # <<>>
    BY <1>0, <2>1
  <2>3. WatchedOn
    BY <1>4, <2>2 DEF Watched
  <2>4. QED
    BY <1>11, <2>3 DEF FlushWrite, Quiet, Flows, control, session, outgoing
<1>12. ASSUME Answer(p) \/ Subscribe(p) \/ Push(p) \/ Receive(p) \/ ReceiveDelete(p) PROVE Good
  <2>1. deferred => deferred'
    BY <1>12 DEF Answer, Subscribe, Push, Receive, ReceiveDelete, ghosts
  <2>2. QED
    BY <1>12, <2>1 DEF Flows
<1>13. ASSUME Reconciles(p) PROVE Good
  <2>1. PICK kept \in BOOLEAN : Reconcile(p, kept)
    BY <1>13 DEF Reconciles
  <2>2. deferred' = (deferred \/ (IsDeleted(tombs[p]) /\ kept))
    BY <2>1 DEF Reconcile
  <2>3. ~(IsDeleted(tombs[p]) /\ kept)
    BY <2>2 DEF Clean
  <2>4. Settles(p)
    BY <2>1, <2>3 DEF Reconcile, Settles, outgoing
  <2>5. QED
    BY <2>2, <2>4 DEF Flows
<1>14. ASSUME DropEvents(p) PROVE Good
  <2>1. deferred' = (deferred \/ IsDeleted(tombs[p]))
    BY <1>14 DEF DropEvents
  <2>2. WatchedOn
    BY <1>4, <2>1 DEF Clean
  <2>3. QED
    BY <1>14, <2>1, <2>2 DEF DropEvents, Quiet, Flows, control, session, outgoing
<1>15. ~LoseDeletes(p)
  BY DEF LoseDeletes, Clean
<1>16. ~Starts(p) /\ ~Cut
  <2>1. ~Off
    BY OffIs DEF Clean, Open, Devices
  <2>2. QED
    BY <1>0, <2>1, RestartIs DEF Cut, Starts, Restarted
<1>17. ~Connect
  BY DEF Connect, Open, Devices
<1>18. Good
  BY <1>3, <1>5, <1>6, <1>7, <1>7a, <1>8, <1>9, <1>10, <1>11, <1>12, <1>13, <1>14, <1>15, <1>16, <1>17 DEF Acts
<1>19. QED
  BY <1>1, <1>m, <1>18 DEF Clean

\* What the maps do meanwhile.
LEMMA FlowsIs ==
  ASSUME Basics, Flows
  PROVE  Idle \/ \E p \in Devices : Tells(p) \/ Hears(p)
<1>0. Types /\ OneEntry
  BY DEF Basics
<1>1. ASSUME UNCHANGED <<tombs, frames>> PROVE Idle
  BY <1>1 DEF Idle
<1>2. ASSUME NEW p \in Devices, NEW u \in Doc, Edits(p, u) PROVE Idle \/ Tells(p)
  <2>1. Frame(NoTombs, u) \in Sent /\ Frame(NoTombs, u).control = NoTombs
    BY FrameIs, NoTombsIs DEF DocOrNone
  <2>2. QED
    BY <1>1, <1>2, <2>1 DEF Edits, Sends, Tells
<1>3. ASSUME NEW p \in Devices, Answer(p) PROVE Tells(p)
  <2>1. Answered(p) \in DocOrNone /\ tombs[p] \in Tomb
    BY <1>0, AnsweredIs DEF Types, ControlOK
  <2>2. QED
    BY <1>3, <2>1, FrameIs DEF Answer, Answered, Send, Tells, control
<1>4. ASSUME NEW p \in Devices, Push(p) PROVE Tells(p)
  <2>1. PushedDoc(p) \in DocOrNone /\ tombs[p] \in Tomb
    BY <1>0, PushedDocIs DEF Types, ControlOK
  <2>2. QED
    BY <1>4, <2>1, FrameIs DEF Push, PushedDoc, Send, Tells, control
<1>5. ASSUME NEW p \in Devices, Subscribe(p) \/ Settles(p) \/ ReceiveDelete(p) \/ Quiet PROVE Idle
  BY <1>1, <1>5 DEF Subscribe, Settles, ReceiveDelete, Quiet, control, outgoing
<1>6. ASSUME NEW p \in Devices, Receive(p) PROVE Hears(p)
  BY <1>6 DEF Receive, Reading, Hears
<1>7. QED
  BY <1>2, <1>3, <1>4, <1>5, <1>6 DEF Flows, Devices

\* Nothing is removed or made, so that what survives is what survived.
LEMMA FlowsMove ==
  ASSUME Basics, Known, Flows
  PROVE  /\ Moves
         /\ \A q \in Devices : tombs[q].dead \subseteq tombs'[q].dead
         /\ \A e : Alive(e) <=> Alive(e)'
         /\ Survives <=> Survives'
<1>0. Types
  BY DEF Basics
<1>1. Idle \/ \E p \in Devices : Tells(p) \/ Hears(p)
  BY FlowsIs
<1>2. Moves
  BY <1>0, <1>1, IdleMoves, TellsMoves, HearsMoves
<1>3. \A q \in Devices : tombs[q].dead \subseteq tombs'[q].dead
  <2>1. CASE tombs' = tombs
    BY <2>1
  <2>2. ASSUME NEW r \in Devices, Hears(r) PROVE \A q \in Devices : tombs[q].dead \subseteq tombs'[q].dead
    <3>1. tombs'[r] = Joined(tombs[r], Head(frames[r]).control) /\ \A o \in Devices : o # r => tombs'[o] = tombs[o]
      BY <1>0, <2>2 DEF Hears, Types, ControlOK
    <3>2. QED
      BY <3>1 DEF Joined
  <2>3. QED
    BY <1>1, <2>1, <2>2 DEF Idle, Tells
<1>4. \A e : Alive(e) <=> Alive(e)'
  BY <1>2, <1>3 DEF Moves, Alive
<1>5. Survives <=> Survives'
  BY <1>2, <1>4 DEF Moves, Survives
<1>6. QED
  BY <1>2, <1>3, <1>4, <1>5

\* A file that is sent comes after those on the way.
LEMMA FileSent ==
  ASSUME Types, NEW p \in Devices, NEW f \in Sent, Sends(p, f), owed' = owed
  PROVE  /\ \A i : FileAt(Peer(p), i) => FileAt(Peer(p), i)'
         /\ \A i : FileAt(Peer(p), i)' => FileAt(Peer(p), i) \/ (i = Len(frames[Peer(p)]) + 1 /\ f.file # Absent)
         /\ f.file # Absent /\ (owed[Peer(p)] => frames[Peer(p)] # <<>>) => FileTo(Peer(p))'
         /\ \A i : FileAt(p, i)' <=> FileAt(p, i)
         /\ FileTo(Peer(p)) => FileTo(Peer(p))'
<1>1. /\ frames'[p] = frames[p] /\ Len(frames[Peer(p)]) \in Nat
      /\ DOMAIN frames[Peer(p)] = 1 .. Len(frames[Peer(p)])
      /\ DOMAIN frames'[Peer(p)] = 1 .. Len(frames[Peer(p)]) + 1
      /\ \A i \in 1 .. Len(frames[Peer(p)]) : frames'[Peer(p)][i] = frames[Peer(p)][i]
      /\ frames'[Peer(p)][Len(frames[Peer(p)]) + 1] = f
  BY SendsIs
<1>2. frames[Peer(p)] # <<>> => Len(frames[Peer(p)]) + 1 >= 2
  <2>1. frames[Peer(p)] \in Seq(Sent)
    BY PeerIs DEF Types, StreamOK
  <2>2. frames[Peer(p)] # <<>> => Len(frames[Peer(p)]) # 0
    BY <2>1, EmptySeq
  <2>3. QED
    BY <1>1, <2>2
<1>3. \A i : FileAt(Peer(p), i) => FileAt(Peer(p), i)'
  BY <1>1 DEF FileAt
<1>4. \A i : FileAt(Peer(p), i)' => FileAt(Peer(p), i) \/ (i = Len(frames[Peer(p)]) + 1 /\ f.file # Absent)
  BY <1>1 DEF FileAt
<1>5. ASSUME f.file # Absent, owed[Peer(p)] => frames[Peer(p)] # <<>> PROVE FileTo(Peer(p))'
  <2>1. PICK i : i = Len(frames[Peer(p)]) + 1
    OBVIOUS
  <2>2. i \in Nat /\ i \in DOMAIN frames'[Peer(p)]
    BY <1>1, <2>1
  <2>3. frames'[Peer(p)][i].file # Absent /\ (owed[Peer(p)] => i >= 2)
    BY <1>1, <1>2, <1>5, <2>1
  <2>4. FileAt(Peer(p), i)'
    BY <2>2, <2>3 DEF FileAt
  <2>5. QED
    BY <2>2, <2>4 DEF FileTo
<1>6. \A i : FileAt(p, i)' <=> FileAt(p, i)
  BY <1>1 DEF FileAt
<1>7. QED
  BY <1>3, <1>4, <1>5, <1>6 DEF FileTo

\* Those that are on the way when one is read.
LEMMA FileRead ==
  ASSUME Types, NEW d \in Devices, Receive(d)
  PROVE  /\ \A i : FileAt(d, i)' => i \in Nat /\ i >= 1 /\ FileAt(d, i + 1)
         /\ \A i : FileAt(d, i) => i \in Nat /\ i >= 1 /\ (i = 1 \/ FileAt(d, i - 1)')
         /\ FileAt(d, 1) => Head(frames[d]).file # Absent /\ stage[d] = "live"
         /\ \A i : FileAt(Peer(d), i)' <=> FileAt(Peer(d), i)
<1>1. /\ Head(frames[d]) = frames[d][1] /\ Len(frames[d]) \in Nat
      /\ frames'[Peer(d)] = frames[Peer(d)]
      /\ DOMAIN frames[d] = 1 .. Len(frames[d])
      /\ DOMAIN frames'[d] = 1 .. Len(frames[d]) - 1
      /\ \A i \in 1 .. Len(frames[d]) - 1 : frames'[d][i] = frames[d][i + 1]
  BY ReceiveReads
<1>2. owed' = [owed EXCEPT ![d] = FALSE] /\ (owed[d] \/ stage[d] = "live")
  BY DEF Receive, Reading
<1>3. ~owed'[d] /\ owed'[Peer(d)] = owed[Peer(d)]
  BY <1>2, PeerIs DEF Types, StreamOK
<1>4. ASSUME NEW i, FileAt(d, i)' PROVE i \in Nat /\ i >= 1 /\ FileAt(d, i + 1)
  BY <1>1, <1>4 DEF FileAt
<1>5. ASSUME NEW i, FileAt(d, i) PROVE i \in Nat /\ i >= 1 /\ (i = 1 \/ FileAt(d, i - 1)')
  <2>0. i \in DOMAIN frames[d] /\ frames[d][i].file # Absent
    BY <1>5 DEF FileAt
  <2>1. i \in 1 .. Len(frames[d]) /\ frames[d][i].file # Absent
    BY <1>1, <2>0
  <2>2. ASSUME i # 1 PROVE FileAt(d, i - 1)'
    <3>1. i - 1 \in 1 .. Len(frames[d]) - 1 /\ (i - 1) + 1 = i
      BY <1>1, <2>1, <2>2
    <3>2. frames'[d][i - 1] = frames[d][i]
      BY <1>1, <3>1
    <3>3. QED
      BY <1>1, <1>3, <2>1, <3>1, <3>2 DEF FileAt
  <2>3. QED
    BY <2>1, <2>2
<1>6. FileAt(d, 1) => Head(frames[d]).file # Absent /\ stage[d] = "live"
  BY <1>1, <1>2 DEF FileAt
<1>7. \A i : FileAt(Peer(d), i)' <=> FileAt(Peer(d), i)
  BY <1>1, <1>3 DEF FileAt
<1>8. QED
  BY <1>4, <1>5, <1>6, <1>7

\* A file that comes to a device with a deletion is refused in a live stream.
LEMMA RefusedLive ==
  ASSUME Basics, Basics', NEW d \in Devices, Receive(d), Clean', NEW e, e \in tombs'[d].items, Alive(e)'
  PROVE  ~FileAt(d, 1) /\ IsDeleted(tombs'[d])
<1>1. PICK t : t = Joined(tombs[d], Head(frames[d]).control)
  OBVIOUS
<1>2. tombs'[d] = t
  BY <1>1 DEF Receive, Basics, Types, ControlOK
<1>3. ~Masked(t)
  BY <1>1 DEF Receive, Clean
<1>4. IsDeleted(t)
  BY <1>2, <1>3 DEF Masked, Alive
<1>5. ~(Head(frames[d]).file # Absent /\ Refused(t) /\ stage[d] = "live")
  BY <1>1 DEF Receive, Clean
<1>6. QED
  BY <1>2, <1>4, <1>5, FileRead DEF Refused, Basics

\* It goes on to.
LEMMA UnmaskedStep ==
  ASSUME FileSyncAssumption, Basics, Basics', Known, DeadMade, Clean, Clean', \A d \in Devices : Unmasked(d),
         Flows \/ \E p \in Devices : RecordRemoval(p)
  PROVE  \A d \in Devices : Unmasked(d)'
<1>0. Types /\ tombs \in [Devices -> Tomb] /\ owed \in [Devices -> BOOLEAN]
  BY DEF Basics, Types, ControlOK, StreamOK
<1>1. ASSUME NEW d \in Devices, tombs'[d] = tombs[d], owed'[d] = owed[d] PROVE Unmasked(d)'
  BY <1>1 DEF Unmasked
<1>2. ASSUME tombs' = tombs, owed' = owed PROVE \A d \in Devices : Unmasked(d)'
  BY <1>1, <1>2
<1>3. ASSUME NEW p \in Devices, Receive(p) PROVE \A d \in Devices : Unmasked(d)'
  <2>1. PICK t : t = Joined(tombs[p], Head(frames[p]).control)
    OBVIOUS
  <2>2. ~Masked(t) /\ tombs' = [tombs EXCEPT ![p] = t] /\ owed' = [owed EXCEPT ![p] = FALSE]
    BY <1>3, <2>1 DEF Receive, Clean
  <2>3. QED
    BY <1>0, <1>1, <2>2 DEF Unmasked
<1>4. ASSUME NEW p \in Devices, RecordRemoval(p) PROVE \A d \in Devices : Unmasked(d)'
  <2>1. IsDeleted(tombs'[p])
    BY <1>4, RecordHolds DEF Core
  <2>2. Unmasked(p)'
    BY <2>1 DEF Unmasked, Masked
  <2>3. \A d \in Devices : d # p => tombs'[d] = tombs[d] /\ owed'[d] = owed[d]
    BY <1>0, <1>4 DEF RecordRemoval, Broadcast, session
  <2>4. QED
    BY <1>1, <2>2, <2>3
<1>5. CASE Quiet
  BY <1>2, <1>5 DEF Quiet
<1>6. ASSUME NEW p \in Devices, NEW u \in Doc, Edits(p, u) PROVE \A d \in Devices : Unmasked(d)'
  BY <1>2, <1>6 DEF Edits
<1>7. ASSUME NEW p \in Devices, Answer(p) \/ Subscribe(p) \/ Push(p) \/ Settles(p) \/ ReceiveDelete(p)
      PROVE  \A d \in Devices : Unmasked(d)'
  BY <1>2, <1>7 DEF Answer, Subscribe, Push, Settles, ReceiveDelete, control, session
<1>8. QED
  BY <1>3, <1>4, <1>5, <1>6, <1>7 DEF Flows

\* Who knows a deletion that nobody removed sees the file as deleted.
LEMMA AliveIsDeleted ==
  ASSUME NEW d \in Devices, Unmasked(d), ~owed[d], NEW e \in tombs[d].items, Alive(e)
  PROVE  IsDeleted(tombs[d])
BY DEF Unmasked, Masked, Alive

\* What one device is sent in a step of such a stream.
LEMMA FlowsToward ==
  ASSUME Basics, Flows, NEW d \in Devices
  PROVE  \/ Untold(d)
         \/ \E f \in Sent : Told(d, f) /\ f.control = tombs[Peer(d)] /\ Opens(Peer(d), f)
         \/ \E f \in Sent, u \in Doc : /\ Told(d, f) /\ f.control = NoTombs /\ f.file = u
                                       /\ Listening(Peer(d)) /\ Edits(Peer(d), u)
         \/ Receive(d)
<1> DEFINE Good == \/ Untold(d)
                   \/ \E f \in Sent : Told(d, f) /\ f.control = tombs[Peer(d)] /\ Opens(Peer(d), f)
                   \/ \E f \in Sent, u \in Doc : /\ Told(d, f) /\ f.control = NoTombs /\ f.file = u
                                                 /\ Listening(Peer(d)) /\ Edits(Peer(d), u)
                   \/ Receive(d)
<1>0. Types /\ tombs \in [Devices -> Tomb] /\ owed \in [Devices -> BOOLEAN] /\ frames \in [Devices -> Seq(Sent)]
  BY DEF Basics, Types, ControlOK, StreamOK
<1>p. /\ Peer(d) \in Devices /\ Peer(d) # d /\ Peer(Peer(d)) = d
      /\ \A o \in Devices : o = d \/ o = Peer(d)
  BY DEF Peer, Devices
<1>1. ASSUME NEW p \in Devices, NEW f \in Sent, Sends(p, f), tombs' = tombs, owed' = owed
      PROVE  Untold(d) \/ (p = Peer(d) /\ Told(d, f))
  BY <1>0, <1>1, <1>p DEF Untold, Told, Sends
<1>2. ASSUME Quiet PROVE Good
  BY <1>2 DEF Quiet, Untold
<1>3. ASSUME NEW p \in Devices, NEW u \in Doc, Edits(p, u) PROVE Good
  <2>1. Frame(NoTombs, u) \in Sent /\ Frame(NoTombs, u).control = NoTombs /\ Frame(NoTombs, u).file = u
    BY FrameIs, NoTombsIs DEF DocOrNone
  <2>2. CASE Listening(p)
    BY <1>1, <1>3, <2>1, <2>2 DEF Edits
  <2>3. CASE ~Listening(p)
    BY <1>3, <2>3 DEF Edits, Untold
  <2>4. QED
    BY <2>2, <2>3
<1>4. ASSUME NEW p \in Devices, Answer(p) \/ Push(p) PROVE Good
  <2>1. PICK u \in DocOrNone : /\ Send(p, Frame(tombs[p], u)) /\ tombs' = tombs /\ owed' = owed
                               /\ \/ Answer(p) /\ u = Answered(p)
                                  \/ Push(p) /\ u = PushedDoc(p)
    <3>1. Answered(p) \in DocOrNone /\ PushedDoc(p) \in DocOrNone
      BY <1>0, AnsweredIs, PushedDocIs
    <3>2. QED
      BY <1>4, <3>1 DEF Answer, Answered, Push, PushedDoc, control
  <2>2. PICK f \in Sent : f = Frame(tombs[p], u) /\ f.control = tombs[p] /\ f.file = u
    BY <1>0, FrameIs
  <2>3. Sends(p, f) /\ Opens(p, f)
    BY <2>1, <2>2 DEF Send, Sends, Opens
  <2>4. QED
    BY <1>1, <2>1, <2>2, <2>3
<1>5. ASSUME NEW p \in Devices, Subscribe(p) \/ Settles(p) \/ ReceiveDelete(p) PROVE Good
  BY <1>5 DEF Subscribe, Settles, ReceiveDelete, Untold, control, outgoing, session
<1>6. ASSUME NEW p \in Devices, Receive(p) PROVE Good
  <2>1. CASE p = d
    BY <1>6, <2>1
  <2>2. CASE p # d
    BY <1>0, <1>6, <2>2 DEF Receive, Untold
  <2>3. QED
    BY <2>1, <2>2
<1>7. QED
  BY <1>2, <1>3, <1>4, <1>5, <1>6 DEF Flows

\* It stays so.
LEMMA PassedFlows ==
  ASSUME Basics, Known, Flows, \A d \in Devices : Passed(d)
  PROVE  \A d \in Devices : Passed(d)'
<1>0. /\ Types /\ tombs \in [Devices -> Tomb] /\ stage \in [Devices -> Stages] /\ frames \in [Devices -> Seq(Sent)]
  BY DEF Basics, Types, ControlOK, StreamOK
<1> SUFFICES ASSUME NEW d \in Devices, Pushed(d)', NEW e, e \in tombs'[d].items, NEW k \in Nat, k >= Len(frames'[Peer(d)])
             PROVE  Arrived(Peer(d), k, e)'
  BY DEF Passed
<1>1. PICK p \in Devices : p = Peer(d) /\ p # d /\ Peer(p) = d /\ (\A o \in Devices : o = d \/ o = p)
  BY DEF Peer, Devices
<1>2. Len(frames[p]) \in Nat /\ k >= Len(frames'[p])
  BY <1>0, <1>1
<1>3. tombs[p].items \subseteq tombs'[p].items
  BY FlowsMove DEF Moves
<1>4. CASE e \in tombs[p].items
  BY <1>1, <1>3, <1>4 DEF Arrived
<1>5. CASE e \notin tombs[p].items
  <2>1. e \in tombs[d].items
    <3>1. CASE Receive(d)
      <4>1. tombs'[d].items = tombs[d].items \cup Head(frames[d]).control.items
        BY <1>0, <3>1 DEF Receive, Joined
      <4>2. Head(frames[d]).control.items \subseteq tombs[p].items
        <5>1. frames[d] # <<>> /\ Head(frames[d]) = frames[d][1] /\ 1 \in DOMAIN frames[d]
          BY <1>0, <3>1, ReceiveReads
        <5>2. QED
          BY <1>1, <5>1 DEF Known
      <4>3. QED
        BY <1>5, <4>1, <4>2
    <3>2. CASE ~Receive(d)
      BY <3>2, FlowsToward DEF Untold, Told
    <3>3. QED
      BY <3>1, <3>2
  <2>2. CASE Pushed(d)
    <3>1. \A j \in Nat : j >= Len(frames[p]) => Arrived(p, j, e)
      BY <1>1, <2>1, <2>2 DEF Passed
    <3>2. CASE Untold(p)
      <4>1. tombs'[p] = tombs[p] /\ frames'[p] = frames[p]
        BY <3>2 DEF Untold
      <4>2. Arrived(p, k, e)
        BY <1>2, <3>1, <4>1
      <4>3. QED
        BY <1>1, <4>1, <4>2, ArrivedSame
    <3>3. ASSUME NEW f \in Sent, Told(p, f) PROVE Arrived(p, k, e)'
      <4>1. frames'[p] = Append(frames[p], f) /\ tombs'[p] = tombs[p]
        BY <1>0, <3>3 DEF Told
      <4>2. k > Len(frames[p])
        BY <1>0, <1>2, <4>1
      <4>3. Arrived(p, k, e)' <=> Arrived(p, k, e) \/ e \in f.control.items
        BY <1>0, <4>1, <4>2, ArrivedAppended
      <4>4. QED
        BY <1>2, <3>1, <4>2, <4>3
    <3>4. CASE Receive(p)
      <4>1. /\ frames[p] # <<>> /\ frames'[p] = Tail(frames[p]) /\ Len(frames'[p]) = Len(frames[p]) - 1
            /\ tombs'[p] = Joined(tombs[p], Head(frames[p]).control)
        BY <1>0, <3>4, ReceiveReads DEF Receive
      <4>2. k + 1 \in Nat /\ k + 1 >= Len(frames[p])
        BY <1>2, <4>1
      <4>3. Arrived(p, k, e)' <=> Arrived(p, k + 1, e)
        BY <1>0, <4>1, ArrivedRead
      <4>4. Arrived(p, k + 1, e)
        BY <3>1, <4>2
      <4>5. QED
        BY <1>1, <4>3, <4>4
    <3>5. QED
      BY <1>1, <3>2, <3>3, <3>4, FlowsToward
  <2>3. CASE ~Pushed(d)
    <3>1. Push(d)
      <4>1. ASSUME stage' = stage PROVE FALSE
        BY <2>3, <4>1 DEF Pushed
      <4>2. ASSUME NEW q \in Devices, Answer(q) \/ Subscribe(q) \/ Settles(q) PROVE FALSE
        BY <1>0, <2>3, <4>2 DEF Pushed, Answer, Subscribe, Settles
      <4>3. ASSUME NEW q \in Devices, Push(q) PROVE q = d
        BY <1>0, <2>3, <4>3 DEF Pushed, Push
      <4>4. ASSUME NEW q \in Devices, (\E u \in Doc : Edits(q, u)) \/ Receive(q) \/ ReceiveDelete(q) PROVE FALSE
        BY <4>1, <4>4 DEF Edits, Receive, ReceiveDelete, session
      <4>5. QED
        BY <4>1, <4>2, <4>3, <4>4 DEF Flows, Quiet
    <3>2. PICK u \in DocOrNone : Send(d, Frame(tombs[d], u)) /\ tombs' = tombs
      <4>1. PushedDoc(d) \in DocOrNone
        BY <1>0, PushedDocIs
      <4>2. QED
        BY <3>1, <4>1 DEF Push, PushedDoc, control
    <3>3. PICK f \in Sent : f = Frame(tombs[d], u) /\ f.control = tombs[d]
      BY <1>0, FrameIs
    <3>4. frames'[p] = Append(frames[p], f) /\ tombs'[p] = tombs[p]
      BY <1>0, <1>1, <3>2, <3>3 DEF Send
    <3>5. k > Len(frames[p])
      BY <1>0, <1>2, <3>4
    <3>6. Arrived(p, k, e)' <=> Arrived(p, k, e) \/ e \in f.control.items
      BY <1>0, <3>4, <3>5, ArrivedAppended
    <3>7. QED
      BY <1>1, <2>1, <3>3, <3>6
  <2>4. QED
    BY <2>2, <2>3
<1>6. QED
  BY <1>4, <1>5

\* A removal that is recorded is sent by a device that has pushed.
LEMMA PassedRecord ==
  ASSUME FileSyncAssumption, Basics, Known, NEW p \in Devices, RecordRemoval(p), \A d \in Devices : Passed(d)
  PROVE  \A d \in Devices : Passed(d)'
<1>0. /\ Types /\ OneEntry /\ tombs \in [Devices -> Tomb] /\ frames \in [Devices -> Seq(Sent)]
  BY DEF Basics, Types, ControlOK, StreamOK
<1>1. PICK o \in Devices : o = Peer(p) /\ o # p /\ Peer(o) = p /\ (\A d \in Devices : d = o \/ d = p)
  BY DEF Peer, Devices
<1>2. Recorded(p) \in Tomb /\ Broadcast(p, Recorded(p), Absent, 1) /\ stage' = stage /\ Len(frames[o]) \in Nat
  <2>1. Recorded(p) \in Tomb
    BY <1>0, RecordedIs
  <2>2. Broadcast(p, Recorded(p), Absent, 1) /\ stage' = stage
    BY DEF RecordRemoval, session
  <2>3. Len(frames[o]) \in Nat
    BY <1>0
  <2>4. QED
    BY <2>1, <2>2, <2>3
<1>3. tombs' = [tombs EXCEPT ![p] = Joined(tombs[p], Recorded(p))]
  BY <1>2 DEF Broadcast
<1>4. tombs'[p].items = tombs[p].items \cup Recorded(p).items /\ tombs'[o] = tombs[o]
  BY <1>0, <1>1, <1>3 DEF Joined
<1>5. Recorded(p).items # {}
  BY <1>0, RecordedIs
<1>6. frames'[p] = frames[p]
  BY <1>0, <1>1, <1>2 DEF Broadcast
<1>7. Passed(o)'
  <2>1. ASSUME NEW e \in tombs[o].items, NEW k \in Nat, k >= Len(frames[p]), Arrived(p, k, e) PROVE Arrived(p, k, e)'
    BY <1>4, <1>6, <2>1 DEF Arrived
  <2>2. QED
    BY <1>1, <1>2, <1>4, <1>6, <2>1 DEF Passed, Pushed
<1>8. Passed(p)'
  <2> SUFFICES ASSUME Pushed(p), NEW e, e \in tombs'[p].items, NEW k \in Nat, k >= Len(frames'[o])
               PROVE  Arrived(o, k, e)'
    BY <1>1, <1>2 DEF Passed, Pushed
  <2>1. PICK f \in Sent : f = Frame(Recorded(p), Absent) /\ f.control = Recorded(p)
    BY <1>2, FrameIs DEF DocOrNone
  <2>2. Recorded(p) # NoTombs
    BY <1>5 DEF NoTombs
  <2>3. frames'[o] = Append(frames[o], f)
    BY <1>0, <1>1, <1>2, <2>1, <2>2 DEF Broadcast, Pushed, Listening
  <2>4. k > Len(frames[o])
    BY <1>0, <1>2, <2>3
  <2>5. Arrived(o, k, e)' <=> Arrived(o, k, e) \/ e \in f.control.items
    BY <1>0, <1>4, <2>3, <2>4, ArrivedAppended
  <2>6. e \in tombs[p].items => Arrived(o, k, e)
    BY <1>1, <1>2, <2>4 DEF Passed
  <2>7. QED
    BY <1>4, <2>1, <2>5, <2>6
<1>9. QED
  BY <1>1, <1>7, <1>8

-----------------------------------------------------------------------------
(* A stream without a deletion that nobody removed                         *)

\* A device that knows all sees no deletion.
LEMMA InformedNotDeleted ==
  ASSUME Types, OneEntry, ~Survives, NEW d \in Devices, Sub(tombs[Peer(d)], tombs[d])
  PROVE  ~IsDeleted(tombs[d])
<1> SUFFICES ASSUME IsDeleted(tombs[d]) PROVE FALSE
  OBVIOUS
<1>1. PICK e : e = Last(tombs[d])
  OBVIOUS
<1>2. e \in tombs[d].items /\ e \in Item /\ e.chain \notin tombs[d].dead
  BY <1>1, KnownLast DEF IsDeleted
<1>3. \A o \in Devices : o = d \/ o = Peer(d)
  BY DEF Peer, Devices
<1>4. Alive(e)
  BY <1>2, <1>3 DEF Sub, Alive
<1>5. QED
  BY <1>2, <1>4 DEF Survives

\* Nothing stands for one that knows all.
LEMMA InformedStandsOn ==
  ASSUME Types, Known, ~Survives, NEW d \in Devices, Handshake(d), Informed(d)
  PROVE  StandsOn(d)
<1> SUFFICES ASSUME NEW k \in Nat, owed[d] => k >= 1, Standing(d, k) PROVE Standing(d, k + 1)
  BY DEF StandsOn
<1>1. PICK e \in Item : Arrived(d, k, e) /\ ~Struck(d, k, e)
  BY DEF Standing
<1>2. PICK p \in Devices : p = Peer(d) /\ (\A o \in Devices : o = d \/ o = p)
  BY DEF Peer, Devices
<1>3. e \in tombs[d].items \/ e \in tombs[p].items
  BY <1>1, <1>2 DEF Arrived, Known
<1>4. ~Alive(e)
  BY <1>3 DEF Survives
<1>5. e.chain \in tombs[p].dead
  BY <1>1, <1>2, <1>4 DEF Alive, Struck
<1>6. owed[d]
  BY <1>1, <1>2, <1>5 DEF Informed, Sub, Struck
<1>7. CASE frames[d] = <<>>
  <2>1. DOMAIN frames[d] = {}
    BY <1>7
  <2>2. Arrived(d, k + 1, e) /\ ~Struck(d, k + 1, e)
    BY <1>1, <2>1 DEF Arrived, Struck
  <2>3. QED
    BY <2>2 DEF Standing
<1>8. CASE frames[d] # <<>>
  <2>1. Sub(tombs[p], Joined(tombs[d], frames[d][1].control))
    BY <1>2, <1>6, <1>8 DEF Handshake, Informed
  <2>2. e.chain \in tombs[d].dead \/ e.chain \in frames[d][1].control.dead
    BY <1>5, <2>1 DEF Sub, Joined
  <2>3. 1 \in DOMAIN frames[d] /\ 1 <= k
    BY <1>6, <1>8 DEF Types, StreamOK
  <2>4. QED
    BY <1>1, <2>2, <2>3 DEF Struck
<1>9. QED
  BY <1>7, <1>8

\* A device in a stream that nothing disturbs goes on to be informed.
LEMMA InformedFlows ==
  ASSUME FileSyncAssumption, Basics, Basics', Known, Handshakes, Handshakes', Clean, Clean', ~Survives, Flows,
         \A d \in Devices : Informed(d)
  PROVE  \A d \in Devices : Informed(d)'
<1>0. /\ Types /\ Types' /\ OneEntry /\ tombs \in [Devices -> Tomb] /\ stage \in [Devices -> Stages]
      /\ owed \in [Devices -> BOOLEAN] /\ frames \in [Devices -> Seq(Sent)] /\ deletes \in [Devices -> Nat]
      /\ tombs' \in [Devices -> Tomb]
  BY DEF Basics, Types, ControlOK, StreamOK
<1> SUFFICES ASSUME NEW d \in Devices PROVE Informed(d)'
  OBVIOUS
<1>1. PICK p \in Devices : p = Peer(d) /\ p # d /\ Peer(p) = d /\ (\A o \in Devices : o = d \/ o = p)
  BY DEF Peer, Devices
<1>2. /\ Handshake(d) /\ Handshake(p) /\ Handshake(d)' /\ Handshake(p)'
      /\ Informed(d) /\ Informed(p)
  BY DEF Handshakes, Clean
<1>3. deletes'[d] = 0
  <2>1. deletes' = deletes
    <3>1. ASSUME NEW q \in Devices, ReceiveDelete(q) PROVE FALSE
      BY <1>0, <3>1 DEF Informed, ReceiveDelete
    <3>2. ASSUME NEW q \in Devices, (\E u \in Doc : Edits(q, u)) \/ Answer(q) \/ Subscribe(q) \/ Push(q) \/ Settles(q) \/ Receive(q)
          PROVE  deletes' = deletes
      BY <3>2 DEF Edits, Answer, Subscribe, Push, Settles, Receive, Send, outgoing
    <3>3. QED
      BY <3>1, <3>2 DEF Flows, Quiet
  <2>2. QED
    BY <1>2, <2>1 DEF Informed
<1>4. Sub(tombs[p], tombs'[p]) /\ Sub(tombs[d], tombs'[d])
  BY FlowsMove DEF Moves, Sub
<1>5. /\ tombs'[p].items \subseteq tombs[p].items \cup tombs[d].items
      /\ tombs'[p].dead \subseteq tombs[p].dead \cup tombs[d].dead
  BY <1>1, FlowsMove DEF Moves
<1>6. ASSUME Untold(d), stage[p] # "answer" \/ stage'[p] = "answer" PROVE Informed(d)'
  <2>1. /\ tombs'[d] = tombs[d] /\ frames'[d] = frames[d] /\ owed'[d] = owed[d]
    BY <1>6 DEF Untold
  <2>2. ~owed'[d] => Sub(tombs'[p], tombs'[d])
    BY <1>1, <1>2, <1>5, <2>1 DEF Informed, Sub
  <2>3. ASSUME owed'[d], stage'[p] # "answer" PROVE Sub(tombs'[p], Joined(tombs'[d], frames'[d][1].control))
    <3>1. Sub(tombs[p], Joined(tombs[d], frames[d][1].control))
      BY <1>1, <1>2, <1>6, <2>1, <2>3 DEF Informed
    <3>2. QED
      BY <1>5, <2>1, <3>1 DEF Sub, Joined
  <2>4. QED
    BY <1>1, <1>3, <2>2, <2>3 DEF Informed
<1>7. ASSUME NEW f \in Sent, Told(d, f), f.control = tombs[p] \/ stage[p] # "answer" PROVE Informed(d)'
  <2>1. tombs' = tombs /\ owed' = owed /\ frames'[d] = Append(frames[d], f)
    BY <1>0, <1>7 DEF Told
  <2>2. ~owed'[d] => Sub(tombs'[p], tombs'[d])
    BY <1>1, <1>2, <2>1 DEF Informed
  <2>3. ASSUME owed'[d], stage'[p] # "answer" PROVE Sub(tombs'[p], Joined(tombs'[d], frames'[d][1].control))
    <3>1. CASE frames[d] = <<>>
      <4>1. stage[p] = "answer"
        BY <1>1, <1>2, <2>1, <2>3, <3>1 DEF Handshake
      <4>2. frames'[d][1] = f
        BY <2>1, <3>1
      <4>3. QED
        BY <1>7, <2>1, <4>1, <4>2 DEF Sub, Joined
    <3>2. CASE frames[d] # <<>>
      <4>1. stage[p] # "answer"
        BY <1>1, <1>2, <2>1, <2>3, <3>2 DEF Handshake
      <4>2. frames'[d][1] = frames[d][1]
        <5>1. frames[d] \in Seq(Sent)
          BY <1>0
        <5>2. QED
          BY <2>1, <3>2, <5>1
      <4>3. QED
        BY <1>1, <1>2, <2>1, <2>3, <4>1, <4>2 DEF Informed
    <3>3. QED
      BY <3>1, <3>2
  <2>4. QED
    BY <1>1, <1>3, <2>2, <2>3 DEF Informed
<1>8. CASE Receive(d)
  <2>1. /\ tombs'[d] = Joined(tombs[d], Head(frames[d]).control) /\ ~owed'[d]
        /\ tombs'[p] = tombs[p] /\ (owed[d] \/ ~owed[d]) /\ frames[d] # <<>>
    BY <1>0, <1>1, <1>8 DEF Receive, Reading
  <2>2. Head(frames[d]) = frames[d][1]
    BY <1>0, <1>8, ReceiveReads
  <2>3. Sub(tombs[p], Joined(tombs[d], frames[d][1].control))
    BY <1>1, <1>2, <2>1 DEF Informed, Handshake, Sub, Joined
  <2>4. QED
    BY <1>1, <1>3, <2>1, <2>2, <2>3 DEF Informed
<1>9. ASSUME Untold(d), stage[p] = "answer", stage'[p] # "answer" PROVE FALSE
  <2>1. ASSUME stage' = stage PROVE FALSE
    BY <1>9, <2>1
  <2>2. ASSUME NEW q \in Devices, Subscribe(q) \/ Settles(q) \/ Push(q) PROVE FALSE
    BY <1>0, <1>9, <2>2 DEF Subscribe, Settles, Push
  <2>3. ASSUME NEW q \in Devices, Answer(q) PROVE FALSE
    <3>1. q = p
      BY <1>0, <1>9, <2>3 DEF Answer
    <3>2. frames'[d] = Append(frames[d], Frame(tombs[p], Answered(p)))
      BY <1>0, <1>1, <2>3, <3>1 DEF Answer, Answered, Send
    <3>3. frames[d] \in Seq(Sent) /\ Frame(tombs[p], Answered(p)) \in Sent
      <4>1. Answered(p) \in DocOrNone
        BY <1>0, AnsweredIs
      <4>2. QED
        BY <1>0, <4>1, FrameIs
    <3>4. frames'[d] # frames[d]
      <4>1. PICK g \in Sent : g = Frame(tombs[p], Answered(p))
        BY <3>3
      <4>2. Len(Append(frames[d], g)) = Len(frames[d]) + 1 /\ Len(frames[d]) \in Nat
        BY <3>3
      <4>3. QED
        BY <3>2, <4>1, <4>2
    <3>5. QED
      BY <1>9, <3>4 DEF Untold
  <2>4. ASSUME NEW q \in Devices, (\E u \in Doc : Edits(q, u)) \/ Receive(q) \/ ReceiveDelete(q) PROVE FALSE
    BY <2>1, <2>4 DEF Edits, Receive, ReceiveDelete, session
  <2>5. QED
    BY <2>1, <2>2, <2>3, <2>4 DEF Flows, Quiet
<1>10. ASSUME NEW u \in Doc, Listening(p), Edits(p, u) PROVE stage[p] # "answer"
  BY <1>10 DEF Listening
<1>11. QED
  BY <1>1, <1>6, <1>7, <1>8, <1>9, <1>10, FlowsToward

-----------------------------------------------------------------------------
(* Documents in such a stream                                              *)

\* Nothing is seen as deleted once the answer was read, so that nothing is removed or refused.
LEMMA CalmIs ==
  ASSUME CalmFlow, NEW d \in Devices
  PROVE  /\ ~owed[d] => ~IsDeleted(tombs[d])
         /\ ~owed'[d] => ~IsDeleted(tombs'[d])
         /\ Settles(d) => UNCHANGED local
         /\ ~ReceiveDelete(d)
<1>0. Types /\ OneEntry /\ Types' /\ OneEntry' /\ Informed(d) /\ Informed(d)' /\ Handshake(d)
  BY DEF CalmFlow, Basics, Handshakes, Clean
<1>1. ~owed[d] => ~IsDeleted(tombs[d])
  BY <1>0, InformedNotDeleted DEF CalmFlow, Informed
<1>2. ~owed'[d] => ~IsDeleted(tombs'[d])
  <2> SUFFICES ASSUME ~owed'[d], IsDeleted(tombs'[d]) PROVE FALSE
    OBVIOUS
  <2>1. Sub(tombs'[Peer(d)], tombs'[d])
    BY <1>0 DEF Informed
  <2>2. PICK e : e = Last(tombs'[d])
    OBVIOUS
  <2>3. e \in tombs'[d].items /\ e \in Item /\ e.chain \notin tombs'[d].dead
    <3>1. tombs'[d] \in Tomb /\ tombs'[d].items # {} /\ Single(tombs'[d])
      <4>1. \A x \in tombs'[d].items : x \in Item /\ Afoot(x)'
        BY <1>0 DEF Types, ControlOK, Tomb, Afoot
      <4>2. QED
        BY <1>0, <4>1 DEF OneEntry, Single, IsDeleted, Types, ControlOK
    <3>2. QED
      BY <2>2, <3>1, LastIs DEF IsDeleted, Tomb
  <2>4. \A o \in Devices : o = d \/ o = Peer(d)
    BY DEF Peer, Devices
  <2>5. Alive(e)'
    BY <2>1, <2>3, <2>4 DEF Sub, Alive
  <2>6. QED
    BY <2>3, <2>5 DEF Survives, CalmFlow
<1>3. Settles(d) => UNCHANGED local
  BY <1>0, <1>1 DEF Settles, Handshake, Opening
<1>4. ~ReceiveDelete(d)
  BY <1>0 DEF ReceiveDelete, Informed, Types, StreamOK
<1>5. QED
  BY <1>1, <1>2, <1>3, <1>4

\* A frame that is read: a file is applied, unless it is none.
LEMMA CalmReceive ==
  ASSUME CalmFlow, NEW d \in Devices, Receive(d)
  PROVE  /\ \A o \in Devices : o # d => docs'[o] = docs[o] /\ flushes'[o] = flushes[o]
         /\ Head(frames[d]).file = Absent => docs'[d] = docs[d] /\ flushes'[d] = flushes[d]
         /\ Head(frames[d]).file # Absent => /\ docs'[d] = Merge(DocOr(docs[d]), Head(frames[d]).file)
                                             /\ flushes'[d] # {}
                                             /\ Head(frames[d]).file \in Doc /\ docs'[d] \in Doc
                                             /\ ~Empties(d, Head(frames[d]).file)
<1>0. /\ Types /\ docs \in [Devices -> DocOrNone] /\ flushes \in [Devices -> SUBSET Flush]
      /\ tombs \in [Devices -> Tomb] /\ owed \in [Devices -> BOOLEAN] /\ Clean'
  BY DEF CalmFlow, Basics, Types, LocalOK, ControlOK, StreamOK
<1>1. PICK t : t = Joined(tombs[d], Head(frames[d]).control)
  OBVIOUS
<1>2. tombs'[d] = t /\ ~owed'[d]
  BY <1>0, <1>1 DEF Receive
<1>3. ~IsDeleted(t)
  BY <1>2, CalmIs
<1>4. CASE Head(frames[d]).file = Absent
  <2>1. docs' = docs /\ flushes' = flushes
    BY <1>1, <1>3, <1>4 DEF Receive
  <2>2. QED
    BY <1>4, <2>1
<1>5. CASE Head(frames[d]).file # Absent
  <2>1. /\ docs' = [docs EXCEPT ![d] = Merge(DocOr(@), Head(frames[d]).file)]
        /\ flushes' = [flushes EXCEPT ![d] = @ \cup {Spawned}]
        /\ raced' = (raced \/ Masked(t) \/ (~Refused(t) /\ Empties(d, Head(frames[d]).file)))
    BY <1>1, <1>3, <1>5 DEF Receive, Refused
  <2>2. Head(frames[d]).file \in Doc
    <3>1. Head(frames[d]) \in Sent
      BY <1>0, ReceiveReads
    <3>2. QED
      BY <1>5, <3>1 DEF Sent, DocOrNone
  <2>3. ~Empties(d, Head(frames[d]).file)
    BY <1>0, <1>3, <2>1 DEF Clean, Refused
  <2>4. /\ docs'[d] = Merge(DocOr(docs[d]), Head(frames[d]).file)
        /\ \A o \in Devices : o # d => docs'[o] = docs[o] /\ flushes'[o] = flushes[o]
        /\ flushes'[d] # {}
    BY <1>0, <2>1
  <2>5. docs'[d] \in Doc
    BY <1>0, <2>2, <2>4, DocOrIs, MergeIs
  <2>6. QED
    BY <1>5, <2>2, <2>3, <2>4, <2>5
<1>6. QED
  BY <1>4, <1>5

\* What becomes of a document in a step: it only grows.
LEMMA CalmDocs ==
  ASSUME CalmFlow, NEW d \in Devices
  PROVE  /\ Grows(d)
         /\ \/ docs'[d] = docs[d]
            \/ \E u \in Doc : Edits(d, u) /\ docs'[d] = Merge(DocOr(docs[d]), u)
            \/ Answer(d) /\ asked[d] /\ docs'[d] = DocOr(docs[d])
            \/ Receive(d) /\ Head(frames[d]).file \in Doc /\ docs'[d] = Merge(DocOr(docs[d]), Head(frames[d]).file)
<1> DEFINE Good == \/ docs'[d] = docs[d]
                   \/ \E u \in Doc : Edits(d, u) /\ docs'[d] = Merge(DocOr(docs[d]), u)
                   \/ Answer(d) /\ asked[d] /\ docs'[d] = DocOr(docs[d])
                   \/ Receive(d) /\ Head(frames[d]).file \in Doc
                                 /\ docs'[d] = Merge(DocOr(docs[d]), Head(frames[d]).file)
<1>0. /\ Types /\ docs \in [Devices -> DocOrNone] /\ Flows
  BY DEF CalmFlow, Basics, Types, LocalOK
<1>1. Good
  <2>1. ASSUME NEW p \in Devices, NEW u \in Doc, Edits(p, u) PROVE Good
    <3>1. p # d => docs'[d] = docs[d]
      BY <1>0, <2>1 DEF Edits
    <3>2. p = d => docs'[d] = Merge(DocOr(docs[d]), u)
      BY <1>0, <2>1 DEF Edits
    <3>3. QED
      BY <2>1, <3>1, <3>2
  <2>2. ASSUME NEW p \in Devices, Answer(p) PROVE Good
    <3>1. p # d => docs'[d] = docs[d]
      BY <1>0, <2>2 DEF Answer
    <3>2. p = d /\ asked[d] => docs'[d] = DocOr(docs[d])
      BY <1>0, <2>2 DEF Answer
    <3>3. p = d /\ ~asked[d] => docs'[d] = docs[d]
      <4>1. d # Initiator /\ asked[Initiator] => docs[d] # Absent
        BY DEF CalmFlow, AskedFor, Initiator, Peer, Devices
      <4>2. QED
        BY <1>0, <2>2, <4>1 DEF Answer, DocOr
    <3>4. QED
      BY <2>2, <3>1, <3>2, <3>3
  <2>3. ASSUME NEW p \in Devices, Receive(p) PROVE Good
    BY <2>3, CalmReceive
  <2>4. ASSUME NEW p \in Devices, Subscribe(p) \/ Push(p) \/ Settles(p) \/ ReceiveDelete(p) PROVE Good
    BY <2>4, CalmIs DEF Subscribe, Push, local
  <2>5. QED
    BY <1>0, <2>1, <2>2, <2>3, <2>4 DEF Flows, Quiet
<1>2. Grows(d)
  <2>1. ASSUME NEW u \in Doc, docs'[d] = Merge(DocOr(docs[d]), u) PROVE Grows(d)
    <3>1. DocOr(docs[d]) \in Doc
      BY <1>0, DocOrIs
    <3>2. docs'[d] \in Doc /\ docs'[d].ins = DocOr(docs[d]).ins \cup u.ins /\ docs'[d].del = DocOr(docs[d]).del \cup u.del
      BY <2>1, <3>1, MergeIs
    <3>3. docs'[d] # Absent
      BY <3>2, AbsentIsNoRecord
    <3>4. QED
      BY <3>2, <3>3 DEF Grows, DocOr
  <2>2. CASE docs'[d] = docs[d]
    BY <2>2 DEF Grows
  <2>3. CASE docs'[d] = DocOr(docs[d])
    <3>1. DocOr(docs[d]) \in Doc /\ DocOr(docs[d]) # Absent
      BY <1>0, DocOrIs, AbsentIsNoRecord
    <3>2. DocOr(docs'[d]) = DocOr(docs[d])
      BY <2>3, <3>1 DEF DocOr
    <3>3. QED
      BY <2>3, <3>1, <3>2 DEF Grows
  <2>4. QED
    BY <1>1, <2>1, <2>2, <2>3
<1>3. QED
  BY <1>1, <1>2

\* What is asked for stays.
LEMMA AskedForStep ==
  ASSUME CalmFlow
  PROVE  \A d \in Devices : AskedFor(d)'
<1>1. asked' = asked
  BY DEF CalmFlow, Flows, Quiet, Edits, Answer, Subscribe, Push, Settles, Receive, ReceiveDelete, session
<1>2. \A d \in Devices : docs[Peer(d)] # Absent => docs'[Peer(d)] # Absent
  BY PeerIs, CalmDocs DEF Grows
<1>3. QED
  BY <1>1, <1>2 DEF AskedFor, CalmFlow

\* What it said to have stays.
LEMMA ClaimedStep ==
  ASSUME CalmFlow, \A d \in Devices : Claimed(d)
  PROVE  \A d \in Devices : Claimed(d)'
<1>0. told \in [Devices -> SUBSET Ids] /\ Flows
  BY DEF CalmFlow, Basics, Types, StreamOK
<1> SUFFICES ASSUME NEW d \in Devices PROVE Claimed(d)'
  OBVIOUS
<1>1. IdsOf(DocOr(docs[Peer(d)])) \subseteq IdsOf(DocOr(docs'[Peer(d)]))
  BY PeerIs, CalmDocs DEF Grows, IdsOf
<1>2. CASE told'[d] = told[d]
  BY <1>1, <1>2 DEF Claimed
<1>3. ASSUME NEW q \in Devices, Answer(q) PROVE told'[d] = told[d] \/ told'[d] = IdsOf(DocOr(docs[Peer(d)]))
  <2>1. told' = IF q # Initiator /\ asked[Initiator] THEN [told EXCEPT ![Initiator] = IdsOf(DocOr(docs[q]))] ELSE told
    BY <1>3 DEF Answer
  <2>2. q # Initiator => q = Peer(Initiator)
    BY DEF Initiator, Peer, Devices
  <2>3. QED
    BY <1>0, <2>1, <2>2
<1>4. ASSUME NEW q \in Devices,
             (\E u \in Doc : Edits(q, u)) \/ Subscribe(q) \/ Push(q) \/ Settles(q) \/ Receive(q) \/ ReceiveDelete(q)
      PROVE  told' = told
  BY <1>4 DEF Edits, Subscribe, Push, Settles, Receive, ReceiveDelete, session
<1>5. told'[d] = told[d] \/ told'[d] = IdsOf(DocOr(docs[Peer(d)]))
  BY <1>0, <1>3, <1>4 DEF Flows, Quiet
<1>6. QED
  BY <1>1, <1>2, <1>5 DEF Claimed

\* What is sent is in the document.
LEMMA ToldIsSourced ==
  ASSUME CalmFlow, NEW d \in Devices, NEW f \in Sent, f.file # Absent,
         Opens(Peer(d), f) \/ (f.file \in Doc /\ Edits(Peer(d), f.file))
  PROVE  /\ docs'[Peer(d)] # Absent
         /\ f.file.ins \subseteq DocOr(docs'[Peer(d)]).ins /\ f.file.del \subseteq DocOr(docs'[Peer(d)]).del
<1>1. PICK p \in Devices : p = Peer(d)
  BY PeerIs
<1>2. docs \in [Devices -> DocOrNone]
  BY DEF CalmFlow, Basics, Types, LocalOK
<1>3. CASE Opens(p, f)
  <2>1. CASE Answer(p) /\ f.file = Answered(p)
    <3>1. asked[p] /\ f.file = Diff(DocOr(docs[p]), told[p]) /\ DocOr(docs[p]) \in Doc
      BY <1>2, <2>1, DocOrIs DEF Answered
    <3>2. docs'[p] = DocOr(docs[p])
      BY <1>2, <2>1, <3>1 DEF Answer
    <3>3. DocOr(docs'[p]) = docs'[p] /\ docs'[p] # Absent
      BY <3>1, <3>2, AbsentIsNoRecord DEF DocOr
    <3>4. f.file.ins \subseteq DocOr(docs[p]).ins /\ f.file.del = DocOr(docs[p]).del
      BY <3>1, DiffIs
    <3>5. QED
      BY <1>1, <3>2, <3>3, <3>4
  <2>2. CASE Push(p) /\ f.file = PushedDoc(p)
    <3>1. docs'[p] = docs[p]
      BY <2>2 DEF Push, local
    <3>2. docs[p] \in Doc /\ (f.file = docs[p] \/ f.file = Diff(docs[p], told[p]))
      BY <1>2, <2>2, PushedDocIs DEF CalmFlow, Basics
    <3>3. docs[p] # Absent /\ DocOr(docs[p]) = docs[p]
      BY <3>2, AbsentIsNoRecord DEF DocOr
    <3>4. f.file.ins \subseteq docs[p].ins /\ f.file.del = docs[p].del
      BY <3>2, DiffIs
    <3>5. QED
      BY <1>1, <3>1, <3>3, <3>4
  <2>3. QED
    BY <1>3, <2>1, <2>2 DEF Opens
<1>4. CASE f.file \in Doc /\ Edits(p, f.file)
  <2>1. docs'[p] = Merge(DocOr(docs[p]), f.file) /\ DocOr(docs[p]) \in Doc
    BY <1>2, <1>4, DocOrIs DEF Edits
  <2>2. /\ docs'[p] \in Doc /\ docs'[p].ins = DocOr(docs[p]).ins \cup f.file.ins
        /\ docs'[p].del = DocOr(docs[p]).del \cup f.file.del
    BY <1>4, <2>1, MergeIs
  <2>3. docs'[p] # Absent
    BY <2>2, AbsentIsNoRecord
  <2>4. QED
    BY <1>1, <2>2, <2>3 DEF DocOr
<1>5. QED
  BY <1>1, <1>3, <1>4

\* It stays there.
LEMMA SourcedStep ==
  ASSUME CalmFlow, \A d \in Devices : Sourced(d)
  PROVE  \A d \in Devices : Sourced(d)'
<1>0. Types /\ frames \in [Devices -> Seq(Sent)] /\ Flows /\ Basics
  BY DEF CalmFlow, Basics, Types, StreamOK
<1> SUFFICES ASSUME NEW d \in Devices PROVE Sourced(d)'
  OBVIOUS
<1>1. PICK p \in Devices : p = Peer(d) /\ p # d /\ Peer(p) = d
  BY DEF Peer, Devices
<1>2. Grows(p) /\ Sourced(d)
  BY CalmDocs
<1>3. CASE frames'[d] = frames[d]
  BY <1>1, <1>2, <1>3 DEF Grows, Sourced
<1>4. ASSUME NEW f \in Sent, Told(d, f), Opens(p, f) \/ (f.file \in Doc /\ Edits(p, f.file)) PROVE Sourced(d)'
  <2>1. frames' = [frames EXCEPT ![d] = Append(@, f)]
    BY <1>4 DEF Told
  <2>2. \A i \in DOMAIN frames'[d] : (i \in DOMAIN frames[d] /\ frames'[d][i] = frames[d][i]) \/ frames'[d][i] = f
    BY <1>0, <2>1, AppendedIs
  <2>3. f.file # Absent => /\ docs'[p] # Absent
                           /\ f.file.ins \subseteq DocOr(docs'[p]).ins /\ f.file.del \subseteq DocOr(docs'[p]).del
    BY <1>1, <1>4, ToldIsSourced
  <2>4. QED
    BY <1>1, <1>2, <2>2, <2>3 DEF Grows, Sourced
<1>5. CASE Receive(d)
  <2>1. \A i \in DOMAIN frames'[d] : \E j \in DOMAIN frames[d] : frames'[d][i] = frames[d][j]
    BY <1>0, <1>5, ReadIs DEF Receive, Reading
  <2>2. QED
    BY <1>1, <1>2, <2>1 DEF Grows, Sourced
<1>6. QED
  BY <1>0, <1>1, <1>3, <1>4, <1>5, FlowsToward DEF Untold

\* What comes goes on to come.
LEMMA ComesStep ==
  ASSUME CalmFlow, NEW q \in Devices, NEW c
  PROVE  (Comes(q, c) => Comes(q, c)') /\ (Goes(q, c) => Goes(q, c)')
<1>0. Types /\ docs \in [Devices -> DocOrNone] /\ frames \in [Devices -> Seq(Sent)] /\ Flows /\ Basics
  BY DEF CalmFlow, Basics, Types, StreamOK, LocalOK
<1>1. Grows(q)
  BY CalmDocs
<1>2. CASE frames'[q] = frames[q]
  BY <1>1, <1>2 DEF Grows, Comes, Goes
<1>3. ASSUME NEW f \in Sent, Told(q, f)
      PROVE  (Comes(q, c) => Comes(q, c)') /\ (Goes(q, c) => Goes(q, c)')
  <2>1. \A i \in DOMAIN frames[q] : i \in DOMAIN frames'[q] /\ frames'[q][i] = frames[q][i]
    <3>1. frames'[q] = Append(frames[q], f) /\ frames[q] \in Seq(Sent)
      BY <1>0, <1>3 DEF Told
    <3>2. QED
      BY <3>1
  <2>2. QED
    BY <1>1, <2>1 DEF Grows, Comes, Goes
<1>4. CASE Receive(q)
  <2>1. /\ Head(frames[q]) = frames[q][1] /\ Len(frames[q]) \in Nat
        /\ DOMAIN frames[q] = 1 .. Len(frames[q]) /\ DOMAIN frames'[q] = 1 .. Len(frames[q]) - 1
        /\ \A i \in 1 .. Len(frames[q]) - 1 : frames'[q][i] = frames[q][i + 1]
    BY <1>0, <1>4, ReceiveReads
  <2>2. \A i \in DOMAIN frames[q] : i = 1 \/ (i - 1 \in DOMAIN frames'[q] /\ frames'[q][i - 1] = frames[q][i])
    BY <2>1
  <2>3. frames[q][1].file # Absent => /\ frames[q][1].file.ins \subseteq DocOr(docs'[q]).ins
                                      /\ frames[q][1].file.del \subseteq DocOr(docs'[q]).del
    <3>1. SUFFICES ASSUME frames[q][1].file # Absent
                   PROVE  /\ frames[q][1].file.ins \subseteq DocOr(docs'[q]).ins
                          /\ frames[q][1].file.del \subseteq DocOr(docs'[q]).del
      OBVIOUS
    <3>2. PICK u : u = frames[q][1].file
      OBVIOUS
    <3>3. docs'[q] = Merge(DocOr(docs[q]), u) /\ u \in Doc /\ docs'[q] \in Doc
      BY <1>4, <2>1, <3>1, <3>2, CalmReceive
    <3>4. DocOr(docs'[q]) = docs'[q]
      BY <3>3, AbsentIsNoRecord DEF DocOr
    <3>5. QED
      BY <1>0, <3>2, <3>3, <3>4, DocOrIs, MergeIs
  <2>4. QED
    BY <1>1, <2>2, <2>3 DEF Grows, Comes, Goes
<1>5. QED
  BY <1>0, <1>2, <1>3, <1>4, FlowsToward DEF Untold

\* A device that pushes, or has pushed.
LEMMA PushedStep ==
  ASSUME Basics, Flows, NEW d \in Devices, Pushed(d)'
  PROVE  Pushed(d) \/ Push(d)
<1>0. stage \in [Devices -> Stages]
  BY DEF Basics, Types, StreamOK
<1>1. CASE stage' = stage
  BY <1>1 DEF Pushed
<1>2. ASSUME NEW q \in Devices, Answer(q) \/ Subscribe(q) \/ Push(q) \/ Settles(q) PROVE Pushed(d) \/ Push(d)
  BY <1>0, <1>2 DEF Answer, Subscribe, Push, Settles, Pushed
<1>3. ASSUME NEW q \in Devices, (\E u \in Doc : Edits(q, u)) \/ Receive(q) \/ ReceiveDelete(q) PROVE stage' = stage
  BY <1>3 DEF Edits, Receive, ReceiveDelete, session
<1>4. QED
  BY <1>1, <1>2, <1>3 DEF Flows, Quiet

\* What a device sends to the other, as an operation on the frames.
LEMMA SentComes ==
  ASSUME Types', NEW q \in Devices, NEW i \in DOMAIN frames'[q], NEW u \in Doc, frames'[q][i].file = u
  PROVE  /\ \A c \in u.ins : Comes(q, c)'
         /\ \A c \in u.del : Goes(q, c)'
BY AbsentIsNoRecord DEF Comes, Goes

\* Documents go on to be shared.
LEMMA SharedStep ==
  ASSUME CalmFlow, \A d \in Devices : Sourced(d), \A d \in Devices : Shared(d), \A d \in Devices : Claimed(d)
  PROVE  \A d \in Devices : Shared(d)'
<1>0. /\ Types /\ Types' /\ docs \in [Devices -> DocOrNone] /\ frames \in [Devices -> Seq(Sent)] /\ Flows /\ Basics
      /\ owed' \in [Devices -> BOOLEAN] /\ Clean /\ Handshakes
  BY DEF CalmFlow, Basics, Types, StreamOK, LocalOK
<1> SUFFICES ASSUME NEW d \in Devices, Pushed(d)'
             PROVE  /\ \A c \in DocOr(docs'[d]).ins : Comes(Peer(d), c)'
                    /\ \A c \in DocOr(docs'[d]).del : Goes(Peer(d), c)'
  BY DEF Shared
<1>1. PICK p \in Devices : p = Peer(d) /\ p # d /\ Peer(p) = d
  BY DEF Peer, Devices
<1>2. \A c : (Comes(p, c) => Comes(p, c)') /\ (Goes(p, c) => Goes(p, c)')
  BY ComesStep
<1>3. ASSUME NEW f \in Sent, f.file \in Doc, Sends(d, f)
      PROVE  (\A c \in f.file.ins : Comes(p, c)') /\ (\A c \in f.file.del : Goes(p, c)')
  <2>1. PICK i : i = Len(frames[p]) + 1
    OBVIOUS
  <2>2. i \in DOMAIN frames'[p] /\ frames'[p][i] = f
    BY <1>0, <1>1, <1>3, <2>1, SendsIs
  <2>3. QED
    BY <1>0, <1>3, <2>2, SentComes
<1>4. CASE Push(d)
  <2>1. /\ Send(d, Frame(tombs[d], PushedDoc(d))) /\ docs' = docs
        /\ stage[d] = "push"
    BY <1>4 DEF Push, PushedDoc, local
  <2>2. CASE docs[d] = Absent
    BY <2>1, <2>2 DEF DocOr, EmptyDoc
  <2>3. CASE docs[d] # Absent
    <3>1. ~IsDeleted(tombs[d])
      <4>1. ~owed[d]
        BY <1>0, <2>1 DEF Handshakes, Handshake, Clean, Opening
      <4>2. QED
        BY <4>1, CalmIs
    <3>2. docs[d] \in Doc /\ DocOr(docs'[d]) = docs[d] /\ Advertised(d)
      BY <1>0, <2>1, <2>3, <3>1 DEF DocOr, DocOrNone, Advertised
    <3>3. /\ Diff(docs[d], told[d]) \in Doc /\ Diff(docs[d], told[d]).del = docs[d].del
          /\ Diff(docs[d], told[d]).ins = {c \in docs[d].ins : c.id \notin told[d]}
      BY <3>2, DiffIs
    <3>4. ASSUME NEW c \in docs[d].ins, c.id \in told[d] PROVE Comes(p, c)'
      <4>1. c.id \in IdsOf(DocOr(docs[p]))
        BY <1>1, <3>4 DEF Claimed
      <4>2. PICK b \in DocOr(docs[p]).ins : b.id = c.id
        BY <4>1 DEF IdsOf
      <4>3. docs[p] \in Doc /\ DocOr(docs[p]) = docs[p]
        BY <1>0, <1>1, <4>2, PeerIs DEF DocOr, DocOrNone, EmptyDoc
      <4>4. InUse(docs[p]) /\ InUse(docs[d])
        BY <1>1, PeerIs DEF InUse
      <4>5. OneChunk
        BY <1>0 DEF Basics
      <4>6. b = c
        BY <3>2, <4>2, <4>3, <4>4, <4>5 DEF OneChunk
      <4>7. Comes(p, c)
        BY <4>2, <4>6 DEF Comes
      <4>8. QED
        BY <1>2, <4>7
    <3>5. CASE News(d)
      <4>1. PICK u \in Doc : u = PushedDoc(d) /\ (u = docs[d] \/ u = Diff(docs[d], told[d]))
        BY <1>0, <3>2, <3>3, <3>5, PushedDocIs
      <4>2. PICK f \in Sent : f = Frame(tombs[d], u) /\ f.file = u
        BY <1>0, FrameIs DEF Types, ControlOK, DocOrNone
      <4>3. Sends(d, f) /\ f.file \in Doc
        BY <2>1, <4>1, <4>2 DEF Send, Sends
      <4>4. (\A c \in u.ins : Comes(p, c)') /\ (\A c \in u.del : Goes(p, c)')
        BY <1>3, <4>2, <4>3
      <4>5. u.del = docs[d].del /\ \A c \in docs[d].ins : c \in u.ins \/ c.id \in told[d]
        BY <3>3, <4>1
      <4>6. QED
        BY <1>1, <3>2, <3>4, <4>4, <4>5
    <3>6. CASE ~News(d)
      <4>1. docs[d].del = {} /\ \A c \in docs[d].ins : c.id \in told[d]
        BY <3>3, <3>6 DEF News, EmptyDoc
      <4>2. QED
        BY <1>1, <3>2, <3>4, <4>1
    <3>7. QED
      BY <3>5, <3>6
  <2>4. QED
    BY <2>2, <2>3
<1>5. CASE Pushed(d)
  <2>1. (\A c \in DocOr(docs[d]).ins : Comes(p, c)') /\ (\A c \in DocOr(docs[d]).del : Goes(p, c)')
    BY <1>1, <1>2, <1>5 DEF Shared
  <2>2. CASE docs'[d] = docs[d]
    BY <1>1, <2>1, <2>2
  <2>3. ASSUME NEW u \in Doc, docs'[d] = Merge(DocOr(docs[d]), u),
               (\A c \in u.ins : Comes(p, c)') /\ (\A c \in u.del : Goes(p, c)')
        PROVE  /\ \A c \in DocOr(docs'[d]).ins : Comes(p, c)'
               /\ \A c \in DocOr(docs'[d]).del : Goes(p, c)'
    <3>1. DocOr(docs[d]) \in Doc
      BY <1>0, DocOrIs
    <3>2. /\ docs'[d] \in Doc /\ docs'[d].ins = DocOr(docs[d]).ins \cup u.ins
          /\ docs'[d].del = DocOr(docs[d]).del \cup u.del
      BY <2>3, <3>1, MergeIs
    <3>3. DocOr(docs'[d]) = docs'[d]
      BY <3>2, AbsentIsNoRecord DEF DocOr
    <3>4. QED
      BY <2>1, <2>3, <3>2, <3>3
  <2>4. ASSUME NEW u \in Doc, Edits(d, u), docs'[d] = Merge(DocOr(docs[d]), u)
        PROVE  /\ \A c \in DocOr(docs'[d]).ins : Comes(p, c)'
               /\ \A c \in DocOr(docs'[d]).del : Goes(p, c)'
    <3>1. Sends(d, Frame(NoTombs, u))
      BY <1>5, <2>4 DEF Edits, Pushed, Listening
    <3>2. PICK f \in Sent : f = Frame(NoTombs, u) /\ f.file = u
      BY FrameIs, NoTombsIs DEF DocOrNone
    <3>3. (\A c \in u.ins : Comes(p, c)') /\ (\A c \in u.del : Goes(p, c)')
      BY <1>3, <3>1, <3>2
    <3>4. QED
      BY <2>3, <2>4, <3>3
  <2>5. CASE Answer(d)
    BY <1>0, <1>5, <2>5 DEF Answer, Pushed
  <2>6. ASSUME Receive(d), Head(frames[d]).file \in Doc, docs'[d] = Merge(DocOr(docs[d]), Head(frames[d]).file)
        PROVE  /\ \A c \in DocOr(docs'[d]).ins : Comes(p, c)'
               /\ \A c \in DocOr(docs'[d]).del : Goes(p, c)'
    <3>1. PICK u \in Doc : u = Head(frames[d]).file
      BY <2>6
    <3>2. 1 \in DOMAIN frames[d] /\ Head(frames[d]) = frames[d][1]
      BY <1>0, <2>6, ReceiveReads
    <3>3. u.ins \subseteq DocOr(docs[p]).ins /\ u.del \subseteq DocOr(docs[p]).del
      BY <1>1, <3>1, <3>2, AbsentIsNoRecord DEF Sourced
    <3>4. Grows(p)
      BY CalmDocs
    <3>5. (\A c \in u.ins : Comes(p, c)') /\ (\A c \in u.del : Goes(p, c)')
      BY <3>3, <3>4 DEF Comes, Goes, Grows
    <3>6. QED
      BY <2>3, <2>6, <3>1, <3>5
  <2>7. QED
    BY <1>1, <2>2, <2>4, <2>5, <2>6, CalmDocs
<1>6. QED
  BY <1>0, <1>4, <1>5, PushedStep

\* A file that is on the way stays so until it is read.
LEMMA FileToFlows ==
  ASSUME Basics, Flows, NEW d \in Devices, FileTo(d)
  PROVE  FileTo(d)' \/ (Receive(d) /\ FileAt(d, 1))
<1>0. Types
  BY DEF Basics
<1>1. Peer(d) \in Devices /\ Peer(Peer(d)) = d
  BY DEF Peer, Devices
<1>2. CASE Untold(d)
  BY <1>2 DEF Untold, FileTo, FileAt
<1>3. ASSUME NEW f \in Sent, Told(d, f) PROVE FileTo(d)'
  <2>1. Sends(Peer(d), f) /\ owed' = owed
    BY <1>3 DEF Told
  <2>2. QED
    BY <1>0, <1>1, <2>1, FileSent
<1>4. CASE Receive(d)
  <2>1. PICK i \in Nat : FileAt(d, i)
    BY DEF FileTo
  <2>2. i >= 1 /\ (i = 1 \/ FileAt(d, i - 1)')
    BY <1>0, <1>4, <2>1, FileRead
  <2>3. CASE i = 1
    BY <1>4, <2>1, <2>3
  <2>4. CASE i # 1
    <3>1. PICK j \in Nat : j = i - 1
      BY <2>2
    <3>2. FileAt(d, j)'
      BY <2>2, <2>4, <3>1
    <3>3. QED
      BY <3>2 DEF FileTo
  <2>5. QED
    BY <2>3, <2>4
<1>5. QED
  BY <1>2, <1>3, <1>4, FlowsToward

\* A file that is sent by a device that has answered is on the way.
LEMMA FileSends ==
  ASSUME Types, owed' = owed, NEW d \in Devices, Handshake(Peer(d)), stage[d] # "answer",
         NEW f \in Sent, Sends(d, f), f.file # Absent
  PROVE  FileTo(Peer(d))'
<1>1. Peer(Peer(d)) = d
  BY DEF Peer, Devices
<1>2. owed[Peer(d)] => frames[Peer(d)] # <<>>
  BY <1>1 DEF Handshake
<1>3. QED
  BY <1>2, FileSent

\* Documents go on to be offered.
LEMMA OfferedStep ==
  ASSUME CalmFlow, \A d \in Devices : Sourced(d), \A d \in Devices : Offered(d)
  PROVE  \A d \in Devices : Offered(d)'
<1>0. /\ Types /\ docs \in [Devices -> DocOrNone] /\ frames \in [Devices -> Seq(Sent)] /\ Flows /\ Basics
      /\ tombs \in [Devices -> Tomb] /\ stage \in [Devices -> Stages]
      /\ Clean /\ Handshakes /\ (\A d \in Devices : Handshake(d))
  BY DEF CalmFlow, Basics, Types, StreamOK, LocalOK, ControlOK, Handshakes, Clean
<1> SUFFICES ASSUME NEW d \in Devices, Pushed(d)', docs'[d] # Absent
             PROVE  FileTo(Peer(d))' \/ docs'[Peer(d)] # Absent
  BY DEF Offered
<1>1. PICK p \in Devices : p = Peer(d) /\ p # d /\ Peer(p) = d
  BY DEF Peer, Devices
<1>2. ASSUME NEW f \in Sent, f.file # Absent, Sends(d, f), owed' = owed, stage[d] # "answer" PROVE FileTo(p)'
  BY <1>0, <1>1, <1>2, FileSends
<1>3. ASSUME Push(d) PROVE FileTo(p)' \/ docs'[p] # Absent
  <2>1. /\ Send(d, Frame(tombs[d], PushedDoc(d))) /\ docs' = docs
        /\ stage[d] = "push" /\ owed' = owed
    BY <1>3 DEF Push, PushedDoc, local
  <2>2. ~owed[d]
    BY <1>0, <2>1 DEF Handshake, Opening
  <2>3. Advertised(d) /\ docs[d] \in Doc
    BY <1>0, <2>1, <2>2, CalmIs DEF Advertised, DocOrNone
  <2>4. CASE News(d)
    <3>1. PushedDoc(d) \in Doc
      BY <1>0, <2>3, <2>4, DiffIs, PushedDocIs
    <3>2. PICK f \in Sent : f = Frame(tombs[d], PushedDoc(d)) /\ f.file = PushedDoc(d)
      BY <1>0, <3>1, FrameIs DEF DocOrNone
    <3>3. Sends(d, f) /\ f.file # Absent
      BY <2>1, <3>1, <3>2, AbsentIsNoRecord DEF Send, Sends
    <3>4. QED
      BY <1>2, <2>1, <3>3
  <2>5. CASE ~News(d)
    <3>1. docs[p] # Absent
      BY <1>1, <2>5 DEF News, CalmFlow, AskedFor
    <3>2. QED
      BY <2>1, <3>1
  <2>6. QED
    BY <2>4, <2>5
<1>4. ASSUME NEW u \in Doc, Edits(d, u), Pushed(d) PROVE FileTo(p)'
  <2>1. Sends(d, Frame(NoTombs, u)) /\ owed' = owed /\ stage[d] # "answer"
    BY <1>4 DEF Edits, Pushed, Listening
  <2>2. PICK f \in Sent : f = Frame(NoTombs, u) /\ f.file = u
    BY FrameIs, NoTombsIs DEF DocOrNone
  <2>3. QED
    BY <1>2, <2>1, <2>2, AbsentIsNoRecord
<1>6. docs[p] # Absent => docs'[p] # Absent
  BY CalmDocs DEF Grows
<1>7. ASSUME Pushed(d), docs[d] # Absent PROVE FileTo(p)' \/ docs'[p] # Absent
  <2>1. FileTo(p) \/ docs[p] # Absent
    BY <1>1, <1>7 DEF Offered
  <2>2. CASE Receive(p) /\ FileAt(p, 1)
    <3>1. Head(frames[p]).file # Absent
      BY <1>0, <2>2, FileRead
    <3>2. QED
      BY <2>2, <3>1, CalmReceive, AbsentIsNoRecord
  <2>3. QED
    BY <1>0, <1>6, <2>1, <2>2, FileToFlows
<1>8. ASSUME Receive(d), Head(frames[d]).file \in Doc PROVE docs[p] # Absent
  <2>1. 1 \in DOMAIN frames[d] /\ Head(frames[d]) = frames[d][1]
    BY <1>0, <1>8, ReceiveReads
  <2>2. QED
    BY <1>1, <1>8, <2>1, AbsentIsNoRecord DEF Sourced
<1>9. CASE ~Pushed(d)
  BY <1>0, <1>1, <1>3, <1>9, PushedStep
<1>10. CASE Pushed(d) /\ docs[d] = Absent
  <2>1. ~Answer(d)
    BY <1>10 DEF Answer, Pushed
  <2>2. QED
    BY <1>1, <1>4, <1>6, <1>8, <1>10, <2>1, CalmDocs
<1>11. QED
  BY <1>1, <1>7, <1>9, <1>10

\* A file stays on the way until it is read, and one that is sent is.
LEMMA AnyFileStep ==
  ASSUME CalmFlow, NEW d \in Devices, AnyFile(d)
  PROVE  AnyFile(d)' \/ flushes'[d] # {}
<1>0. Types /\ frames \in [Devices -> Seq(Sent)] /\ Flows /\ Basics
  BY DEF CalmFlow, Basics, Types, StreamOK
<1>1. PICK i \in DOMAIN frames[d] : frames[d][i].file # Absent
  BY DEF AnyFile
<1>2. CASE Untold(d)
  BY <1>1, <1>2 DEF Untold, AnyFile
<1>3. ASSUME NEW f \in Sent, Told(d, f) PROVE AnyFile(d)'
  <2>1. frames'[d] = Append(frames[d], f) /\ frames[d] \in Seq(Sent)
    BY <1>0, <1>3 DEF Told
  <2>2. i \in DOMAIN frames'[d] /\ frames'[d][i] = frames[d][i]
    BY <1>1, <2>1
  <2>3. QED
    BY <1>1, <2>2 DEF AnyFile
<1>4. CASE Receive(d)
  <2>1. /\ Head(frames[d]) = frames[d][1] /\ Len(frames[d]) \in Nat
        /\ DOMAIN frames[d] = 1 .. Len(frames[d]) /\ DOMAIN frames'[d] = 1 .. Len(frames[d]) - 1
        /\ \A j \in 1 .. Len(frames[d]) - 1 : frames'[d][j] = frames[d][j + 1]
    BY <1>0, <1>4, ReceiveReads
  <2>2. CASE i = 1
    BY <1>1, <1>4, <2>1, <2>2, CalmReceive
  <2>3. CASE i # 1
    <3>1. i - 1 \in DOMAIN frames'[d] /\ frames'[d][i - 1] = frames[d][i]
      BY <2>1, <2>3
    <3>2. QED
      BY <1>1, <3>1 DEF AnyFile
  <2>4. QED
    BY <2>2, <2>3
<1>5. QED
  BY <1>0, <1>2, <1>3, <1>4, FlowsToward

\* A file that is sent is on the way.
LEMMA AnyFileSent ==
  ASSUME Types, NEW p \in Devices, NEW f \in Sent, Sends(p, f), f.file # Absent
  PROVE  AnyFile(Peer(p))'
<1>1. PICK i : i = Len(frames[Peer(p)]) + 1
  OBVIOUS
<1>2. i \in DOMAIN frames'[Peer(p)] /\ frames'[Peer(p)][i] = f
  BY <1>1, SendsIs
<1>3. QED
  BY <1>2 DEF AnyFile

\* A file that is not blank changes an empty document.
LEMMA UnsavedReads ==
  ASSUME NEW d \in Devices, Unsaved(d), missed = 0, saved[d] = Absent, disk[d] # Absent, docs[d] \in {Absent, EmptyDoc}
  PROVE  Changes(d)
<1>1. disk[d].text # Blank /\ ~flag[d]
  BY DEF Unsaved
<1>2. DocOr(docs[d]) = EmptyDoc
  BY DEF DocOr
<1>3. TextOf(EmptyDoc) = Blank
  BY DEF TextOf, Seen, EmptyDoc, Blank
<1>4. QED
  BY <1>1, <1>2, <1>3 DEF Changes, Reads

\* A file that is read and changes the document is sent, or will be with the document.
LEMMA ChangeIsDue ==
  ASSUME FileSyncAssumption, CalmFlow, NEW p \in Devices, IngestFile(p), Changes(p), stage' = stage
  PROVE  Due(Peer(p))'
<1>0. /\ Types /\ Types' /\ OneEntry /\ docs \in [Devices -> DocOrNone] /\ stage \in [Devices -> Stages]
      /\ Clean /\ Closed
  BY DEF CalmFlow, Basics, Types, StreamOK, LocalOK
<1>1. /\ docs' = [docs EXCEPT ![p] = Merge(DocOr(docs[p]), Change(p))] /\ Change(p) \in Doc
      /\ DocOr(docs[p]) \in Doc /\ Broadcast(p, Cleared(p), Change(p), 0)
  BY <1>0, IngestFileIs
<1>2. Peer(Peer(p)) = p
  BY DEF Peer, Devices
<1>3. CASE Listening(p)
  <2>1. PICK f \in Sent : f = Frame(Cleared(p), Change(p)) /\ f.file = Change(p)
    BY <1>0, <1>1, ClearedIs, FrameIs DEF DocOrNone
  <2>2. f.file # Absent
    BY <1>1, <2>1, AbsentIsNoRecord
  <2>3. Sends(p, f)
    BY <1>1, <1>3, <2>1, <2>2 DEF Broadcast, Sends
  <2>4. AnyFile(Peer(p))'
    BY <1>0, <2>2, <2>3, AnyFileSent
  <2>5. QED
    BY <2>4 DEF Due
<1>4. CASE ~Listening(p)
  <2>1. stage[p] \in {"answer", "subscribe"}
    BY <1>0, <1>4 DEF Listening, Stages, Closed, Clean, Open, Devices
  <2>2. docs'[p] \in Doc
    BY <1>0, <1>1, MergeIs
  <2>3. docs'[p] # Absent /\ docs'[p] # EmptyDoc
    BY <1>0, <1>1, <2>2, AbsentIsNoRecord, ChangedIsNotEmpty
  <2>4. QED
    BY <1>2, <2>1, <2>3 DEF Due
<1>5. QED
  BY <1>3, <1>4

\* What stays due when nothing happens to the other device.
LEMMA DueSame ==
  ASSUME NEW d \in Devices, Due(d), Still(Peer(d)), flushes[d] # {} => flushes'[d] # {},
         AnyFile(d) => AnyFile(d)', asked'[Peer(d)] = asked[Peer(d)], stage'[Peer(d)] = stage[Peer(d)]
  PROVE  Due(d)'
BY DEF Due, Still, Touched, Unheard

\* The steps of the device itself.
LEMMA BareMine ==
  ASSUME FileSyncAssumption, CalmFlow, NEW d \in Devices, Tied(d), Unsaved(d), Bare(d), Offered(Peer(d)),
         Acts(d), ~RecordRemoval(d), ~Starts(d), Still(Peer(d))
  PROVE  Bare(d)'
<1>0. /\ Types /\ Types' /\ OneEntry /\ docs \in [Devices -> DocOrNone] /\ stage \in [Devices -> Stages]
      /\ saved \in [Devices -> DocOrNone] /\ flushes \in [Devices -> SUBSET Flush] /\ frames \in [Devices -> Seq(Sent)]
      /\ Clean /\ Closed /\ Handshake(d) /\ AskedFor(d) /\ AskedFor(Peer(d))
  BY PeerIs DEF CalmFlow, Basics, Types, StreamOK, LocalOK, Handshakes, Clean
<1>m. missed = 0 /\ missed' = 0 /\ ~Miss
  BY DEF CalmFlow, Clean, Miss
<1>1. PICK p \in Devices : p = Peer(d) /\ p # d /\ Peer(p) = d
  BY DEF Peer, Devices
<1>2. ASSUME docs'[d] # Absent => docs[d] # Absent, saved'[d] = saved[d], flushes[d] # {} => flushes'[d] # {},
             frames'[d] = frames[d], asked' = asked, stage'[p] = stage[p]
      PROVE  Bare(d)'
  <2>1. AnyFile(d) => AnyFile(d)'
    BY <1>2 DEF AnyFile
  <2>2. QED
    BY <1>1, <1>2, <2>1, DueSame DEF Bare
<1>3. ASSUME Write(d) \/ DropEvents(d) \/ LoseDeletes(d) PROVE Bare(d)'
  BY <1>2, <1>3 DEF Write, DropEvents, LoseDeletes, session, outgoing, local
<1>4. ASSUME Delete(d) PROVE Bare(d)'
  <2>1. flushes'[d] = {} <=> flushes[d] = {}
    BY <1>0, <1>4, LateIs DEF Delete
  <2>2. QED
    BY <1>2, <1>4, <2>1 DEF Delete, session, outgoing
<1>5. ASSUME Ingest(d) \/ Sweep(d) PROVE Bare(d)'
  <2>1. IngestFile(d) /\ flushes' = flushes /\ asked' = asked /\ stage' = stage
    BY <1>5 DEF Ingest, Sweep, session
  <2>2. /\ docs' = IF Changes(d) THEN [docs EXCEPT ![d] = Merge(DocOr(docs[d]), Change(d))]
                    ELSE IF Reads(d) THEN [docs EXCEPT ![d] = DocOr(docs[d])] ELSE docs
        /\ saved' = IF Changes(d) THEN [saved EXCEPT ![d] = Merge(DocOr(docs[d]), Change(d))] ELSE saved
        /\ Changes(d) => Change(d) \in Doc
        /\ DocOr(docs[d]) \in Doc
    BY <1>0, <1>m, <2>1, IngestFileIs
  <2>3. CASE Changes(d)
    <3>1. saved'[d] \in Doc
      BY <1>0, <2>2, <2>3, MergeIs
    <3>2. QED
      BY <3>1, AbsentIsNoRecord DEF Bare
  <2>4. CASE ~Changes(d)
    <3>1. frames'[d] = frames[d]
      <4>1. Broadcast(d, Cleared(d), Absent, 0)
        BY <1>0, <2>1, <2>4, IngestFileIs
      <4>2. QED
        BY <1>0, <1>1, <4>1 DEF Broadcast
    <3>2. docs[d] = Absent => docs'[d] = Absent
      <4>1. SUFFICES ASSUME docs[d] = Absent PROVE docs' = docs
        OBVIOUS
      <4>2. saved[d] = Absent
        BY <4>1 DEF Tied, GoneTogether
      <4>3. disk[d] = Absent
        BY <1>m, <2>4, <4>1, <4>2, UnsavedReads
      <4>4. QED
        BY <2>2, <2>4, <4>3 DEF Reads
    <3>3. saved'[d] = saved[d]
      BY <2>2, <2>4
    <3>4. QED
      BY <1>2, <2>1, <3>1, <3>2, <3>3
  <2>5. QED
    BY <2>3, <2>4
<1>6. ASSUME NEW f \in flushes[d], FlushRead(d, f) PROVE Bare(d)'
  <2>1. flushes'[d] # {}
    BY <1>0, <1>6 DEF FlushRead, Becomes
  <2>2. QED
    BY <2>1 DEF Bare, Due
<1>7. ASSUME NEW f \in flushes[d], FlushNothing(d, f) PROVE Bare(d)'
  BY <1>m, <1>7 DEF FlushNothing, Bare
<1>8. ASSUME NEW f \in flushes[d], FlushWrite(d, f) PROVE Bare(d)'
  <2>1. f.doc \in Doc /\ DocOr(docs[d]) \in Doc
    BY <1>0, DocOrIs DEF Flush
  <2>2. saved'[d] \in Doc
    BY <1>0, <1>m, <1>8, <2>1 DEF FlushWrite, Save, Flushed
  <2>3. QED
    BY <2>2, AbsentIsNoRecord DEF Bare
<1>8a. ~IngestFails(d) /\ \A f \in flushes[d] : ~FlushFails(d, f)
  BY <1>m DEF IngestFails, FlushFails
<1>9. ASSUME Answer(d) PROVE Bare(d)'
  <2>1. /\ stage[d] = "answer" /\ saved' = saved /\ flushes' = flushes /\ asked' = asked
        /\ stage' = [stage EXCEPT ![d] = "subscribe"]
    BY <1>9 DEF Answer
  <2>2. frames'[d] = frames[d] /\ stage'[p] = stage[p] /\ docs'[p] = docs[p]
    BY <1>0, <1>1, <1>9, <2>1 DEF Answer, Send
  <2>3. CASE docs[d] # Absent \/ ~asked[d]
    <3>1. docs'[d] # Absent => docs[d] # Absent
      <4>1. SUFFICES ASSUME docs[d] = Absent PROVE docs'[d] = docs[d]
        OBVIOUS
      <4>2. \/ docs'[d] = docs[d]
            \/ \E u \in Doc : Edits(d, u)
            \/ Receive(d)
        BY <2>3, <4>1, CalmDocs
      <4>3. \A u \in Doc : ~Edits(d, u)
        BY <1>0, <2>1 DEF Edits
      <4>4. ~Receive(d)
        BY <1>0, <2>1 DEF Receive
      <4>5. QED
        BY <4>2, <4>3, <4>4
    <3>2. QED
      BY <1>2, <2>1, <2>2, <3>1
  <2>4. CASE docs[d] = Absent /\ asked[d]
    <3>1. docs[p] # Absent /\ docs'[p] = docs[p] /\ ~asked[p]
      BY <1>0, <1>1, <2>2, <2>4 DEF AskedFor
    <3>2. CASE stage[p] \in {"answer", "subscribe", "push"}
      BY <1>1, <2>1, <2>2, <3>1, <3>2 DEF Bare, Due
    <3>3. CASE Pushed(p)
      <4>1. FileTo(d)
        BY <1>1, <2>4, <3>1, <3>3 DEF Offered
      <4>2. AnyFile(d)'
        BY <2>2, <4>1 DEF FileTo, FileAt, AnyFile
      <4>3. QED
        BY <4>2 DEF Bare, Due
    <3>4. QED
      BY <1>0, <3>2, <3>3 DEF Pushed, Stages, Clean, Open, Closed, Devices
  <2>5. QED
    BY <2>3, <2>4
<1>10. ASSUME Subscribe(d) \/ Push(d) PROVE Bare(d)'
  <2>1. frames'[d] = frames[d] /\ stage'[p] = stage[p] /\ asked' = asked /\ UNCHANGED local
    BY <1>0, <1>1, <1>10 DEF Subscribe, Push, Send, outgoing
  <2>2. QED
    BY <1>2, <2>1 DEF local
<1>11. ASSUME Reconciles(d) PROVE Bare(d)'
  <2>1. ~IsDeleted(tombs[d])
    <3>1. ~owed[d]
      BY <1>0, <1>11 DEF Reconciles, Reconcile, Handshake, Opening
    <3>2. QED
      BY <3>1, CalmIs
  <2>2. frames'[d] = frames[d] /\ stage'[p] = stage[p] /\ asked' = asked /\ UNCHANGED local
    <3>1. PICK kept \in BOOLEAN : Reconcile(d, kept)
      BY <1>11 DEF Reconciles
    <3>2. QED
      BY <1>0, <1>1, <2>1, <3>1 DEF Reconcile, outgoing
  <2>3. QED
    BY <1>2, <2>2 DEF local
<1>12. ASSUME Receive(d) PROVE Bare(d)'
  <2>1. saved' = saved /\ asked' = asked /\ stage' = stage
    BY <1>12 DEF Receive
  <2>2. CASE Head(frames[d]).file # Absent
    BY <1>12, <2>2, CalmReceive DEF Bare, Due
  <2>3. CASE Head(frames[d]).file = Absent
    <3>1. docs'[d] = docs[d] /\ flushes'[d] = flushes[d]
      BY <1>12, <2>3, CalmReceive
    <3>2. AnyFile(d) => AnyFile(d)' \/ flushes'[d] # {}
      BY AnyFileStep
    <3>3. CASE flushes'[d] # {}
      BY <3>3 DEF Bare, Due
    <3>4. CASE flushes'[d] = {}
      BY <1>1, <2>1, <3>1, <3>2, <3>4, DueSame DEF Bare
    <3>5. QED
      BY <3>3, <3>4
  <2>4. QED
    BY <2>2, <2>3
<1>13. ~ReceiveDelete(d)
  BY CalmIs
<1>14. QED
  BY <1>3, <1>4, <1>5, <1>6, <1>7, <1>8, <1>8a, <1>9, <1>10, <1>11, <1>12, <1>13 DEF Acts

\* Who asked for what stays while a stream flows.
LEMMA AskedStays ==
  ASSUME Flows
  PROVE  asked' = asked
BY DEF Flows, Quiet, Edits, Answer, Subscribe, Push, Settles, Receive, ReceiveDelete, session

\* An empty document on its way to a device that has none, or an empty one, makes an empty one of a file that is gone.
LEMMA BareReceived ==
  ASSUME CalmFlow, NEW d \in Devices, NEW p \in Devices, p = Peer(d), Receive(p), Head(frames[p]).file \in Doc,
         (docs[p] = Absent /\ Touched(p)) \/ (docs[p] = EmptyDoc /\ saved[p] = Absent /\ Unheard(p)),
         Sourced(p), Tied(p), Unsaved(d), missed = 0, docs[d] # Absent, saved[d] = Absent, flushes[d] = {}
  PROVE  docs'[p] = EmptyDoc /\ saved'[p] = Absent /\ Unheard(p)'
<1>0. Types /\ Peer(p) = d
  BY DEF CalmFlow, Basics, Peer, Devices
<1>1. PICK u : u = Head(frames[p]).file
  OBVIOUS
<1>2. u \in Doc /\ u # Absent /\ 1 \in DOMAIN frames[p] /\ frames[p][1].file = u
  <2>1. 1 \in DOMAIN frames[p] /\ Head(frames[p]) = frames[p][1]
    BY <1>0, ReceiveReads
  <2>2. QED
    BY <1>1, <2>1, AbsentIsNoRecord
<1>3. u = EmptyDoc
  <2>1. DocOr(docs[d]) = EmptyDoc
    BY DEF Unsaved, DocOr
  <2>2. u.ins \subseteq EmptyDoc.ins /\ u.del \subseteq EmptyDoc.del
    BY <1>0, <1>2, <2>1 DEF Sourced
  <2>3. u.ins = {} /\ u.del = {}
    BY <2>2 DEF EmptyDoc
  <2>4. QED
    BY <1>2, <2>3 DEF Doc, EmptyDoc
<1>4. docs'[p] = EmptyDoc
  <2>1. docs'[p] = Merge(DocOr(docs[p]), u)
    BY <1>1, <1>2, CalmReceive
  <2>2. DocOr(docs[p]) = EmptyDoc
    BY DEF DocOr
  <2>3. Merge(EmptyDoc, EmptyDoc) = EmptyDoc
    BY DEF Merge, EmptyDoc
  <2>4. QED
    BY <1>3, <2>1, <2>2, <2>3
<1>5. saved' = saved /\ events' = events
  BY DEF Receive
<1>6. ~Empties(p, EmptyDoc)
  BY <1>1, <1>2, <1>3, CalmReceive
<1>7. saved[p] = Absent
  BY DEF Tied, GoneTogether
<1>8. Unheard(p)
  BY <1>6 DEF Empties, Touched
<1>9. QED
  BY <1>4, <1>5, <1>7, <1>8 DEF Unheard

\* The steps of the other device.
LEMMA BareTheirs ==
  ASSUME FileSyncAssumption, CalmFlow, Next, \A q \in Devices : ~RecordRemoval(q) /\ ~Starts(q),
         NEW d \in Devices, NEW p \in Devices, p = Peer(d), Acts(p), Still(d), Tied(p), Unsaved(p), Unsaved(d),
         Bare(d), Sourced(p), Claimed(p)
  PROVE  Bare(d)'
<1>0. /\ Types /\ Types' /\ OneEntry /\ docs \in [Devices -> DocOrNone] /\ stage \in [Devices -> Stages]
      /\ events \in [Devices -> Seq({"touch", "remove"})] /\ saved \in [Devices -> DocOrNone]
      /\ tombs \in [Devices -> Tomb]
      /\ Clean /\ Clean' /\ Closed /\ Handshake(p) /\ Flows /\ Basics
  BY DEF CalmFlow, Basics, Types, StreamOK, LocalOK, ControlOK, Handshakes, Clean
<1>m. missed = 0 /\ missed' = 0 /\ ~Miss
  BY DEF CalmFlow, Clean, Miss
<1>n. ~IngestFails(p) /\ \A f \in flushes[p] : ~FlushFails(p, f)
  BY <1>m DEF IngestFails, FlushFails
<1>p. Peer(p) = d /\ p # d
  BY DEF Peer, Devices
<1> SUFFICES ASSUME docs[d] # Absent, saved[d] = Absent, Due(d) PROVE Due(d)'
  BY DEF Still, Bare
<1>1. asked' = asked /\ flushes'[d] = flushes[d] /\ EmptyDoc # Absent
  BY <1>0, AskedStays, EmptyDocIs, AbsentIsNoRecord DEF Still
<1>2. \/ stage' = stage
      \/ Answer(p) /\ stage[p] = "answer" /\ stage'[p] = "subscribe"
      \/ Subscribe(p) /\ stage[p] = "subscribe" /\ stage'[p] = "push"
      \/ Push(p) /\ stage[p] = "push"
      \/ Reconciles(p) /\ stage[p] = "reconcile"
  <2>1. CASE Answer(p) \/ Subscribe(p) \/ Push(p) \/ Reconciles(p)
    BY <1>0, <2>1 DEF Answer, Subscribe, Push, Reconciles, Reconcile
  <2>2. CASE Write(p) \/ Delete(p) \/ Ingest(p) \/ Sweep(p) \/ Receive(p) \/ ReceiveDelete(p) \/ DropEvents(p)
             \/ LoseDeletes(p)
    BY <2>2 DEF Write, Delete, Ingest, Sweep, Receive, ReceiveDelete, DropEvents, LoseDeletes, session
  <2>3. ASSUME NEW f \in flushes[p], FlushRead(p, f) \/ FlushNothing(p, f) \/ FlushWrite(p, f) PROVE stage' = stage
    BY <2>3 DEF FlushRead, FlushNothing, FlushWrite, session
  <2>4. QED
    BY <1>n, <2>1, <2>2, <2>3 DEF Acts
<1>3. ASSUME Answer(p), asked[p] PROVE AnyFile(d)'
  <2>1. Answered(p) \in DocOrNone /\ Answered(p) # Absent
    BY <1>0, <1>3, DocOrIs, DiffIs, AbsentIsNoRecord DEF DocOrNone, Answered
  <2>2. PICK f \in Sent : f = Frame(tombs[p], Answered(p)) /\ f.file = Answered(p)
    BY <1>0, <2>1, FrameIs
  <2>3. Sends(p, f)
    BY <1>3, <2>2 DEF Answer, Answered, Send, Sends
  <2>4. QED
    BY <1>p, <1>0, <2>1, <2>2, <2>3, AnyFileSent
<1>4. ASSUME Push(p), docs[p] # Absent, asked[p] => docs[p] # EmptyDoc, flushes[d] = {} PROVE AnyFile(d)'
  <2>1. ~owed[p]
    BY <1>0, <1>4 DEF Push, Handshake, Opening
  <2>2. Advertised(p) /\ docs[p] \in Doc
    BY <1>0, <1>4, <2>1, CalmIs DEF Advertised, DocOrNone
  <2>3. News(p)
    <3>1. SUFFICES ASSUME asked[p] PROVE Diff(docs[p], told[p]) # EmptyDoc
      BY DEF News
    <3>2. DocOr(docs[d]) = EmptyDoc
      BY <1>m, <1>4 DEF Unsaved, DocOr
    <3>3. told[p] = {}
      BY <1>p, <3>2 DEF Claimed, IdsOf, EmptyDoc
    <3>4. Diff(docs[p], told[p]).ins = docs[p].ins /\ Diff(docs[p], told[p]).del = docs[p].del
      <4>1. /\ Diff(docs[p], told[p]).ins = {c \in docs[p].ins : c.id \notin told[p]}
            /\ Diff(docs[p], told[p]).del = docs[p].del
        BY <2>2, DiffIs
      <4>2. QED
        BY <3>3, <4>1
    <3>5. docs[p].ins # EmptyDoc.ins \/ docs[p].del # EmptyDoc.del
      BY <1>4, <2>2, <3>1, EmptyDocIs DEF Doc
    <3>6. QED
      BY <3>4, <3>5
  <2>4. PushedDoc(p) \in Doc
    BY <1>0, <2>2, <2>3, DiffIs, PushedDocIs
  <2>5. PICK f \in Sent : f = Frame(tombs[p], PushedDoc(p)) /\ f.file = PushedDoc(p)
    BY <1>0, <2>4, FrameIs DEF DocOrNone
  <2>6. Sends(p, f) /\ f.file # Absent
    BY <1>4, <2>4, <2>5, AbsentIsNoRecord DEF Push, PushedDoc, Send, Sends
  <2>7. QED
    BY <1>p, <1>0, <2>6, AnyFileSent
<1>5. AnyFile(d)' => Due(d)'
  BY DEF Due
<1>6. CASE flushes[d] # {}
  BY <1>1, <1>6 DEF Due
<1>7. CASE AnyFile(d)
  BY <1>7, AnyFileStep DEF Due
<1>8. CASE asked[p] /\ stage[p] = "answer"
  BY <1>1, <1>2, <1>3, <1>5, <1>8 DEF Due
<1>9. CASE /\ docs[p] # Absent /\ stage[p] \in {"answer", "subscribe", "push"}
           /\ asked[p] => docs[p] # EmptyDoc
           /\ flushes[d] = {}
  <2>1. docs'[p] # Absent /\ (asked[p] => docs'[p] # EmptyDoc)
    <3>1. Grows(p) /\ docs[p] \in Doc /\ DocOr(docs[p]) = docs[p]
      BY <1>0, <1>9, CalmDocs DEF DocOrNone, DocOr
    <3>2. docs'[p] # Absent /\ DocOr(docs'[p]) = docs'[p]
      BY <1>9, <3>1 DEF Grows, DocOr
    <3>3. docs'[p] = EmptyDoc => docs[p] = EmptyDoc
      BY <3>1, <3>2 DEF Grows, EmptyDoc, Doc
    <3>4. QED
      BY <1>9, <3>2, <3>3
  <2>2. stage'[p] \in {"answer", "subscribe", "push"} \/ Push(p)
    BY <1>2, <1>9
  <2>3. QED
    BY <1>1, <1>4, <1>5, <1>9, <2>1, <2>2 DEF Due
<1>10. /\ Receive(p) /\ Head(frames[p]).file \in Doc /\ flushes[d] = {}
       /\ (docs[p] = Absent /\ Touched(p)) \/ (docs[p] = EmptyDoc /\ saved[p] = Absent /\ Unheard(p))
       => Due(d)'
  <2> SUFFICES ASSUME Receive(p), Head(frames[p]).file \in Doc, flushes[d] = {},
                      (docs[p] = Absent /\ Touched(p)) \/ (docs[p] = EmptyDoc /\ saved[p] = Absent /\ Unheard(p))
               PROVE  Due(d)'
    OBVIOUS
  <2>1. docs'[p] = EmptyDoc /\ saved'[p] = Absent /\ Unheard(p)'
    BY <1>m, BareReceived
  <2>2. QED
    BY <2>1 DEF Due
<1>11. CASE flushes[d] = {} /\ docs[p] = Absent /\ Touched(p)
  <2>1. Touched(p)'
    BY <1>0, <1>11, TouchedStep
  <2>2. CASE docs'[p] = Absent
    BY <2>1, <2>2 DEF Due
  <2>3. ASSUME NEW u \in Doc, Edits(p, u) PROVE Due(d)'
    <3>1. CASE Listening(p)
      <4>1. PICK f \in Sent : f = Frame(NoTombs, u) /\ f.file = u
        BY FrameIs, NoTombsIs DEF DocOrNone
      <4>2. Sends(p, f) /\ f.file # Absent
        BY <2>3, <3>1, <4>1, AbsentIsNoRecord DEF Edits
      <4>3. QED
        BY <1>p, <1>0, <1>5, <4>2, AnyFileSent
    <3>2. CASE ~Listening(p)
      <4>1. stage[p] \in {"answer", "subscribe"}
        BY <1>0, <3>2 DEF Listening, Stages, Closed, Clean, Open, Devices
      <4>2. stage' = stage /\ docs'[p] = Merge(DocOr(docs[p]), u) /\ docs'[p] # EmptyDoc
        BY <1>0, <2>3 DEF Edits
      <4>3. docs'[p] # Absent
        <5>1. DocOr(docs[p]) \in Doc
          BY <1>0, DocOrIs
        <5>2. QED
          BY <4>2, <5>1, MergeIs, AbsentIsNoRecord
      <4>4. QED
        BY <4>1, <4>2, <4>3 DEF Due
    <3>3. QED
      BY <3>1, <3>2
  <2>4. CASE Answer(p) /\ asked[p]
    BY <1>3, <1>5, <2>4
  <2>5. CASE Receive(p) /\ Head(frames[p]).file \in Doc
    BY <1>10, <1>11, <2>5
  <2>6. \/ docs'[p] = docs[p]
        \/ \E u \in Doc : Edits(p, u)
        \/ Answer(p) /\ asked[p]
        \/ Receive(p) /\ Head(frames[p]).file \in Doc
    BY CalmDocs
  <2>7. QED
    BY <1>11, <2>2, <2>3, <2>4, <2>5, <2>6
<1>12. CASE flushes[d] = {} /\ docs[p] = EmptyDoc /\ saved[p] = Absent /\ Unheard(p)
  <2>1. ASSUME docs'[p] = docs[p], saved'[p] = saved[p], Unheard(p)' PROVE Due(d)'
    BY <1>12, <2>1 DEF Due
  <2>2. ASSUME docs'[p] = docs[p], saved'[p] = saved[p], events'[p] = events[p] PROVE Due(d)'
    BY <1>12, <2>1, <2>2 DEF Unheard
  <2>3. ASSUME Write(p) PROVE Due(d)'
    <3>1. events'[p] = Append(events[p], "touch") /\ docs' = docs /\ saved' = saved
      BY <1>0, <2>3 DEF Write
    <3>2. QED
      BY <1>0, <1>12, <2>1, <3>1, UnheardAdded
  <2>4. ASSUME Delete(p) PROVE Due(d)'
    <3>1. events'[p] = Append(events[p], "remove") /\ docs' = docs /\ saved' = saved
      BY <1>0, <2>4 DEF Delete
    <3>2. QED
      BY <1>0, <1>12, <2>1, <3>1, UnheardAdded
  <2>5. ASSUME Ingest(p) PROVE Due(d)'
    <3>1. IngestFile(p) /\ stage' = stage /\ events'[p] = Tail(events[p]) /\ events[p] # <<>>
          /\ (Head(events[p]) = "touch" \/ disk[p] # Absent)
      BY <1>0, <2>5 DEF Ingest, Reported, session, Handled
    <3>2. CASE Changes(p)
      BY <1>p, <3>1, <3>2, ChangeIsDue
    <3>3. CASE ~Changes(p)
      <4>1. docs'[p] = docs[p] /\ saved'[p] = saved[p]
        <5>1. /\ docs' = IF Reads(p) THEN [docs EXCEPT ![p] = DocOr(docs[p])] ELSE docs
              /\ saved' = saved
          BY <1>0, <1>m, <3>1, <3>3, IngestFileIs
        <5>2. DocOr(docs[p]) = docs[p]
          BY <1>1, <1>12 DEF DocOr
        <5>3. QED
          BY <1>0, <5>1, <5>2
      <4>2. disk[p] = Absent
        BY <1>m, <1>12, <3>3, UnsavedReads
      <4>3. Unheard(p)'
        BY <1>0, <1>12, <3>1, <4>2, UnheardHandled
      <4>4. QED
        BY <2>1, <4>1, <4>3
    <3>4. QED
      BY <3>2, <3>3
  <2>6. ~Sweep(p) /\ ~DropEvents(p)
    BY <1>1, <1>12 DEF Sweep, Untracked, DropEvents
  <2>7. ASSUME NEW f \in flushes[p], FlushRead(p, f) \/ FlushNothing(p, f) PROVE Due(d)'
    BY <2>2, <2>7 DEF FlushRead, FlushNothing
  <2>8. ASSUME NEW f \in flushes[p] PROVE ~FlushWrite(p, f)
    BY <1>0, <1>12 DEF FlushWrite, Overtaken, Clean
  <2>9. ASSUME Answer(p) PROVE Due(d)'
    <3>1. DocOr(docs[p]) = docs[p]
      BY <1>1, <1>12 DEF DocOr
    <3>2. docs'[p] = docs[p] /\ saved' = saved /\ events' = events
      BY <1>0, <2>9, <3>1 DEF Answer
    <3>3. QED
      BY <2>2, <3>2
  <2>10. ASSUME Subscribe(p) \/ Push(p) \/ LoseDeletes(p) PROVE Due(d)'
    BY <2>2, <2>10 DEF Subscribe, Push, LoseDeletes, local
  <2>11. ASSUME Reconciles(p) PROVE Due(d)'
    <3>1. ~owed[p]
      BY <1>0, <2>11 DEF Reconciles, Reconcile, Handshake, Opening
    <3>2. ~IsDeleted(tombs[p])
      BY <3>1, CalmIs
    <3>3. PICK kept \in BOOLEAN : Reconcile(p, kept)
      BY <2>11 DEF Reconciles
    <3>4. QED
      BY <2>2, <3>2, <3>3 DEF Reconcile, local
  <2>12. ASSUME Receive(p) PROVE Due(d)'
    <3>1. CASE Head(frames[p]).file = Absent
      <4>1. docs'[p] = docs[p] /\ saved' = saved /\ events' = events
        BY <2>12, <3>1, CalmReceive DEF Receive
      <4>2. QED
        BY <2>2, <4>1
    <3>2. CASE Head(frames[p]).file # Absent
      BY <1>10, <1>12, <2>12, <3>2, CalmReceive
    <3>3. QED
      BY <3>1, <3>2
  <2>13. ~ReceiveDelete(p)
    BY CalmIs
  <2>14. QED
    BY <2>3, <1>n, <2>4, <2>5, <2>6, <2>7, <2>8, <2>9, <2>10, <2>11, <2>12, <2>13 DEF Acts
<1>13. QED
  BY <1>6, <1>7, <1>8, <1>9, <1>11, <1>12 DEF Due

\* A step in a stream that stays open is of one device, and not a restart.
LEMMA StreamActs ==
  ASSUME FileSyncAssumption, Basics, Next, Open, Open'
  PROVE  \E q \in Devices : TiedBy(q) /\ Acts(q) /\ \A d \in Devices : ~Starts(d)
<1>0. stage \in [Devices -> Stages] /\ Closed
  BY DEF Basics, Types, StreamOK
<1>1. PICK q \in Devices : TiedBy(q) /\ (Acts(q) \/ Connect \/ Cut)
  BY NextTied
<1>2. ~Off
  BY OffIs DEF Open, Devices
<1>3. ~Connect
  BY DEF Connect, Open, Devices
<1>4. ~Cut /\ \A d \in Devices : ~Starts(d)
  BY <1>0, <1>2, RestartIs DEF Cut, Starts, Restarted, Basics
<1>5. QED
  BY <1>1, <1>3, <1>4

\* A stream in which nothing is deleted stays one while nobody records a removal.
LEMMA CalmStep ==
  ASSUME FileSyncAssumption, Basics, Basics', Known, DeadMade, Handshakes, Handshakes', TiedUnlessRaced,
         \A d \in Devices : Unsaved(d), Clean, Clean', ~Survives', Next, Calm
  PROVE  Calm'
<1>1. \A d \in Devices : ~RecordRemoval(d)
  BY RecordHolds DEF Core
<1>2. Flows
  BY <1>1, CleanSteps DEF Clean
<1>3. ~Survives
  BY <1>2, FlowsMove
<1>4. /\ \A d \in Devices : Informed(d)
      /\ \A d \in Devices : AskedFor(d)
      /\ \A d \in Devices : Claimed(d)
      /\ \A d \in Devices : Sourced(d)
      /\ \A d \in Devices : Shared(d)
      /\ \A d \in Devices : Offered(d)
      /\ \A d \in Devices : Bare(d)
  BY DEF Calm
<1>5. \A d \in Devices : Informed(d)'
  BY <1>2, <1>3, <1>4, InformedFlows
<1>6. CalmFlow
  BY <1>2, <1>3, <1>4, <1>5 DEF CalmFlow
<1>7. \A d \in Devices : AskedFor(d)'
  BY <1>6, AskedForStep
<1>7a. \A d \in Devices : Claimed(d)'
  BY <1>4, <1>6, ClaimedStep
<1>8. \A d \in Devices : Sourced(d)'
  BY <1>4, <1>6, SourcedStep
<1>9. \A d \in Devices : Shared(d)'
  BY <1>4, <1>6, SharedStep
<1>10. \A d \in Devices : Offered(d)'
  BY <1>4, <1>6, OfferedStep
<1>11. \A d \in Devices : Bare(d)'
  <2>1. PICK q \in Devices : TiedBy(q) /\ Acts(q) /\ \A d \in Devices : ~Starts(d)
    BY StreamActs DEF Clean
  <2>2. \A d \in Devices : Tied(d)
    BY DEF TiedUnlessRaced, Clean
  <2> SUFFICES ASSUME NEW d \in Devices PROVE Bare(d)'
    OBVIOUS
  <2>3. PICK p \in Devices : p = Peer(d) /\ p # d /\ \A o \in Devices : o = d \/ o = p
    BY DEF Peer, Devices
  <2>4. CASE q = d
    <3>1. Still(Peer(d))
      BY <2>1, <2>3, <2>4 DEF TiedBy
    <3>2. Offered(Peer(d))
      BY <1>4, <2>3
    <3>3. QED
      BY <1>1, <1>4, <1>6, <2>1, <2>2, <2>4, <3>1, <3>2, BareMine
  <2>5. CASE q = p
    <3>1. Still(d)
      BY <2>1, <2>3, <2>5 DEF TiedBy
    <3>2. Acts(p)
      BY <2>1, <2>5
    <3>3. QED
      BY <1>1, <1>4, <1>6, <2>1, <2>2, <2>3, <3>1, <3>2, BareTheirs
  <2>6. QED
    BY <2>3, <2>4, <2>5
<1>12. QED
  BY <1>5, <1>7, <1>7a, <1>8, <1>9, <1>10, <1>11 DEF Calm

\* A stream starts as one: a document that its device takes for deleted, on its own, is of a file that the other device
\* has or that is about to be reported as removed.
LEMMA CalmConnect ==
  ASSUME FileSyncAssumption, Basics, KnownDead, Outdated, Connect, ~raced, ~Survives
  PROVE  Calm'
<1>0. Types /\ OneEntry /\ Closed /\ tombs \in [Devices -> Tomb]
  BY DEF Basics, Types, ControlOK
<1>1. /\ UNCHANGED <<tombs, frames, deletes, docs, saved, disk, events, flushes>>
      /\ \A d \in Devices : frames[d] = <<>> /\ deletes[d] = 0
      /\ \A d \in Devices : owed'[d] /\ stage'[d] = "answer" /\ asked'[d] = Advertised(Peer(d))
      /\ \A d \in Devices : told'[d] = IF d = Initiator THEN {} ELSE IdsOf(DocOr(docs[Initiator]))
  BY <1>0 DEF Connect, Closed, local, control, outgoing, Devices
<1> SUFFICES ASSUME NEW d \in Devices
             PROVE  (Informed(d) /\ AskedFor(d) /\ Claimed(d) /\ Sourced(d) /\ Shared(d) /\ Offered(d) /\ Bare(d))'
  BY DEF Calm
<1>2. PICK p \in Devices : p = Peer(d) /\ p # d /\ Peer(p) = d /\ \A o \in Devices : o = d \/ o = p
  BY DEF Peer, Devices
<1>3. DOMAIN frames[d] = {}
  BY <1>1
<1>4. Informed(d)' /\ Sourced(d)' /\ Shared(d)' /\ Offered(d)'
  BY <1>1, <1>2, <1>3 DEF Informed, Sourced, Shared, Offered, Pushed
<1>5. AskedFor(d)'
  BY <1>1, <1>2 DEF AskedFor, Advertised
<1>5a. Claimed(d)'
  <2>1. d # Initiator => Peer(d) = Initiator
    BY DEF Initiator, Peer, Devices
  <2>2. QED
    BY <1>1, <2>1 DEF Claimed
<1>6. Bare(d)'
  <2> SUFFICES ASSUME docs[d] # Absent, saved[d] = Absent PROVE Due(d)'
    BY <1>1 DEF Bare
  <2>1. CASE docs[p] # Absent
    BY <1>1, <1>2, <2>1 DEF Due
  <2>2. CASE Advertised(d)
    BY <1>1, <1>2, <2>2 DEF Due
  <2>3. CASE docs[p] = Absent /\ ~Advertised(d)
    <3>1. IsDeleted(tombs[d])
      BY <2>3 DEF Advertised
    <3>2. PICK e \in Item : e = Last(tombs[d]) /\ e \in tombs[d].items /\ e.chain \notin tombs[d].dead
                            /\ \A o \in tombs[d].items : o = e \/ Before(o.chain, e.chain)
      BY <1>0, <3>1, KnownLast DEF IsDeleted
    <3>3. e.chain \in tombs[p].dead
      BY <1>2, <3>2 DEF Survives, Alive
    <3>4. Missed(d, 0, e)
      BY <1>2, <1>3, <3>2, <3>3 DEF Missed, Arrived, Struck, Newest
    <3>5. Excused(d, 0)
      BY <3>4 DEF Outdated
    <3>6. ASSUME NEW g \in tombs[p].items, g.chain \notin tombs[p].dead, ~Arrived(d, 0, g) PROVE FALSE
      <4>1. g \notin tombs[d].items /\ g \in Item
        BY <1>0, <3>6 DEF Arrived, Tomb
      <4>2. g.chain \in tombs[d].dead
        BY <1>2, <3>6, <4>1 DEF Survives, Alive
      <4>3. QED
        BY <1>2, <3>6, <4>1, <4>2 DEF KnownDead
    <3>7. Touched(p)
      BY <1>2, <3>5, <3>6 DEF Excused
    <3>8. QED
      BY <1>1, <1>2, <2>3, <3>7 DEF Due, Touched, Unheard
  <2>4. QED
    BY <2>1, <2>2, <2>3
<1>7. QED
  BY <1>4, <1>5, <1>5a, <1>6

-----------------------------------------------------------------------------
(* A stream with a deletion that nobody removed                            *)

\* The deletion that a device does not know of is with the other one.
LEMMA SurvivorIsThere ==
  ASSUME Survives, NEW d \in Devices, Unmasked(d), ~owed[d], ~IsDeleted(tombs[d])
  PROVE  \E e \in Item : e \in tombs[Peer(d)].items /\ Alive(e)
<1>1. PICK e \in Item, q \in Devices : Alive(e) /\ e \in tombs[q].items
  BY DEF Survives
<1>2. q # d
  BY <1>1, AliveIsDeleted
<1>3. q = Peer(d)
  BY <1>2 DEF Peer, Devices
<1>4. QED
  BY <1>1, <1>3

\* A refusal stays due.
LEMMA RefusalFlows ==
  ASSUME DoomedFlow, NEW d \in Devices, Refusal(d)
  PROVE  Refusal(d)'
<1>1. PICK p \in Devices : p = Peer(d)
  BY PeerIs
<1>2. PICK e : e \in tombs[p].items /\ Alive(e)
  BY <1>1 DEF Refusal
<1>3. e \in tombs'[p].items /\ Alive(e)'
  BY <1>2, FlowsMove DEF DoomedFlow, Moves
<1>4. FileTo(p)'
  <2>1. FileTo(p)
    BY <1>1 DEF Refusal
  <2>2. ~(Receive(p) /\ FileAt(p, 1))
    BY <1>3, RefusedLive DEF DoomedFlow
  <2>3. QED
    BY <2>1, <2>2, FileToFlows DEF DoomedFlow
<1>5. QED
  BY <1>1, <1>3, <1>4 DEF Refusal

\* A deletion on the way stays there until it is read.
LEMMA DeletesFlow ==
  ASSUME Basics, Flows, NEW d \in Devices, deletes[d] > 0
  PROVE  deletes'[d] > 0 \/ ReceiveDelete(d)
<1>0. deletes \in [Devices -> Nat]
  BY DEF Basics, Types, StreamOK
<1>1. ASSUME NEW q \in Devices, ReceiveDelete(q) PROVE deletes'[d] > 0 \/ ReceiveDelete(d)
  BY <1>0, <1>1 DEF ReceiveDelete
<1>2. ASSUME NEW q \in Devices,
             (\E u \in Doc : Edits(q, u)) \/ Answer(q) \/ Subscribe(q) \/ Push(q) \/ Settles(q) \/ Receive(q)
      PROVE  deletes' = deletes
  BY <1>2 DEF Edits, Answer, Subscribe, Push, Settles, Receive, Send, outgoing
<1>3. QED
  BY <1>1, <1>2 DEF Flows, Quiet

\* What becomes of a document.
LEMMA DocsFlow ==
  ASSUME Basics, Flows, NEW d \in Devices
  PROVE  \/ docs'[d] \in {docs[d], Absent}
         \/ \E u \in Doc : Edits(d, u)
         \/ Answer(d)
         \/ Receive(d) /\ Head(frames[d]).file # Absent
<1> DEFINE Good == \/ docs'[d] \in {docs[d], Absent}
                   \/ \E u \in Doc : Edits(d, u)
                   \/ Answer(d)
                   \/ Receive(d) /\ Head(frames[d]).file # Absent
<1>0. Types /\ docs \in [Devices -> DocOrNone]
  BY DEF Basics, Types, LocalOK
<1>1. ASSUME NEW q \in Devices, Remove(q) PROVE docs'[d] \in {docs[d], Absent}
  BY <1>0, <1>1 DEF Remove, Untrack
<1>2. ASSUME NEW q \in Devices, NEW u \in Doc, Edits(q, u) PROVE Good
  <2>1. q # d => docs'[d] = docs[d]
    BY <1>0, <1>2 DEF Edits
  <2>2. QED
    BY <1>2, <2>1
<1>3. ASSUME NEW q \in Devices, Answer(q) PROVE Good
  <2>1. q # d => docs'[d] = docs[d]
    BY <1>0, <1>3 DEF Answer
  <2>2. QED
    BY <1>3, <2>1
<1>4. ASSUME NEW q \in Devices, Receive(q) PROVE Good
  <2>1. q # d => docs'[d] = docs[d]
    BY <1>0, <1>4 DEF Receive
  <2>2. Head(frames[q]).file = Absent => docs' = docs
    BY <1>4 DEF Receive
  <2>3. QED
    BY <1>4, <2>1, <2>2
<1>5. ASSUME NEW q \in Devices, Subscribe(q) \/ Push(q) \/ Settles(q) \/ ReceiveDelete(q) PROVE Good
  BY <1>1, <1>5 DEF Subscribe, Push, Settles, ReceiveDelete, local
<1>6. QED
  BY <1>2, <1>3, <1>4, <1>5 DEF Flows, Quiet

\* What stands with the next frame read is seen as deleted when it is.
LEMMA StandingRead ==
  ASSUME Basics, Basics', NEW d \in Devices, Receive(d), Unmasked(d)', Standing(d, 1)
  PROVE  IsDeleted(tombs'[d])
<1>0. Types /\ Types' /\ tombs \in [Devices -> Tomb] /\ owed \in [Devices -> BOOLEAN]
  BY DEF Basics, Types, ControlOK, StreamOK
<1>1. PICK e \in Item : Arrived(d, 1, e) /\ ~Struck(d, 1, e)
  BY DEF Standing
<1>2. /\ frames[d] # <<>> /\ frames'[d] = Tail(frames[d]) /\ ~owed'[d]
      /\ tombs'[d] = Joined(tombs[d], Head(frames[d]).control)
  BY <1>0, ReceiveReads DEF Receive
<1>3. 0 \in Nat /\ 0 + 1 = 1
  OBVIOUS
<1>4. (Arrived(d, 0, e)' <=> Arrived(d, 1, e)) /\ (Struck(d, 0, e)' <=> Struck(d, 1, e))
  BY <1>0, <1>2, <1>3, ArrivedRead
<1>5. Standing(d, 0)'
  BY <1>1, <1>4 DEF Standing
<1>6. \E x \in tombs'[d].items : x.chain \notin tombs'[d].dead
  BY <1>0, <1>5, StandingIsHere
<1>7. QED
  BY <1>2, <1>6 DEF Unmasked, Masked

\* What is seen as deleted goes on to be.
LEMMA StaysDeleted ==
  ASSUME DoomedFlow, NEW d \in Devices, ~owed[d], StandsOn(d), IsDeleted(tombs[d])
  PROVE  IsDeleted(tombs'[d])
<1>0. Types /\ OneEntry /\ Basics /\ Flows /\ owed \in [Devices -> BOOLEAN] /\ frames \in [Devices -> Seq(Sent)]
  BY DEF DoomedFlow, Basics, Types, StreamOK
<1>1. CASE tombs'[d] = tombs[d]
  BY <1>1
<1>2. CASE Receive(d)
  <2>1. PICK e \in Item : e \in tombs[d].items /\ e.chain \notin tombs[d].dead
    BY <1>0, KnownLast DEF IsDeleted
  <2>2. \A i \in DOMAIN frames[d] : ~(i <= 0)
    BY <1>0
  <2>3. Standing(d, 0)
    BY <2>1, <2>2 DEF Standing, Arrived, Struck
  <2>4. 0 \in Nat /\ 0 + 1 = 1
    OBVIOUS
  <2>5. Standing(d, 1)
    BY <2>3, <2>4 DEF StandsOn
  <2>6. QED
    BY <1>2, <2>5, StandingRead DEF DoomedFlow
<1>3. QED
  BY <1>0, <1>1, <1>2, FlowsToward DEF Untold, Told

\* A device that does not know of the deletion goes on to have nothing, or to be told.
LEMMA RetractedFlows ==
  ASSUME DoomedFlow, NEW d \in Devices, Foreseen(d), Warned(d), Retracted(d), StandsOn(d)
  PROVE  Retracted(d)'
<1>0. /\ Types /\ Basics /\ Basics' /\ Flows /\ Clean /\ Clean' /\ docs \in [Devices -> DocOrNone]
      /\ tombs \in [Devices -> Tomb] /\ deletes \in [Devices -> Nat] /\ owed \in [Devices -> BOOLEAN]
      /\ stage \in [Devices -> Stages]
  BY DEF DoomedFlow, Basics, Types, LocalOK, ControlOK, StreamOK
<1> SUFFICES ASSUME Pushed(d)', ~IsDeleted(tombs'[d]), docs'[d] # Absent, ~(deletes'[d] > 0)
             PROVE  Refusal(d)'
  BY DEF Retracted
<1>1. PICK p \in Devices : p = Peer(d) /\ Peer(p) = d
  BY DEF Peer, Devices
<1>2. Handshake(d) /\ Handshake(p)
  BY DEF DoomedFlow, Handshakes, Clean
<1>3. ASSUME NEW f \in Sent, f.file # Absent, Sends(d, f), owed' = owed, stage[d] # "answer",
             ~owed[d], ~IsDeleted(tombs[d])
      PROVE  Refusal(d)'
  <2>1. FileTo(p)'
    BY <1>0, <1>1, <1>2, <1>3, FileSends
  <2>2. PICK e \in Item : e \in tombs[p].items /\ Alive(e)
    BY <1>1, <1>3, SurvivorIsThere DEF DoomedFlow
  <2>3. e \in tombs'[p].items /\ Alive(e)'
    BY <2>2, FlowsMove DEF DoomedFlow, Moves
  <2>4. QED
    BY <1>1, <2>1, <2>3 DEF Refusal
<1>4. CASE Push(d)
  <2>1. tombs' = tombs /\ deletes' = deletes /\ stage[d] = "push"
    BY <1>4 DEF Push, Send, control
  <2>2. ~owed[d]
    BY <1>2, <2>1 DEF Handshake, Opening
  <2>3. Standing(d, 0)
    BY <1>0, <2>1, <2>2 DEF Warned
  <2>4. \E x \in tombs[d].items : x.chain \notin tombs[d].dead
    <3>1. \A i \in DOMAIN frames[d] : ~(i <= 0)
      BY <1>0 DEF Types, StreamOK
    <3>2. QED
      BY <2>3, <3>1 DEF Standing, Arrived, Struck
  <2>5. IsDeleted(tombs[d])
    BY <2>2, <2>4 DEF DoomedFlow, Unmasked, Masked
  <2>6. QED
    BY <2>1, <2>5
<1>5. CASE Pushed(d)
  <2>1. ~owed[d]
    BY <1>2, <1>5 DEF Handshake, Opening, Pushed
  <2>2. ~IsDeleted(tombs[d])
    BY <2>1, StaysDeleted
  <2>3. CASE Refusal(d)
    BY <2>3, RefusalFlows
  <2>4. ~ReceiveDelete(d)
    BY <1>0 DEF ReceiveDelete, Remove, Untrack
  <2>5. ~(deletes[d] > 0)
    BY <1>0, <2>4, DeletesFlow
  <2>6. CASE docs[d] = Absent
    <3>1. ASSUME NEW u \in Doc, Edits(d, u) PROVE Refusal(d)'
      <4>1. PICK f \in Sent : f = Frame(NoTombs, u) /\ f.file = u
        BY FrameIs, NoTombsIs DEF DocOrNone
      <4>2. Sends(d, f) /\ owed' = owed /\ stage[d] # "answer" /\ f.file # Absent
        BY <1>5, <3>1, <4>1, AbsentIsNoRecord DEF Edits, Pushed, Listening
      <4>3. QED
        BY <1>3, <2>1, <2>2, <4>2
    <3>2. ASSUME Receive(d), Head(frames[d]).file # Absent PROVE FALSE
      <4>1. 1 \in DOMAIN frames[d] /\ frames[d][1].file # Absent
        BY <1>0, <3>2, ReceiveReads
      <4>2. FileAt(d, 1)
        BY <2>1, <4>1 DEF FileAt
      <4>3. Standing(d, 1)
        <5>1. 1 \in Nat
          OBVIOUS
        <5>2. QED
          BY <2>5, <4>2, <5>1 DEF Foreseen
      <4>4. QED
        BY <1>0, <3>2, <4>3, StandingRead DEF DoomedFlow
    <3>3. ~Answer(d)
      BY <1>5 DEF Answer, Pushed
    <3>4. QED
      BY <1>0, <2>6, <3>1, <3>2, <3>3, DocsFlow
  <2>7. QED
    BY <1>5, <2>2, <2>3, <2>5, <2>6 DEF Retracted
<1>6. QED
  BY <1>0, <1>4, <1>5, PushedStep

\* One that knows of it goes on to have nothing, to have an event to read, or to be told.
LEMMA RemovableFlows ==
  ASSUME DoomedFlow, NEW d \in Devices, Removable(d), Retracted(d)
  PROVE  Removable(d)'
<1>0. /\ Types /\ Basics /\ Basics' /\ Flows /\ Clean /\ Clean' /\ docs \in [Devices -> DocOrNone]
      /\ tombs \in [Devices -> Tomb] /\ deletes \in [Devices -> Nat]
      /\ stage \in [Devices -> Stages] /\ disk \in [Devices -> File \cup {Absent}]
      /\ events \in [Devices -> Seq({"touch", "remove"})]
  BY DEF DoomedFlow, Basics, Types, LocalOK, ControlOK, StreamOK
<1> SUFFICES ASSUME stage'[d] = "live", IsDeleted(tombs'[d]), ~(deletes'[d] > 0), ~Refusal(d)'
             PROVE  Watched(d)'
  BY DEF Removable
<1>1. ~Refusal(d)
  BY RefusalFlows
<1>2. CASE ReceiveDelete(d)
  BY <1>0, <1>2, RemoveIs DEF ReceiveDelete, Watched
<1>3. CASE Settles(d)
  <2>1. tombs' = tombs
    BY <1>3 DEF Settles
  <2>2. Remove(d)
    BY <1>3, <2>1 DEF Settles
  <2>3. QED
    BY <1>0, <2>2, RemoveIs DEF Watched
<1>4. CASE ~ReceiveDelete(d) /\ ~Settles(d)
  <2>1. ~(deletes[d] > 0)
    BY <1>0, <1>4, DeletesFlow
  <2>2. stage[d] = "live"
    <3>1. CASE stage' = stage
      BY <3>1
    <3>2. ASSUME NEW q \in Devices, Answer(q) \/ Subscribe(q) \/ Push(q) PROVE stage[d] = "live"
      BY <1>0, <3>2 DEF Answer, Subscribe, Push
    <3>3. ASSUME NEW q \in Devices, Settles(q) PROVE stage[d] = "live"
      BY <1>0, <1>4, <3>3 DEF Settles
    <3>4. ASSUME NEW q \in Devices, (\E u \in Doc : Edits(q, u)) \/ Receive(q) \/ ReceiveDelete(q) PROVE stage' = stage
      BY <3>4 DEF Edits, Receive, ReceiveDelete, session
    <3>5. QED
      BY <1>0, <3>1, <3>2, <3>3, <3>4 DEF Flows, Quiet
  <2>3. CASE IsDeleted(tombs[d])
    <3>1. Watched(d)
      BY <1>1, <2>1, <2>2, <2>3 DEF Removable
    <3>2. ASSUME disk'[d] = disk[d], events'[d] = events[d] PROVE Watched(d)'
      BY <3>1, <3>2 DEF Watched
    <3>3. CASE WatchedOn
      BY <2>3, <3>1, <3>3 DEF WatchedOn
    <3>4. ASSUME NEW q \in Devices, q # d, Remove(q) PROVE Watched(d)'
      BY <1>0, <3>2, <3>4, RemoveIs
    <3>5. ASSUME NEW q \in Devices, Settles(q) \/ ReceiveDelete(q) PROVE Watched(d)'
      <4>1. q # d
        BY <1>4, <3>5
      <4>2. Remove(q) \/ UNCHANGED local
        BY <3>5 DEF Settles, ReceiveDelete
      <4>3. QED
        BY <3>2, <3>4, <4>1, <4>2 DEF local
    <3>6. ASSUME NEW q \in Devices, Answer(q) \/ Subscribe(q) \/ Push(q) \/ Receive(q) PROVE Watched(d)'
      BY <3>2, <3>6 DEF Answer, Subscribe, Push, Receive, local
    <3>7. QED
      BY <1>0, <3>3, <3>5, <3>6 DEF Flows, Quiet, Edits
  <2>4. CASE ~IsDeleted(tombs[d])
    <3>1. Receive(d)
      BY <1>0, <2>4, FlowsToward DEF Untold, Told
    <3>2. docs[d] = Absent
      BY <1>1, <2>1, <2>2, <2>4 DEF Retracted, Pushed
    <3>3. disk' = disk /\ events' = events
      BY <3>1 DEF Receive
    <3>4. tombs'[d] = Joined(tombs[d], Head(frames[d]).control)
      BY <1>0, <3>1 DEF Receive
    <3>5. ~(IsDeleted(tombs'[d]) /\ events[d] = <<>> /\ Untracked(d))
      BY <1>0, <3>1, <3>4 DEF Receive, Clean
    <3>6. QED
      BY <2>4, <3>2, <3>3, <3>5 DEF Watched, Untracked
  <2>5. QED
    BY <2>3, <2>4
<1>5. QED
  BY <1>2, <1>3, <1>4

\* The deletion stands on the device that is told all of the other, or a change of one that does not know of it.
LEMMA ToldStands ==
  ASSUME DoomedFlow, NEW d \in Devices, NEW f \in Sent, Told(d, f),
         f.control = tombs[Peer(d)] \/ \E e \in Item : e \in tombs[d].items /\ Alive(e),
         f.control \in {tombs[Peer(d)], NoTombs},
         NEW k \in Nat, k > Len(frames[d])
  PROVE  Standing(d, k)'
<1>0. Types /\ Known /\ tombs \in [Devices -> Tomb] /\ frames \in [Devices -> Seq(Sent)] /\ owed \in [Devices -> BOOLEAN]
  BY DEF DoomedFlow, Basics, Types, ControlOK, StreamOK
<1>1. tombs'[d] = tombs[d] /\ frames'[d] = Append(frames[d], f)
  BY <1>0 DEF Told
<1>2. PICK p \in Devices : p = Peer(d) /\ \A q \in Devices : q = d \/ q = p
  BY DEF Peer, Devices
<1>3. PICK e \in Item : Alive(e) /\ e \in tombs[d].items \cup f.control.items
  <2>1. CASE f.control = tombs[Peer(d)]
    <3>1. PICK e \in Item, q \in Devices : Alive(e) /\ e \in tombs[q].items
      BY DEF DoomedFlow, Survives
    <3>2. QED
      BY <1>2, <2>1, <3>1
  <2>2. QED
    BY <2>1
<1>4. e.chain \notin f.control.dead /\ ~Struck(d, k, e)
  <2>1. e.chain \notin tombs[p].dead
    BY <1>3 DEF Alive
  <2>2. e.chain \notin NoTombs.dead
    BY DEF NoTombs
  <2>3. f.control = tombs[p] \/ f.control = NoTombs
    BY <1>2
  <2>4. e.chain \notin f.control.dead
    BY <2>1, <2>2, <2>3
  <2>5. ~Struck(d, k, e)
    BY <1>0, <1>3, AliveIsNotStruck
  <2>6. QED
    BY <2>4, <2>5
<1>5. /\ Arrived(d, k, e)' <=> Arrived(d, k, e) \/ e \in f.control.items
      /\ Struck(d, k, e)' <=> Struck(d, k, e) \/ e.chain \in f.control.dead
  BY <1>0, <1>1, ArrivedAppended
<1>6. e \in tombs[d].items => Arrived(d, k, e)
  BY DEF Arrived
<1>7. QED
  BY <1>3, <1>4, <1>5, <1>6 DEF Standing

\* A device goes on to be warned.
LEMMA WarnedFlows ==
  ASSUME DoomedFlow, NEW d \in Devices, Warned(d)
  PROVE  Warned(d)'
<1>0. /\ Types /\ Basics /\ Flows /\ tombs \in [Devices -> Tomb] /\ frames \in [Devices -> Seq(Sent)]
      /\ deletes \in [Devices -> Nat] /\ owed \in [Devices -> BOOLEAN] /\ stage \in [Devices -> Stages]
  BY DEF DoomedFlow, Basics, Types, ControlOK, StreamOK
<1> SUFFICES ASSUME stage'[d] # "live", ~(deletes'[d] > 0)
             PROVE  /\ ~owed'[d] => Standing(d, 0)'
                    /\ owed'[d] /\ frames'[d] # <<>> => Standing(d, 1)'
  BY DEF Warned
<1>1. PICK p \in Devices : p = Peer(d) /\ Peer(p) = d
  BY DEF Peer, Devices
<1>2. Handshake(d)
  BY DEF DoomedFlow, Handshakes, Clean
<1>3. stage[d] # "live"
  <2>1. ASSUME NEW q \in Devices, Answer(q) \/ Subscribe(q) \/ Push(q) \/ Settles(q) PROVE stage[d] # "live"
    BY <1>0, <2>1 DEF Answer, Subscribe, Push, Settles
  <2>2. ASSUME NEW q \in Devices, (\E u \in Doc : Edits(q, u)) \/ Receive(q) \/ ReceiveDelete(q) PROVE stage' = stage
    BY <2>2 DEF Edits, Receive, ReceiveDelete, session
  <2>3. QED
    BY <1>0, <2>1, <2>2 DEF Flows, Quiet
<1>4. ~(deletes[d] > 0)
  BY <1>0, <1>3, DeletesFlow DEF ReceiveDelete
<1>5. /\ ~owed[d] => Standing(d, 0)
      /\ owed[d] /\ frames[d] # <<>> => Standing(d, 1)
  BY <1>0, <1>3, <1>4 DEF Warned
<1>6. CASE Untold(d)
  <2>1. tombs'[d] = tombs[d] /\ frames'[d] = frames[d] /\ owed'[d] = owed[d]
    BY <1>6 DEF Untold
  <2>2. \A k \in Nat : Standing(d, k) => Standing(d, k)'
    BY <2>1, ArrivedSame DEF Standing
  <2>3. QED
    BY <1>5, <2>1, <2>2
<1>7. ASSUME NEW f \in Sent, Told(d, f), f.control = tombs[p] \/ (f.control = NoTombs /\ Listening(p))
      PROVE  /\ ~owed'[d] => Standing(d, 0)'
             /\ owed'[d] /\ frames'[d] # <<>> => Standing(d, 1)'
  <2>1. tombs'[d] = tombs[d] /\ frames'[d] = Append(frames[d], f) /\ owed'[d] = owed[d]
    BY <1>0, <1>7 DEF Told
  <2>2. Len(frames[d]) \in Nat /\ (frames[d] # <<>> => 1 <= Len(frames[d])) /\ Len(<<>>) = 0
    BY <1>0
  <2>3. \A k \in Nat : k <= Len(frames[d]) /\ Standing(d, k) => Standing(d, k)'
    BY <1>0, <2>1, ArrivedAppended DEF Standing
  <2>4. CASE owed[d] /\ frames[d] = <<>>
    <3>1. stage[p] = "answer"
      BY <1>1, <1>2, <2>4 DEF Handshake
    <3>2. f.control = tombs[p]
      BY <1>7, <3>1 DEF Listening
    <3>3. 1 \in Nat /\ 1 > Len(frames[d])
      BY <2>2, <2>4
    <3>4. Standing(d, 1)'
      BY <1>1, <1>7, <3>2, <3>3, ToldStands
    <3>5. QED
      BY <2>1, <2>4, <3>4
  <2>5. CASE owed[d] /\ frames[d] # <<>>
    BY <1>5, <2>1, <2>2, <2>3, <2>5
  <2>6. CASE ~owed[d]
    BY <1>5, <2>1, <2>2, <2>3, <2>6
  <2>7. QED
    BY <2>4, <2>5, <2>6
<1>8. CASE Receive(d)
  <2>1. /\ frames[d] # <<>> /\ frames'[d] = Tail(frames[d]) /\ owed[d] /\ ~owed'[d]
        /\ tombs'[d] = Joined(tombs[d], Head(frames[d]).control)
    BY <1>0, <1>3, <1>8, ReceiveReads DEF Receive, Reading
  <2>2. Standing(d, 1) /\ 0 \in Nat /\ 0 + 1 = 1
    BY <1>5, <2>1
  <2>3. Standing(d, 0)'
    BY <1>0, <2>1, <2>2, ArrivedRead DEF Standing
  <2>4. QED
    BY <2>1, <2>3
<1>9. QED
  BY <1>0, <1>1, <1>6, <1>7, <1>8, FlowsToward

\* A file on the way goes on to be followed by a deletion, where the tombstone does not refuse it.
LEMMA ForeseenFlows ==
  ASSUME DoomedFlow, NEW d \in Devices, Foreseen(d)
  PROVE  Foreseen(d)'
<1>0. /\ Types /\ Basics /\ Flows /\ Clean' /\ tombs \in [Devices -> Tomb] /\ frames \in [Devices -> Seq(Sent)]
      /\ deletes \in [Devices -> Nat] /\ owed \in [Devices -> BOOLEAN]
  BY DEF DoomedFlow, Basics, Types, ControlOK, StreamOK
<1> SUFFICES ASSUME NEW i \in Nat, FileAt(d, i)', ~Standing(d, i)' PROVE deletes'[d] > 0
  BY DEF Foreseen
<1>1. PICK p \in Devices : p = Peer(d) /\ Peer(p) = d
  BY DEF Peer, Devices
<1>2. ASSUME FileAt(d, i), deletes[d] > 0 PROVE deletes'[d] > 0
  <2>1. ~ReceiveDelete(d)
    BY <1>0, <1>2 DEF ReceiveDelete, Clean, FileAt
  <2>2. QED
    BY <1>0, <1>2, <2>1, DeletesFlow
<1>3. CASE Untold(d)
  <2>1. FileAt(d, i) /\ tombs'[d] = tombs[d] /\ frames'[d] = frames[d]
    BY <1>3 DEF Untold, FileAt
  <2>2. ~Standing(d, i)
    BY <2>1, ArrivedSame DEF Standing
  <2>3. QED
    BY <1>2, <2>1, <2>2 DEF Foreseen
<1>4. ASSUME NEW f \in Sent, Told(d, f),
             \/ f.control = tombs[p]
             \/ \E u \in Doc : f.control = NoTombs /\ Listening(p) /\ Edits(p, u)
      PROVE  deletes'[d] > 0
  <2>1. tombs'[d] = tombs[d] /\ frames'[d] = Append(frames[d], f) /\ owed' = owed /\ Sends(p, f)
    BY <1>0, <1>1, <1>4 DEF Told
  <2>2. CASE FileAt(d, i)
    <3>1. i <= Len(frames[d])
      BY <1>0, <2>2 DEF FileAt
    <3>2. ~Standing(d, i)
      BY <1>0, <2>1, <3>1, ArrivedAppended DEF Standing
    <3>3. QED
      BY <1>2, <2>2, <3>2 DEF Foreseen
  <2>3. CASE ~FileAt(d, i)
    <3>1. i = Len(frames[d]) + 1
      BY <1>0, <1>1, <2>1, <2>3, FileSent
    <3>2. i > Len(frames[d])
      BY <1>0, <3>1
    <3>3. f.control = tombs[p] \/ \E e \in Item : e \in tombs[d].items /\ Alive(e)
      <4>1. SUFFICES ASSUME NEW u \in Doc, Listening(p), Edits(p, u)
                     PROVE  \E e \in Item : e \in tombs[d].items /\ Alive(e)
        BY <1>4
      <4>2. Handshake(p)
        BY DEF DoomedFlow, Handshakes, Clean
      <4>3. ~owed[p]
        BY <4>1, <4>2 DEF Handshake, Opening, Listening
      <4>4. ~IsDeleted(tombs[p])
        BY <4>1 DEF Edits
      <4>5. QED
        BY <1>1, <4>3, <4>4, SurvivorIsThere DEF DoomedFlow
    <3>4. Standing(d, i)'
      BY <1>1, <1>4, <3>2, <3>3, ToldStands
    <3>5. QED
      BY <3>4
  <2>4. QED
    BY <2>2, <2>3
<1>5. CASE Receive(d)
  <2>1. /\ frames[d] # <<>> /\ frames'[d] = Tail(frames[d]) /\ deletes' = deletes
        /\ tombs'[d] = Joined(tombs[d], Head(frames[d]).control)
    BY <1>0, <1>5, ReceiveReads DEF Receive
  <2>2. FileAt(d, i + 1)
    BY <1>0, <1>5, FileRead
  <2>3. ~Standing(d, i + 1)
    BY <1>0, <2>1, ArrivedRead DEF Standing
  <2>4. QED
    BY <2>1, <2>2, <2>3 DEF Foreseen
<1>6. QED
  BY <1>0, <1>1, <1>3, <1>4, <1>5, FlowsToward

\* What stands with some of the frames read goes on to stand with more.
LEMMA StandsOnFlows ==
  ASSUME DoomedFlow, NEW d \in Devices, StandsOn(d)
  PROVE  StandsOn(d)'
<1>0. /\ Types /\ Basics /\ Flows /\ tombs \in [Devices -> Tomb] /\ frames \in [Devices -> Seq(Sent)]
      /\ owed \in [Devices -> BOOLEAN]
  BY DEF DoomedFlow, Basics, Types, ControlOK, StreamOK
<1> SUFFICES ASSUME NEW k \in Nat, owed'[d] => k >= 1, Standing(d, k)' PROVE Standing(d, k + 1)'
  BY DEF StandsOn
<1>1. PICK p \in Devices : p = Peer(d) /\ Peer(p) = d
  BY DEF Peer, Devices
<1>2. k + 1 \in Nat
  OBVIOUS
<1>3. ASSUME owed'[d] = owed[d],
             \A j \in Nat : \A e : (Arrived(d, j, e)' <=> Arrived(d, j, e)) /\ (Struck(d, j, e)' <=> Struck(d, j, e))
      PROVE  Standing(d, k + 1)'
  <2>1. \A j \in Nat : Standing(d, j)' <=> Standing(d, j)
    BY <1>3 DEF Standing
  <2>2. Standing(d, k + 1)
    BY <1>3, <2>1 DEF StandsOn
  <2>3. QED
    BY <1>2, <2>1, <2>2
<1>4. CASE Untold(d)
  <2>1. tombs'[d] = tombs[d] /\ frames'[d] = frames[d] /\ owed'[d] = owed[d]
    BY <1>4 DEF Untold
  <2>2. QED
    BY <1>3, <2>1, ArrivedSame
<1>5. ASSUME NEW f \in Sent, Told(d, f), f.control = NoTombs PROVE Standing(d, k + 1)'
  <2>1. tombs'[d] = tombs[d] /\ frames'[d] = Append(frames[d], f) /\ owed'[d] = owed[d]
    BY <1>0, <1>5 DEF Told
  <2>2. f.control.items = {} /\ f.control.dead = {}
    BY <1>5 DEF NoTombs
  <2>3. \A j \in Nat : j <= Len(frames[d]) \/ j > Len(frames[d])
    BY <1>0
  <2>4. \A j \in Nat : \A e : (Arrived(d, j, e)' <=> Arrived(d, j, e)) /\ (Struck(d, j, e)' <=> Struck(d, j, e))
    BY <1>0, <2>1, <2>2, <2>3, ArrivedAppended
  <2>5. QED
    BY <1>3, <2>1, <2>4
<1>6. ASSUME NEW f \in Sent, Told(d, f), f.control = tombs[p] PROVE Standing(d, k + 1)'
  <2>1. tombs'[d] = tombs[d] /\ frames'[d] = Append(frames[d], f) /\ owed'[d] = owed[d]
    BY <1>0, <1>6 DEF Told
  <2>2. CASE k + 1 <= Len(frames[d])
    <3>1. k <= Len(frames[d])
      BY <1>0, <2>2
    <3>2. Standing(d, k)
      BY <1>0, <2>1, <3>1, ArrivedAppended DEF Standing
    <3>3. Standing(d, k + 1)
      BY <2>1, <3>2 DEF StandsOn
    <3>4. QED
      BY <1>0, <1>2, <2>1, <2>2, <3>3, ArrivedAppended DEF Standing
  <2>3. CASE k + 1 > Len(frames[d])
    BY <1>1, <1>2, <1>6, <2>3, ToldStands
  <2>4. QED
    BY <1>0, <2>2, <2>3
<1>7. CASE Receive(d)
  <2>1. /\ frames[d] # <<>> /\ frames'[d] = Tail(frames[d])
        /\ tombs'[d] = Joined(tombs[d], Head(frames[d]).control)
    BY <1>0, <1>7, ReceiveReads DEF Receive
  <2>2. \A j \in Nat : Standing(d, j)' <=> Standing(d, j + 1)
    BY <1>0, <2>1, ArrivedRead DEF Standing
  <2>3. Standing(d, k + 1)
    BY <2>2
  <2>4. Standing(d, (k + 1) + 1)
    BY <1>2, <2>3 DEF StandsOn
  <2>5. QED
    BY <1>2, <2>2, <2>4
<1>8. QED
  BY <1>0, <1>1, <1>4, <1>5, <1>6, <1>7, FlowsToward

\* A removal that is recorded makes a stream one with a deletion that nobody removed.
LEMMA DoomedRecord ==
  ASSUME FileSyncAssumption, Basics, Basics', Known, DeadMade, Stamped, Handshakes, Clean,
         NEW p \in Devices, RecordRemoval(p), stage[p] # "subscribe", StandsOn(Peer(p))
  PROVE  Doomed'
<1>0. /\ Types /\ Types' /\ OneEntry /\ tombs \in [Devices -> Tomb] /\ frames \in [Devices -> Seq(Sent)] /\ Closed
      /\ deletes \in [Devices -> Nat] /\ owed \in [Devices -> BOOLEAN] /\ stage \in [Devices -> Stages] /\ now \in Nat
      /\ docs \in [Devices -> DocOrNone]
  BY DEF Basics, Types, LocalOK, ControlOK, StreamOK, SpentOK
<1>1. PICK o \in Devices : o = Peer(p) /\ o # p /\ Peer(o) = p /\ (\A d \in Devices : d = o \/ d = p)
  BY DEF Peer, Devices
<1>2. /\ Broadcast(p, Recorded(p), Absent, 1) /\ stage' = stage /\ owed' = owed /\ disk' = disk /\ disk[p] = Absent
      /\ docs' = [docs EXCEPT ![p] = Absent] /\ events' = [events EXCEPT ![p] = Tail(@)] /\ now' = now + 1
  BY DEF RecordRemoval, session, Untrack, Handled
<1>3. /\ tombs' = [tombs EXCEPT ![p] = Joined(tombs[p], Recorded(p))]
      /\ Recorded(p) \in Tomb /\ Recorded(p).items = {NewEntry(p)}
  BY <1>0, <1>2, RecordedIs DEF Broadcast
<1>4. tombs'[o] = tombs[o] /\ disk'[o] = disk[o] /\ events'[o] = events[o] /\ docs'[o] = docs[o]
  <2>1. events \in [Devices -> Seq({"touch", "remove"})]
    BY <1>0 DEF Types, LocalOK
  <2>2. QED
    BY <1>0, <1>1, <1>2, <1>3, <2>1
<1>5. PICK g \in Item : g \in tombs'[p].items /\ Alive(g)' /\ g.ts = now'
  BY RecordHolds DEF Latest
<1>6. g \in Recorded(p).items
  <2>1. g \in tombs[p].items \cup Recorded(p).items
    BY <1>0, <1>3, <1>5 DEF Joined
  <2>2. g \in tombs[p].items => g.ts <= now
    BY DEF Stamped
  <2>3. QED
    BY <1>0, <1>2, <1>5, <2>1, <2>2
<1>7. Core(p)' /\ Known'
  BY RecordHolds
<1>8. Foreseen(p)' /\ Warned(p)' /\ StandsOn(p)' /\ Removable(p)' /\ Retracted(p)'
  <2>1. \A k \in Nat : Standing(p, k)'
    BY <1>7 DEF Core
  <2>2. Foreseen(p)' /\ Warned(p)'
    BY <2>1 DEF Foreseen, Warned
  <2>3. StandsOn(p)'
    <3>1. \A k \in Nat : k + 1 \in Nat
      OBVIOUS
    <3>2. QED
      BY <2>1, <3>1 DEF StandsOn
  <2>4. Removable(p)'
    BY <1>2 DEF Removable, Watched
  <2>5. Retracted(p)'
    BY <1>7 DEF Retracted, Core
  <2>6. QED
    BY <2>2, <2>3, <2>4, <2>5
<1>9. CASE Listening(p)
  <2>1. PICK f \in Sent : f = Frame(Recorded(p), Absent) /\ f.control = Recorded(p)
    BY <1>3, FrameIs DEF DocOrNone
  <2>2. Recorded(p) # NoTombs
    BY <1>3 DEF NoTombs
  <2>3. frames'[o] = Append(frames[o], f)
    BY <1>0, <1>1, <1>2, <1>9, <2>1, <2>2 DEF Broadcast
  <2>4. deletes'[o] > 0
    <3>1. deletes'[o] = deletes[o] + 1
      BY <1>0, <1>1, <1>2, <1>9 DEF Broadcast
    <3>2. QED
      BY <1>0, <3>1
  <2>5. Foreseen(o)' /\ Warned(o)' /\ Removable(o)' /\ Retracted(o)'
    BY <2>4 DEF Foreseen, Warned, Removable, Retracted
  <2>6. StandsOn(o)'
    <3> SUFFICES ASSUME NEW k \in Nat, owed[o] => k >= 1, Standing(o, k)' PROVE Standing(o, k + 1)'
      BY <1>2 DEF StandsOn
    <3>1. k + 1 \in Nat
      OBVIOUS
    <3>2. CASE k + 1 <= Len(frames[o])
      <4>1. k <= Len(frames[o])
        BY <1>0, <3>2
      <4>2. Standing(o, k)
        BY <1>0, <1>4, <2>3, <4>1, ArrivedAppended DEF Standing
      <4>3. Standing(o, k + 1)
        BY <1>1, <4>2 DEF StandsOn
      <4>4. QED
        BY <1>0, <1>4, <2>3, <3>1, <3>2, <4>3, ArrivedAppended DEF Standing
    <3>3. CASE k + 1 > Len(frames[o])
      <4>1. Arrived(o, k + 1, g)'
        BY <1>0, <1>4, <1>6, <2>1, <2>3, <3>1, <3>3, ArrivedAppended
      <4>2. ~Struck(o, k + 1, g)'
        BY <1>1, <1>5, <1>7 DEF Struck, Known, Alive
      <4>3. QED
        BY <4>1, <4>2 DEF Standing
    <3>4. QED
      BY <1>0, <3>2, <3>3
  <2>7. QED
    BY <1>1, <1>8, <2>5, <2>6 DEF Doomed
<1>10. CASE ~Listening(p)
  <2>1. stage[p] = "answer"
    BY <1>0, <1>10 DEF Listening, Stages, Closed, Clean, Open, Devices
  <2>1a. Handshake(o)
    BY DEF Handshakes, Clean
  <2>1b. owed[o] /\ frames[o] = <<>> /\ Opening(o)
    BY <1>1, <2>1, <2>1a DEF Handshake
  <2>2. frames' = frames /\ deletes' = deletes
    BY <1>2, <1>10 DEF Broadcast
  <2>4. Foreseen(o)'
    <3>1. \A i \in Nat : ~FileAt(o, i)
      BY <2>1b DEF FileAt
    <3>2. QED
      BY <1>2, <2>2, <3>1 DEF Foreseen, FileAt
  <2>5. StandsOn(o)'
    <3>1. \A j \in Nat : Standing(o, j)' <=> Standing(o, j)
      BY <1>4, <2>2, ArrivedSame DEF Standing
    <3>2. \A j \in Nat : j + 1 \in Nat
      OBVIOUS
    <3>3. QED
      BY <1>1, <1>2, <3>1, <3>2 DEF StandsOn
  <2>6. Warned(o)' /\ Removable(o)' /\ Retracted(o)'
    BY <1>2, <2>1b, <2>2 DEF Warned, Removable, Retracted, Pushed, Opening
  <2>9. QED
    BY <1>1, <1>8, <2>4, <2>5, <2>6 DEF Doomed
<1>11. QED
  BY <1>9, <1>10

\* A stream starts with nothing on the way.
LEMMA DoomedConnect ==
  ASSUME Basics, Connect
  PROVE  Doomed'
<1>0. Types /\ Closed
  BY DEF Basics
<1>1. /\ UNCHANGED <<tombs, frames>>
      /\ \A d \in Devices : frames[d] = <<>> /\ owed'[d] /\ stage'[d] = "answer"
  BY <1>0 DEF Connect, Closed, control, outgoing, Devices
<1> SUFFICES ASSUME NEW d \in Devices
             PROVE  (Foreseen(d) /\ Warned(d) /\ Removable(d) /\ Retracted(d) /\ StandsOn(d))'
  BY DEF Doomed
<1>2. DOMAIN frames'[d] = {}
  BY <1>1
<1>3. Foreseen(d)' /\ Warned(d)' /\ Removable(d)' /\ Retracted(d)'
  BY <1>1, <1>2 DEF Foreseen, FileAt, Warned, Removable, Retracted, Pushed
<1>4. StandsOn(d)'
  <2> SUFFICES ASSUME NEW k \in Nat, Standing(d, k)' PROVE Standing(d, k + 1)'
    BY DEF StandsOn
  <2>1. PICK e \in Item : Arrived(d, k, e)' /\ ~Struck(d, k, e)'
    BY DEF Standing
  <2>2. Arrived(d, k + 1, e)' /\ ~Struck(d, k + 1, e)'
    BY <1>2, <2>1 DEF Arrived, Struck
  <2>3. QED
    BY <2>2 DEF Standing
<1>5. QED
  BY <1>3, <1>4

\* It stays one, and one in which a removal is recorded becomes one.
LEMMA DoomedStep ==
  ASSUME FileSyncAssumption, Basics, Basics', Known, DeadMade, Stamped, Handshakes, TiedUnlessRaced,
         \A d \in Devices : Unsaved(d), Clean, Clean', Next,
         \A d \in Devices : Unmasked(d), \A d \in Devices : Unmasked(d)',
         Survives => Doomed, ~Survives => Calm, Survives'
  PROVE  Doomed'
<1>0. Types /\ OneEntry /\ stage \in [Devices -> Stages]
  BY DEF Basics, Types, StreamOK
<1>1. Flows \/ \E p \in Devices : RecordRemoval(p)
  BY CleanSteps DEF Clean
<1>2. CASE Flows
  <2>1. Survives
    BY <1>2, FlowsMove
  <2>2. DoomedFlow
    BY <1>2, <2>1 DEF DoomedFlow
  <2>3. \A d \in Devices : Foreseen(d) /\ Warned(d) /\ Removable(d) /\ Retracted(d) /\ StandsOn(d)
    BY <2>1 DEF Doomed
  <2>4. \A d \in Devices : Foreseen(d)'
    BY <2>2, <2>3, ForeseenFlows
  <2>4a. \A d \in Devices : Warned(d)'
    BY <2>2, <2>3, WarnedFlows
  <2>5. \A d \in Devices : Removable(d)'
    BY <2>2, <2>3, RemovableFlows
  <2>6. \A d \in Devices : Retracted(d)'
    BY <2>2, <2>3, RetractedFlows
  <2>7. \A d \in Devices : StandsOn(d)'
    BY <2>2, <2>3, StandsOnFlows
  <2>8. QED
    BY <2>4, <2>4a, <2>5, <2>6, <2>7 DEF Doomed
<1>3. ASSUME NEW p \in Devices, RecordRemoval(p) PROVE Doomed'
  <2>1. PICK o \in Devices : o = Peer(p) /\ Peer(o) = p
    BY DEF Peer, Devices
  <2>2. Handshake(o)
    BY DEF Handshakes, Clean
  <2>3. stage[p] # "subscribe"
    BY <1>3 DEF RecordRemoval, Clean
  <2>4. StandsOn(o)
    <3>1. CASE Survives
      BY <3>1 DEF Doomed
    <3>2. CASE ~Survives
      <4>1. Informed(o)
        BY <3>2 DEF Calm
      <4>2. QED
        BY <1>0, <2>2, <3>2, <4>1, InformedStandsOn
    <3>3. QED
      BY <3>1, <3>2
  <2>5. QED
    BY <1>3, <2>1, <2>3, <2>4, DoomedRecord
<1>4. QED
  BY <1>1, <1>2, <1>3

-----------------------------------------------------------------------------
(* Devices that settle hold the same file                                  *)

\* It holds at the start, when no stream is open.
LEMMA InitMeets ==
  ASSUME FileSyncAssumption, Init
  PROVE  Meets
<1>1. /\ stage[1] = "off" /\ saved = docs
      /\ \A d \in Devices : /\ tombs[d] = NoTombs /\ ~flag[d] /\ flushes[d] = {}
                            /\ \/ disk[d] = Absent
                               \/ disk[d] = [text |-> {0}, at |-> 0] /\ docs[d] = First
  BY DEF Init, First, Devices
<1>2. Handshakes /\ Undisturbed
  BY <1>1 DEF Handshakes, Undisturbed, Clean, Open
<1>3. \A d \in Devices : Unsaved(d)
  <2>1. First # Absent
    BY FirstIs, AbsentIsNoRecord
  <2>2. \A d \in Devices : saved[d] = docs[d]
    BY <1>1
  <2>3. QED
    BY <1>1, <2>1, <2>2 DEF Unsaved
<1>4. \A d \in Devices : tombs[Peer(d)].dead = {} /\ tombs[d].dead = {}
  BY <1>1, PeerIs DEF NoTombs
<1>5. KnownDead /\ Outdated
  BY <1>4 DEF KnownDead, Outdated, Missed
<1>6. QED
  BY <1>2, <1>3, <1>5 DEF Meets

\* Nothing changes.
LEMMA SameMeets ==
  ASSUME Meets, UNCHANGED vars
  PROVE  Meets'
<1>1. /\ disk' = disk /\ docs' = docs /\ saved' = saved /\ flag' = flag /\ events' = events /\ flushes' = flushes
      /\ tombs' = tombs /\ client' = client /\ stage' = stage /\ asked' = asked /\ told' = told /\ owed' = owed
      /\ frames' = frames /\ deletes' = deletes /\ raced' = raced /\ deferred' = deferred /\ missed' = missed
  BY DEF vars, local, control, session, outgoing, ghosts
<1>2. Handshakes'
  BY <1>1 DEF Meets, Handshakes, Open, Handshake, Opening
<1>3. \A d \in Devices : Unsaved(d)'
  BY <1>1 DEF Meets, Unsaved
<1>4. KnownDead'
  BY <1>1 DEF Meets, KnownDead
<1>5. Outdated'
  BY <1>1 DEF Meets, Outdated, Missed, Newest, Excused, Touched, Unheard, Arrived, Struck
<1>6. (Clean <=> Clean') /\ (Survives <=> Survives')
  BY <1>1 DEF Clean, Open, Survives, Alive
<1>7. \A d \in Devices : (Passed(d) => Passed(d)') /\ (Unmasked(d) => Unmasked(d)')
  BY <1>1 DEF Passed, Pushed, Arrived, Unmasked, Masked
<1>8. Calm => Calm'
  <2>1. \A d \in Devices : Informed(d) => Informed(d)'
    BY <1>1 DEF Informed
  <2>2. \A d \in Devices : (AskedFor(d) => AskedFor(d)') /\ (Claimed(d) => Claimed(d)') /\ (Sourced(d) => Sourced(d)')
    BY <1>1 DEF AskedFor, Claimed, Sourced
  <2>3. \A d \in Devices : Shared(d) => Shared(d)'
    BY <1>1 DEF Shared, Pushed, Comes, Goes
  <2>4. \A d \in Devices : Offered(d) => Offered(d)'
    BY <1>1 DEF Offered, Pushed, Opening, FileTo, FileAt
  <2>5. \A d \in Devices : Bare(d) => Bare(d)'
    BY <1>1 DEF Bare, Due, AnyFile, Touched, Unheard
  <2>6. QED
    BY <2>1, <2>2, <2>3, <2>4, <2>5 DEF Calm
<1>9. Doomed => Doomed'
  <2>1. \A d \in Devices : Refusal(d) <=> Refusal(d)'
    BY <1>1 DEF Refusal, FileTo, FileAt, Alive
  <2>2. \A d \in Devices : \A k : Standing(d, k) <=> Standing(d, k)'
    BY <1>1 DEF Standing, Arrived, Struck
  <2>3. \A d \in Devices : (Foreseen(d) => Foreseen(d)') /\ (Warned(d) => Warned(d)')
    BY <1>1, <2>2 DEF Foreseen, FileAt, Warned
  <2>4. \A d \in Devices : (Removable(d) => Removable(d)') /\ (Retracted(d) => Retracted(d)')
    BY <1>1, <2>1 DEF Removable, Retracted, Watched, Pushed
  <2>5. \A d \in Devices : StandsOn(d) => StandsOn(d)'
    BY <1>1, <2>2 DEF StandsOn
  <2>6. QED
    BY <2>3, <2>4, <2>5 DEF Doomed
<1>10. Undisturbed'
  BY <1>6, <1>7, <1>8, <1>9 DEF Meets, Undisturbed
<1>11. QED
  BY <1>2, <1>3, <1>4, <1>5, <1>10 DEF Meets

\* A step.
LEMMA MeetsStep ==
  ASSUME FileSyncAssumption, Deletions, Deletions', TiedUnlessRaced, Meets, [Next]_vars
  PROVE  Meets'
<1>0. /\ Basics /\ Basics' /\ Known /\ DeadMade /\ Stamped
      /\ Handshakes /\ KnownDead /\ Outdated /\ Undisturbed /\ \A d \in Devices : Unsaved(d)
  BY DEF Deletions, Meets
<1>1. CASE Next
  <2>1. Handshakes'
    BY <1>0, <1>1, HandshakesStep
  <2>2. \A d \in Devices : Unsaved(d)'
    BY <1>0, <1>1, UnsavedStep
  <2>3. KnownDead'
    BY <1>0, <1>1, KnownDeadStep
  <2>4. Outdated'
    BY <1>0, <1>1, OutdatedStep
  <2>5. Undisturbed'
    <3> SUFFICES ASSUME Clean' PROVE (Undisturbed)'
      BY DEF Undisturbed
    <3>1. CASE Open
      <4>1. Clean /\ (Flows \/ \E p \in Devices : RecordRemoval(p))
        BY <1>0, <1>1, <3>1, CleanSteps
      <4>2. /\ \A d \in Devices : Passed(d)
            /\ \A d \in Devices : Unmasked(d)
            /\ ~Survives => Calm
            /\ Survives => Doomed
        BY <1>0, <4>1 DEF Undisturbed
      <4>3. \A d \in Devices : Passed(d)'
        BY <1>0, <4>1, <4>2, PassedFlows, PassedRecord
      <4>4. \A d \in Devices : Unmasked(d)'
        BY <1>0, <4>1, <4>2, UnmaskedStep
      <4>5. ~Survives' => Calm'
        <5> SUFFICES ASSUME ~Survives' PROVE Calm'
          OBVIOUS
        <5>1. ~Survives
          <6>1. \A p \in Devices : ~RecordRemoval(p)
            BY <1>0, RecordHolds DEF Core
          <6>2. QED
            BY <1>0, <4>1, <6>1, FlowsMove
        <5>2. QED
          BY <1>0, <1>1, <2>1, <4>1, <4>2, <5>1, CalmStep
      <4>6. Survives' => Doomed'
        BY <1>0, <1>1, <4>1, <4>2, <4>4, DoomedStep
      <4>7. QED
        BY <4>3, <4>4, <4>5, <4>6 DEF Undisturbed
    <3>2. CASE ~Open
      <4>1. Connect
        <5>1. PICK q \in Devices : TiedBy(q) /\ (Acts(q) \/ Connect \/ Cut)
          BY <1>0, <1>1, NextTied
        <5>2. \A d \in Devices : stage[d] = "off"
          BY <1>0, <3>2 DEF Basics, Closed, Open, Devices
        <5>3. ASSUME stage' = stage PROVE FALSE
          BY <3>2, <5>3 DEF Clean, Open
        <5>4. ~Cut /\ \A d \in Devices : ~Starts(d)
          BY <1>0, OffIs, RestartIs DEF Cut, Starts, Restarted, Basics, Clean, Open, Devices
        <5>5. ASSUME Write(q) \/ Delete(q) \/ Ingest(q) \/ IngestFails(q) \/ RecordRemoval(q) \/ Sweep(q) \/ Receive(q)
                     \/ ReceiveDelete(q) \/ DropEvents(q) \/ LoseDeletes(q)
              PROVE  FALSE
          BY <5>3, <5>5
          DEF Write, Delete, Ingest, IngestFails, RecordRemoval, Sweep, Receive, ReceiveDelete, DropEvents, LoseDeletes, session
        <5>6. ASSUME NEW f \in flushes[q], FlushRead(q, f) \/ FlushNothing(q, f) \/ FlushWrite(q, f) \/ FlushFails(q, f)
              PROVE  FALSE
          BY <5>3, <5>6 DEF FlushRead, FlushNothing, FlushWrite, FlushFails, session
        <5>7. ~(Answer(q) \/ Subscribe(q) \/ Push(q) \/ Reconciles(q))
          BY <5>2 DEF Answer, Subscribe, Push, Reconciles, Reconcile
        <5>8. QED
          BY <5>1, <5>4, <5>5, <5>6, <5>7 DEF Acts
      <4>2. /\ \A d \in Devices : stage'[d] = "answer" /\ owed'[d]
            /\ tombs' = tombs /\ raced' = raced
        BY <4>1 DEF Connect, control
      <4>3. \A d \in Devices : Passed(d)' /\ Unmasked(d)'
        BY <4>2 DEF Passed, Pushed, Unmasked
      <4>4. ~raced
        BY <4>2 DEF Clean
      <4>5. Survives' => Survives
        BY <4>2 DEF Survives, Alive
      <4>6. ~Survives' => ~Survives
        BY <4>2 DEF Survives, Alive
      <4>7. ~Survives' => Calm'
        BY <1>0, <4>1, <4>4, <4>6, CalmConnect
      <4>8. Doomed'
        BY <1>0, <4>1, DoomedConnect
      <4>9. QED
        BY <4>3, <4>7, <4>8 DEF Undisturbed
    <3>3. QED
      BY <3>1, <3>2
  <2>6. QED
    BY <2>1, <2>2, <2>3, <2>4, <2>5 DEF Meets
<1>2. CASE UNCHANGED vars
  BY <1>2, SameMeets
<1>3. QED
  BY <1>1, <1>2

\* Devices whose documents have all of each other have the same.
LEMMA DocsAgree ==
  ASSUME Types, Calm, \A d \in Devices : Pushed(d) /\ frames[d] = <<>> /\ docs[d] # Absent
  PROVE  docs[1] = docs[2]
<1>0. docs[1] \in Doc /\ docs[2] \in Doc /\ 1 \in Devices /\ 2 \in Devices /\ Peer(1) = 2 /\ Peer(2) = 1
  BY DEF Types, LocalOK, DocOrNone, Devices, Peer
<1>1. DocOr(docs[1]) = docs[1] /\ DocOr(docs[2]) = docs[2]
  BY <1>0 DEF DocOr
<1>2. DOMAIN frames[1] = {} /\ DOMAIN frames[2] = {}
  BY <1>0
<1>3. docs[1].ins \subseteq docs[2].ins /\ docs[1].del \subseteq docs[2].del
  BY <1>0, <1>1, <1>2 DEF Calm, Shared, Comes, Goes
<1>4. docs[2].ins \subseteq docs[1].ins /\ docs[2].del \subseteq docs[1].del
  BY <1>0, <1>1, <1>2 DEF Calm, Shared, Comes, Goes
<1>5. docs[1].ins = docs[2].ins /\ docs[1].del = docs[2].del
  BY <1>3, <1>4
<1>6. QED
  BY <1>0, <1>5 DEF Doc

\* Where all that was under way has arrived the files agree.
LEMMA SettledMeet ==
  ASSUME Deletions, TiedUnlessRaced, Meets
  PROVE  DisksMeet
<1> SUFFICES ASSUME \A d \in Devices : stage[d] = "live" /\ Settled(d), ~raced, ~deferred, ~(missed > 0)
             PROVE  \/ disk = [d \in Devices |-> Absent]
                    \/ Absent \notin {disk[1], disk[2]} /\ disk[1].text = disk[2].text
  BY DEF DisksMeet
<1>0. /\ Types /\ OneEntry /\ disk \in [Devices -> File \cup {Absent}] /\ frames \in [Devices -> Seq(Sent)]
      /\ docs \in [Devices -> DocOrNone]
  BY DEF Deletions, Basics, Types, LocalOK, StreamOK
<1>1. Clean
  <2>1. missed \in Nat
    BY DEF Deletions, Basics, Types, SpentOK
  <2>2. QED
    BY <2>1 DEF Clean, Open, Devices
<1>2. \A d \in Devices : /\ Passed(d) /\ Unmasked(d) /\ Handshake(d) /\ Tied(d)
                         /\ events[d] = <<>> /\ flushes[d] = {} /\ ~Untracked(d) /\ frames[d] = <<>> /\ deletes[d] = 0
                         /\ Pushed(d) /\ ~Opening(d) /\ stage[d] = "live"
  BY <1>1 DEF Meets, Undisturbed, Handshakes, TiedUnlessRaced, Clean, Settled, Pushed, Opening
<1>3. \A d \in Devices : ~owed[d] /\ DOMAIN frames[d] = {} /\ ~Unheard(d) /\ ~FileTo(d)
  BY <1>2 DEF Handshake, Unheard, FileTo, FileAt
<1>4. CASE Survives
  <2>1. PICK e \in Item, q \in Devices : Alive(e) /\ e \in tombs[q].items
    BY <1>4 DEF Survives
  <2>2. PICK o \in Devices : o = Peer(q) /\ \A d \in Devices : d = q \/ d = o
    BY DEF Peer, Devices
  <2>3. e \in tombs[o].items
    <3>1. 0 \in Nat /\ 0 >= Len(frames[o])
      BY <1>2
    <3>2. Arrived(o, 0, e)
      BY <1>2, <2>1, <2>2, <3>1 DEF Passed
    <3>3. QED
      BY <1>3, <3>2 DEF Arrived
  <2>4. \A d \in Devices : IsDeleted(tombs[d])
    BY <1>2, <1>3, <2>1, <2>2, <2>3, AliveIsDeleted
  <2>5. \A d \in Devices : disk[d] = Absent
    <3>1. \A d \in Devices : Removable(d) /\ ~Refusal(d)
      BY <1>1, <1>3, <1>4, PeerIs DEF Meets, Undisturbed, Doomed, Refusal
    <3>2. QED
      BY <1>2, <2>4, <3>1 DEF Removable, Watched
  <2>6. QED
    BY <1>0, <2>5
<1>5. CASE ~Survives
  <2>1. Calm
    BY <1>1, <1>5 DEF Meets, Undisturbed
  <2>2. \A d \in Devices : ~IsDeleted(tombs[d])
    BY <1>0, <1>3, <1>5, <2>1, InformedNotDeleted DEF Calm, Informed
  <2>3. \A d \in Devices : docs[d] = Absent => disk[d] = Absent
    BY <1>2, <2>2 DEF Untracked
  <2>4. \A d \in Devices : docs[d] # Absent => docs[Peer(d)] # Absent
    BY <1>2, <1>3, <2>1, PeerIs DEF Calm, Offered
  <2>5. CASE \E d \in Devices : docs[d] = Absent
    <3>1. \A d \in Devices : docs[d] = Absent
      BY <2>4, <2>5 DEF Devices, Peer
    <3>2. QED
      BY <1>0, <2>3, <3>1
  <2>6. CASE \A d \in Devices : docs[d] # Absent
    <3>1. ASSUME NEW d \in Devices PROVE disk[d] # Absent /\ disk[d].text = TextOf(docs[d])
      <4>1. ~Due(d)
        <5>1. PICK p \in Devices : p = Peer(d)
          BY PeerIs
        <5>2. QED
          BY <1>2, <1>3, <2>6, <5>1 DEF Due, AnyFile
      <4>2. saved[d] # Absent
        BY <2>1, <2>6, <4>1 DEF Calm, Bare
      <4>3. disk[d] # Absent
        BY <1>2, <1>3, <4>2 DEF Tied, RemovalUnheard
      <4>4. QED
        BY <1>2, <2>6, <4>2, <4>3 DEF Tied, TextComes
    <3>2. docs[1] = docs[2]
      BY <1>0, <1>2, <2>1, <2>6, DocsAgree
    <3>3. 1 \in Devices /\ 2 \in Devices
      BY DEF Devices
    <3>4. QED
      BY <3>1, <3>2, <3>3
  <2>7. QED
    BY <2>5, <2>6
<1>6. QED
  BY <1>4, <1>5

\* Once devices with a live stream have settled they hold the same file, or both none: unless a flush, an event or a
\* deletion came too late, a step was lost to a busy document or file, or the stream left something to the next one.
\* Whatever was written, removed or read on either device while the stream opened, pushed and reconciled has arrived.
THEOREM DisksAgree ==
  ASSUME FileSyncAssumption
  PROVE  Spec => []DisksMeet
<1>1. Init => Meets
  BY InitMeets
<1>2. Deletions /\ Deletions' /\ TiedUnlessRaced /\ Meets /\ [Next]_vars => Meets'
  BY MeetsStep
<1>3. Deletions /\ TiedUnlessRaced /\ Meets => DisksMeet
  BY SettledMeet
<1>4. QED
  BY <1>1, <1>2, <1>3, DeletionsHold, TiedHold, PTL DEF Spec
=============================================================================
