------------------------- MODULE FileSyncInvariants -------------------------
(***************************************************************************)
(* What the proofs about FileSync speak of: what the variables range over, *)
(* the invariants that the theorems of FileSyncProofs rest on, and the     *)
(* forms that steps take in them.                                          *)
(***************************************************************************)
EXTENDS FileSync

\* Entries of the deletions map, tombstones, documents, frames, flushes and files.
Chain == Seq(Nat)
Item == [chain : Chain, ts : Nat]
Tomb == {t \in [items : SUBSET Item, dead : SUBSET Chain] : IsFiniteSet(t.items)}
Chunk == [id : Ids, text : Text, after : SUBSET Ids]
Doc == [ins : SUBSET Chunk, del : SUBSET Ids]
DocOrNone == Doc \cup {Absent}
Sent == [control : Tomb, file : DocOrNone]
Flush == [at : {"read", "write"}, doc : Doc, late : BOOLEAN]
File == [text : Text, at : Nat]
Stages == {"off", "answer", "subscribe", "push", "reconcile", "live"}

\* The variables of a device, of the stream, of the control document, and the counters.
LocalOK ==
  /\ disk \in [Devices -> File \cup {Absent}]
  /\ docs \in [Devices -> DocOrNone] /\ saved \in [Devices -> DocOrNone]
  /\ flag \in [Devices -> BOOLEAN]
  /\ events \in [Devices -> Seq({"touch", "remove"})]
  /\ flushes \in [Devices -> SUBSET Flush]

StreamOK ==
  /\ stage \in [Devices -> Stages] /\ asked \in [Devices -> BOOLEAN] /\ owed \in [Devices -> BOOLEAN]
  /\ told \in [Devices -> SUBSET Ids]
  /\ frames \in [Devices -> Seq(Sent)] /\ deletes \in [Devices -> Nat]

ControlOK ==
  /\ tombs \in [Devices -> Tomb] /\ client \in [Devices -> Nat]

SpentOK ==
  /\ now \in Nat
  /\ spent \in [writes : Nat, others : Nat, chunks : [Devices -> Nat]]
  /\ spent.writes + spent.others <= MaxEvents
  /\ \A d \in Devices : spent.chunks[d] <= MaxChunks
  /\ erased \in SUBSET Devices /\ deferred \in BOOLEAN /\ raced \in BOOLEAN /\ missed \in Nat

\* A reconciliation whatever it decides, and a start whatever it finds in control.json.
Reconciles(d) == \E kept \in BOOLEAN : Reconcile(d, kept)
Starts(d) == \E ts \in Remembered(d), kept \in BOOLEAN : Restart(d, ts, kept)

Types == LocalOK /\ StreamOK /\ ControlOK /\ SpentOK

\* The chunk that replaces a text.
NewChunk(d, doc, text) ==
  [id |-> <<d, spent.chunks[d] + 1>>, text |-> text, after |-> IdsOf(doc)]

-----------------------------------------------------------------------------
(* The order of tombstones                                                 *)

\* One chain continues another.
Extends(b, a) == Len(a) < Len(b) /\ SubSeq(b, 1, Len(a)) = a

\* Chains part at i.
PartsAt(a, b, i) ==
  /\ i \in 1 .. Len(a) /\ i \in 1 .. Len(b)
  /\ a[i] < b[i] /\ \A k \in 1 .. i - 1 : a[k] = b[k]

\* Items of a tombstone are told apart by their chains.
Single(t) == \A x, y \in t.items : x.chain = y.chain => x = y

\* The last of some items.
LastOf(m, T) == m \in T /\ \A o \in T : o = m \/ Before(o.chain, m.chain)

-----------------------------------------------------------------------------
(* The invariant                                                           *)

\* No file is from the future.
Times == \A d \in Devices : disk[d] # Absent => disk[d].at <= now

\* A closed stream has nothing on the way.
Closed ==
  /\ stage[1] = "off" <=> stage[2] = "off"
  /\ stage[1] = "off" => \A d \in Devices : frames[d] = <<>> /\ deletes[d] = 0 /\ ~owed[d]

\* An entry of a tombstone is somewhere.
Afoot(x) ==
  \E d \in Devices : \/ x \in tombs[d].items
                     \/ \E i \in DOMAIN frames[d] : x \in frames[d][i].control.items

\* The client that made an entry.
Author(x) == x.chain[Len(x.chain)]

\* Client ids are new at each start, a device has all that it made itself since, and so
\* nobody has two entries with the same chain.
Clients ==
  /\ client[1] # client[2]
  /\ \A d \in Devices : client[d] < 3 + spent.others
\* Every entry has an author that was started, and whose device has the entry.
Entries ==
  \A x \in Item : Afoot(x) =>
    /\ Len(x.chain) \in 1 .. MaxTombstones
    /\ Author(x) < 3 + spent.others
    /\ \A d \in Devices : Author(x) = client[d] => x \in tombs[d].items
\* A chain stands for one entry.
OneEntry == \A x, y \in Item : Afoot(x) /\ Afoot(y) /\ x.chain = y.chain => x = y

\* A document is somewhere.
InUse(x) ==
  \E d \in Devices : \/ x \in {docs[d], saved[d]}
                     \/ \E f \in flushes[d] : x = f.doc
                     \/ \E i \in DOMAIN frames[d] : x = frames[d][i].file

\* An id was given out.
Given(i) == i[2] <= IF i[1] = 0 THEN 1 ELSE spent.chunks[i[1]]

\* Documents speak of ids that were given out, and an id stands for one chunk everywhere.
Numbered ==
  \A x \in Doc : InUse(x) =>
    /\ \A c \in x.ins : Given(c.id) /\ \A i \in c.after : Given(i)
    /\ \A i \in x.del : Given(i)
\* An id stands for one chunk.
OneChunk ==
  \A x, y \in Doc : InUse(x) /\ InUse(y) => \A b \in x.ins, c \in y.ins : b.id = c.id => b = c

\* The first part of the invariant.
Basics == Types /\ Times /\ Closed /\ Clients /\ Entries /\ OneEntry /\ Numbered /\ OneChunk

-----------------------------------------------------------------------------
(* Tombstones                                                              *)

\* The entry that a device records, and what it does to its tombstone.
NewEntry(d) ==
  [chain |-> IF tombs[d].items = {} THEN <<client[d]>> ELSE Append(Last(tombs[d]).chain, client[d]),
   ts |-> now + 1]

-----------------------------------------------------------------------------
(* What is sent                                                            *)

\* What is answered and what is pushed.
Answered(d) == IF asked[d] THEN Diff(DocOr(docs[d]), told[d]) ELSE Absent
PushedDoc(d) == CASE Advertised(d) /\ News(d) -> IF asked[d] THEN Diff(docs[d], told[d]) ELSE docs[d]
                  [] ~(Advertised(d) /\ News(d)) -> Absent

-----------------------------------------------------------------------------
(* What the operations on the file, the document and the flushes make      *)

\* A file that is read, the text it gives the document, and what is sent.
Reads(d) == ~flag[d] /\ disk[d] # Absent
Changes(d) == Reads(d) /\ TextOf(DocOr(docs[d])) # disk[d].text
Change(d) == Replacement(d, DocOr(docs[d]), disk[d].text)

-----------------------------------------------------------------------------
(* Types                                                                   *)

\* What a restart finds: whether the file goes, whether it is restored, from what, and whether
\* it was edited since.
Gone(ts, kept) == ts # NoTime /\ ~kept
Here(d, ts, kept) == disk[d] # Absent /\ ~Gone(ts, kept)
Old(d) == DocOr(saved[d])
Edited(d, ts, kept) == Here(d, ts, kept) /\ TextOf(Old(d)) # disk[d].text
Edit(d) == Replacement(d, Old(d), disk[d].text)
Restored(d, ts, kept) == IF Edited(d, ts, kept) THEN Merge(Old(d), Edit(d)) ELSE Old(d)
Fresh == 3 + spent.others
FreshEntry(ts) == [chain |-> <<Fresh>>, ts |-> ts]

\* What a restart does.
Restarted(d, ts, kept) ==
  /\ Off
  /\ Old(d) \in Doc /\ Restored(d, ts, kept) \in Doc
  /\ Edited(d, ts, kept) => spent.chunks[d] < MaxChunks /\ disk[d].text \in Text /\ Edit(d) \in Doc
  /\ spent' = [spent EXCEPT !.others = @ + 1, !.chunks[d] = IF Edited(d, ts, kept) THEN @ + 1 ELSE @]
  /\ spent.writes + spent.others < MaxEvents
  /\ client' = [client EXCEPT ![d] = Fresh]
  /\ docs' = [docs EXCEPT ![d] = IF Here(d, ts, kept) THEN Restored(d, ts, kept) ELSE Absent]
  /\ saved' = [saved EXCEPT ![d] = IF Gone(ts, kept) THEN Absent ELSE IF Here(d, ts, kept) THEN Restored(d, ts, kept) ELSE @]
  /\ disk' = [disk EXCEPT ![d] = IF Here(d, ts, kept) THEN @ ELSE Absent]
  /\ flag' = [flag EXCEPT ![d] = FALSE] /\ events' = [events EXCEPT ![d] = <<>>]
  /\ flushes' = [flushes EXCEPT ![d] = {}]
  /\ \A o \in Devices : o # d => tombs'[o] = tombs[o]
  /\ tombs'[d].items = IF ts # NoTime THEN {FreshEntry(ts)} ELSE {}
  /\ ts # NoTime => FreshEntry(ts) \in Item /\ ts \in Nat
  /\ tombs' \in [Devices -> Tomb]
  /\ raced' = (raced \/ Unheard(d) \/ Forgets(d) \/ ts # Value(d) \/ (IsDeleted(tombs[d]) /\ kept # Spared(d)))
  /\ UNCHANGED <<now, erased, deferred, missed>>

-----------------------------------------------------------------------------
(* The entries of tombstones                                               *)

\* Nothing new is known of tombstones: devices keep their entries, and every entry was afoot.
NothingRecorded ==
  /\ \A d \in Devices : tombs[d].items \subseteq tombs'[d].items
  /\ \A x \in Item : Afoot(x)' => Afoot(x)

-----------------------------------------------------------------------------
(* Documents and their chunks                                              *)

\* Some document has the chunk, or speaks of the id.
HasChunk(c) == \E x \in Doc : InUse(x) /\ c \in x.ins
HasId(i) == \E x \in Doc : InUse(x) /\ (i \in x.del \/ \E c \in x.ins : i = c.id \/ i \in c.after)

\* A document is made of what documents had, or of that and one chunk.
OldDoc(x) == x \in Doc => (\A c \in x.ins : HasChunk(c)) /\ (\A i \in x.del : HasId(i))
NewDoc(x, n) == x \in Doc => (\A c \in x.ins : HasChunk(c) \/ c = n) /\ (\A i \in x.del : HasId(i))

\* A text that is read makes one chunk, with the next number of the device.
Makes(d, n) ==
  /\ n \in Chunk /\ n.id = <<d, spent.chunks[d] + 1>> /\ \A i \in n.after : HasId(i)
  /\ \A x \in Doc : InUse(x)' => NewDoc(x, n)
  /\ spent'.chunks = [spent.chunks EXCEPT ![d] = @ + 1]

\* Nothing is made.
MakesNothing ==
  /\ \A x \in Doc : InUse(x)' => OldDoc(x)
  /\ spent'.chunks = spent.chunks

-----------------------------------------------------------------------------
(* The invariant holds                                                     *)

\* The document of a file that is there from the start.
First == [ins |-> {[id |-> <<0, 1>>, text |-> {0}, after |-> {}]}, del |-> {}]

-----------------------------------------------------------------------------
(* The saved state of a document and its file                              *)

\* What ties the file, the document and its saved state on a device, race apart.  A document that
\* is gone has no saved state, and its flushes are late.
GoneTogether(d) == docs[d] = Absent => saved[d] = Absent /\ ~flag[d] /\ \A f \in flushes[d] : f.late

\* A saved state without a file has a removal to be heard.
RemovalUnheard(d) == disk[d] = Absent /\ saved[d] # Absent => Unheard(d)

\* A flush's own event is still to come.
OwnEventComes(d) == flag[d] => events[d] # <<>>

\* The saved state is that of the document when no flush is under way.
Saved(d) == docs[d] # Absent /\ saved[d] # Absent /\ flushes[d] = {} => saved[d] = docs[d]
\* A text that is not the document's has an event that will be read.
TextComes(d) ==
  Absent \notin {disk[d], docs[d], saved[d]} /\ flushes[d] = {} =>
    \/ TextOf(docs[d]) = disk[d].text
    \/ events[d] # <<>> /\ (flag[d] => Len(events[d]) >= 2)

Tied(d) == GoneTogether(d) /\ RemovalUnheard(d) /\ OwnEventComes(d) /\ Saved(d) /\ TextComes(d)
TiedUnlessRaced == ~raced /\ missed = 0 => \A d \in Devices : Tied(d)

\* A device that nothing happened to.
Still(o) ==
  /\ disk'[o] = disk[o] /\ docs'[o] = docs[o] /\ saved'[o] = saved[o]
  /\ flag'[o] = flag[o] /\ events'[o] = events[o] /\ flushes'[o] = flushes[o]

\* A race is not forgotten, nothing happens to the other device, and without a race the device that
\* acts stays tied.
TiedBy(d) ==
  /\ raced => raced'
  /\ missed' = missed \/ missed' # 0
  /\ \A o \in Devices \ {d} : Still(o)
  /\ ~raced' /\ missed' = 0 /\ missed = 0 /\ Tied(d) => Tied(d)'

\* The actions of one device.
Acts(d) ==
  \/ Write(d) \/ Delete(d) \/ Ingest(d) \/ IngestFails(d) \/ RecordRemoval(d) \/ Sweep(d)
  \/ \E f \in flushes[d] :
       FlushRead(d, f) \/ FlushNothing(d, f) \/ FlushWrite(d, f) \/ FlushFails(d, f)
  \/ Answer(d) \/ Subscribe(d) \/ Push(d) \/ Reconciles(d) \/ Receive(d) \/ ReceiveDelete(d)
  \/ DropEvents(d) \/ LoseDeletes(d) \/ Starts(d)

-----------------------------------------------------------------------------
(* Deletions that stick                                                    *)

\* What a device knows once it has read k of the frames on the way to it: the entries that have
\* arrived, and those that are removed.
Arrived(q, k, e) ==
  e \in tombs[q].items \/ \E i \in DOMAIN frames[q] : i <= k /\ e \in frames[q][i].control.items
Struck(q, k, e) ==
  e.chain \in tombs[q].dead \/ \E i \in DOMAIN frames[q] : i <= k /\ e.chain \in frames[q][i].control.dead

\* Then some deletion stands.
Standing(q, k) == \E e \in Item : Arrived(q, k, e) /\ ~Struck(q, k, e)

\* A deletion that nobody removed.
Alive(e) == \A q \in Devices : e.chain \notin tombs[q].dead
Survives == \E e \in Item : Alive(e) /\ \E q \in Devices : e \in tombs[q].items

\* The file is deleted, and remains so whatever is read.
Core(q) == IsDeleted(tombs[q]) /\ Survives /\ \A k \in Nat : Standing(q, k)

\* The file is gone, and no flush brings it back.
Body(q) == disk[q] = Absent /\ \A f \in flushes[q] : f.late

Sticky(q) == Body(q) /\ Core(q)

\* A device knows a deletion that no file is younger than.
Latest(q) == \E g \in Item : g \in tombs[q].items /\ Alive(g) /\ g.ts = now

\* Nobody clears the deletion: on the other device the file is gone too, or is older.
Held(d) == Sticky(d) /\ (Sticky(Peer(d)) \/ Latest(d))

\* Where a user deleted the file it is gone, and the deletion is to be heard, or held.
Phase == ~raced => \A d \in erased : disk[d] = Absent /\ (Unheard(d) \/ Held(d))

\* What is on the way to a device is known to the one that sent it.
Known ==
  \A q \in Devices : \A i \in DOMAIN frames[q] :
    /\ frames[q][i].control.items \subseteq tombs[Peer(q)].items
    /\ frames[q][i].control.dead \subseteq tombs[Peer(q)].dead

\* An entry that was removed was made by a client that was started, and its device has it.
Made(x) ==
  /\ x \in Chain /\ Len(x) >= 1 /\ x[Len(x)] < 3 + spent.others
  /\ \A r \in Devices : x[Len(x)] = client[r] => \E e \in tombs[r].items : e.chain = x
DeadMade == \A q \in Devices : \A x \in tombs[q].dead : Made(x)

\* No deletion is from the future.
Stamped == \A q \in Devices : \A e \in tombs[q].items : e.ts <= now

\* The invariant of deletions.
Deletions == Basics /\ Known /\ DeadMade /\ Stamped /\ Phase

\* How the deletions maps and what is on the way move.  Nothing happens, or what is on the way is lost.
Idle ==
  /\ UNCHANGED tombs
  /\ \A q \in Devices : frames'[q] = frames[q] \/ frames'[q] = <<>>

\* A device sends all that it knows, or nothing of deletions.
Tells(p) ==
  /\ UNCHANGED tombs
  /\ \E f \in Sent : /\ f.control = tombs[p] \/ f.control = NoTombs
                     /\ frames' = [frames EXCEPT ![Peer(p)] = Append(@, f)]

\* A device changes its map, and sends the change if a stream listens.
Announces(p, t) ==
  /\ tombs' = [tombs EXCEPT ![p] = Joined(@, t)]
  /\ \/ UNCHANGED frames
     \/ \E f \in Sent : f.control = t /\ frames' = [frames EXCEPT ![Peer(p)] = Append(@, f)]

\* A device reads a frame.
Hears(r) ==
  /\ frames[r] # <<>> /\ frames' = [frames EXCEPT ![r] = Tail(@)]
  /\ tombs' = [tombs EXCEPT ![r] = Joined(@, Head(frames[r]).control)]

\* Deletions move between devices: nothing is forgotten, made or removed.
Moves ==
  /\ \A q \in Devices : tombs[q].items \subseteq tombs'[q].items
  /\ \A q \in Devices : \A e \in tombs'[q].items : \E o \in Devices : e \in tombs[o].items
  /\ \A q \in Devices : \A x \in tombs'[q].dead : \E o \in Devices : x \in tombs[o].dead
  /\ Known'

\* A deletion that sticks goes on to be known, and the latest one to be the latest.
Kept ==
  \A q \in Devices : /\ Sticky(q) => Core(q)'
                     /\ Sticky(q) /\ Latest(q) => Latest(q)'

\* What is held goes on to be known, and is the latest or known to both.
HeldOn ==
  \A d \in Devices : Held(d) => /\ Core(d)'
                                /\ Latest(d)' \/ (Sticky(Peer(d)) /\ Core(Peer(d))')

\* The maps grow by what is known, and what is removed was an entry.
Grown ==
  /\ \A q \in Devices : tombs[q].items \subseteq tombs'[q].items
  /\ \A q \in Devices : \A e \in tombs'[q].items : \E o \in Devices : e \in tombs[o].items
  /\ \A q \in Devices : \A x \in tombs'[q].dead :
       \E o \in Devices : x \in tombs[o].dead \/ \E e \in tombs[o].items : x = e.chain
  /\ Known'

\* The file of a deletion that sticks stays gone, and a removal that is to be heard stays so; a user who
\* deletes the file has it gone, and its removal is to be heard.
BodyOn(q) ==
  /\ Sticky(q) => Body(q)'
  /\ disk[q] = Absent /\ Unheard(q) => disk'[q] = Absent /\ Unheard(q)'
BodiesOn ==
  /\ \A q \in Devices : BodyOn(q)
  /\ \A q \in erased' : q \in erased \/ (disk'[q] = Absent /\ Unheard(q)')

-----------------------------------------------------------------------------
(* A stream that is open                                                   *)

Open == stage[1] # "off"
Opening(d) == stage[d] \in {"answer", "subscribe"}
Pushed(d) == stage[d] \in {"reconcile", "live"}

\* A device sends a frame.
Sends(p, f) == frames' = [frames EXCEPT ![Peer(p)] = Append(@, f)]

\* How far the handshake is: what a device is owed is on the way when the other has answered, and before it
\* pushes nothing else is.
Handshake(d) ==
  /\ owed[d] => Opening(d)
  /\ owed[d] => (stage[Peer(d)] = "answer" <=> frames[d] = <<>>)
  /\ ~owed[d] => stage[Peer(d)] # "answer"
  /\ Opening(Peer(d)) => Len(frames[d]) <= IF owed[d] THEN 1 ELSE 0
Handshakes == Open => \A d \in Devices : Handshake(d)

-----------------------------------------------------------------------------
(* A document without a saved state                                        *)

\* Nothing was written to it, unless its flush is to come or a step was lost, and the file, if there is
\* one, is a user's.
Unsaved(d) ==
  missed = 0 /\ saved[d] = Absent =>
    /\ docs[d] # Absent /\ flushes[d] = {} => docs[d] = EmptyDoc
    /\ ~flag[d]
    /\ disk[d] # Absent => disk[d].text # Blank

-----------------------------------------------------------------------------
(* What one device removed and the other does not know to be gone          *)

\* A device clears its deletion, race apart because it has the file.
Clears(p) ==
  /\ Announces(p, Cleared(p)) /\ IsDeleted(tombs[p])
  /\ ~raced' => disk[p] # Absent

\* A device has the file, or is to hear that it went.
Touched(q) == disk[q] # Absent \/ Unheard(q)

\* An entry that the other device has removed was removed by this one too, or the other has it.
KnownDead ==
  \A d \in Devices : \A x \in tombs[Peer(d)].items :
    x.chain \in tombs[d].dead => x.chain \in tombs[Peer(d)].dead \/ x \in tombs[d].items

\* No entry that arrives with the first k frames is put after this one.
Newest(d, k, e) == \A o \in Item : Arrived(d, k, o) => o = e \/ Before(o.chain, e.chain)

\* A deletion that is the device's once it has read k frames was removed by the other device.
Missed(d, k, e) ==
  Arrived(d, k, e) /\ ~Struck(d, k, e) /\ Newest(d, k, e) /\ e.chain \in tombs[Peer(d)].dead

\* The other one has the file, will hear that it went, or knows another deletion.
Excused(d, k) ==
  \/ Touched(Peer(d))
  \/ \E g \in tombs[Peer(d)].items : g.chain \notin tombs[Peer(d)].dead /\ ~Arrived(d, k, g)

\* Who removes a deletion has the file that outdates it.
Outdated == ~raced => \A d \in Devices, k \in Nat, e \in Item : Missed(d, k, e) => Excused(d, k)

-----------------------------------------------------------------------------
(* What a stream does that nothing disturbs                                *)

\* A stream that is open, and to which nothing happened that excuses a difference.
Clean == Open /\ ~raced /\ ~deferred /\ missed = 0

\* A device has no file, or will read it.
Watched(d) == disk[d] = Absent \/ events[d] # <<>>
WatchedOn == \A d \in Devices : IsDeleted(tombs[d]) /\ Watched(d) => Watched(d)'

\* Nothing happens to the stream and the documents.
Quiet == UNCHANGED <<tombs, frames, deletes, stage, owed, asked, told, docs>> /\ WatchedOn

\* A file is read that changes the document by u, which is sent if a stream listens.
Edits(p, u) ==
  /\ UNCHANGED <<tombs, deletes, stage, owed, asked, told>> /\ WatchedOn
  /\ ~IsDeleted(tombs[p]) /\ docs' = [docs EXCEPT ![p] = Merge(DocOr(@), u)] /\ docs'[p] # EmptyDoc
  /\ IF Listening(p) THEN Sends(p, Frame(NoTombs, u)) ELSE frames' = frames

\* A reconciliation that spares nothing.
Settles(p) ==
  /\ stage[p] = "reconcile" /\ stage' = [stage EXCEPT ![p] = "live"]
  /\ UNCHANGED <<tombs, frames, deletes, owed, asked, told>>
  /\ IF IsDeleted(tombs[p]) THEN Remove(p) ELSE UNCHANGED local

\* The steps of such a stream, but for a removal recorded.
Flows ==
  \/ Quiet
  \/ \E p \in Devices : \/ \E u \in Doc : Edits(p, u)
                        \/ Answer(p) \/ Subscribe(p) \/ Push(p) \/ Settles(p) \/ Receive(p) \/ ReceiveDelete(p)

\* A file on the way to a device, the answer of the handshake apart.
FileAt(q, i) == i \in DOMAIN frames[q] /\ (owed[q] => i >= 2) /\ frames[q][i].file # Absent
FileTo(q) == \E i \in Nat : FileAt(q, i)

\* What a device reads is deleted stands out, once the handshake's answer was read.
Unmasked(d) == ~owed[d] => ~Masked(tombs[d])

\* What one device is sent in such a step: nothing, all that the other one knows of deletions, the change of a file,
\* or it reads a frame.
Untold(d) == tombs'[d] = tombs[d] /\ frames'[d] = frames[d] /\ owed'[d] = owed[d]
Told(d, f) == tombs' = tombs /\ owed' = owed /\ frames' = [frames EXCEPT ![d] = Append(@, f)] /\ Sends(Peer(d), f)
\* What it answers, or pushes.
Opens(p, f) ==
  \/ Answer(p) /\ f.file = Answered(p)
  \/ Push(p) /\ f.file = PushedDoc(p)

\* What a device has pushed, or sent since, has arrived when the other one has read all that is on the way.
Passed(d) ==
  Pushed(d) => \A e \in tombs[d].items, k \in Nat : k >= Len(frames[Peer(d)]) => Arrived(Peer(d), k, e)

-----------------------------------------------------------------------------
(* A stream without a deletion that nobody removed                         *)

\* All that one map has is in another.
Sub(t, o) == t.items \subseteq o.items /\ t.dead \subseteq o.dead

\* Once the handshake's answer is read a device knows all that the other knows of deletions, before it is to learn
\* all from the answer, and no deletion is on the way.
Informed(d) ==
  /\ ~owed[d] => Sub(tombs[Peer(d)], tombs[d])
  /\ owed[d] /\ stage[Peer(d)] # "answer" => Sub(tombs[Peer(d)], Joined(tombs[d], frames[d][1].control))
  /\ deletes[d] = 0

\* What stands with some of the frames read stands with more.
StandsOn(d) == \A k \in Nat : (owed[d] => k >= 1) /\ Standing(d, k) => Standing(d, k + 1)

-----------------------------------------------------------------------------
(* Documents in such a stream                                              *)

\* A file that is asked for has a document where it was advertised.
AskedFor(d) == asked[d] => docs[Peer(d)] # Absent

\* A step of it.
CalmFlow ==
  /\ Basics /\ Basics' /\ Known /\ Handshakes /\ Handshakes' /\ Clean /\ Clean' /\ ~Survives /\ ~Survives'
  /\ (\A d \in Devices : Informed(d)) /\ (\A d \in Devices : Informed(d)')
  /\ (\A d \in Devices : AskedFor(d)) /\ Flows

\* How the document of a device grows.
Grows(d) ==
  /\ docs[d] # Absent => docs'[d] # Absent
  /\ DocOr(docs[d]).ins \subseteq DocOr(docs'[d]).ins
  /\ DocOr(docs[d]).del \subseteq DocOr(docs'[d]).del

\* What the peer said to have when it asked it has.
Claimed(d) == told[d] \subseteq IdsOf(DocOr(docs[Peer(d)]))

\* A file on the way is in the document of its sender.
Sourced(d) ==
  \A i \in DOMAIN frames[d] : frames[d][i].file # Absent =>
    /\ docs[Peer(d)] # Absent
    /\ frames[d][i].file.ins \subseteq DocOr(docs[Peer(d)]).ins
    /\ frames[d][i].file.del \subseteq DocOr(docs[Peer(d)]).del

\* An insertion or a removal that is in a document or on the way to it.
Comes(q, c) ==
  \/ c \in DocOr(docs[q]).ins
  \/ \E i \in DOMAIN frames[q] : frames[q][i].file # Absent /\ c \in frames[q][i].file.ins
Goes(q, c) ==
  \/ c \in DocOr(docs[q]).del
  \/ \E i \in DOMAIN frames[q] : frames[q][i].file # Absent /\ c \in frames[q][i].file.del

\* All of a document that was pushed is in the other, or on the way to it.
Shared(d) ==
  Pushed(d) => /\ \A c \in DocOr(docs[d]).ins : Comes(Peer(d), c)
               /\ \A c \in DocOr(docs[d]).del : Goes(Peer(d), c)

\* A document that was pushed is on the way to the other device, or the other has one.
Offered(d) ==
  Pushed(d) /\ docs[d] # Absent => FileTo(Peer(d)) \/ docs[Peer(d)] # Absent

\* A file on the way, the answer of the handshake included.
AnyFile(d) == \E i \in DOMAIN frames[d] : frames[d][i].file # Absent

\* A document without a saved state: its flush is to come, or a file that will be flushed, or the other device is to
\* send its document, to read its file, or to hear that it went.
Due(d) ==
  \/ flushes[d] # {} \/ AnyFile(d)
  \/ asked[Peer(d)] /\ stage[Peer(d)] = "answer"
  \/ /\ docs[Peer(d)] # Absent /\ stage[Peer(d)] \in {"answer", "subscribe", "push"}
     /\ asked[Peer(d)] => docs[Peer(d)] # EmptyDoc
  \/ docs[Peer(d)] = Absent /\ Touched(Peer(d))
  \/ docs[Peer(d)] = EmptyDoc /\ saved[Peer(d)] = Absent /\ Unheard(Peer(d))
Bare(d) == docs[d] # Absent /\ saved[d] = Absent => Due(d)

\* All that holds of such a stream.
Calm ==
  \A d \in Devices :
    Informed(d) /\ AskedFor(d) /\ Claimed(d) /\ Sourced(d) /\ Shared(d) /\ Offered(d) /\ Bare(d)

-----------------------------------------------------------------------------
(* A stream with a deletion that nobody removed                            *)

\* The other device is to refuse a file, so that this stream leaves something to the next one.
Refusal(d) == FileTo(Peer(d)) /\ \E e \in tombs[Peer(d)].items : Alive(e)

\* A file that will be applied is followed by a deletion; a device that knows of the deletion has removed the file or is
\* to read an event of it, and one that does not has nothing, unless a deletion or a refusal is to come.
Foreseen(d) == \A i \in Nat : FileAt(d, i) /\ ~Standing(d, i) => deletes[d] > 0
Removable(d) == stage[d] = "live" /\ IsDeleted(tombs[d]) => Watched(d) \/ deletes[d] > 0 \/ Refusal(d)
Retracted(d) == Pushed(d) /\ ~IsDeleted(tombs[d]) => docs[d] = Absent \/ deletes[d] > 0 \/ Refusal(d)

\* A device that has the other's answer, or will read it, is to know of the deletion by then, or one is on the way.
Warned(d) ==
  stage[d] # "live" /\ ~(deletes[d] > 0) =>
    /\ ~owed[d] => Standing(d, 0)
    /\ owed[d] /\ frames[d] # <<>> => Standing(d, 1)
Doomed == \A d \in Devices : Foreseen(d) /\ Warned(d) /\ Removable(d) /\ Retracted(d) /\ StandsOn(d)

\* A step in such a stream.
DoomedFlow ==
  /\ Basics /\ Basics' /\ Known /\ Handshakes /\ Clean /\ Clean' /\ Survives
  /\ (\A d \in Devices : Unmasked(d)) /\ (\A d \in Devices : Unmasked(d)')
  /\ Flows

-----------------------------------------------------------------------------
(* Devices that settle hold the same file                                  *)

\* What holds of devices and their streams.
Undisturbed ==
  Clean => /\ \A d \in Devices : Passed(d) /\ Unmasked(d)
           /\ ~Survives => Calm
           /\ Survives => Doomed
Meets == Handshakes /\ (\A d \in Devices : Unsaved(d)) /\ KnownDead /\ Outdated /\ Undisturbed
=============================================================================
