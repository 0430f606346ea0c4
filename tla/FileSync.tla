------------------------------ MODULE FileSync -----------------------------
(***************************************************************************)
(* One file of a circle's workspace on two devices that sync with each     *)
(* other (src/src/sync_yjs/watcher.rs, src/src/network/sync.rs,            *)
(* src/src/deletions.rs, src/src/store/fs.rs, store/crdt.rs,               *)
(* store/control.rs).  The file on disk, the shared document, the saved    *)
(* state of the document and the tombstone that says the file is deleted   *)
(* are four things, kept together by the watcher, by flushes, by frames    *)
(* that peers exchange, and by reconciliation when a stream opens.         *)
(*                                                                         *)
(* A document is a set of chunks that were inserted and of those that were *)
(* removed: documents merge by union.  A text is the versions it holds;    *)
(* every write of a user makes a new version and replaces the text.        *)
(***************************************************************************)
EXTENDS Integers, Sequences, FiniteSets

CONSTANTS Onward,       \* whether the model goes on after a race
          MaxEvents,    \* bound: writes and deletions by users, restarts, streams cut,
                        \* channels that overflow, flushes reported twice
          MaxMisses,    \* bound: steps lost to a busy document or a failing file
          MaxChunks,    \* bound: chunks a device inserts
          MaxTombstones \* bound: how often a tombstone is replaced

ASSUME FileSyncAssumption ==
  /\ Onward \in BOOLEAN
  /\ {MaxEvents, MaxMisses, MaxChunks, MaxTombstones} \subseteq Nat /\ MaxTombstones > 0

Devices == {1, 2}
Peer(d) == 3 - d
Initiator == 1

VARIABLES
  now,     \* the time: it goes on with every write of a user and every tombstone
  disk,    \* the file of each device
  docs,    \* its document
  saved,   \* the saved state of the document
  flag,    \* self_write_flags: the next event is of a flush
  events,  \* watcher events under way
  flushes, \* flush_to_disk tasks
  tombs,   \* the deletions map in the control document
  client,  \* the client id of the control document
  stage,   \* where the sync stream is
  asked,   \* the peer asked for the file in the handshake
  told,    \* the chunks it said to have when it asked
  owed,    \* replies of the handshake still to come
  frames,  \* updates on the way to each device: answers, the push, all_updates
  deletes, \* deletions on the way to each device: all_deletes
  spent,   \* budgets
  erased,  \* users who deleted the file that nobody wrote since
  deferred, \* the stream left something to the next one
  raced,   \* a flush, an event or a deletion came too late, see the uses
  missed   \* how many steps a busy document or a failing file has cost

local == <<disk, docs, saved, flag, events, flushes>>
control == <<tombs, client>>
session == <<stage, asked, told, owed>>
outgoing == <<frames, deletes>>
ghosts == <<erased, deferred, raced, missed>>
vars == <<now, local, control, session, outgoing, spent, ghosts>>

Versions == 0 .. MaxEvents
Absent == [none |-> TRUE]

-----------------------------------------------------------------------------
(* Texts and documents                                                     *)

\* The versions a text holds.
Text == SUBSET Versions
Blank == {}

Ids == (Devices \cup {0}) \X (1 .. MaxChunks + 1)
EmptyDoc == [ins |-> {}, del |-> {}]
IdsOf(doc) == {c.id : c \in doc.ins}

\* What is seen of a document: an insertion waits for those it was made after.
Seen(doc) == {c \in doc.ins : c.id \notin doc.del /\ c.after \subseteq IdsOf(doc)}

TextOf(doc) == UNION {c.text : c \in Seen(doc)}

Merge(doc, other) == [ins |-> doc.ins \cup other.ins, del |-> doc.del \cup other.del]

DocOr(doc) == IF doc = Absent THEN EmptyDoc ELSE doc

\* The whole text is replaced; the update another document gets.
Replacement(d, doc, text) ==
  [ins |-> IF text = Blank THEN {}
           ELSE {[id |-> <<d, spent.chunks[d] + 1>>, text |-> text, after |-> IdsOf(doc)]},
   del |-> {c.id : c \in Seen(doc)}]

-----------------------------------------------------------------------------
(* The deletions map                                                       *)

\* Entries of a map in a shared document form a tree, each put after the one
\* its author saw; of entries put after the same one that of the higher client
\* comes last, and the last one is the value, unless it was removed.
Before(a, b) ==
  \/ Len(a) < Len(b) /\ SubSeq(b, 1, Len(a)) = a
  \/ \E i \in 1 .. Len(a) : /\ i <= Len(b) /\ a[i] < b[i]
                            /\ \A k \in 1 .. i - 1 : a[k] = b[k]
NoTombs == [items |-> {}, dead |-> {}]
Last(t) == CHOOSE e \in t.items : \A o \in t.items : o = e \/ Before(o.chain, e.chain)
IsDeleted(t) == t.items # {} /\ Last(t).chain \notin t.dead
Joined(t, other) == [items |-> t.items \cup other.items, dead |-> t.dead \cup other.dead]

\* A tombstone that nobody removed stands before one that was removed.
Masked(t) == ~IsDeleted(t) /\ \E e \in t.items : e.chain \notin t.dead

\* record and clear, as the update another document gets.
Recorded(d) ==
  LET t == tombs[d]
      chain == IF t.items = {} THEN <<client[d]>> ELSE Append(Last(t).chain, client[d])
  IN  [items |-> {[chain |-> chain, ts |-> now + 1]},
       dead |-> IF t.items = {} THEN {} ELSE {Last(t).chain}]
Cleared(d) == [items |-> {}, dead |-> IF IsDeleted(tombs[d]) THEN {Last(tombs[d]).chain} ELSE {}]

-----------------------------------------------------------------------------
(* Frames                                                                  *)

\* What is sent together: an update of the control document, then one of the
\* file's, or none.
Frame(t, u) == [control |-> t, file |-> u]

\* Fault: a stream subscribes to local updates only after its push.
ListeningLate(d) == stage[d] = "live"

\* A stream listens to local updates.
Listening(d) == stage[d] \in {"push", "reconcile", "live"}

\* A change of the control document and of the file's is broadcast, if a stream
\* listens; n deletions of the file go another way.
Broadcast(d, t, u, n) ==
  /\ tombs' = [tombs EXCEPT ![d] = Joined(@, t)]
  /\ frames' = IF Listening(d) /\ ~(t = NoTombs /\ u = Absent)
               THEN [frames EXCEPT ![Peer(d)] = Append(@, Frame(t, u))] ELSE frames
  /\ deletes' = IF Listening(d) THEN [deletes EXCEPT ![Peer(d)] = @ + n] ELSE deletes

-----------------------------------------------------------------------------
(* Users                                                                   *)

Spend(what) ==
  /\ spent.writes + spent.others < MaxEvents
  /\ spent' = [spent EXCEPT ![what] = @ + 1]

\* The flushes under way when the file is removed are late.
Late(d) == flushes' = [flushes EXCEPT ![d] = {[f EXCEPT !.late = TRUE] : f \in @}]

Init ==
  LET first == [ins |-> {[id |-> <<0, 1>>, text |-> {0}, after |-> {}]}, del |-> {}]
  IN  /\ now = 1
      /\ \/ disk = [d \in Devices |-> [text |-> {0}, at |-> 0]] /\ docs = [d \in Devices |-> first]
         \/ disk = [d \in Devices |-> Absent] /\ docs = disk
      /\ saved = docs
      /\ flag = [d \in Devices |-> FALSE] /\ events = [d \in Devices |-> <<>>]
      /\ flushes = [d \in Devices |-> {}]
      /\ tombs = [d \in Devices |-> NoTombs] /\ client = [d \in Devices |-> d]
      /\ stage = [d \in Devices |-> "off"] /\ asked = [d \in Devices |-> FALSE]
      /\ told = [d \in Devices |-> {}]
      /\ owed = [d \in Devices |-> FALSE] /\ frames = [d \in Devices |-> <<>>]
      /\ deletes = [d \in Devices |-> 0]
      /\ spent = [writes |-> 0, others |-> 0, chunks |-> [d \in Devices |-> 0]]
      /\ erased = {} /\ deferred = FALSE /\ raced = FALSE /\ missed = 0

\* An editor writes the file, or creates it again.
Write(d) ==
  /\ Spend("writes")
  /\ now' = now + 1
  /\ disk' = [disk EXCEPT ![d] = [text |-> {spent.writes + 1}, at |-> now']]
  /\ events' = [events EXCEPT ![d] = Append(@, "touch")]
  /\ erased' = {}
  /\ UNCHANGED <<docs, saved, flag, flushes, control, session, outgoing, deferred, raced, missed>>

\* A user deletes the file.
Delete(d) ==
  /\ disk[d] # Absent /\ Spend("others")
  /\ disk' = [disk EXCEPT ![d] = Absent]
  /\ events' = [events EXCEPT ![d] = Append(@, "remove")]
  /\ erased' = erased \cup {d}
  /\ Late(d)
  /\ UNCHANGED <<now, docs, saved, flag, control, session, outgoing, deferred, raced, missed>>

-----------------------------------------------------------------------------
(* The watcher                                                             *)

\* A document found busy, or a file that cannot be read or written: the step is
\* given up, and nothing takes it up again.
Miss == missed < MaxMisses /\ missed' = missed + 1

\* Fault: the state of a document is not saved.
SaveNothing(d, doc) == UNCHANGED <<saved, missed>>

\* crdt::save, which a busy document prevents.
Save(d, doc) ==
  \/ saved' = [saved EXCEPT ![d] = doc] /\ UNCHANGED missed
  \/ UNCHANGED saved /\ Miss

Handled(d) == events' = [events EXCEPT ![d] = Tail(@)]

\* ingest_file: the tombstone is obsolete; a flush's own event is not read;
\* else the text of the file replaces that of the document.
IngestFile(d) ==
  LET text == disk[d].text
      doc == DocOr(docs[d])
      u == Replacement(d, doc, text)
      own == flag[d]
      read == ~own /\ disk[d] # Absent
      changed == read /\ TextOf(doc) # text
      new == IF changed THEN Merge(doc, u) ELSE doc
  IN  /\ flag' = [flag EXCEPT ![d] = FALSE]
      /\ docs' = IF read THEN [docs EXCEPT ![d] = new] ELSE docs
      /\ IF changed THEN Save(d, new) ELSE UNCHANGED <<saved, missed>>
      /\ changed => spent.chunks[d] < MaxChunks
      /\ spent' = IF changed THEN [spent EXCEPT !.chunks[d] = @ + 1] ELSE spent
      /\ Broadcast(d, Cleared(d), IF changed THEN u ELSE Absent, 0)

\* A deletion that was not cleared is not older than the file.
Stands(d) ==
  \E e \in tombs[d].items : e.chain \notin tombs[d].dead /\ (disk[d] = Absent \/ disk[d].at <= e.ts)

\* A deletion is cleared that the file does not outdate: the event is older, or
\* the map's value is an older deletion than another.
ClearsFresh(d) == IsDeleted(tombs[d]) /\ Stands(d)

\* The next event is of a file that is there, or was written.
Reported(d) == events[d] # <<>> /\ (Head(events[d]) = "touch" \/ disk[d] # Absent)

Ingest(d) ==
  /\ Reported(d)
  /\ Handled(d) /\ IngestFile(d)
  /\ raced' = (raced \/ ClearsFresh(d))
  /\ deferred' = (deferred \/ (IsDeleted(tombs[d]) /\ stage[d] # "off"))
  /\ UNCHANGED <<now, disk, flushes, client, session, erased>>

\* The file cannot be read, or its document is busy, which may just have been
\* created: ingest_file returns, and the event is consumed.
IngestFails(d) ==
  /\ Reported(d) /\ disk[d] # Absent /\ ~flag[d]
  /\ Handled(d) /\ Miss
  /\ docs' \in {docs, [docs EXCEPT ![d] = DocOr(@)]}
  /\ Broadcast(d, Cleared(d), Absent, 0)
  /\ raced' = (raced \/ ClearsFresh(d))
  /\ deferred' = (deferred \/ (IsDeleted(tombs[d]) /\ stage[d] # "off"))
  /\ UNCHANGED <<now, disk, saved, flag, flushes, client, session, spent, erased>>

\* remove_doc and crdt::delete.
Untrack(d) ==
  /\ docs' = [docs EXCEPT ![d] = Absent]
  /\ saved' = [saved EXCEPT ![d] = Absent]
  /\ flag' = [flag EXCEPT ![d] = FALSE]
  /\ Late(d)

\* The file goes as well, which the watcher will report.
Remove(d) ==
  /\ Untrack(d)
  /\ disk' = [disk EXCEPT ![d] = Absent]
  /\ events' = IF disk[d] = Absent THEN events ELSE [events EXCEPT ![d] = Append(@, "remove")]

\* record_removal.  Between its answer and its subscription a stream tells of
\* the tombstone in its push only, which the peer reads when it has reconciled.
RecordRemoval(d) ==
  /\ events[d] # <<>> /\ Head(events[d]) = "remove" /\ disk[d] = Absent
  /\ tombs[d].items # {} => Len(Last(tombs[d]).chain) < MaxTombstones
  /\ Handled(d) /\ Untrack(d)
  /\ now' = now + 1
  /\ Broadcast(d, Recorded(d), Absent, 1)
  /\ deferred' = (deferred \/ stage[d] = "subscribe")
  /\ UNCHANGED <<disk, client, session, spent, erased, raced, missed>>

\* sweep_untracked: a file no event was reported of.
Untracked(d) == disk[d] # Absent /\ docs[d] = Absent /\ ~IsDeleted(tombs[d])

Sweep(d) ==
  /\ events[d] = <<>> /\ Untracked(d)
  /\ IngestFile(d)
  /\ UNCHANGED <<now, disk, events, flushes, client, session, erased, deferred, raced>>

-----------------------------------------------------------------------------
(* flush_to_disk, of a document a peer's update changed                    *)

Becomes(d, f, g) == flushes' = [flushes EXCEPT ![d] = (@ \ {f}) \cup g]

Spawned == [at |-> "read", doc |-> EmptyDoc, late |-> FALSE]

FlushRead(d, f) ==
  /\ f.at = "read" /\ docs[d] # Absent
  /\ Becomes(d, f, {[f EXCEPT !.at = "write", !.doc = docs[d]]})
  /\ UNCHANGED <<now, disk, docs, saved, flag, events, control, session, outgoing, spent, ghosts>>

\* The document is gone, or busy.
FlushNothing(d, f) ==
  /\ f.at = "read" /\ Becomes(d, f, {})
  /\ \/ docs[d] = Absent /\ UNCHANGED missed
     \/ docs[d] # Absent /\ Miss
  /\ UNCHANGED <<now, disk, docs, saved, flag, events, control, session, outgoing, spent>>
  /\ UNCHANGED <<erased, deferred, raced>>

Unheard(d) == "remove" \in {events[d][i] : i \in DOMAIN events[d]}

\* A deletion or a change came while the flush was under way.
Overtaken(d, f) ==
  \/ f.late
  \/ Unheard(d)
  \/ f.doc # DocOr(docs[d])

\* What is saved is the document as it is by then.
Flushed(d, f) == IF f.doc.ins \subseteq DocOr(docs[d]).ins THEN DocOr(docs[d]) ELSE f.doc

\* The file gets the time of the write, which by the device's clock is after a
\* tombstone that is there by then: Spares may keep the file for it.
FlushWrite(d, f) ==
  /\ f.at = "write"
  /\ Becomes(d, f, {})
  /\ Save(d, Flushed(d, f))
  /\ disk' = [disk EXCEPT ![d] = [text |-> TextOf(f.doc), at |-> now]]
  /\ flag' = [flag EXCEPT ![d] = TRUE]
  /\ \/ events' = [events EXCEPT ![d] = Append(@, "touch")] /\ UNCHANGED spent
     \/ events' = [events EXCEPT ![d] = @ \o <<"touch", "touch">>] /\ Spend("others")
  /\ raced' = (raced \/ Overtaken(d, f))
  /\ UNCHANGED <<now, docs, control, session, outgoing, erased, deferred>>

\* The file cannot be written, or is cut short; flush_to_disk goes on.
FlushFails(d, f) ==
  /\ f.at = "write"
  /\ Becomes(d, f, {})
  /\ Miss /\ saved' \in {saved, [saved EXCEPT ![d] = Flushed(d, f)]}
  /\ \/ UNCHANGED <<disk, events>>
     \/ /\ disk' = [disk EXCEPT ![d] = [text |-> Blank, at |-> now]]
        /\ events' = [events EXCEPT ![d] = Append(@, "touch")]
  /\ flag' = [flag EXCEPT ![d] = TRUE]
  /\ raced' = (raced \/ Overtaken(d, f))
  /\ UNCHANGED <<now, docs, control, session, outgoing, spent, erased, deferred>>

-----------------------------------------------------------------------------
(* A sync stream                                                           *)

\* all_doc_paths: the file is left out when it is deleted.
Advertised(d) == docs[d] # Absent /\ ~IsDeleted(tombs[d])

Send(d, f) == frames' = [frames EXCEPT ![Peer(d)] = Append(@, f)] /\ UNCHANGED deletes

\* What of a document a peer that has the chunks I lacks, and every removal.
Diff(doc, I) == [ins |-> {c \in doc.ins : c.id \notin I}, del |-> doc.del]

\* Both compute their paths; the initiator asks first, and says what it has.
Connect ==
  /\ stage = [d \in Devices |-> "off"]
  /\ stage' = [d \in Devices |-> "answer"]
  /\ asked' = [d \in Devices |-> Advertised(Peer(d))]
  /\ told' = [d \in Devices |-> IF d = Initiator THEN {} ELSE IdsOf(DocOr(docs[Initiator]))]
  /\ owed' = [d \in Devices |-> TRUE]
  /\ deferred' = FALSE
  /\ UNCHANGED <<now, local, control, outgoing, spent, erased, raced, missed>>

\* The peer's questions are answered: a document asked for is created.  The
\* initiator answers when it has the other's answers, and the other asks with
\* them, of what it computed before: that document is created as well.
Answer(d) ==
  LET doc == DocOr(docs[d])
      asks == d # Initiator /\ asked[Initiator]
  IN  /\ stage[d] = "answer" /\ (d = Initiator => ~owed[d])
      /\ stage' = [stage EXCEPT ![d] = "subscribe"]
      /\ docs' = IF asked[d] \/ asks THEN [docs EXCEPT ![d] = doc] ELSE docs
      /\ told' = IF asks THEN [told EXCEPT ![Initiator] = IdsOf(doc)] ELSE told
      /\ Send(d, Frame(tombs[d], IF asked[d] THEN Diff(doc, told[d]) ELSE Absent))
      /\ UNCHANGED <<now, disk, saved, flag, events, flushes, control, asked, owed, spent, ghosts>>

\* Local updates are subscribed to before the catch-up is read.
Subscribe(d) ==
  /\ stage[d] = "subscribe" /\ ~owed[d]
  /\ stage' = [stage EXCEPT ![d] = "push"]
  /\ UNCHANGED <<now, local, control, asked, told, owed, outgoing, spent, ghosts>>

\* is_empty_update: of a document the peer asked for, nothing is pushed that it
\* has.  (The control document is always pushed: entries that replace each other
\* leave removals in it.)
News(d) == asked[d] => Diff(docs[d], told[d]) # EmptyDoc

\* all_doc_paths again: what the peer asked for as a diff, the rest in full.
Push(d) ==
  /\ stage[d] = "push"
  /\ stage' = [stage EXCEPT ![d] = "reconcile"]
  /\ Send(d, Frame(tombs[d],
       CASE Advertised(d) /\ News(d) -> IF asked[d] THEN Diff(docs[d], told[d]) ELSE docs[d]
         [] ~(Advertised(d) /\ News(d)) -> Absent))
  /\ UNCHANGED <<now, local, control, asked, told, owed, spent, ghosts>>

\* A user wrote the file after the tombstone.
Spared(d) == disk[d] # Absent /\ disk[d].at > Last(tombs[d]).ts

\* What apply decides by the time of the file and the tombstone's, which is of
\* another device's clock: a file that is there may be kept though only a flush
\* wrote it since, and may go though a user did.  Either is a race.
Spares(d, kept) == kept \in BOOLEAN /\ (kept => disk[d] # Absent)

\* apply: a file written after the tombstone is kept, and the tombstone goes;
\* else the document, its saved state and the file go.
Reconcile(d, kept) ==
  /\ stage[d] = "reconcile"
  /\ stage' = [stage EXCEPT ![d] = "live"]
  /\ Spares(d, kept)
  /\ IF IsDeleted(tombs[d]) /\ kept
     THEN Broadcast(d, Cleared(d), Absent, 0) /\ UNCHANGED local
     ELSE /\ UNCHANGED <<tombs, outgoing>>
          /\ IF IsDeleted(tombs[d]) THEN Remove(d) ELSE UNCHANGED local
  /\ raced' = (raced \/ (IsDeleted(tombs[d]) /\ (kept # Spared(d) \/ (ClearsFresh(d) /\ kept))))
  /\ deferred' = (deferred \/ (IsDeleted(tombs[d]) /\ kept))
  /\ UNCHANGED <<now, client, asked, told, owed, spent, erased, missed>>

\* Fault: an update of a deleted file is applied.
RefusedNever(t) == FALSE

\* apply_update ignores a file that is deleted.
Refused(t) == IsDeleted(t)

\* A frame is read: an answer of the handshake, or in the live loop.  The
\* update of the file is not applied to a deleted path; else a flush is spawned.
Reading(d) == frames[d] # <<>> /\ (owed[d] \/ stage[d] = "live")

\* An empty document meets a file that was not read yet: its flush empties it.
Empties(d, u) == u = EmptyDoc /\ docs[d] = Absent /\ disk[d] # Absent

Receive(d) ==
  LET f == Head(frames[d])
      t == Joined(tombs[d], f.control)
  IN  /\ Reading(d)
      /\ frames' = [frames EXCEPT ![d] = Tail(@)]
      /\ owed' = [owed EXCEPT ![d] = FALSE]
      /\ tombs' = [tombs EXCEPT ![d] = t]
      /\ IF f.file = Absent \/ Refused(t)
         THEN /\ UNCHANGED docs
              /\ IF IsDeleted(t) /\ ~IsDeleted(tombs[d]) THEN Late(d) ELSE UNCHANGED flushes
         ELSE /\ docs' = [docs EXCEPT ![d] = Merge(DocOr(@), f.file)]
              /\ flushes' = [flushes EXCEPT ![d] = @ \cup {Spawned}]
      /\ deferred' = \/ deferred
                      \/ (f.file # Absent /\ Refused(t) /\ stage[d] = "live")
                      \/ (IsDeleted(t) /\ events[d] = <<>> /\ Untracked(d))
      /\ raced' = (raced \/ Masked(t) \/ (~Refused(t) /\ Empties(d, f.file)))
      /\ UNCHANGED <<now, disk, saved, flag, events, client, stage, asked, told, deletes, spent, erased, missed>>

\* Somebody wrote the file since it was deleted.
Stray == erased = {}

\* apply_delete.
ReceiveDelete(d) ==
  /\ stage[d] = "live" /\ deletes[d] > 0
  /\ deletes' = [deletes EXCEPT ![d] = @ - 1]
  /\ Remove(d)
  /\ raced' = (raced \/ Stray)
  /\ deferred' = (deferred \/ \E i \in DOMAIN frames[d] : frames[d][i].file # Absent)
  /\ UNCHANGED <<now, control, session, frames, spent, erased, missed>>

-----------------------------------------------------------------------------
(* Faults                                                                  *)

\* The system drops the events of a file the device does not track.
DropEvents(d) ==
  /\ events[d] # <<>> /\ disk[d] # Absent /\ docs[d] = Absent
  /\ Spend("others")
  /\ events' = [events EXCEPT ![d] = <<>>]
  /\ deferred' = (deferred \/ IsDeleted(tombs[d]))
  /\ UNCHANGED <<now, disk, docs, saved, flag, flushes, control, session, outgoing, erased, raced, missed>>

\* Fault: what was on the way stays.
OffLeaving ==
  /\ stage' = [d \in Devices |-> "off"] /\ asked' = [d \in Devices |-> FALSE]
  /\ told' = [d \in Devices |-> {}]
  /\ owed' = [d \in Devices |-> FALSE] /\ UNCHANGED <<frames, deletes>>

\* The stream ends, with what was on the way.
Off ==
  /\ stage' = [d \in Devices |-> "off"] /\ asked' = [d \in Devices |-> FALSE]
  /\ told' = [d \in Devices |-> {}]
  /\ owed' = [d \in Devices |-> FALSE] /\ frames' = [d \in Devices |-> <<>>]
  /\ deletes' = [d \in Devices |-> 0]

Cut ==
  /\ stage # [d \in Devices |-> "off"]
  /\ Spend("others") /\ Off
  /\ UNCHANGED <<now, local, control, ghosts>>

\* all_deletes overflows: what it held is dropped.
LoseDeletes(d) ==
  /\ deletes[d] > 0 /\ Spend("others")
  /\ deletes' = [deletes EXCEPT ![d] = 0]
  /\ deferred' = TRUE
  /\ UNCHANGED <<now, local, control, session, frames, erased, raced, missed>>

\* Of the deletions that stand a start keeps the map's value, which another
\* may be later than.
Forgets(d) ==
  /\ IsDeleted(tombs[d])
  /\ \E e \in tombs[d].items : e.chain \notin tombs[d].dead /\ e.ts > Last(tombs[d]).ts

\* The times of the deletions that control.json may hold: that of the map's value,
\* or after a crash of an earlier one, if any (save_control, every 30 s).
NoTime == -1
Value(d) == IF IsDeleted(tombs[d]) THEN Last(tombs[d]).ts ELSE NoTime
Remembered(d) == {Value(d), NoTime} \cup {e.ts : e \in tombs[d].items}

\* The daemon stops, saving the control document, or crashes, and starts: the
\* control document is made anew with the deletion of time ts; the document of
\* a file on disk is restored and brought to what the file holds; deletions are
\* reconciled.  Events and flushes are lost.
Restart(d, ts, kept) ==
  LET fresh == 3 + spent.others
      deleted == ts # NoTime
      t == IF deleted THEN [items |-> {[chain |-> <<fresh>>, ts |-> ts]}, dead |-> {}] ELSE NoTombs
      gone == deleted /\ ~kept
      here == disk[d] # Absent /\ ~gone
      old == DocOr(saved[d])
      u == Replacement(d, old, disk[d].text)
      changed == here /\ TextOf(old) # disk[d].text
  IN  /\ spent.writes + spent.others < MaxEvents /\ Off
      /\ ts \in Remembered(d) /\ Spares(d, kept)
      /\ changed => spent.chunks[d] < MaxChunks
      /\ spent' = [spent EXCEPT !.others = @ + 1, !.chunks[d] = IF changed THEN @ + 1 ELSE @]
      /\ client' = [client EXCEPT ![d] = fresh]
      /\ tombs' = [tombs EXCEPT ![d] = IF deleted /\ kept THEN [t EXCEPT !.dead = {<<fresh>>}] ELSE t]
      /\ docs' = [docs EXCEPT ![d] = IF ~here THEN Absent ELSE IF changed THEN Merge(old, u) ELSE old]
      /\ saved' = [saved EXCEPT ![d] = IF gone THEN Absent ELSE IF here THEN docs'[d] ELSE @]
      /\ disk' = [disk EXCEPT ![d] = IF here THEN @ ELSE Absent]
      /\ flag' = [flag EXCEPT ![d] = FALSE] /\ events' = [events EXCEPT ![d] = <<>>]
      /\ flushes' = [flushes EXCEPT ![d] = {}]
      /\ raced' = \/ raced \/ Unheard(d) \/ Forgets(d)
                  \/ ts # Value(d)
                  \/ IsDeleted(tombs[d]) /\ kept # Spared(d)
      /\ UNCHANGED <<now, erased, deferred, missed>>

-----------------------------------------------------------------------------
Next ==
  /\ Onward \/ ~raced
  /\ \/ \E d \in Devices :
          \/ Write(d) \/ Delete(d) \/ Ingest(d) \/ IngestFails(d) \/ RecordRemoval(d) \/ Sweep(d)
          \/ \E f \in flushes[d] :
               FlushRead(d, f) \/ FlushNothing(d, f) \/ FlushWrite(d, f) \/ FlushFails(d, f)
          \/ Answer(d) \/ Subscribe(d) \/ Push(d) \/ \E kept \in BOOLEAN : Reconcile(d, kept)
          \/ Receive(d) \/ ReceiveDelete(d)
          \/ DropEvents(d) \/ LoseDeletes(d)
          \/ \E ts \in Remembered(d), kept \in BOOLEAN : Restart(d, ts, kept)
     \/ Connect \/ Cut

Spec == Init /\ [][Next]_vars

-----------------------------------------------------------------------------
(* Properties                                                              *)

Files == {disk[d] : d \in Devices} \ {Absent}
Documents == ({docs[d] : d \in Devices} \cup {saved[d] : d \in Devices}) \ {Absent}

\* A file is a text not of the future; a chunk has one meaning everywhere; a
\* stream that is closed has nothing on the way.
TypeOK ==
  /\ \A f \in Files : f.text \in Text /\ f.at \in 0 .. now
  /\ \A c \in UNION {doc.ins : doc \in Documents} : c.id \in Ids /\ c.text \in Text
  /\ \A b, c \in UNION {doc.ins : doc \in Documents} : b.id = c.id => b = c
  /\ \A d \in Devices : \A e \in tombs[d].items : Len(e.chain) <= MaxTombstones
  /\ stage[1] = "off" => \A d \in Devices : frames[d] = <<>> /\ deletes[d] = 0 /\ ~owed[d]

\* Nothing is under way on a device.
Settled(d) ==
  /\ events[d] = <<>> /\ flushes[d] = {} /\ ~Untracked(d)
  /\ frames[d] = <<>> /\ deletes[d] = 0

\* What a user deleted does not return to that user's disk while nobody writes
\* the file again: neither a peer that missed the deletion, nor an update that
\* was on the way, nor a restart brings it back, unless a race did.
DeletionSticks == ~raced => \A d \in erased : disk[d] = Absent

\* Once devices with a live stream have settled, they hold the same file, or
\* both none, unless this stream left something to the next one: what was
\* produced while the stream opened is in the push or in what follows it.
DisksMeet ==
  (\A d \in Devices : stage[d] = "live" /\ Settled(d)) =>
    \/ raced \/ deferred \/ missed > 0
    \/ disk = [d \in Devices |-> Absent]
    \/ Absent \notin {disk[1], disk[2]} /\ disk[1].text = disk[2].text

\* On a device that has settled the saved state of a document is that of its
\* file, so that a restart does not take the difference for an edit.
SavedMatchesFile ==
  \A d \in Devices :
    Settled(d) /\ disk[d] # Absent /\ Absent \notin {docs[d], saved[d]} => TextOf(saved[d]) = disk[d].text

SavedMatchesUnlessRaced == ~raced /\ missed = 0 => SavedMatchesFile
=============================================================================
