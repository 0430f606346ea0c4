# Verification of enoxian's coordination core

enoxian is a daemon that lets agents and people on several devices share a
workspace, called a Circle, without a server.  This directory holds TLA+ models of
the parts of it where an ordering, a crash or a second actor decides what is
true, the TLC configurations that check them on small instances, and proofs that
the TLAPS proof system checks for instances of every size.

Paths below are relative to `src/src/` of the repository.  `PROJECT.json` maps
every definition to the lines it models, lists the hazards of the code with the
properties aimed at them, and the faults ("mutants") each property was seen to
catch.

## 1. Inventory

| Part | Code | State | Hard behaviour | Modelled in |
|---|---|---|---|---|
| Execution inbox | `agent/inbox.rs` | per Circle a run table, its file, a health latch; per process a table of pending counts | writes that fail before or after the rename, restart, displacement under three limits, refunds | `ExecutionInbox` |
| Run worker, reaction loop | `agent/reaction.rs` | device permits, live tasks, ambient drain | cancellation against launch, retries against redelivery | its turns in `ExecutionInbox`, `BlindVote` and `AmbientLedger`; the drain in `AmbientLedger` |
| Blind vote | `agent/warden/vote.rs` | in memory: ballots of a message, a busy latch, the size last settled | turns end on separate workers, rounds grow, posts fail and are retried | `BlindVote` |
| Relay budgets | `agent/relay.rs` | allowance per cascade | charge, refund, retry | in `ExecutionInbox` |
| Ambient ledger, routing, claims | `agent/ledger.rs`, `ambient.rs`, `claims.rs` | which messages were decided, append-only file; claims | crash between record and dispatch, put-back after a restart, a disk that refuses | `AmbientLedger` |
| File locks | `control/arbitration.rs`, `api/lock.rs`, `proposal/runs.rs` | a replicated log of acquires and releases | concurrent appends, compaction of one copy, clocks that differ, restored snapshots | `LockLog` |
| Membership | `membership.rs`, `api/members.rs`, `network/sync.rs` | signed records in/out with a generation, legacy tombstones | relayed in any order, ties, a peer that is behind | `MembershipStanding`, `Readmission` |
| MLS groups | `mls/`, `network/mls_bootstrap.rs`, `lifecycle.rs` | group, keys, Welcomes, commits in order | the same Welcome again and again, removal and readmission overtaking each other | `Readmission`; the cryptography is external |
| Event log | `workspace_event.rs` | a signed log with lamport times, folded into proposals | unlocked read before an append, parents out of order, records without their events | `ProposalLog` |
| Event and proposal sync | `network/event_sync.rs`, `proposal_sync.rs` | per stream what the peer is known to have | lag, unavailable and rejected envelopes, lost connections | `ProposalLog` |
| Proposal engine, runs | `proposal/engine.rs`, `evidence.rs`, `runs.rs` | baseline, dirty and interactive paths, evidence journal, proposals | failure between record and baseline, overflowing channels, operations that overtake a window | `ProposalEngine` |
| Document sync, watcher, store, deletions | `network/sync.rs`, `sync_yjs/`, `store/fs.rs`, `deletions.rs` | per file a document, its saved state, the disk, tombstones | late events, late flushes, re-created files, what changes while a stream opens | `FileSync` |
| Tasks, chat | `api/tasks.rs`, `api/chat.rs` | replicated maps and arrays | one library's convergence | not modelled |
| Admin handover | `network/admin_handover.rs` | the admin key, an offer and an acknowledgement | a lost acknowledgement, a stop between the two | not modelled (section 6) |
| Lifecycle | `lifecycle.rs`, `daemon.rs` | live Circles and their tasks | start against stop and leave | its steps in `Readmission` and `ProposalLog`; starting and stopping is not (section 6) |
| Transport, identity, drivers, HTTP, CLI, deciders, diff adapters | see `PROJECT.json` | libraries, I/O, encodings, text algorithms | not state shared between actors of this program | not modelled |

How the parts interact.  A chat message reaches every device through the control
document.  The reaction loop offers it to agents: an addressed one through
`Inbox::admit`, an ambient one through the ledger and then the inbox.  A worker
takes pending entries, waits for a permit of the device, launches the turn
(`transition` to running), and records how it ended.  When the message was put
to several agents blindly, each turn leaves its answer on the vote's board and
calls `settle`; a settled answer is posted to the chat.  While they work, agents
announce the files they touch in the lock log of the same control document.
What they write on the disk reaches the documents through the watcher, and the
other devices through the document streams; the proposal engine reads the same
disk and records what changed.  Its records are events of the event log, which
devices exchange over their own streams.  All streams end at the devices the
membership records let in, and are readable with the MLS group's keys.

## 2. Modules

| Module | What it is |
|---|---|
| `ExecutionInbox` | all inboxes of one device, their files and the shared table |
| `BlindVote` | one blind vote, from the first ballot to its post |
| `AmbientLedger` | one message nobody addressed, on one device, until it is answered or given up |
| `LockLog` | the lock log, its copies on the devices and their snapshots |
| `MembershipStanding` | the abstract specification of a device's standing |
| `Readmission` | removal, readmission and approval of a device, and the MLS group it rejoins; implements `MembershipStanding` |
| `ProposalLog` | the events of one proposal, their streams between devices, and the fold |
| `ProposalEngine` | how one device turns changes of its disk into proposals |
| `FileSync` | one file on two devices: disk, watcher, document, saved state, tombstones, stream |
| `FileSyncInvariants` | the definitions that the proofs about `FileSync` speak of: ranges, invariants, forms of steps |
| `...Proofs` | theorems about the module of that name, eight of them |
| `MC...` | the definitions TLC's instances need; one `.cfg` per run |

A definition preceded by a comment starting with "Fault:" is not part of the model: it is
a plausible bug in the definition that follows it, and a property is listed with
it in `PROJECT.json` ("mutants") when substituting it breaks the property.

### ExecutionInbox

`mem[c]` is the snapshot an owner holds, `disk[c]` the file, `owned[c]` the lock
of the owner, `healthy[c]` the latch set by the first failed write,
`aggregate[c]` the entry of the process-wide `PENDING` table.  `executed` is a history
variable: the runs whose turn was handed to an agent.

An operation of the code (`open`, `admit_with_limit`, `retry`, `transition`,
`set_limit`, the drop of the owner) is one action, since the inbox is behind one
mutex; its write is `Commit`, a choice between success, a failure that leaves
the old file, and a failure after the rename (the directory `fsync`) that leaves
the new one.  `Crash` may happen between any two operations, and `Open` recovers: a running
turn becomes interrupted, a waiting ambient turn expires, and what does not fit the device
is dropped newest first.  `Admit` keeps the branches of the code in its order: known
key, device full, queue full (displace ambient turns first, then older ones),
budget of the cascade.

Limits are constants (`CircleLimit` is 64 and `DeviceLimit` 256 in the code);
the agent's limit is set at run time.  `MaxEntries` bounds the table for TLC.

### BlindVote

`entries` are the message's rows in the inbox, `board` what `vote.rs` keeps in
memory, `task[a]` the place where agent `a`'s worker stands: in its turn, ended
(about to read the voters), resolving, posting, or about to call `finish`.
`settle` is therefore several actions: it reads the voters from the inbox, takes
the right to settle (`Board::begin`), resolves, posts or adds a voter, and gives
the right back (`Board::finish`).  How the decider groups the answers is any partition of
them.  A post that fails is retried `PostTries` times in the background.  A
restart loses the board and keeps the entries.

### AmbientLedger

The drain of `reaction.rs` is many steps, and between any two of them an answer
may arrive, an agent may claim the message, a quiet time may begin, the disk may
refuse a line or the device may stop.  `here`, `answered` and `noticed` are the
message, a reply to it and the notice in the chat; `held` is what keeps it back
(an orphan's wait, a claim, the warden); `decision` and `file` are the ledger
in memory and on disk, `runs` the message's entries in the inbox, `drain` the
place of the loop.  The choice of agents is any of the right size.  `dispatch`
may refuse an agent (`Refuse`: the device is set to pull, the agent does not
resolve, the inbox cannot be written) and the drain goes on.  A put-back is a
step for every expired run, not for every agent: a run put back first may have
ended before the next one of its agent is looked at.  Lines lost
by a crash or a full disk, and an offer of which no entry came, are remembered
in `cut`, so that properties can say which promises they cost.

### LockLog

The lock log is an array of a CRDT document (yrs, external).  All items ever inserted have one
total order that every copy respects and deletion only marks an item, so the
model keeps that order once (`log`) and gives every device the set of positions
it has `seen` and the set it has `dropped`.  A new item is placed behind the
last item its device has seen.  Items inserted apart behind the same item are
ordered by client id, each followed by what was appended to it; `Places` allows
every place this leaves, so the order of client ids is a choice
made at each insertion (an over-approximation: ids that are compared twice may
be ordered differently).  Inserting shifts positions, in the copies and
snapshots too (`Moved`).

`Apply` is one step of `replay`, `Replay` a recursive function over the log,
`Compacted` what `compact_lock_log` and `compact_persisted_lock_log` keep.
`Bind` is `write_bind` with its refusal, takeover and append; the request is
stamped at one reading of the clock and the holder judged at a later one
(`judged`), as in the code.  A new entry's id is one no entry has (`FreshId`,
the code's UUID).  A renewal by `release_finished_locks` is a `Bind`
of the holder, and its release of a finished run's locks is a `Release`.  `Receive` merges another
device's copy whole.  `Save` writes the snapshot and `Restart` starts from an
empty document into which the snapshot's entries are pushed as new items, which is what
`store::control::restore` does.  Devices' clocks tick independently.

### Readmission and MembershipStanding

Three devices: the `Admin`, which signs and keeps the MLS group; a `Member`,
which relays; and the `Joiner`, which is removed and let in again.  `records[d]`
are the signed membership records a device has, `tombstone` the legacy list,
`request`, `entry` and `published` the Joiner's request, its member entry and
its KeyPackage, `welcome` the Welcomes the Admin keeps.  `leaves` and `log` are
the group's epochs and commits, `group`, `keys`, `tried` what the Joiner has of
them, `wire` the snapshots of the bootstrap stream under way, `task` and
`clearing` the places of the Joiner's consumer and of the Admin's approval.
`setting` is a rigid variable: the circumstances of a behaviour (how many
key holders, whether the Member relays, whether the Admin's `join_policy` is
`Auto`, budgets of restarts, cuts and busy documents).

`Approve` is what both approvals end in.  `SweepApproves` is the loop under
`JoinPolicy::Auto`: it needs a request, and `screen`, what the Admin's document says
of the admission, must admit (`grant_admits`, `distrusted_identity`); otherwise the
request stays.  `ApproveByHand` is `approve_member`: it asks for neither a request
nor a grant, and refuses a distrusted identity only.  `Rescreen` lets the
answer change at any time: an invite expires or is renewed, its inviter leaves
or returns, an identity is distrusted or trusted again.

`MembershipStanding` is what `membership.rs` promises: a device's standing for
a peer is a record that a key holder signed, and it is replaced only by one of
higher rank: the later generation, and of one generation the removal.
`ImplementsStanding` instantiates it for each device with the record its standing
goes by.

### ProposalLog

One proposal.  `log[d]` are the immutable events a device has, with their
authority; `record[d]` the mutable record that travels beside them.
`making` and `deciding` are the two halves of `append_local`: it reads the log, and
appends with the parents and the time it computed then, the lock being taken
only for the second.  Every end of a stream has a `phase`, the events it `have`s
from its HAVE message, those the peer is `known` to have, a `queue` of
notifications that may have `lagged`, and what is on the `wire`.  The order of
materialisation (`order_key`, `event_key`) is the code's, and the status is
the fold over it.

### ProposalEngine

`disk` is the workspace, `baseline` the stored state the engine has accounted
for, `base` its copy in memory, `journal` the evidence of writes through the
agent client (a set of records, each a file of its own in the code, consumed in
the order of their ids), `order` the lock `WRITE_ORDER`.  The loop is a program counter:
listen, consume the evidence (one action per await), scan, record one proposal
at a time, move the baseline, consume finished runs.  `notes` are the loop's
dirty, interactive and expected paths, `window` what a window has read and has
yet to do.  `coming`, `told` and `announced` are the three channels; an event
arrives some time after its write, or not at all when a channel overflows or
nobody listens.  `Stop` is a failure of the engine or of the device at any
point.  `slipped`, `forgotten` and `overtaken` are history variables, the paths
of the races named under *Known limits*.

### FileSync

`disk[d]` is the file, `docs[d]` the document, a set of inserted and removed
chunks that merges by union (yrs, external), `saved[d]` its persisted state,
`flag` the self-write flags, `events` and `flushes` what the watcher and the
flush tasks have yet to do, with the text they read, `tombs` the deletions map as a
tree of entries, `now` the time that tombstones and files are stamped with.  One stream joins the
devices: `stage` is how far it is, `asked`, `told` and `owed` whether the peer asked for the file,
which chunks it said to have, and whether its answer is yet to come, `frames` and `deletes` the
updates and deletions under way.  A text is the
set of the users' versions it holds: every write of a user makes a new version.

A push leaves out a document of which the peer said to have everything (`News`).
A step that meets a busy document, or a file that cannot be read or written, is dropped as the
code drops it, and counted in `missed`: an event that is not ingested (`IngestFails`), a
flush that reads nothing (`FlushNothing`), one that writes nothing or half a file
(`FlushFails`), a state that is not saved (`Save`).  `deletions::apply` compares the time of a
file, which a flush sets as well as a user, with a tombstone's, which another
device's clock gave: the model lets it keep or remove a file that is there whatever the
model's clock says (`Spares`), and calls it a race when that is not what the order of the users'
writes and deletions asks for (`Spared`).  A restart finds in `control.json` the tombstone, an earlier one or none
(`Remembered`), since that file is written at a clean stop and every 30 s; it is a race when it is not the latest.

## 3. Runs

| Run | Result | Question |
|---|---|---|
| `inbox_one_circle` | holds | One Circle, two agents, failed writes, crashes, reopening: is what was acknowledged on disk, is no turn run twice, does a cascade pay for its turns, do addressed requests give way last? |
| `inbox_two_circles` | holds | Two Circles under one device limit: is the shared table exact, are the queues bounded, and does recovery drop only what does not fit? |
| `blind_vote` | holds | A vote of two that may grow to three, with withdrawals, retries, failed posts and a restart: one post at most, after its voters ended, of an answer that was not a tie-breaker's own, agreed by two agents unless the user retried; and is a held answer posted or given up aloud? |
| `lock_safety` | holds | Two devices, skewed clocks, a restart and entries of an old build: does compacting earlier change a holder, do others agree on the locks of one device, does a granted bind hold the path? |
| `readmission` | holds | Records, snapshots, Welcomes and commits in any order: does every standing follow the abstract one, is a good group kept, do keys change once per cause, and does who was readmitted come back? |
| `proposal_decisions` | holds | Two users decide apart while events and records travel in any order: does every log give the decision of highest precedence? |
| `proposal_streams` | holds | From the subscription to the live loop, with a lag, an unreadable event, a cut or a restart: is no event stranded, and do the logs meet? |
| `proposal_engine` | holds | Writers, surfaces, the agent client, a review and a run, with one failure or overflow: is no change lost, do a run's changes wait for its review, does the baseline come to agree with the disk? |
| `file_sync` | holds | Two users write, delete and re-create a file while a stream opens, is cut or loses frames, a device restarts or a step is lost to a busy document: does a deletion stick, do settled devices hold the same file, does what is saved agree with the disk? |
| `file_overwritten` | violated | Does the saved document hold what the disk holds? |
| `ambient_ledger` | holds | One message, two agents, claims, replies, a retry, a full disk and a restart anywhere: is the number of turns bounded, is the notice final, is the message never forgotten? |
| `ambient_replayed` | violated | Does a put-back leave alone a turn that ran and was interrupted? |

### Bounds, and why they are enough

*Inbox.*  Limits of two are the least at which a queue is full without being
empty after one displacement; the Circle's limit is below what two agents may
queue together so that both branches of displacement happen, and the device's limit is
below what two Circles may queue.  The allowance is above the ceiling, so the
cap bites.  Four entries allow admit, displacement, retry and a new arrival.
The theorems of section 5 hold for all limits.

*Vote.*  Three agents are two voters and one that may be added.  Two post attempts
are a failure and a retry; four entries allow a retry beside three voters.  One
restart suffices: a second one finds no board either.

*Ambient ledger.*  Two listeners, both of whom may answer, two attempts and two
expired rounds, one restart and one mishap (a user's retry, a lost line or a
claim); refused dispatches are not bounded.  Four expired runs are enough for an
agent with several, all put back in one drain.
`ambient_replayed` needs a third round and a second restart, and no mishap.

*Locks.*  `COMPACT_THRESHOLD` (2000) is a constant, 2 on the instance, so
that compaction happens after three entries.  Three items are
enough for two acquires made apart and a third that meets their compaction;
the theorems of section 5 remove every bound.
Clocks read 0 or 1 and differ by one; leases last 1 tick, so that a lease ends
between two entries and at the very reading that judges it (`Service` = 1).
The two agents have one name and differ by device only, the harder
case for `same_actor`, and an inherited entry has no device.

*Readmission.*  Two generations are a removal and a readmission on top of an
earlier pair.  Five settings keep the state space of each kind of trouble
apart: one with a restart, a cut and a busy document (7 epochs, 6 identities),
one with two key holders and a relaying member (4 epochs, 3 identities), one in which the
Admin's approval is overtaken, one in which what the document says of an admission changes
freely (5 epochs, 4 identities), and one in which only an admin approves, by hand.

*Proposal log.*  Two devices and one link.  Three verdicts and two concurrent
decisions are what precedence is about (`proposal_decisions`, without faults);
one decision besides the creation and one fault of any kind are what a stream
can strand (`proposal_streams`).

*Proposal engine.*  Two paths and two writes, one of them by the client and one
by a surface, and one event among restoration, overflow and failure.

*File sync.*  Two devices, two user events and one cut or lost frame, three
chunks and five tombstones (what two events on two devices can make), and one step
lost to a busy document or a failing file (none in `file_overwritten`, which needs none).
`Onward` = FALSE ends a behaviour at the race of `file_overwritten`, whose
consequences are without end; the other run goes on and shows it.  The theorems of section 5
hold for every value of these bounds, and of `Onward`; two devices and one file remain.

Symmetry is used over Circles in `inbox_two_circles` and over devices and paths
in `lock_safety`; neither run checks liveness.  Deadlock is checked where the system
cannot stop (inbox, locks); a vote, a message, a sync or a bounded budget ends,
so the other runs switch the check off.

### Fairness

Nothing is assumed of users, of faults, or of anything that the code does not
drive by itself.

* `BlindVote`: weak fairness of the worker's look at a waiting voter, of each
  step of a settle and of the background retry, and strong fairness of the end
  of a turn, since a turn that is put back and launched again and again ends at
  some time.  The worker looks at every waiting run at each reconcile tick, the
  steps of a settle and of `retry_post` are tokio tasks that await only bounded
  sleeps and the post itself, and a turn is ended by its liveness deadline if by
  nothing else.
* `AmbientLedger`: weak fairness of the drain's steps, of the end of a claim
  and of the warden's wait (both have deadlines), of quiet, and of a worker's
  launch or withdrawal; strong fairness of the end of a turn, as above.  That
  `dispatch` admits is not assumed: `NothingForgotten` has it in its antecedent
  that refusals end (`RefusalsEnd`).
* `Readmission`: weak fairness of reconnecting, of the Admin's bookkeeping and
  of the Joiner's consumer, all loops of the daemon; strong fairness of the sweep,
  of the two directions of the stream and of the merge, which connections that
  come and go enable again and again.  The sweep is fair only where it runs
  (`JoinPolicy::Auto`) and admits; of an admin that approves by hand nothing is assumed,
  and `ReadmittedComesBack` has both in its antecedent.
* `ProposalLog`: weak fairness of the tasks of a stream.
* `ProposalEngine`: weak fairness of the loop and of the end of a client's write,
  strong fairness of hearing a message, since the loop selects over its channels
  between windows.

## 4. What the violated runs show

* `file_overwritten`.  the comment in `store/fs.rs` says that saving the document
  right after writing its file guarantees that the two always match.  The flush
  reads the text and writes it later; a user's write that the watcher takes in
  between is in the saved document and overwritten on the disk.
* `ambient_replayed`.  `docs/development/reference/execution-inbox.md` says
  that an interrupted run is not retried automatically, since it may already
  have had effects.  The drain that puts
  expired runs back looks at every expired entry of the message, also an older one of
  an agent that was put back before, ran and was interrupted by a second
  restart; that agent gets another turn.

### Known limits

What follows was met while modelling; the properties name these cases in their
antecedents, or the models leave them out, and each is a real limit of the code.

* *Withdrawn voter.*  A waiting voter that is cancelled or displaced ends on a
  path without a call of `settle`; when it is the last of its round, the answers
  the others gave are never posted (`RoundsSettle`).
* *Reopened vote.*  A round in which every turn failed is marked done; a voter
  the drain puts back answers into a closed vote.
* *One voice.*  The round counts entries, not agents: one agent whose failed run
  the user retried twice agrees with itself (`TwoAgentsUnlessRetried`).
* *Tie-breakers among themselves.*  When the largest vote is two or more above
  its start, two added agents may agree with each other.  The comment in
  `reaction.rs` says an added agent only takes sides, which is true up to one
  above, the default (`TieBreakersConfirm`); `TieBreakersNeverAlone` is what
  is true in general.
* *Compaction and an entry in between.*  An acquire made apart may be ordered
  between an acquire and the release that another device has compacted away; in
  the whole log that pair takes the path over and frees it, without the pair the
  first lease stands.  `CompactionIsUnseen` is about what follows a copy.
* *Restored lock snapshot.*  A restarted device enters its snapshot's entries as
  new items.  Merged with the copies of its peers, an old acquire stands behind
  its own release, and the released path is held again until the lease ends.
* *Ambient.*  A crash between the ledger's line and the admission leaves the
  message offered to nobody.  A device without a ledger file decides at a
  restart that what had arrived is from before.  A pending turn cancelled for
  another's claim settles the message even if the claimer never answers.  More
  agents than `ambient_responders` may be put back after two restarts.
  `drain_ambient` does not look at the reaction mode, `dispatch` does: a device
  set to pull writes `Offered` and admits nobody, and the message is never
  looked at again; so it is when no agent resolves or the inbox cannot be
  written (`Lost`).  A message that failed once under push and is then refused
  for the agents not yet tried is offered to them again at every drain, with no
  notice, as long as the refusals last (`RefusalsEnd`).  The drain puts back
  every expired run of a message, also an older one of an agent whose later run
  failed, and several of one agent when each ends before the next is looked at:
  one message may cost more turns than `ambient_max_attempts`, up to
  `TurnLimit`.
* *Membership.*  When the control document is busy a record is not merged, and
  is not sent again before the sender changes or reconnects; a removal check
  fails open; a group that was just joined may be dropped then.  Clearing a
  request may erase a newer one.  Readmitting a device does not renew its invite: when
  that has expired, or the approval policy is not `Auto`, the request waits for an admin
  (`ReadmittedComesBack` is about the sweep that admits).
* *Proposal log.*  A status change that travels in the record without its event
  is not an event of the log that receives it; two streams that both write
  while neither reads can block each other (bounded channels without a timeout).
* *Proposal engine.*  Held interactive changes, and the second proposal of a
  window, are lost by a stop (`forgotten`); an operation of the agent client on
  a path that a window has read is recorded again by the next one (`overtaken`);
  a write between the first scan and the subscription is seen by the next
  event only (`slipped`).
* *File sync.*  Besides `file_overwritten`: a flush under way writes a deleted
  file back; a crash between the file and its saved state doubles the text; the
  content of a file that was deleted apart comes back merged with the new one;
  a deletion while the daemon was stopped is forgotten; a tombstone restored
  from a snapshot is a new CRDT item.  A tombstone that is cleared while another
  device records one apart stands as the later of the two if its client id is
  the higher; the map then has no value, the other device's deletion is not
  seen, and the file comes back.  In the same way the map's value may be an older
  deletion than another that stands.  A start restores only the value and reconciliation
  compares the file with it alone, so that a file on the other device which the later deletion
  should have removed is spared, and comes back to where it was deleted.  This takes five events
  (two deletions, a write, a restart and a cut) and was found while proving `DeletionSticks`;
  `raced` names it (`Forgets`, `ClearsFresh`).  A document made only to answer a handshake that
  was then cut is empty and has no file; if the device misses that the path was deleted and
  made again, it sends this document in the next stream, and its flush empties the
  other's new file before that was read (six events: a cut, a deletion, a cut, a write, a cut and
  the stream; found while proving `DisksMeet`, named by `Empties`).  A file whose creation events the system
  dropped stays when a peer's tombstone arrives before the sweep.
* *File sync, deletions.*  `apply` spares a file whose modification time is after
  the tombstone, and clears the tombstone.  A flush gives that time too: a flush of an
  unchanged document, which every handshake answer starts, that runs after the peer deleted the file makes the
  file outlast the deletion when the stream is cut before it is told, and so does a clock that is ahead
  (`raced`, where `apply` decides).  `control.json` is written every 30 s: a crash loses a
  tombstone recorded since, or brings back the one before it, and the file returns from the
  peer (`raced`, in `Restart`).  A deletion on a device between its handshake answer and its
  subscription is not broadcast, and its push tells the tombstone only, after which the peer has reconciled and
  does not remove its file before the next stream; the comment at `network/sync.rs:1008` says of this
  window that push and subscription overlap "instead of leaving a gap" (`deferred`, in `RecordRemoval`).
* *File sync, lost steps.*  `ingest_file` gives an event up when the document is busy or the file cannot be
  read, `flush_to_disk` a flush when the document is busy, `crdt::save` the state; a failed
  write is ignored in both.  Nothing takes these up before the next event of the file or a restart, so the
  document, its saved state and the file may differ till then (`missed`).  A file that
  cannot be read at a start is left to the sweep, which makes it a new document, and a document that is busy at a
  start is not restored; the models leave both out.
  While the control document is busy a deletion is neither recorded, cleared nor seen (`deletions::record`, `clear`,
  `get`), and the file may come back from a peer; `FileSync` takes that document as never busy.

## 5. Proofs

Each `...Proofs` module is checked by TLAPS from the one named assumption on the
constants of its module (`InboxAssumption`, `VoteAssumption`, ...), which TLC evaluates on
every run of it: that Circles, agents or devices are finite sets, limits are
numbers, and what the code's configuration guarantees of them.

*Inbox.*  `Invariance` proves `Spec => []Inv` for every set of Circles, messages,
agents and every value of the limits, where `Inv` is the conjunction of `TypeOK`,
`AckedIsDurable`, `OneLiveAttempt`, `NeverReplayed`, `AggregateExact`,
`QueuesBounded`, `CascadePaid` and one part that no run checks, `ExecutedOnDisk`: a run that was handed to
an agent is an entry of the file.  The properties that speak of a snapshot
speak of the file as well as of memory, because recovery makes the one the
other.  They are not inductive one by one.  Memory may fall behind the file when
a write fails after the rename, so every operation needs `AckedIsDurable` to know that the
snapshot it starts from is the file; without `ExecutedOnDisk` a
failed write could lose the entry of a run that already executed, and a later request could be
admitted at its position and wait there, which `NeverReplayed` excludes; and
`AggregateExact` needs the owner's table to be typed and unchanged by a failed
write.  The proof has one lemma per operation that says
what the operation writes (`AdmitWrites`, `RetryWrites`, ...), and one that any
such write keeps `Inv` whether it succeeds, fails before or fails after the
rename (`WritesInv`); `OpenInv` and `DisownedInv` cover recovery, close and crash.
What an operation writes keeps its Circle's limit and takes at most one place of the
device, and only if there is one (`Fits`); the places taken are the cardinality of a finite
set of shares, so that the sum over Circles needs no induction (`ShareChanges`, `ShareAdds`), and
recovery keeps the oldest that fit (`ReopenedFits`).  The three action properties
follow from the same lemmas: all ten properties of the two runs are theorems.

*Vote.*  The invariant has three layers: types; what holds whatever
anybody does (the board of a message settles once at a time and posts once);
and what holds while the user has not retried a run (`Undisturbed`: every agent was asked
once, nobody runs when a round is resolved, the ballots on the board are those of the
entries).  `AtMostOnePost` needs the first two only; `NobodyStillVoting`
and `TwoAgentsUnlessRetried` the third.  Ballots are counted by pigeonhole: a
round that is complete has a seat for every voter.

*Ambient ledger.*  The invariant relates memory to the file: unless a line was
lost, the file ends with the decision in memory; an undecided message has no
runs; a noticed one is given up.  On it rests that attempts are bounded
(`TurnsBounded` counts every turn of every listener, over restarts) and that
nothing starts after the notice, for any number of agents and any limits.  The
bound counts the turns that cost, the agents the drain is about to admit and
the runs it is about to put back: it takes up runs only where fewer than the
attempts allowed were spent and fewer runs expired than the rounds allow
(`AttemptsSeen`), and each step moves one from the drain to the inbox at most.

*Locks.*  `CompactionIsUnseen` proves that compaction is transparent: whatever a
copy holds, wherever in its log it is compacted and whatever entries follow, the
same acquires hold the paths as without the compaction.  This is the argument
the comments of `arbitration.rs` give for keeping the current acquires only, and
it is about a fold over a log of any length.  TLAPS has no induction principle
that takes an operator, so the module proves one for sets (`SetInduction`, from
the well-foundedness of <), and with it that the recursive function of `Replay`
satisfies its equations (`ReplayUnfolds`), that a holder is an acquire of its
path in the copy (`HolderIsAcquire`), and that one such acquire replaces all that led to
it (`HolderSuffices`).  One entry more in the log changes no holder before it,
and shifts the later ones when it is of another path or not in the copy (`ReplayShifts`).
`DevicesAgree` is about copies that were synchronised and compacted differently: for a path
that one device used alone, a copy has that device's first entries without a gap (`NoGap`),
and has dropped of them all up to some entry but the acquire that held there
(`KeptFrom`).  That every step keeps this, the insertion of an entry of
somebody else in any place included (`FineMoves`, `FineGrows`, `FineMerges`,
`FineCompacts`), is the inductive invariant `SoleFine`, which holds until a snapshot is
restored.  `BoundMeansHeld` is the action property of a granted bind: `AcquireTakes`
for the entry, `CompactedHolder` for the compaction that follows it, and
`NewIdIsNew`, since a release that bears the same id would undo it.  All
properties of `lock_safety` are theorems.

*Membership.*  `StandingImplemented` is the refinement: every step of `Readmission`
is a step of `MembershipStanding` or leaves its variables alone, under the
invariant that what travels was signed.  `StandingNeverFalls` is the action
property drawn from it.  `LiveGroupIsKept` needs to know of every snapshot
and Welcome under way with which records it left (`Relayed`, `Approved`) and
which of the leaf's epochs it was made in (`UnderWay`); `KeysReplacedOnce`
counts the leaves up to the last Welcome that did not open (`ReplacedBy`).  The
attempt to prove `LiveGroupKept` as it first stood failed: a KeyPackage that was approved
again after a removal, and records set aside by a busy document, are two ways to lose a
group that is still good, and the property now names them.

*Event log.*  `PrecedenceStands` rests on the order of materialisation being a total
order on distinct events: ranks are numbers, so no induction is needed.  That
events are distinct over all devices is an invariant (`AtOrigin`: the maker of
an event has it), and `StampsFresh` covers the unlocked read of `append_local`.
`NothingStranded` is an invariant per end of a stream: each event of the log is in what
the peer has, on the wire, in the queue, or will be found by the recovery of a lag.

*Proposal engine.*  Every property of `proposal_engine` that is not temporal is a theorem,
from `ProposalEngineAssumption` alone.  `ChangesAreNeverLost` rests on the
invariant `Lossless`.  One content of a file *leads* to another when recorded
changes take the first to the second, and the invariant says of everything the engine may
diff against that the history leads to it: each recorded change starts at a content that the
history leads to (`Sourced`), and so do the review messages (`Heard`), the start
of a burst (`BurstLeads`), the plans and the result of a window (`PlanLeads`,
`ResultLeads`), the baseline in memory and on disk (`BaseLeads`) and what a
restart takes for the baseline (`RecoveredLeads`, which needs the events of an unfinished
window to be in their order), except on paths whose changes are held or are yet to be recorded.
The exception is where it could go wrong: were a held
path's disk to go back to a recorded content, the diff would be empty and
the change in between gone.  `Untold` excludes this, since a write makes a new content
and a review starts from a recorded one, and it needs `Past`, that no content
is newer than the writes made.  `Evidenced` ties each operation's proposal to its
evidence, whose ids are unique, so that an operation that a crash leaves behind is recorded once.
`ReviewIsGated` adds `Reviewing`: once a finished run was consumed, or the window
that will consume it has read the disk, whatever the run wrote and can still be
found, on the disk or in the evidence, is recorded or planned, with the run's
review before it.

*File sync.*  `SavedStateIsTheFile` is what the comment on the save in
`store/fs.rs` claims, with the races and the lost steps excepted that break it.  It is not
inductive, since it speaks of a device with nothing under way.  `TiedUnlessRaced` says of
every state how the file, its document and the saved state hang together: a document that is gone
has no saved state and only late flushes, a saved state without a file
has a removal to be heard, a self-write flag has its event to come, and a text that is not the
document's has an event that will be read, a second one if the first will be
skipped.  Its crux is that a text that is read replaces the document's
(`ReplacementReplaces`), which needs the inserted chunk to be new to the
document, also as something other chunks wait for: chunk numbers are given out
once (`Numbered`), and what is known of them anywhere, in documents, saved
states, flushes and frames, was given out.  `TypeCorrect` rests on this too,
and on the order of tombstones being total, so that a tombstone's value is
determined: client ids are new at each start and a device has all that it
made itself (`Entries`), hence no two entries have one place (`OneEntry`).
`DeletedStaysDeleted` is `DeletionSticks`: the file is gone and either its removal is still to
be heard or the deletion is *held* (`Phase`).  To be held it must stand in the device's map now and
after any number of the frames on the way (`Standing`, `Core`), and one deletion must be
removed in neither map (`Survives`), since a device may answer with all it knows at any time.
Nobody may be able to clear it either: on the other device the file is gone and its deletion
stands too, or the device knows a deletion as late as the present time (`Latest`), so that no file outdates it.
What is on the way must be known to its sender (`Known`), and what was removed must have been an
entry of a client that was started (`DeadMade`), or a new deletion could be born removed.
Every step but a recorded removal lets what is held be held on (`HeldOn`), lets
files that are gone stay gone and removals be heard (`BodiesOn`); a recorded
removal makes the deletion held (`RecordHolds`).  The attempts to prove it
found the masked deletion and the forgotten one of section 4: two devices
delete apart in both, which the bounds of the run do not reach with what must follow.
`DisksAgree` is `DisksMeet`: devices that settled on a live stream hold one file, or none.
Its invariant `Meets` says what a stream has yet to do.  `Handshakes` says where it stands
while it opens: who still waits for an answer, and that a device which has not
pushed yet has sent nothing else.
`Outdated` says that a deletion which only one of two devices takes to stand is excused:
the other one has a file or will hear that it went, or knows another deletion
that is to come (it needs `KnownDead`: who removed an entry that the other
device still has knew it).
`Unsaved` says that a document which was never saved is empty or has a flush
to come.  The rest, `Undisturbed`, is about an open stream to which no race
happened and no step was lost.  Its steps are those of `Flows`, or a recorded removal (`CleanSteps`), so that each
lemma treats a few forms of a step instead of all actions.  What was pushed
arrives (`Passed`), and what a device takes to be deleted stands out in its map (`Unmasked`).
Then either no deletion survives, and the stream is *calm*: each device knows what the
other one does of deletions (`Informed`), and each chunk of a pushed document, each
removal of one, and the document itself are with the peer or on the way to it (`Sourced`, `Shared`,
`Offered`), so that once nothing is on the way both documents are one, and
`TiedUnlessRaced` makes the files so; for a document without a saved state a
flush or a file is to come (`Bare`).  That a push may leave out what the peer has rests on
`Claimed`: what the peer said to have when it asked, it still has, since a document
only grows while no deletion survives.  Or one survives, and the stream is *doomed*: a file that is
to be applied is followed by a removal (`Foreseen`), and a device that has the
file will hear of the deletion, or will remove it (`Removable`, `Retracted`).  A device that is not live yet knows of the deletion by
the time it has the other's answer, or hears of it later (`Warned`): so the push of a document to
a device that was told all of it, which sends nothing, comes from a device that knows, and the
deletion needs no frame of the file to be seen.  A recorded removal leads from
the first to the second (`DoomedRecord`), where the window between answer and subscription is the excuse `deferred`, connecting to either (`CalmConnect`, `DoomedConnect`).  The
attempt to prove it found the empty document of section 4, six events long.

### What is only model-checked

* The temporal properties `RoundsSettle`, `ReadmittedComesBack`, `LogsMeet`,
  `AllRecorded` and `NothingForgotten`.  They need fairness, and TLAPS as used here has
  no rule for `ENABLED`, so that what they rest on stays with TLC.
* What a recursive definition computes beyond the equations of section 5's
  *Locks*: the induction theorems of the library take an operator as a
  parameter, which the provers cannot instantiate.

## 6. What is not modelled, and why

* Admin handover: one offer and one acknowledgement, and the leaver deletes
  nothing before the latter.  It belongs with the commits of a leave, which
  `Readmission` leaves out as well.
* Starting, stopping and leaving a Circle, and the supervision of its tasks: the
  models take the tasks as running, and let them fail or restart.
* Deciders and policies of the warden, merge adapters, prompts and drivers: what
  they answer depends on a language model or a text algorithm, and is a free choice
  where another module uses it.
* Tasks and chat: one write of the CRDT library per request, with its convergence.
* Identity, invitations, encodings, transport, command line and HTTP decoding:
  libraries and I/O, without state that several actors share.
* Directories, renames, ignore rules and conflict copies of the workspace: one file is
  modelled, and these multiply it.
