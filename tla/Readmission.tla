---------------------------- MODULE Readmission ----------------------------
(***************************************************************************)
(* One device leaves a Circle and comes back (src/src/membership.rs,       *)
(* api/members.rs, lifecycle.rs, mls/, network/mls_bootstrap.rs).  The     *)
(* admin removes it and readmits it with signed records; every device      *)
(* keeps the records it was relayed in its copy of the control document.   *)
(* A readmitted device still needs a leaf in the MLS group: it drops the   *)
(* group it was removed from, files a join request, and joins from the     *)
(* Welcome that the admin's approval makes.                                *)
(*                                                                         *)
(* The model follows one such device, the Joiner.  The Admin is the only   *)
(* device that commits to the group.  The Member is any other device: it   *)
(* relays what it knows of the Joiner.  The Joiner and the Admin exchange  *)
(* snapshots over the bootstrap stream, which needs no MLS key.            *)
(*                                                                         *)
(* MLS (external): an epoch of the group is known by the Joiner's leaf in  *)
(* it, and a Welcome opens with the private part of the one KeyPackage it  *)
(* was made for, once.                                                     *)
(***************************************************************************)
EXTENDS Naturals, Sequences, FiniteSets

CONSTANTS Admin, Member, Joiner,
          Settings,    \* the circumstances to look at, see Setting
          MaxGen       \* bound: records signed about the Joiner

Contacts == {Admin, Member}
Devices == Contacts \cup {Joiner}

\* What the Admin's document says of an admission: a valid invite grant and a
\* trusted identity, a grant that does not admit (none, expired, redeemed by
\* another device, its inviter removed), or a distrusted identity.
Screens == {"admits", "refuses", "distrusted"}

\* One choice of circumstances.
Setting ==
  [present    : {P \in SUBSET Contacts : Admin \in P},  \* contacts that take part
   holders    : {H \in SUBSET Contacts : Admin \in H},  \* who holds admin.key
   auto       : BOOLEAN,  \* whether the Admin's join_policy is Auto
   screens    : SUBSET Screens \ {{}},  \* what may be said of an admission
   prompt     : BOOLEAN,  \* whether the tick of the stream is slower than tasks
                          \* on a device, and faster than the sweep of requests
   tombstoned : BOOLEAN,  \* whether the Circle may begin with the Joiner removed
                          \* by a build that wrote no records
   epochs     : Nat \ 0 .. 2,  \* bound: epochs of the group, of which 3 may be past
   keys       : Nat \ {0},     \* bound: KeyPackages the Joiner makes
   busy       : Nat,      \* bound: times the Joiner's document is found busy
   restarts   : Nat,      \* bound: restarts of the Joiner
   drops      : Nat]      \* bound: connections lost

ASSUME ReadmissionAssumption ==
  /\ Admin # Member /\ Admin # Joiner /\ Member # Joiner
  /\ Settings \subseteq Setting /\ MaxGen \in Nat

VARIABLES
  setting,     \* the circumstances, which never change
  \* The control documents.
  records,     \* records[d]: the membership records in d's document
  tombstone,   \* tombstone[d]: the Joiner is in d's mls_removed
  request,     \* request[d]: the Joiner is in d's mls_pending
  entry,       \* entry[d]: the Joiner's member entry, by who wrote it
  published,   \* the Joiner's KeyPackage in the Admin's document
  welcome,     \* the Joiner's Welcome in the Admin's document
  \* The MLS group.
  leaves,      \* leaves[e]: the Joiner's leaf in epoch e, as the Admin has it
  log,         \* commits in the Member's document
  followed,    \* the Member's epoch
  \* The Joiner.
  group,       \* its group
  keys,        \* the KeyPackage it published last
  unspent,     \* whether it still holds the private part of that
  tried,       \* last_welcome
  rotated,     \* rotated_for
  admitted,    \* mls/admitted_gen
  task,        \* task[d]: what is left to do of a snapshot from d
  clearing,    \* a task to remove its own request was spawned
  \* Connections to the Joiner.
  link,        \* the contacts it is connected to
  wire,        \* the Admin's snapshot under way
  sent,        \* the last snapshot the Admin sent on this connection
  offered,     \* the last snapshot the Joiner sent on it
  \* Budgets, and what they were spent on.
  busy, restarts, drops,
  forgot,      \* an admission was recorded without its generation
  screen,      \* what the Admin's document says of an admission
  under,       \* history: the generation the Admin held at the last approval
  missed       \* records or a request were given up, the document being busy

document == <<records, tombstone, request, entry, published, welcome>>
mls == <<leaves, log, followed, screen, under>>
keyring == <<keys, unspent, tried, rotated>>
local == <<group, keyring, admitted>>
running == <<task, clearing>>
stream == <<wire, sent, offered>>
budgets == <<busy, restarts, drops, forgot, missed>>

vars == <<setting, document, mls, local, running, link, stream, budgets>>

Present == setting.present
KeyHolders == setting.holders
Prompt == setting.prompt
MaxEpoch == setting.epochs
MaxKeys == setting.keys

Record == [gen : 1 .. MaxGen, st : {"in", "out"}]
Package == [id : 0 .. MaxKeys, n : 0 .. MaxKeys]
NoPackage == [id |-> 0, n |-> 0]
NoWelcome == [leaf |-> NoPackage, epoch |-> 0]
Group == [epoch : 0 .. MaxEpoch, from : 0 .. MaxEpoch, leaf : Package, active : BOOLEAN]
NoGroup == [epoch |-> 0, from |-> 0, leaf |-> NoPackage, active |-> FALSE]
Welcome == [leaf : Package, epoch : 0 .. MaxEpoch]

\* A member entry is absent, signed by the Joiner itself, or written by the
\* approval that made an epoch (an approval makes epoch 2 at the earliest).
NoEntry == 0
SelfSigned == 1

-----------------------------------------------------------------------------
(* Standing                                                                *)

\* Fault: at equal generations, `in` decides.
OutranksInOnTie(r, s) == r.gen > s.gen \/ (r.gen = s.gen /\ r.st = "in")

\* deciding: the record of highest generation, `out` at equal generations.
Outranks(r, s) == r.gen > s.gen \/ (r.gen = s.gen /\ r.st = "out")

Unnamed == [gen |-> 0, st |-> "in"]

Deciding(R) ==
  IF R = {} THEN Unnamed ELSE CHOOSE r \in R : \A s \in R : Outranks(r, s) \/ r = s

\* next_gen, one above every record held.
NextGen(R) == Deciding(R).gen + 1

\* standing: whether the deciding record of R, if any, says st.
Says(R, st) == R # {} /\ Deciding(R).st = st

\* is_removed: the tombstone counts only where there is no record.
RemovedBy(R, tomb) == IF R = {} THEN tomb ELSE Says(R, "out")
Removed(d) == RemovedBy(records[d], tombstone[d])

\* Fault: a readmission counts even when it is the one already admitted under.
ReadmittedEver(R) == Says(R, "in") /\ Deciding(R).gen >= admitted

\* readmission_gen and readmitted_since_admission.
ReadmittedSince(R) == Says(R, "in") /\ Deciding(R).gen > admitted

-----------------------------------------------------------------------------
(* The group                                                               *)

Epoch == Len(leaves)
Leaf == leaves[Epoch]

\* The Joiner holds a leaf in the Member's copy of the group.
KnownToMember == leaves[followed] # NoPackage

\* Fault: any leaf is taken for completed admission.
PlaceByLeaf == IF Leaf = NoPackage THEN "absent" ELSE "current"

\* MlsState::standing: the Joiner's place, judged by what it published.  A
\* KeyPackage of the leaf's own identity is the leaf's; one of another
\* identity may replace it when it is newer.
Place ==
  CASE Leaf = NoPackage            -> "absent"
    [] Leaf # NoPackage /\ (published = NoPackage \/ published.id = Leaf.id) -> "current"
    [] Leaf # NoPackage /\ published # NoPackage /\ published.id # Leaf.id ->
         IF published.n > Leaf.n THEN "stale" ELSE "unproven"

\* The Joiner is a member again in all that matters: it follows the Admin's
\* group with the leaf that the Admin has for it.
Back == group.active /\ group.leaf = Leaf /\ group.epoch = Epoch

\* apply_commit over the commits up to epoch e.  A commit that gives the
\* Joiner's leaf to another KeyPackage, or takes it, makes the group inactive.
Followed(g, e) ==
  LET lost == {k \in g.epoch + 1 .. e : leaves[k] # g.leaf}
  IN  CASE ~g.active \/ e <= g.epoch -> g
        [] g.active /\ e > g.epoch /\ lost = {} -> [g EXCEPT !.epoch = e]
        [] g.active /\ e > g.epoch /\ lost # {} ->
             LET first == CHOOSE k \in lost : \A j \in lost : k <= j
             IN  [g EXCEPT !.epoch = first, !.active = FALSE]

-----------------------------------------------------------------------------
(* Snapshots of the bootstrap stream                                       *)

\* try_snapshot by the Admin; for_non_member when the Joiner has no leaf.
AdminSnapshot ==
  LET full == Leaf # NoPackage
  IN  [records |-> records[Admin], tombstone |-> tombstone[Admin],
       request |-> full /\ request[Admin],
       entry   |-> IF full THEN entry[Admin] ELSE NoEntry,
       welcome |-> welcome,
       commits |-> IF full THEN Epoch ELSE 0]

\* The Joiner's snapshot: without a group it knows no member, so it sends
\* every peer its own entries only.
JoinerSnapshot ==
  LET full == group # NoGroup
  IN  [records |-> IF full THEN records[Joiner] ELSE {},
       tombstone |-> full /\ tombstone[Joiner],
       request |-> request[Joiner], entry |-> entry[Joiner], published |-> keys]

Nothing == [none |-> TRUE]
Idle == [step |-> "idle"]

-----------------------------------------------------------------------------
(* Steps of the Joiner, as functions of its state                          *)

\* The accesses of the document that may find it busy: try_transact fails
\* while another task writes.
Accesses == {"held", "admission", "readmission", "removal", "request", "told"}

\* A step may meet contention at the accesses B.
Contention(B) == busy + Cardinality(B) <= setting.busy /\ busy' = busy + Cardinality(B)

\* settle_own_standing over records R and tombstone t: a removed or readmitted
\* device drops its group, and a readmitted one asks to join.  A read that
\* finds the document busy (B) says neither.
Readmitted(R, B) == "readmission" \notin B /\ ReadmittedSince(R)

SettledGroup(R, t, B) ==
  IF Readmitted(R, B) \/ ("removal" \notin B /\ RemovedBy(R, t)) THEN NoGroup ELSE group

Asks(R, B) ==
  /\ request' = [request EXCEPT ![Joiner] = @ \/ (Readmitted(R, B) /\ "request" \notin B)]
  /\ missed' = (missed \/ B # {})

\* Whether Welcome w joins: it opens, and no live group is traded for an
\* older one.
Opens(w) == unspent /\ w.leaf = keys
Joins(w) == Opens(w) /\ (group.active => w.epoch > group.epoch)

\* Fault: a Welcome that cannot be opened is tried again whenever it is resent.
HandledNever(w) == group # NoGroup /\ tried = w

\* The two tests that skip a Welcome already handled.
Handled(w) ==
  IF group # NoGroup THEN tried = w ELSE rotated = w

-----------------------------------------------------------------------------
Init ==
  /\ setting \in Settings
  /\ records = [d \in Devices |-> {}]
  /\ \E t \in {FALSE, setting.tombstoned} :
       /\ tombstone = [d \in Devices |-> t]
       /\ entry = [d \in {Admin, Joiner} |-> IF t THEN NoEntry ELSE 2]
       /\ published = IF t THEN NoPackage ELSE [id |-> 1, n |-> 1]
       /\ welcome = IF t THEN NoWelcome ELSE [leaf |-> [id |-> 1, n |-> 1], epoch |-> 2]
       /\ leaves = <<NoPackage, [id |-> 1, n |-> 1]>> \o (IF t THEN <<NoPackage>> ELSE <<>>)
       /\ group = IF t THEN NoGroup
                  ELSE [epoch |-> 2, from |-> 2, leaf |-> [id |-> 1, n |-> 1], active |-> TRUE]
  /\ request = [d \in {Admin, Joiner} |-> FALSE]
  /\ log = Len(leaves) /\ followed = Len(leaves) /\ under = 0
  /\ screen \in setting.screens
  /\ keys = [id |-> 1, n |-> 1] /\ unspent = FALSE
  /\ tried = welcome /\ rotated = NoWelcome
  /\ admitted = 0
  /\ task = [d \in Contacts |-> Idle] /\ clearing = FALSE
  /\ link = {} /\ wire = Nothing /\ sent = Nothing /\ offered = Nothing
  /\ busy = 0 /\ restarts = 0 /\ drops = 0 /\ forgot = FALSE
  /\ missed = FALSE

\* The holder d of admin.key signs and stores a record.
Sign(d, st) ==
  LET g == NextGen(records[d])
  IN  g <= MaxGen /\ records' = [records EXCEPT ![d] = @ \cup {[gen |-> g, st |-> st]}]

\* remove_member on the Admin: the record, the commit and the tombstone land
\* in one transaction with the removal of what the Joiner had published.
Remove ==
  /\ Sign(Admin, "out")
  /\ IF Leaf = NoPackage THEN UNCHANGED leaves
     ELSE Epoch < MaxEpoch /\ leaves' = Append(leaves, NoPackage)
  /\ tombstone' = [tombstone EXCEPT ![Admin] = TRUE]
  /\ request' = [request EXCEPT ![Admin] = FALSE]
  /\ entry' = [entry EXCEPT ![Admin] = NoEntry]
  /\ published' = NoPackage
  /\ welcome' = NoWelcome
  /\ UNCHANGED <<setting, log, followed, screen, under, local, running, link, stream, budgets>>

\* readmit_member: a record, and nothing else.
Readmit(d) ==
  /\ d \in KeyHolders /\ Removed(d)
  /\ Sign(d, "in")
  /\ UNCHANGED <<tombstone, request, entry, published, welcome>>
  /\ UNCHANGED <<setting, mls, local, running, link, stream, budgets>>

\* Both ends have sent what they have, and it was applied.
Settled ==
  /\ wire = Nothing /\ task[Admin] = Idle
  /\ Admin \in link => sent = AdminSnapshot /\ offered = JoinerSnapshot

\* The commit of approve_member and auto_approve: a leaf for what the Joiner
\* published last.  Only an absent or a stale leaf is given.
Admitted ==
  /\ Place \in {"absent", "stale"} /\ published # NoPackage
  /\ Epoch < MaxEpoch
  /\ leaves' = Append(leaves, published)
  /\ welcome' = [leaf |-> published, epoch |-> Epoch + 1]
  /\ entry' = [entry EXCEPT ![Admin] = Epoch + 1]
  /\ under' = Deciding(records[Admin]).gen

\* What approve_member and auto_approve do once nothing refuses.  A sweep is
\* every 5 s while the stream ticks every 500 ms, and an admin takes longer.
Approve ==
  /\ Prompt => Settled
  /\ \/ Place = "current" /\ UNCHANGED <<leaves, welcome, entry, under>>
     \/ Admitted
  /\ request' = [request EXCEPT ![Admin] = FALSE]
  /\ UNCHANGED <<records, tombstone, published, log, followed, screen>>
  /\ UNCHANGED <<setting, local, running, link, stream, budgets>>

\* retry_pending_approvals and auto_approve, only under JoinPolicy::Auto: a
\* request that is screened out stays, for an admin to decide.
SweepApproves ==
  /\ setting.auto /\ request[Admin]
  /\ Place = "current" \/ screen = "admits"
  /\ Approve

\* approve_member, which asks for no grant and no request, but refuses a
\* distrusted identity.
ApproveByHand ==
  /\ Place = "current" \/ screen # "distrusted"
  /\ Approve

\* An invite expires or is renewed, its inviter is removed or readmitted, an
\* identity is distrusted or trusted again.
Rescreen ==
  /\ screen' \in setting.screens \ {screen}
  /\ UNCHANGED <<setting, document, leaves, log, followed, under>>
  /\ UNCHANGED <<local, running, link, stream, budgets>>

-----------------------------------------------------------------------------
(* Connections                                                             *)

\* A device the contact deems removed gets no connection.
Connect(d) ==
  /\ d \in Present \ link /\ ~Removed(d)
  /\ link' = link \cup {d}
  /\ UNCHANGED <<setting, document, mls, local, running, stream, budgets>>

\* Nothing is under way on a connection yet, and nothing was sent.
NewStream == wire' = Nothing /\ sent' = Nothing /\ offered' = Nothing

\* A connection is lost, with what was under way on it; the first snapshot of
\* the next one is always sent.
Drop(d) ==
  /\ d \in link /\ drops < setting.drops
  /\ link' = link \ {d}
  /\ drops' = drops + 1
  /\ IF d = Admin THEN NewStream ELSE UNCHANGED stream
  /\ UNCHANGED <<setting, document, mls, local, running, busy, restarts, forgot, missed>>

\* The Joiner has the content key of epoch e.
Reads(e) == group.active /\ group.from <= e /\ e <= group.epoch

\* The sync session with the Admin fails: the Admin finds the Joiner's leaf, and
\* the Joiner has no key of the epoch.  A device that is not removed closes the
\* connection (should_reconnect), and its next dial is a new one.  The session
\* waits for the key before it fails (KEY_WAIT, 15 s).
SyncFails ==
  /\ Admin \in link /\ Leaf # NoPackage
  /\ ~Reads(Epoch) /\ ~Removed(Joiner)
  /\ Prompt => Settled
  /\ link' = link \ {Admin}
  /\ NewStream
  /\ UNCHANGED <<setting, document, mls, local, running, budgets>>

-----------------------------------------------------------------------------
(* The bootstrap stream                                                    *)

\* The tick of run_inner on the Admin: a snapshot that differs from the last.
SendToJoiner ==
  /\ Admin \in link /\ wire = Nothing
  /\ sent # AdminSnapshot
  /\ wire' = AdminSnapshot /\ sent' = AdminSnapshot
  /\ UNCHANGED <<setting, document, mls, local, running, link, offered, budgets>>

\* apply_snapshot on the Joiner, its merge of snapshot s from contact d.  Of
\* a peer outside its group it takes only signed records; records are set
\* aside when the document is busy.  A member entry that changes spawns the
\* removal of the request.
Merge(d, s, B) ==
  LET known == group # NoGroup
      took == known /\ s.entry # NoEntry
  IN  /\ task[d] = Idle
      /\ B \subseteq {"held"} /\ (B # {} => s.records # {}) /\ Contention(B)
      /\ records' = [records EXCEPT ![Joiner] = IF B = {} THEN @ \cup s.records ELSE @]
      /\ tombstone' = [tombstone EXCEPT ![Joiner] = @ \/ (known /\ s.tombstone)]
      /\ request' = [request EXCEPT ![Joiner] = @ \/ (known /\ s.request)]
      /\ entry' = [entry EXCEPT ![Joiner] = IF took THEN s.entry ELSE @]
      /\ clearing' = (clearing \/ (took /\ entry[Joiner] # s.entry))
      /\ missed' = (missed \/ B # {})
      /\ task' = [task EXCEPT ![d] = [step |-> "consume", welcome |-> s.welcome,
                                      commits |-> s.commits]]
      /\ UNCHANGED <<published, welcome, mls, local, link, offered>>
      /\ UNCHANGED <<setting, restarts, drops, forgot>>

MergeFromAdmin(B) ==
  /\ wire # Nothing /\ (Prompt => ~clearing)
  /\ Merge(Admin, wire, B)
  /\ wire' = Nothing /\ UNCHANGED sent

\* The Member relays its records, and to a peer with a leaf the rest it has.
\* (It holds no Welcome: the Joiner gets that from the Admin.)
MergeFromMember(B) ==
  LET s == [records |-> records[Member], tombstone |-> tombstone[Member],
            request |-> FALSE, entry |-> NoEntry, welcome |-> NoWelcome,
            commits |-> IF KnownToMember THEN log ELSE 0]
  IN  /\ Member \in link
      /\ \/ ~(records[Member] \subseteq records[Joiner])
         \/ group # NoGroup /\ tombstone[Member] /\ ~tombstone[Joiner]
         \/ group.active /\ s.commits > group.epoch
      /\ Merge(Member, s, B)
      /\ UNCHANGED <<wire, sent>>

\* consume_welcome, after the merge.  A Welcome that does not open for a device
\* without a group makes it a new identity (replace_mls_identity) and a new
\* request; a busy document makes record_admission note generation 0.
Consume(d, B) ==
  LET w == task[d].welcome
      joined == w # NoWelcome /\ ~Handled(w) /\ Joins(w)
      spent == w # NoWelcome /\ ~Handled(w) /\ group = NoGroup /\ ~Opens(w)
      in == IF Says(records[Joiner], "in") THEN Deciding(records[Joiner]).gen ELSE 0
  IN  /\ task[d].step = "consume"
      /\ B \subseteq {"admission"} /\ (B # {} => joined /\ in # 0) /\ Contention(B)
      /\ spent => keys.n < MaxKeys
      /\ tried' = IF w = NoWelcome \/ Handled(w) THEN tried ELSE w
      /\ rotated' = IF spent THEN w ELSE rotated
      /\ group' = IF joined THEN [epoch |-> w.epoch, from |-> w.epoch, leaf |-> keys,
                                  active |-> TRUE] ELSE group
      /\ admitted' = IF joined THEN (IF B = {} THEN in ELSE 0) ELSE admitted
      /\ keys' = IF spent THEN [id |-> keys.id + 1, n |-> keys.n + 1] ELSE keys
      /\ unspent' = ((unspent /\ ~joined) \/ spent)
      /\ request' = [request EXCEPT ![Joiner] = @ \/ spent]
      /\ forgot' = (forgot \/ B # {})
      /\ task' = [task EXCEPT ![d] = [step |-> "settle", commits |-> task[d].commits]]
      /\ UNCHANGED <<records, tombstone, entry, published, welcome, mls, clearing>>
      /\ UNCHANGED <<setting, link, stream, restarts, drops, missed>>

\* The rest of apply_snapshot: the device settles its standing, and applies
\* the commits to the group it still has.
Finish(d, B) ==
  /\ task[d].step = "settle"
  /\ B \subseteq {"readmission", "removal", "request"} /\ Contention(B)
  /\ group' = Followed(SettledGroup(records[Joiner], tombstone[Joiner], B), task[d].commits)
  /\ Asks(records[Joiner], B)
  /\ task' = [task EXCEPT ![d] = Idle]
  /\ UNCHANGED <<records, tombstone, entry, published, welcome, mls, keyring, admitted>>
  /\ UNCHANGED <<setting, clearing, link, stream, restarts, drops, forgot>>

\* The tick of run_inner on the Joiner, and apply_snapshot on the Admin: of
\* a device with a leaf it takes the tombstone, of any the device's own
\* entries and signed records.
SendToAdmin ==
  LET s == JoinerSnapshot
  IN  /\ Admin \in link /\ offered # s
      /\ offered' = s
      /\ records' = [records EXCEPT ![Admin] = @ \cup s.records]
      /\ tombstone' = [tombstone EXCEPT ![Admin] = @ \/ (Leaf # NoPackage /\ s.tombstone)]
      /\ request' = [request EXCEPT ![Admin] = @ \/ s.request]
      /\ entry' = [entry EXCEPT ![Admin] = IF s.entry = NoEntry THEN @ ELSE s.entry]
      /\ published' = s.published
      /\ UNCHANGED <<setting, welcome, mls, local, running, link, wire, sent, budgets>>

\* The same to the Member, which keeps what is about standing.
SendToMember ==
  LET s == JoinerSnapshot
  IN  /\ Member \in link
      /\ records' = [records EXCEPT ![Member] = @ \cup s.records]
      /\ tombstone' = [tombstone EXCEPT ![Member] = @ \/ (KnownToMember /\ s.tombstone)]
      /\ <<records', tombstone'>> # <<records, tombstone>>
      /\ UNCHANGED <<request, entry, published, welcome>>
      /\ UNCHANGED <<setting, mls, local, running, link, stream, budgets>>

-----------------------------------------------------------------------------
(* Other tasks                                                             *)

\* A contact's control document reaches the other's.
Exchange(from, to) ==
  /\ from # to
  /\ records' = [records EXCEPT ![to] = @ \cup records[from]]
  /\ tombstone' = [tombstone EXCEPT ![to] = @ \/ tombstone[from]]
  /\ log' = IF to = Member THEN Epoch ELSE log
  /\ <<records', tombstone', log'>> # <<records, tombstone, log>>
  /\ UNCHANGED <<request, entry, published, welcome, leaves, followed, screen, under>>
  /\ UNCHANGED <<setting, local, running, link, stream, budgets>>

\* Fault: the watcher steps past the last commit.
FollowPast ==
  /\ followed <= log
  /\ followed' = followed + 1
  /\ UNCHANGED <<setting, document, leaves, log, screen, under, local, running, link, stream, budgets>>

\* The commit watcher of the Member.
FollowCommit ==
  /\ followed < log
  /\ followed' = followed + 1
  /\ UNCHANGED <<setting, document, leaves, log, screen, under, local, running, link, stream, budgets>>

\* A sync session says you_are_removed: mark_self_removed, unless the admin's
\* last word here is `in` or the document is busy; then settle_own_standing.
ToldRemoved(d, B) ==
  LET overruled == "told" \in B \/ Says(records[Joiner], "in")
  IN  /\ d \in link /\ Removed(d)
      /\ Reads(IF d = Admin THEN Epoch ELSE followed)
      /\ B \subseteq Accesses \ {"held", "admission"} /\ Contention(B)
      /\ tombstone' = [tombstone EXCEPT ![Joiner] = @ \/ ~overruled]
      /\ entry' = [entry EXCEPT ![Joiner] = IF overruled THEN @ ELSE NoEntry]
      /\ group' = SettledGroup(records[Joiner], tombstone'[Joiner], B)
      /\ Asks(records[Joiner], B)
      /\ <<tombstone', entry', group', request'>> # <<tombstone, entry, group, request>>
      /\ UNCHANGED <<records, published, welcome, mls, keyring, admitted>>
      /\ UNCHANGED <<setting, running, link, stream, restarts, drops, forgot>>

\* remove_pending_entry, spawned by the approval observer.
ClearRequest ==
  /\ clearing
  /\ clearing' = FALSE
  /\ request' = [request EXCEPT ![Joiner] = FALSE]
  /\ UNCHANGED <<records, tombstone, entry, published, welcome>>
  /\ UNCHANGED <<setting, mls, local, task, link, stream, budgets>>

\* The Joiner stops and starts again: a fresh KeyPackage of the same identity,
\* settle_own_standing, and a request exactly when it needs admission or is
\* not registered.
Restart ==
  LET g == SettledGroup(records[Joiner], tombstone[Joiner], {})
      awaiting == ~g.active
  IN  /\ restarts < setting.restarts /\ keys.n < MaxKeys
      /\ restarts' = restarts + 1
      /\ keys' = [keys EXCEPT !.n = @ + 1] /\ unspent' = TRUE
      /\ tried' = NoWelcome /\ rotated' = NoWelcome
      /\ group' = g
      /\ request' = [request EXCEPT ![Joiner] = awaiting \/ entry[Joiner] = NoEntry]
      /\ entry' = [entry EXCEPT ![Joiner] = IF @ = NoEntry THEN SelfSigned ELSE @]
      /\ task' = [d \in Contacts |-> Idle] /\ clearing' = FALSE
      /\ link' = {} /\ NewStream
      /\ UNCHANGED <<records, tombstone, published, welcome, mls, admitted>>
      /\ UNCHANGED <<setting, busy, drops, forgot, missed>>

Next ==
  \/ Remove \/ SweepApproves \/ ApproveByHand \/ Rescreen \/ SyncFails
  \/ \E d \in KeyHolders : Readmit(d)
  \/ \E d \in Contacts : Connect(d) \/ Drop(d)
  \/ SendToJoiner \/ SendToAdmin \/ SendToMember
  \/ \E B \in SUBSET Accesses :
       \/ MergeFromAdmin(B) \/ MergeFromMember(B)
       \/ \E d \in Contacts : Consume(d, B) \/ Finish(d, B) \/ ToldRemoved(d, B)
  \/ \E from, to \in Present : Exchange(from, to)
  \/ FollowCommit \/ ClearRequest \/ Restart

\* The sweep and the tasks run, and no admin need approve anything; the Joiner keeps dialling the Admin, and a
\* session it cannot read ends; a connection that is closed and opened again
\* and again is left open long enough to deliver (CLOSE_GRACE).
Fairness ==
  /\ WF_vars(Connect(Admin)) /\ WF_vars(SyncFails)
  /\ SF_vars(SweepApproves) /\ WF_vars(ClearRequest)
  /\ SF_vars(SendToJoiner) /\ SF_vars(SendToAdmin) /\ SF_vars(MergeFromAdmin({}))
  /\ \A d \in Contacts : WF_vars(Consume(d, {})) /\ WF_vars(Finish(d, {}))

Spec == Init /\ [][Next]_vars
FairSpec == Spec /\ Fairness

-----------------------------------------------------------------------------
(* Properties                                                              *)

Snapshots ==
  [records : SUBSET Record, tombstone : BOOLEAN, request : BOOLEAN,
   entry : 0 .. MaxEpoch, welcome : Welcome, commits : 0 .. MaxEpoch]

Offers ==
  [records : SUBSET Record, tombstone : BOOLEAN, request : BOOLEAN,
   entry : 0 .. MaxEpoch, published : Package]

Tasks ==
  {Idle} \cup [step : {"consume"}, welcome : Welcome, commits : 0 .. MaxEpoch]
         \cup [step : {"settle"}, commits : 0 .. MaxEpoch]

DocumentsOK ==
  /\ records \in [Devices -> SUBSET Record]
  /\ tombstone \in [Devices -> BOOLEAN]
  /\ request \in [{Admin, Joiner} -> BOOLEAN]
  /\ entry \in [{Admin, Joiner} -> 0 .. MaxEpoch]
  /\ published \in Package /\ welcome \in Welcome

EpochsOK ==
  /\ leaves \in Seq(Package) /\ Len(leaves) <= MaxEpoch
  /\ log \in 2 .. Len(leaves) /\ followed \in 2 .. log
  /\ under \in 0 .. MaxGen /\ screen \in setting.screens

JoinerOK ==
  /\ group \in Group /\ admitted \in 0 .. MaxGen
  /\ keys \in Package /\ keys.id <= keys.n /\ unspent \in BOOLEAN
  /\ tried \in Welcome /\ rotated \in Welcome
  /\ task \in [Contacts -> Tasks] /\ clearing \in BOOLEAN

StreamOK ==
  /\ link \subseteq Contacts
  /\ wire \in {Nothing} \cup Snapshots /\ sent \in {Nothing} \cup Snapshots
  /\ offered \in {Nothing} \cup Offers

BudgetsOK ==
  /\ busy \in 0 .. setting.busy
  /\ restarts \in 0 .. setting.restarts
  /\ drops \in 0 .. setting.drops
  /\ forgot \in BOOLEAN /\ missed \in BOOLEAN

\* Every variable has its type, and the Member knows no epoch the Admin has not
\* made.
TypeOK ==
  /\ setting \in Settings
  /\ DocumentsOK /\ EpochsOK /\ JoinerOK /\ StreamOK /\ BudgetsOK

\* membership.rs promises what MembershipStanding says: whatever is relayed by
\* whom, in any order, with tombstones, stale snapshots and restarts, a
\* device's standing for the Joiner is the record of highest rank it has met.
Standings ==
  INSTANCE MembershipStanding
    WITH KeyHolders <- UNION {s.holders : s \in Settings},
         issued <- UNION {records[d] : d \in Devices},
         view <- [d \in Devices |-> Deciding(records[d])]

ImplementsStanding == Standings!Spec

\* The Admin has had this leaf for the Joiner since epoch e.
KeptSince(e, leaf) == \A k \in e .. Epoch : leaves[k] = leaf

\* The Joiner's group is still good.
Good == group # NoGroup /\ KeptSince(group.epoch, group.leaf)

\* A readmission costs no group that is still good: a device that is not
\* removed as far as it knows gives such a group up only if the Admin gave its
\* leaf before it held the readmission.
\* (record_admission may note no generation, the document being busy; then the
\* device drops the group it has just joined.  So it does when the records that
\* came with its Welcome were set aside.)
LiveGroupKept ==
  [][Good /\ group' = NoGroup /\ ~Removed(Joiner)' /\ ~forgot /\ ~missed
       => under < Deciding(records'[Joiner]).gen]_vars

\* A Welcome that cannot be opened makes one new identity, however often the
\* Welcome is resent: identities are bounded by approvals and restarts.
KeysReplaced ==
  keys.id <= 1 + restarts + Cardinality({e \in 2 .. Epoch : leaves[e] # NoPackage})

\* A device that is readmitted comes back without anyone's help, whatever was
\* lost on the way and whatever state it returns in: removed while it was away,
\* dropped from its group or not, restarted, with a Welcome of its former leaf
\* under way, screened out for some time.  (That takes an Admin that approves
\* automatically and a grant that in the end admits.  Not
\* if its document was busy at the wrong moment: what is set aside then waits
\* for the next change.  Nor
\* if it was removed a second time with its request at the Admin: run_inner
\* sends a request again only when it changed or on another connection.)
ReadmittedComesBack ==
  <>[](/\ setting.auto /\ screen = "admits"
       /\ Prompt /\ Epoch < MaxEpoch /\ keys.n < MaxKeys
       /\ ~Removed(Admin) /\ ~missed /\ Deciding(records[Admin]).gen <= 2) => <>[]Back
=============================================================================
