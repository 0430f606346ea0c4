------------------------------ MODULE LockLog ------------------------------
(***************************************************************************)
(* Advisory file locks (src/src/control/arbitration.rs, api/lock.rs): a    *)
(* log of acquires and releases replicated as an array of the Circle's     *)
(* control document.  Every device replays its copy of the log to find who *)
(* holds a path, and compacts its copy when an append makes it too long.   *)
(*                                                                         *)
(* The array is a CRDT (external): all the items ever inserted have one    *)
(* total order, which every copy respects, and an item is never deleted    *)
(* from the order, only marked as deleted.  `log` is that order.  A copy   *)
(* is the set of positions it has seen and the set it has dropped.  An     *)
(* item is inserted behind its origin, the last item its device has seen;  *)
(* items inserted apart behind one origin are ordered by client id, each   *)
(* followed by what was appended to it.  Inserting an item moves the       *)
(* positions behind it.                                                    *)
(***************************************************************************)
EXTENDS Naturals, Sequences, FiniteSets

CONSTANTS Devices,    \* devices of the Circle
          Names,      \* an agent and its run, compared together everywhere
          Legacy,     \* the peer id of entries written before there was one
          Binders,    \* the actors that bind and release, a subset of Actor
          Paths,      \* files that may be locked
          Inherited,  \* logs the devices may start from, written by old builds
          Ttls,       \* lengths of a lease a caller may ask for
          Service,    \* bound: ticks that may pass while a request is served
          Threshold,  \* COMPACT_THRESHOLD
          MaxTime,    \* bound: the last reading of a clock
          MaxLog,     \* bound: items ever inserted
          MaxRestarts \* bound: restarts of a device

Actor == [name : Names, device : Devices \cup {Legacy}]

Time == 0 .. MaxTime

\* A lock entry.  `ends` is lease_end; a release has no use for it.
Entry == [id : Nat, path : Paths, actor : Actor, action : {"Acquire", "Release"},
          ts : Nat, ends : Nat, takeover : BOOLEAN]

ASSUME LockAssumption ==
  /\ Legacy \notin Devices
  /\ Binders \subseteq [name : Names, device : Devices]
  /\ Inherited \subseteq Seq(Entry)
  /\ Ttls \subseteq Nat \ {0}
  /\ Service \in Nat
  /\ Threshold \in Nat
  /\ MaxTime \in Nat
  /\ MaxLog \in Nat
  /\ MaxRestarts \in Nat

VARIABLES log,      \* every item ever inserted, in the document's order
          origin,   \* origin[i]: the position item i was inserted behind, or 0
          seen,     \* seen[d]: positions whose item d has received
          dropped,  \* dropped[d]: positions d knows to be deleted
          saved,    \* saved[d]: positions in d's snapshot on disk
          clock,    \* clock[d]: d's wall clock
          restarts  \* restarts so far

vars == <<log, origin, seen, dropped, saved, clock, restarts>>

\* The entries in d's copy of the array.
View(d) == seen[d] \ dropped[d]

-----------------------------------------------------------------------------
(* Replaying a log                                                         *)

\* same_actor: an entry without a device is anybody's of that name.
Same(a, b) ==
  /\ a.name = b.name
  /\ a.device = Legacy \/ b.device = Legacy \/ a.device = b.device

\* An acquire takes a free path, and a held one whose lease ended before it,
\* that it takes over, or that its actor holds already.
Takes(holder, e) ==
  e.ts >= holder.ends \/ e.takeover \/ Same(holder.actor, e.actor)

\* replay, one entry: the position that holds the path after position i of l,
\* when `h` held it before; 0 when the path is free.
Apply(l, h, i) ==
  CASE l[i].action = "Acquire" -> IF h = 0 \/ Takes(l[h], l[i]) THEN i ELSE h
    [] l[i].action = "Release" -> IF h # 0 /\ Same(l[h].actor, l[i].actor)
                                  THEN 0 ELSE h

\* replay: the holder of path p after each position of l, as seen by a copy
\* with the entries `view`.
Replay(l, view, p) ==
  LET holder[i \in 0 .. Len(l)] ==
        IF i = 0 THEN 0
        ELSE IF i \in view /\ l[i].path = p THEN Apply(l, holder[i - 1], i)
        ELSE holder[i - 1]
  IN holder

Holder(l, view, p) == Replay(l, view, p)[Len(l)]

\* Fault: a path that nobody holds counts as held by the entry before the first.
HeldByNone(l, view) == {Holder(l, view, p) : p \in Paths}

\* Fault: a compaction drops a holder once an entry is later than its lease.
HeldRunning(l, view) ==
  {h \in {Holder(l, view, p) : p \in Paths} \ {0} :
     \A i \in view : l[i].ts < l[h].ends}

\* held_indices and retained: what a compaction keeps.
Held(l, view) == {Holder(l, view, p) : p \in Paths} \ {0}

\* Fault: a compaction keeps the newest entries.
CompactedToTail(l, view) ==
  {i \in view : Cardinality({j \in view : j >= i}) <= Threshold}

\* compact_lock_log, compact_persisted_lock_log.
Compacted(l, view) ==
  IF Cardinality(view) > Threshold THEN Held(l, view) ELSE view

\* compute_lock_holders: the holder of p whose lease still runs at `now`.
Running(l, view, p, now) ==
  LET h == Holder(l, view, p) IN IF h # 0 /\ l[h].ends > now THEN h ELSE 0

Live(d, p, now) == Running(log, View(d), p, now)

-----------------------------------------------------------------------------
(* Inserting into the document                                             *)

\* A position after n items were inserted at k, and a set of them.
Shifted(i, k, n) == IF i < k THEN i ELSE i + n

Moved(S, k, n) == {Shifted(i, k, n) : i \in S}

\* Items inserted in one piece at k, the first of them behind position m.
Insert(items, k, m) ==
  LET n == Len(items)
  IN /\ log' = [i \in 1 .. Len(log) + n |->
                  IF i < k THEN log[i]
                  ELSE IF i < k + n THEN items[i - k + 1]
                  ELSE log[i - n]]
     /\ origin' = [i \in 1 .. Len(log) + n |->
                     IF i < k THEN origin[i]
                     ELSE IF i < k + n THEN IF i = k THEN m ELSE i - 1
                     ELSE Shifted(origin[i - n], k, n)]

\* Places for an item inserted behind m: after m and what was inserted
\* behind m with a smaller client id, and not inside what was appended there.
Places(m) ==
  {k \in m + 1 .. Len(log) + 1 :
     /\ \A i \in m + 1 .. k - 1 : origin[i] >= m
     /\ k <= Len(log) => origin[k] <= m}

\* The last position d has seen.
Last(d) ==
  IF seen[d] = {} THEN 0 ELSE CHOOSE m \in seen[d] : \A i \in seen[d] : i <= m

\* The uuid a new entry takes as its entry_id: one that no entry has.
FreshId == CHOOSE id \in 1 .. Len(log) + 1 : \A i \in DOMAIN log : log[i].id # id

\* append_lock_entry: push, then compact if the log has grown too long.
AppendEntry(d, e) ==
  /\ Len(log) < MaxLog
  /\ \E k \in Places(Last(d)) :
       /\ Insert(<<e>>, k, Last(d))
       /\ seen' = [c \in Devices |->
                     Moved(seen[c], k, 1) \cup (IF c = d THEN {k} ELSE {})]
       /\ LET view == Moved(View(d), k, 1) \cup {k}
          IN dropped' = [c \in Devices |->
                           Moved(dropped[c], k, 1) \cup
                             (IF c = d THEN view \ Compacted(log', view) ELSE {})]
       /\ saved' = [c \in Devices |-> Moved(saved[c], k, 1)]

\* A live lease of somebody other than a.
HeldByOther(h, a) == h # 0 /\ ~Same(log[h].actor, a)

-----------------------------------------------------------------------------
(* Operations                                                              *)

\* Fault: a takeover is granted but not written into the entry.
BindUnmarked(d, a, p, ttl, takeover, judged) ==
  /\ a.device = d
  /\ judged \in clock[d] .. clock[d] + Service
  /\ judged <= MaxTime
  /\ HeldByOther(Live(d, p, judged), a) => takeover
  /\ AppendEntry(d, [id |-> FreshId, path |-> p, actor |-> a,
                     action |-> "Acquire", ts |-> clock[d],
                     ends |-> clock[d] + ttl, takeover |-> FALSE])
  /\ clock' = [clock EXCEPT ![d] = judged]
  /\ UNCHANGED restarts

\* write_bind.  The entry is stamped when the request arrives, and the lease
\* that may stand in its way is judged at a later reading of the clock.
\* Renewing the lease of a managed run is a Bind of its own holder.
Bind(d, a, p, ttl, takeover, judged) ==
  /\ a.device = d
  /\ judged \in clock[d] .. clock[d] + Service
  /\ judged <= MaxTime
  /\ LET other == HeldByOther(Live(d, p, judged), a)
     IN /\ other => takeover
        /\ AppendEntry(d, [id |-> FreshId, path |-> p, actor |-> a,
                           action |-> "Acquire", ts |-> clock[d],
                           ends |-> clock[d] + ttl, takeover |-> other])
  /\ clock' = [clock EXCEPT ![d] = judged]
  /\ UNCHANGED restarts

\* release_path; also how the locks of a finished run are freed.
Release(d, a, p) ==
  /\ a.device = d
  /\ ~HeldByOther(Live(d, p, clock[d]), a)
  /\ AppendEntry(d, [id |-> FreshId, path |-> p, actor |-> a, action |-> "Release",
                     ts |-> clock[d], ends |-> clock[d], takeover |-> FALSE])
  /\ UNCHANGED <<clock, restarts>>

\* d receives what e has (external: the update carries e's items and its
\* deletions, and arrives whole).
Receive(d, e) ==
  /\ seen' = [seen EXCEPT ![d] = @ \cup seen[e]]
  /\ dropped' = [dropped EXCEPT ![d] = @ \cup dropped[e]]
  /\ UNCHANGED <<log, origin, saved, clock, restarts>>

\* control::save, on a timer.  A snapshot matters only to a later restart.
Save(d) ==
  /\ restarts < MaxRestarts
  /\ saved' = [saved EXCEPT ![d] = Compacted(log, View(d))]
  /\ UNCHANGED <<log, origin, seen, dropped, clock, restarts>>

\* The entries of a snapshot, oldest first.
Listed(S) ==
  [n \in 1 .. Cardinality(S) |->
     log[CHOOSE i \in S : Cardinality({j \in S : j <= i}) = n]]

\* control::restore after a crash: the document starts empty, and the entries
\* of the snapshot are pushed into it as new items, in one piece.
Restart(d) ==
  /\ restarts < MaxRestarts
  /\ restarts' = restarts + 1
  /\ LET items == Listed(Compacted(log, saved[d]))
         n     == Len(items)
     IN /\ Len(log) + n <= MaxLog
        /\ \E k \in Places(0) :
             /\ Insert(items, k, 0)
             /\ seen' = [c \in Devices |->
                           IF c = d THEN k .. k + n - 1 ELSE Moved(seen[c], k, n)]
             /\ dropped' = [c \in Devices |->
                              IF c = d THEN {} ELSE Moved(dropped[c], k, n)]
             /\ saved' = [c \in Devices |-> Moved(saved[c], k, n)]
  /\ UNCHANGED clock

Tick(d) ==
  /\ clock[d] < MaxTime
  /\ clock' = [clock EXCEPT ![d] = @ + 1]
  /\ UNCHANGED <<log, origin, seen, dropped, saved, restarts>>

-----------------------------------------------------------------------------
(* Specification                                                           *)

Init ==
  /\ log \in Inherited
  /\ origin = [i \in DOMAIN log |-> i - 1]
  /\ seen = [d \in Devices |-> DOMAIN log]
  /\ dropped = [d \in Devices |-> {}]
  /\ saved = [d \in Devices |-> DOMAIN log]
  /\ clock \in [Devices -> {0}]
  /\ restarts = 0

Next ==
  \/ \E d \in Devices, a \in Binders, p \in Paths :
       \/ \E ttl \in Ttls, takeover \in BOOLEAN, judged \in Time :
            Bind(d, a, p, ttl, takeover, judged)
       \/ Release(d, a, p)
  \/ \E d, e \in Devices : Receive(d, e)
  \/ \E d \in Devices : Save(d) \/ Restart(d) \/ Tick(d)

Spec == Init /\ [][Next]_vars

-----------------------------------------------------------------------------
(* Properties                                                              *)

\* The log is a log of entries, and copies and snapshots lie within it.
TypeOK ==
  /\ log \in Seq(Entry)
  /\ origin \in [DOMAIN log -> 0 .. Len(log)]
  /\ seen \in [Devices -> SUBSET DOMAIN log]
  /\ dropped \in [Devices -> SUBSET DOMAIN log]
  /\ saved \in [Devices -> SUBSET DOMAIN log]
  /\ clock \in [Devices -> Time]
  /\ restarts \in 0 .. MaxRestarts

\* The entry that holds p in a copy of l, if any.
HeldEntry(l, view, p) ==
  LET h == Holder(l, view, p) IN IF h = 0 THEN {} ELSE {l[h]}

\* compact_lock_log: had a copy been compacted at any earlier point n of its
\* log, the entries that came after would have led to the same holders.
CompactionUnseen ==
  \A d \in Devices, p \in Paths : \A n \in DOMAIN log :
    LET view  == View(d)
        early == {i \in view : i <= n}
    IN Holder(log, Held(log, early) \cup (view \ early), p) = Holder(log, view, p)

\* A path that is only ever locked on one device looks the same on every
\* device its entries have reached, whatever the copies have compacted, as long
\* as no restart enters the entries of a snapshot again.
SoleDeviceAgrees ==
  restarts = 0 => \A p \in Paths, o \in Devices :
    LET entries == {i \in DOMAIN log : log[i].path = p}
    IN (\A i \in entries : log[i].actor.device = o) =>
         \A d \in Devices :
           entries \subseteq seen[d] =>
             HeldEntry(log, View(d), p) = HeldEntry(log, View(o), p)

\* The lease that held p at d ended while the request was being served.
EndedMeanwhile(d, p) ==
  LET h == Holder(log, View(d), p)
  IN h # 0 /\ clock[d] < log[h].ends /\ log[h].ends <= clock'[d]

\* write_bind answers "bound" only to an actor that the log then names as the
\* holder, unless a lease in its way ended while the request was served.
BoundIsHeld ==
  [][\A d \in Devices, p \in Paths : \A k \in DOMAIN log' :
       /\ log'[k].id = FreshId /\ log'[k].action = "Acquire"
       /\ log'[k].actor.device = d /\ log'[k].path = p
       => Holder(log', View(d)', p) = k \/ EndedMeanwhile(d, p)]_vars
=============================================================================
