-------------------------- MODULE BlindVoteProofs --------------------------
(***************************************************************************)
(* Proofs about BlindVote for any pool of agents and any number of voters, *)
(* post attempts, entries and restarts: a message is answered once, nobody *)
(* still votes when it is, and what is posted has the agreement it claims. *)
(***************************************************************************)
EXTENDS BlindVote, FiniteSetTheorems, SequenceTheorems, WellFoundedInduction, TLAPS

\* Every nonempty set of naturals has a least member.
LEMMA LeastMember ==
  ASSUME NEW S \in SUBSET Nat, S # {}
  PROVE  \E x \in S : \A y \in S : x <= y
<1> DEFINE less == {ss \in Nat \X Nat : ss[1] < ss[2]}
<1>1. IsWellFoundedOn(less, Nat)
  BY NatLessThanWellFounded DEF OpToRel
<1>2. PICK x \in S : \A y \in S : ~ (<<y, x>> \in less)
  BY <1>1, WFMin
<1>3. ASSUME NEW y \in S PROVE x <= y
  <2>1. y < x => <<y, x>> \in less
    OBVIOUS
  <2>2. QED
    BY <1>2, <2>1
<1>4. QED
  BY <1>3

-----------------------------------------------------------------------------
(* Types                                                                   *)

Status == Live \cup Retryable \cup {"Completed"}
Ballot == Cast \cup {NoBallot}
Ballots == [Agents -> Ballot]
Board == [ballots : Ballots, settled : Nat, busy : BOOLEAN, done : BOOLEAN]
Post == [by : Agents, group : SUBSET Agents, agreed : BOOLEAN]

Task ==
  [stage : {"idle", "ended"}]
    \cup [stage : {"turn", "cast"}, run : Nat \ {0}]
    \cup [stage : {"read"}, voters : Nat]
    \cup [stage : {"settling"}, voters : Nat, cast : Ballots]
    \cup [stage : {"posting"}, voters : Nat, post : Post]
    \cup [stage : {"finishing"}, voters : Nat, done : BOOLEAN]

EntryType == [agent : Agents, status : Status]

TypeOK ==
  /\ entries \in Seq(EntryType)
  /\ task \in [Agents -> Task]
  /\ board \in Board
  /\ posts \in Seq(Post)
  /\ reposting \in {NoRepost} \cup [left : Nat, post : Post]
  /\ announced \in BOOLEAN
  /\ restarts \in Nat
  /\ meddled \in SUBSET {"retried", "withdrawn"}

-----------------------------------------------------------------------------
(* Entries and the tasks that run them                                     *)

Finished == {"Failed", "Interrupted", "Expired"}
Opener(a) == \E i \in 1 .. Start : Pool[i] = a

\* The candidates the vote can come to: its openers and those that bring it
\* to MaxVoters entries at most.
Seats == {Pool[i] : i \in {j \in DOMAIN Pool : j <= Start \/ j <= MaxVoters}}

Running(a) == task[a].stage \in {"turn", "cast"}
Settling(a) == task[a].stage \in {"settling", "posting", "finishing"}
HasRead(a) == task[a].stage \in {"read", "settling", "posting", "finishing"}

\* A task that runs a turn holds the running claim of its agent's entry; the
\* openers' entries come first, and every agent has a seat.
RunsRecorded ==
  /\ Len(entries) >= Start
  /\ \A i \in 1 .. Start : entries[i].agent = Pool[i]
  /\ \A i \in DOMAIN entries : entries[i].agent \in Seats
  /\ \A a \in Agents : Running(a) =>
       /\ task[a].run \in DOMAIN entries
       /\ entries[task[a].run] = Entry(a, "Running")

\* A settle knows entries that all ended, the openers' among them.
ReadsEnded ==
  \A a \in Agents : HasRead(a) =>
    /\ task[a].voters \in Start .. Len(entries)
    /\ \A i \in 1 .. task[a].voters : entries[i].status \notin Live

-----------------------------------------------------------------------------
(* One settle, one post                                                    *)

OneSettle ==
  /\ \A a \in Agents : Settling(a) => board.busy /\ task[a].voters > board.settled
  /\ board.busy => ~board.done
  /\ \A a, b \in Agents : Settling(a) /\ Settling(b) => a = b

Posting == posts # <<>> \/ reposting.left > 0

Resolved == board.done \/ \E a \in Agents : task[a].stage = "finishing" /\ task[a].done

AllIdle == \A a \in Agents : task[a] = Idle

OnePost ==
  /\ Len(posts) <= 1
  /\ posts # <<>> => reposting.left = 0
  /\ reposting.left > 0 => Resolved
  /\ posts # <<>> => Resolved \/ AllIdle

-----------------------------------------------------------------------------
(* As long as the user retries nothing                                     *)

NoRetry == "retried" \notin meddled

AllFailed(n) == \A i \in 1 .. n : entries[i].status \in Finished

SomeCompleted == \E i \in DOMAIN entries : entries[i].status = "Completed"

\* An agent has one entry that may answer, its last; openers come before the
\* others, which are asked only when an opener completed.
AskedOnce ==
  /\ \A i, j \in DOMAIN entries :
       i < j /\ entries[i].agent = entries[j].agent => entries[i].status \in Finished
  /\ \A i, j \in DOMAIN entries :
       i < j /\ Opener(entries[j].agent) => Opener(entries[i].agent)
  /\ (\E i \in DOMAIN entries : ~Opener(entries[i].agent)) => SomeCompleted

\* Nobody runs who is not among the voters of a settle under way.
Quiet(n) == (n = Len(entries) /\ LiveRuns = {}) \/ AllFailed(n)

RoundKnown(a) ==
  /\ task[a].stage = "read" =>
       \/ Quiet(task[a].voters)
       \/ task[a].voters <= board.settled
       \/ \E s \in Agents : /\ task[s].stage \in {"posting", "finishing"}
                            /\ task[a].voters <= task[s].voters
  /\ task[a].stage = "settling" => Quiet(task[a].voters)
  /\ task[a].stage = "posting" => LiveRuns = {} /\ SomeCompleted

NobodyRuns == \A a \in Agents : RoundKnown(a)

NobodyRunsLater == reposting.left > 0 => LiveRuns = {} /\ SomeCompleted

-----------------------------------------------------------------------------
(* Who is posted                                                           *)

\* A settle works on the ballots of the board.
BallotsKept ==
  \A a \in Agents : task[a].stage = "settling" =>
    \A i \in 1 .. task[a].voters :
      entries[i].status = "Completed" =>
        task[a].cast[entries[i].agent] = board.ballots[entries[i].agent]

\* Once somebody else is asked, an opener's answer is on the board as long as
\* anything can come of it.
OpenerAnswered ==
  (\E i \in DOMAIN entries : ~Opener(entries[i].agent)) /\ ~board.done
      /\ (LiveRuns # {} \/ ~AllIdle)
    => \E i \in DOMAIN entries :
         /\ Opener(entries[i].agent)
         /\ entries[i].status = "Completed"
         /\ board.ballots[entries[i].agent] = "answer"

\* What is fit to be posted: agreement is of two agents, and an agent that did
\* not open the vote speaks for another one that did not either.
Sound(post) ==
  /\ post.group \in SUBSET Seats
  /\ post.agreed => Cardinality(post.group) >= 2
  /\ ~Opener(post.by) =>
       /\ Cardinality(post.group) >= 2
       /\ \A b \in post.group : ~Opener(b)

PostsSound ==
  /\ \A a \in Agents : task[a].stage = "posting" => Sound(task[a].post)
  /\ reposting.left > 0 => Sound(reposting.post)
  /\ \A k \in DOMAIN posts : Sound(posts[k])

Safe == RunsRecorded /\ ReadsEnded /\ OneSettle /\ OnePost
Undisturbed ==
  NoRetry => /\ AskedOnce /\ NobodyRuns /\ NobodyRunsLater
             /\ BallotsKept /\ OpenerAnswered /\ PostsSound

-----------------------------------------------------------------------------
(* How the entries change                                                  *)

\* The entries are a function on an interval.
LEMMA EntriesShape ==
  ASSUME TypeOK
  PROVE  /\ Len(entries) \in Nat
         /\ DOMAIN entries = 1 .. Len(entries)
         /\ \A i \in DOMAIN entries :
              entries[i] \in EntryType /\ entries[i] = Entry(entries[i].agent, entries[i].status)
<1>1. entries \in Seq(EntryType)
  BY DEF TypeOK
<1>2. Len(entries) \in Nat /\ DOMAIN entries = 1 .. Len(entries)
  BY <1>1
<1>3. \A i \in DOMAIN entries : entries[i] \in EntryType
  BY <1>1
<1>4. QED
  BY <1>2, <1>3 DEF EntryType, Entry

\* A status that is set changes its entry and no other.
LEMMA StatusSet ==
  ASSUME TypeOK, NEW i \in DOMAIN entries, NEW s \in Status, SetStatus(i, s)
  PROVE  /\ entries' \in Seq(EntryType)
         /\ Len(entries') = Len(entries)
         /\ DOMAIN entries' = DOMAIN entries
         /\ \A j \in DOMAIN entries :
              entries'[j] = IF j = i THEN Entry(entries[i].agent, s) ELSE entries[j]
<1>1. entries' = [entries EXCEPT ![i] = [entries[i] EXCEPT !.status = s]]
  BY DEF SetStatus
<1>2. [entries[i] EXCEPT !.status = s] = Entry(entries[i].agent, s)
  BY EntriesShape DEF EntryType, Entry
<1>3. Entry(entries[i].agent, s) \in EntryType
  BY EntriesShape DEF EntryType, Entry
<1>4. entries \in Seq(EntryType)
  BY DEF TypeOK
<1>5. QED
  BY <1>1, <1>2, <1>3, <1>4, EntriesShape

\* An entry that is appended changes no other.
LEMMA Appended ==
  ASSUME TypeOK, NEW e \in EntryType, entries' = Append(entries, e)
  PROVE  /\ entries' \in Seq(EntryType)
         /\ Len(entries') = Len(entries) + 1
         /\ DOMAIN entries' = 1 .. (Len(entries) + 1)
         /\ \A j \in DOMAIN entries : entries'[j] = entries[j]
         /\ entries'[Len(entries) + 1] = e
<1>1. entries \in Seq(EntryType)
  BY DEF TypeOK
<1>2. QED
  BY <1>1, EntriesShape

\* A restart ends what was live and leaves the rest alone.
LEMMA RecoveredShape ==
  ASSUME TypeOK, entries' = Recovered
  PROVE  /\ entries' \in Seq(EntryType)
         /\ Len(entries') = Len(entries)
         /\ DOMAIN entries' = DOMAIN entries
         /\ \A j \in DOMAIN entries :
              /\ entries'[j].agent = entries[j].agent
              /\ entries[j].status \notin Live => entries'[j] = entries[j]
              /\ entries[j].status \in Live => entries'[j].status \in Finished
<1>1. Len(entries) \in Nat /\ DOMAIN entries = 1 .. Len(entries)
  BY EntriesShape
<1>2. entries' = [i \in 1 .. Len(entries) |->
                    CASE entries[i].status = "Running" -> Entry(entries[i].agent, "Interrupted")
                      [] entries[i].status = "Pending" -> Entry(entries[i].agent, "Expired")
                      [] OTHER -> entries[i]]
  BY <1>1 DEF Recovered
<1>3. \A j \in DOMAIN entries :
        /\ entries'[j] \in EntryType
        /\ entries'[j].agent = entries[j].agent
        /\ entries[j].status \notin Live => entries'[j] = entries[j]
        /\ entries[j].status \in Live => entries'[j].status \in Finished
  <2>1. TAKE j \in DOMAIN entries
  <2>2. entries[j] \in EntryType
    BY EntriesShape
  <2>3. CASE entries[j].status = "Running"
    BY <1>1, <1>2, <2>2, <2>3 DEF EntryType, Entry, Status, Live, Retryable, Finished
  <2>4. CASE entries[j].status = "Pending"
    BY <1>1, <1>2, <2>2, <2>4 DEF EntryType, Entry, Status, Live, Retryable, Finished
  <2>5. CASE entries[j].status \notin Live
    BY <1>1, <1>2, <2>2, <2>5 DEF EntryType, Entry, Status, Live, Retryable, Finished
  <2>6. QED
    BY <2>3, <2>4, <2>5 DEF Live
<1>4. entries' \in [1 .. Len(entries) -> EntryType]
  BY <1>1, <1>2, <1>3
<1>5. entries' \in Seq(EntryType) /\ Len(entries') = Len(entries)
  BY <1>1, <1>4
<1>6. QED
  BY <1>1, <1>3, <1>4, <1>5

\* Where a task moves, the others stay.
LEMMA Moved ==
  ASSUME TypeOK, NEW a \in Agents, NEW next \in Task, Move(a, next)
  PROVE  /\ task' \in [Agents -> Task]
         /\ task'[a] = next
         /\ \A b \in Agents : b # a => task'[b] = task[b]
BY DEF TypeOK, Move

\* The fields of a task at each of its stages.
LEMMA TaskFields ==
  ASSUME TypeOK, NEW a \in Agents
  PROVE  /\ task[a] \in Task
         /\ Running(a) => task[a].run \in Nat \ {0}
         /\ HasRead(a) => task[a].voters \in Nat
         /\ task[a].stage = "settling" => task[a].cast \in Ballots
         /\ task[a].stage = "posting" => task[a].post \in Post
         /\ task[a].stage = "finishing" => task[a].done \in BOOLEAN
<1>1. task[a] \in Task
  BY DEF TypeOK
<1>2. Running(a) => task[a].run \in Nat \ {0}
  BY <1>1 DEF Task, Running
<1>3. HasRead(a) => task[a].voters \in Nat
  BY <1>1 DEF Task, HasRead
<1>4. task[a].stage = "settling" => task[a].cast \in Ballots
  BY <1>1 DEF Task
<1>5. task[a].stage = "posting" => task[a].post \in Post
  BY <1>1 DEF Task
<1>6. task[a].stage = "finishing" => task[a].done \in BOOLEAN
  BY <1>1 DEF Task
<1>7. QED
  BY <1>1, <1>2, <1>3, <1>4, <1>5, <1>6

-----------------------------------------------------------------------------
(* The candidate that is asked next                                        *)

\* The next voter has a seat, and no entry of the round is its own.
LEMMA NextHasSeat ==
  ASSUME TypeOK, RunsRecorded, NEW voters \in Start .. Len(entries),
         NEW next \in NextVoter(voters)
  PROVE  /\ next \in Agents \cap Seats
         /\ ~Opener(next)
         /\ \A i \in 1 .. voters : entries[i].agent # next
<1> DEFINE used   == {entries[i].agent : i \in 1 .. voters}
           unused == {k \in DOMAIN Pool : Pool[k] \notin used}
           first  == Min(unused)
<1>1. Pool \in Seq(Agents) /\ IsInjective(Pool) /\ MaxVoters \in Nat /\ Start \in 1 .. Len(Pool)
  BY VoteAssumption
<1>2. Len(Pool) \in Nat /\ DOMAIN Pool = 1 .. Len(Pool) /\ \A k \in DOMAIN Pool : Pool[k] \in Agents
  BY <1>1
<1>3. unused # {} /\ voters < MaxVoters /\ next = Pool[first]
  BY DEF NextVoter
<1>4. unused \in SUBSET Nat
  BY <1>2
<1>5. first \in unused /\ \A k \in unused : first <= k
  BY <1>3, <1>4, LeastMember DEF Min
<1>6. \A i \in 1 .. voters : entries[i].agent # next
  BY <1>3, <1>5
<1> HIDE DEF first, unused
<1>7. first <= Start \/ first <= MaxVoters
  <2> SUFFICES ASSUME ~ first <= MaxVoters PROVE FALSE
    OBVIOUS
  <2>1. voters \in Nat /\ first \in Nat /\ voters + 1 < first
    BY <1>1, <1>2, <1>3, <1>4, <1>5, EntriesShape
  <2>2. \A k \in 1 .. (voters + 1) : \E i \in 1 .. voters : entries[i].agent = Pool[k]
    <3>1. TAKE k \in 1 .. (voters + 1)
    <3>2. k \in Nat /\ 1 <= k /\ k < first /\ first <= Len(Pool)
      <4>1. k \in Nat /\ 1 <= k /\ k < first
        BY <2>1
      <4>2. first \in 1 .. Len(Pool)
        BY <1>2, <1>5 DEF unused
      <4>3. QED
        BY <1>2, <4>1, <4>2
    <3>3. k \notin unused
      BY <1>4, <1>5, <3>2
    <3>4. k \in DOMAIN Pool
      BY <1>2, <2>1, <3>2
    <3>5. QED
      BY <3>3, <3>4 DEF unused
  <2> DEFINE f == [k \in 1 .. (voters + 1) |->
                     CHOOSE i \in 1 .. voters : entries[i].agent = Pool[k]]
  <2>3. f \in [1 .. (voters + 1) -> 1 .. voters]
    BY <2>2
  <2>4. \A k \in 1 .. (voters + 1) : entries[f[k]].agent = Pool[k]
    BY <2>2
  <2>5. /\ IsFiniteSet(1 .. (voters + 1)) /\ IsFiniteSet(1 .. voters)
        /\ Cardinality(1 .. voters) < Cardinality(1 .. (voters + 1))
    <3>1. Cardinality(1 .. voters) = IF 1 > voters THEN 0 ELSE voters - 1 + 1
      BY <2>1, FS_Interval
    <3>2. Cardinality(1 .. (voters + 1)) = IF 1 > voters + 1 THEN 0 ELSE (voters + 1) - 1 + 1
      BY <2>1, FS_Interval
    <3>3. IsFiniteSet(1 .. (voters + 1)) /\ IsFiniteSet(1 .. voters)
      BY <2>1, FS_Interval
    <3>4. QED
      BY <2>1, <3>1, <3>2, <3>3
  <2> HIDE DEF f
  <2>6. PICK x, y \in 1 .. (voters + 1) : x # y /\ f[x] = f[y]
    BY <2>3, <2>5, FS_PigeonHole
  <2>7. Pool[x] = Pool[y]
    BY <2>4, <2>6
  <2>8. x \in DOMAIN Pool /\ y \in DOMAIN Pool
    BY <1>2, <1>5, <2>1 DEF unused
  <2>9. QED
    BY <1>1, <2>6, <2>7, <2>8 DEF IsInjective
<1>8. next \in Seats
  BY <1>3, <1>5, <1>7 DEF Seats, unused
<1>9. ~Opener(next)
  <2>1. ASSUME NEW i \in 1 .. Start, Pool[i] = next PROVE FALSE
    <3>1. i \in 1 .. voters /\ entries[i].agent = next
      BY <1>1, <1>2, <2>1, EntriesShape DEF RunsRecorded
    <3>2. QED
      BY <1>6, <3>1
  <2>2. QED
    BY <2>1 DEF Opener
<1>10. QED
  BY <1>2, <1>3, <1>5, <1>6, <1>8, <1>9 DEF unused

-----------------------------------------------------------------------------
(* The answer that is chosen                                               *)

\* Of the groups of a nonempty set of answers one comes out on top.
LEMMA TopIsLargest ==
  ASSUME NEW C \in SUBSET Nat, C # {}, IsFiniteSet(C), NEW g \in Groupings(C)
  PROVE  /\ Top(g) \in C
         /\ \A k \in C : GroupOf(g, k) \in SUBSET C /\ Cardinality(GroupOf(g, k)) \in Nat
         /\ \A m \in C : LET k == Top(g)
                         IN \/ Cardinality(GroupOf(g, m)) < Cardinality(GroupOf(g, k))
                            \/ /\ Cardinality(GroupOf(g, m)) = Cardinality(GroupOf(g, k))
                               /\ k <= m
<1> DEFINE Size(k) == Cardinality(GroupOf(g, k))
           Best(k) == \A m \in DOMAIN g : Size(m) < Size(k) \/ (Size(m) = Size(k) /\ k <= m)
<1>1. DOMAIN g = C
  BY DEF Groupings
<1>2. \A k \in C : GroupOf(g, k) \in SUBSET C /\ IsFiniteSet(GroupOf(g, k)) /\ Size(k) \in Nat
          /\ Size(k) <= Cardinality(C)
  <2>1. TAKE k \in C
  <2>2. GroupOf(g, k) \in SUBSET C
    BY <1>1 DEF GroupOf
  <2>3. QED
    BY <2>2, FS_Subset, FS_CardinalityType
<1>3. Cardinality(C) \in Nat
  BY FS_CardinalityType
<1> DEFINE size == [k \in C |-> Size(k)]
<1>a. size \in [C -> 0 .. Cardinality(C)] /\ \A k \in C : size[k] = Size(k)
  BY <1>2, <1>3
<1> HIDE DEF Size, size
<1> DEFINE Short == {Cardinality(C) - size[k] : k \in C}
<1>b. \A k \in C : Cardinality(C) - size[k] \in Nat
  BY <1>3, <1>a
<1>4. Short \in SUBSET Nat /\ Short # {}
  BY <1>b
<1>5. PICK s \in Short : \A t \in Short : s <= t
  BY <1>4, LeastMember
<1>6. PICK q \in C : s = Cardinality(C) - size[q]
  OBVIOUS
<1>7. \A m \in C : size[m] <= size[q]
  <2>1. TAKE m \in C
  <2>2. Cardinality(C) - size[q] <= Cardinality(C) - size[m]
    BY <1>5, <1>6
  <2>3. QED
    BY <1>3, <1>a, <2>2
<1> DEFINE Largest == {k \in C : size[k] = size[q]}
<1>8. PICK k \in Largest : \A m \in Largest : k <= m
  BY LeastMember
<1>9. \A m \in C : Size(m) < Size(k) \/ (Size(m) = Size(k) /\ k <= m)
  <2>1. \A m \in C : size[m] < size[k] \/ (size[m] = size[k] /\ k <= m)
    BY <1>7, <1>8, <1>a
  <2>2. QED
    BY <1>a, <1>8, <2>1
<1>10. \E c \in DOMAIN g : Best(c)
  BY <1>1, <1>8, <1>9
<1>11. Top(g) = CHOOSE c \in DOMAIN g : Best(c)
  BY DEF Top, Size
<1>12. Top(g) \in DOMAIN g /\ Best(Top(g))
  BY <1>10, <1>11
<1>13. QED
  BY <1>1, <1>2, <1>12 DEF Size

\* The answers that count are entries of the round.
LEMMA CountedShape ==
  ASSUME TypeOK, NEW voters \in Start .. Len(entries), NEW cast
  PROVE  /\ Counted(voters, cast) \in SUBSET Nat
         /\ IsFiniteSet(Counted(voters, cast))
         /\ \A i \in Counted(voters, cast) :
              /\ i \in DOMAIN entries /\ i \in 1 .. voters
              /\ entries[i].status = "Completed"
              /\ cast[entries[i].agent] = "answer"
<1>1. Counted(voters, cast) \in SUBSET (1 .. voters)
  BY DEF Counted
<1>2. IsFiniteSet(1 .. voters) /\ 1 .. voters \subseteq DOMAIN entries
  BY EntriesShape, FS_Interval, VoteAssumption
<1>3. QED
  BY <1>1, <1>2, FS_Subset DEF Counted

\* What is posted names agents of the round.
LEMMA PostTyped ==
  ASSUME TypeOK, RunsRecorded, NEW voters \in Start .. Len(entries), NEW cast,
         Counted(voters, cast) # {}, NEW g \in Groupings(Counted(voters, cast))
  PROVE  PostOf(g) \in Post /\ PostOf(g).group \in SUBSET Seats
<1> DEFINE C == Counted(voters, cast)
<1>1. C \in SUBSET Nat /\ IsFiniteSet(C) /\ C \subseteq DOMAIN entries
  BY CountedShape
<1>2. Top(g) \in C /\ GroupOf(g, Top(g)) \in SUBSET C
  BY <1>1, TopIsLargest
<1>3. \A i \in C : entries[i].agent \in Agents /\ entries[i].agent \in Seats
  BY <1>1, EntriesShape DEF RunsRecorded, EntryType
<1> HIDE DEF C
<1>4. entries[Top(g)].agent \in Agents
  BY <1>2, <1>3
<1>5. {entries[k].agent : k \in GroupOf(g, Top(g))} \in SUBSET (Agents \cap Seats)
  BY <1>2, <1>3
<1>6. Unanimous(g) \in BOOLEAN
  BY DEF Unanimous
<1>7. QED
  BY <1>4, <1>5, <1>6 DEF PostOf, Post

-----------------------------------------------------------------------------
(* Steps                                                                   *)

\* What a step can do to the entries: nothing, end or move on a live one, add
\* one of an agent that has a seat, or recover from a restart.
LEMMA EntriesKinds ==
  ASSUME TypeOK, RunsRecorded, ReadsEnded, [Next]_vars
  PROVE  \/ UNCHANGED entries
         \/ \E i \in DOMAIN entries, s \in Status :
              entries[i].status \in Live /\ SetStatus(i, s)
         \/ \E a \in Agents \cap Seats, s \in Status : entries' = Append(entries, Entry(a, s))
         \/ entries' = Recovered
<1> DEFINE Kinds ==
      \/ UNCHANGED entries
      \/ \E i \in DOMAIN entries, s \in Status :
           entries[i].status \in Live /\ SetStatus(i, s)
      \/ \E a \in Agents \cap Seats, s \in Status : entries' = Append(entries, Entry(a, s))
      \/ entries' = Recovered
<1>0. /\ {"Running", "Pending", "Failed", "Cancelled", "Expired", "Completed"} \subseteq Status
      /\ \A i \in DOMAIN entries : entries[i].agent \in Agents \cap Seats
  BY EntriesShape DEF Status, Live, Retryable, RunsRecorded, EntryType
<1>1. CASE UNCHANGED vars
  BY <1>1 DEF vars
<1>2. ASSUME NEW i \in DOMAIN entries, Launch(entries[i].agent, i) PROVE Kinds
  BY <1>0, <1>2 DEF Launch, Entry, Live
<1>3. ASSUME NEW i \in DOMAIN entries, Reject(i) PROVE Kinds
  BY <1>0, <1>3 DEF Reject, Live
<1>4. ASSUME NEW i \in DOMAIN entries, NEW st \in {"Cancelled", "Expired"}, Withdraw(i, st)
      PROVE  Kinds
  BY <1>0, <1>4 DEF Withdraw, Live
<1>5. ASSUME NEW i \in DOMAIN entries, UserRetry(i) \/ DrainRetry(i) PROVE Kinds
  BY <1>0, <1>5 DEF UserRetry, DrainRetry, Retry
<1>6. ASSUME NEW a \in Agents, Running(a), NEW s \in Status, SetStatus(task[a].run, s)
      PROVE  Kinds
  <2>1. task[a].run \in DOMAIN entries /\ entries[task[a].run] = Entry(a, "Running")
    BY <1>6 DEF RunsRecorded
  <2>2. entries[task[a].run].status \in Live
    BY <2>1 DEF Entry, Live
  <2>3. QED
    BY <1>6, <2>1, <2>2
<1>7. ASSUME NEW a \in Agents, TurnEnds(a) PROVE Kinds
  <2>1. ASSUME NEW st \in {"Failed", "Cancelled"}, FailTurn(a, st) PROVE Kinds
    BY <1>0, <1>6, <2>1 DEF FailTurn, Running
  <2>2. QED
    BY <1>7, <2>1 DEF TurnEnds, CastBallot
<1>8. ASSUME NEW a \in Agents, Requeue(a) PROVE Kinds
  BY <1>0, <1>6, <1>8 DEF Requeue, Running
<1>9. ASSUME NEW a \in Agents, Settle(a) PROVE Kinds
  <2>1. CASE Complete(a)
    BY <1>0, <1>6, <2>1 DEF Complete, Running
  <2>2. ASSUME task[a].stage = "settling", NEW next \in NextVoter(task[a].voters),
               NEW s \in Status, entries' = Append(entries, Entry(next, s))
        PROVE  Kinds
    <3>1. task[a].voters \in Start .. Len(entries)
      BY <2>2 DEF ReadsEnded, HasRead
    <3>2. next \in Agents \cap Seats
      BY <2>2, <3>1, NextHasSeat
    <3>3. QED
      BY <2>2, <3>2
  <2>3. CASE ResolveGrow(a)
    BY <1>0, <2>2, <2>3 DEF ResolveGrow
  <2>4. CASE ResolvePost(a)
    BY <1>0, <2>2, <2>4 DEF ResolvePost, RefuseVoter
  <2>5. CASE ReadVoters(a) \/ Begin(a) \/ ResolveEmpty(a) \/ PostAnswer(a) \/ Finish(a)
    BY <2>5 DEF ReadVoters, Begin, ResolveEmpty, PostAnswer, Finish
  <2>6. QED
    BY <1>9, <2>1, <2>3, <2>4, <2>5 DEF Settle
<1>10. CASE Repost
  BY <1>10 DEF Repost
<1>11. CASE Crash \/ NewOwner
  BY <1>11 DEF Crash, NewOwner
<1>12. QED
  BY <1>1, <1>2, <1>3, <1>4, <1>5, <1>7, <1>8, <1>9, <1>10, <1>11 DEF Next, StartWaiting

\* Entries are only added; an entry keeps its agent, and its status once it
\* ended.
LEMMA EntriesStep ==
  ASSUME TypeOK, RunsRecorded, ReadsEnded, [Next]_vars
  PROVE  /\ entries' \in Seq(EntryType)
         /\ Len(entries') \in {Len(entries), Len(entries) + 1}
         /\ DOMAIN entries \subseteq DOMAIN entries'
         /\ DOMAIN entries' = 1 .. Len(entries')
         /\ \A i \in DOMAIN entries :
              /\ entries'[i].agent = entries[i].agent
              /\ entries[i].status \notin Live => entries'[i] = entries[i]
         /\ \A i \in DOMAIN entries' : entries'[i].agent \in Seats
<1>0. /\ entries \in Seq(EntryType) /\ Len(entries) \in Nat
      /\ DOMAIN entries = 1 .. Len(entries)
      /\ \A i \in DOMAIN entries : entries[i].agent \in Seats
  BY EntriesShape DEF RunsRecorded, TypeOK
<1>1. CASE UNCHANGED entries
  BY <1>0, <1>1
<1>2. ASSUME NEW i \in DOMAIN entries, NEW s \in Status,
             entries[i].status \in Live, SetStatus(i, s)
      PROVE  /\ entries' \in Seq(EntryType)
             /\ Len(entries') = Len(entries)
             /\ DOMAIN entries' = DOMAIN entries
             /\ \A j \in DOMAIN entries :
                  /\ entries'[j].agent = entries[j].agent
                  /\ entries[j].status \notin Live => entries'[j] = entries[j]
  <2>1. /\ entries' \in Seq(EntryType)
        /\ Len(entries') = Len(entries)
        /\ DOMAIN entries' = DOMAIN entries
        /\ \A j \in DOMAIN entries :
             entries'[j] = IF j = i THEN Entry(entries[i].agent, s) ELSE entries[j]
    BY <1>2, StatusSet
  <2>2. Entry(entries[i].agent, s).agent = entries[i].agent
    BY DEF Entry
  <2>3. QED
    BY <1>2, <2>1, <2>2
<1>3. ASSUME NEW a \in Agents \cap Seats, NEW s \in Status,
             entries' = Append(entries, Entry(a, s))
      PROVE  /\ entries' \in Seq(EntryType)
             /\ Len(entries') = Len(entries) + 1
             /\ DOMAIN entries' = 1 .. (Len(entries) + 1)
             /\ \A j \in DOMAIN entries : entries'[j] = entries[j]
             /\ entries'[Len(entries) + 1].agent \in Seats
  <2>1. Entry(a, s) \in EntryType
    BY DEF Entry, EntryType
  <2>2. QED
    BY <1>3, <2>1, Appended DEF Entry
<1>4. CASE entries' = Recovered
  BY <1>0, <1>4, RecoveredShape
<1>5. CASE \E a \in Agents \cap Seats, s \in Status : entries' = Append(entries, Entry(a, s))
  BY <1>0, <1>3, <1>5
<1>6. CASE \E i \in DOMAIN entries, s \in Status :
             entries[i].status \in Live /\ SetStatus(i, s)
  BY <1>0, <1>2, <1>6
<1>7. QED
  BY <1>1, <1>4, <1>5, <1>6, EntriesKinds

\* A task that starts or ends a settle is one of the tasks there can be.
LEMMA TaskStep ==
  ASSUME TypeOK, RunsRecorded, ReadsEnded, [Next]_vars
  PROVE  task' \in [Agents -> Task]
<1>0. task \in [Agents -> Task] /\ board \in Board
  BY DEF TypeOK
<1>1. Idle \in Task /\ [stage |-> "ended"] \in Task
  BY DEF Idle, Task
<1>2. CASE UNCHANGED task
  BY <1>0, <1>2
<1>3. ASSUME NEW a \in Agents, Move(a, Idle) PROVE task' \in [Agents -> Task]
  BY <1>1, <1>3, Moved
<1>4. ASSUME NEW i \in DOMAIN entries, Launch(entries[i].agent, i)
      PROVE  task' \in [Agents -> Task]
  <2>1. entries[i].agent \in Agents /\ i \in Nat \ {0}
    BY EntriesShape DEF EntryType
  <2>2. [stage |-> "turn", run |-> i] \in Task
    BY <2>1 DEF Task
  <2>3. QED
    BY <1>4, <2>1, <2>2, Moved DEF Launch
<1>5. ASSUME NEW a \in Agents, TurnEnds(a) PROVE task' \in [Agents -> Task]
  <2>1. ASSUME NEW cast \in Cast, CastBallot(a, cast) PROVE task' \in [Agents -> Task]
    <3>1. task[a].run \in Nat \ {0}
      BY <2>1, TaskFields DEF CastBallot, Running
    <3>2. [stage |-> "cast", run |-> task[a].run] \in Task
      BY <3>1 DEF Task
    <3>3. QED
      BY <2>1, <3>2, Moved DEF CastBallot
  <2>2. ASSUME NEW st \in {"Failed", "Cancelled"}, FailTurn(a, st)
        PROVE  task' \in [Agents -> Task]
    BY <1>1, <2>2, Moved DEF FailTurn
  <2>3. QED
    BY <1>5, <2>1, <2>2 DEF TurnEnds
<1>6. ASSUME NEW a \in Agents, Settle(a) PROVE task' \in [Agents -> Task]
  <2>1. CASE Complete(a)
    BY <1>1, <2>1, Moved DEF Complete
  <2>2. CASE ReadVoters(a)
    <3>1. [stage |-> "read", voters |-> Len(entries)] \in Task
      BY EntriesShape DEF Task
    <3>2. QED
      BY <1>1, <2>2, <3>1, Moved DEF ReadVoters
  <2>3. CASE Begin(a)
    <3>1. task[a].voters \in Nat /\ board.ballots \in Ballots
      BY <1>0, <2>3, TaskFields DEF Begin, HasRead, Board
    <3>2. [stage |-> "settling", voters |-> task[a].voters, cast |-> board.ballots] \in Task
      BY <3>1 DEF Task
    <3>3. QED
      BY <1>1, <2>3, <3>2, Moved DEF Begin
  <2>4. ASSUME HasRead(a), NEW d \in BOOLEAN,
               Move(a, [stage |-> "finishing", voters |-> task[a].voters, done |-> d])
        PROVE  task' \in [Agents -> Task]
    <3>1. [stage |-> "finishing", voters |-> task[a].voters, done |-> d] \in Task
      BY <2>4, TaskFields DEF Task
    <3>2. QED
      BY <2>4, <3>1, Moved
  <2>5. CASE ResolveEmpty(a) \/ ResolveGrow(a) \/ PostAnswer(a)
    BY <2>4, <2>5 DEF ResolveEmpty, ResolveGrow, PostAnswer, HasRead
  <2>6. CASE ResolvePost(a)
    <3>1. PICK g \in Groupings(Counted(task[a].voters, task[a].cast)) :
            Move(a, [stage |-> "posting", voters |-> task[a].voters, post |-> PostOf(g)])
      BY <2>6 DEF ResolvePost
    <3>2. /\ task[a].voters \in Start .. Len(entries)
          /\ Counted(task[a].voters, task[a].cast) # {}
      BY <2>6 DEF ResolvePost, ReadsEnded, HasRead
    <3>3. PostOf(g) \in Post
      BY <3>2, PostTyped
    <3>4. task[a].voters \in Nat
      BY <2>6, TaskFields DEF ResolvePost, HasRead
    <3>5. [stage |-> "posting", voters |-> task[a].voters, post |-> PostOf(g)] \in Task
      BY <3>3, <3>4 DEF Task
    <3>6. QED
      BY <3>1, <3>5, Moved
  <2>7. CASE Finish(a)
    BY <1>3, <2>7 DEF Finish
  <2>8. QED
    BY <1>6, <2>1, <2>2, <2>3, <2>5, <2>6, <2>7 DEF Settle
<1>7. CASE Crash \/ NewOwner
  BY <1>1, <1>7 DEF Crash, NewOwner
<1>8. ASSUME NEW i \in DOMAIN entries,
             \/ Reject(i)
             \/ \E st \in {"Cancelled", "Expired"} : Withdraw(i, st)
             \/ UserRetry(i)
             \/ DrainRetry(i)
      PROVE  UNCHANGED task
  BY <1>8 DEF Reject, Withdraw, UserRetry, DrainRetry, Retry
<1>9. CASE UNCHANGED vars \/ Repost
  BY <1>2, <1>9 DEF vars, Repost
<1>10. ASSUME NEW a \in Agents, Requeue(a) PROVE task' \in [Agents -> Task]
  BY <1>3, <1>10 DEF Requeue
<1>11. QED
  BY <1>2, <1>4, <1>5, <1>6, <1>7, <1>8, <1>9, <1>10 DEF Next, StartWaiting

\* The type invariant is inductive, with what is known of runs and rounds.
LEMMA TypeStep ==
  ASSUME TypeOK, RunsRecorded, ReadsEnded, [Next]_vars
  PROVE  TypeOK'
<1>0. /\ board \in Board /\ posts \in Seq(Post)
      /\ reposting \in {NoRepost} \cup [left : Nat, post : Post]
      /\ announced \in BOOLEAN /\ restarts \in Nat
      /\ meddled \in SUBSET {"retried", "withdrawn"}
  BY DEF TypeOK
<1>1. entries' \in Seq(EntryType) /\ task' \in [Agents -> Task]
  BY EntriesStep, TaskStep
<1> DEFINE Rest ==
      /\ board' \in Board /\ posts' \in Seq(Post)
      /\ reposting' \in {NoRepost} \cup [left : Nat, post : Post]
      /\ announced' \in BOOLEAN /\ restarts' \in Nat
      /\ meddled' \in SUBSET {"retried", "withdrawn"}
<1>2. NoVotes \in Board
  BY DEF NoVotes, Board, Ballots, Ballot
<1>4. ASSUME NEW i \in DOMAIN entries,
             \/ StartWaiting(i)
             \/ \E status \in {"Cancelled", "Expired"} : Withdraw(i, status)
             \/ UserRetry(i)
             \/ DrainRetry(i)
      PROVE  Rest
  <2>1. UNCHANGED <<board, posts, reposting, announced, restarts>>
    BY <1>4 DEF StartWaiting, Launch, Reject, Withdraw, UserRetry, DrainRetry, Retry
  <2>2. meddled' \in {meddled, meddled \cup {"withdrawn"}, meddled \cup {"retried"}}
    BY <1>4 DEF StartWaiting, Launch, Reject, Withdraw, UserRetry, DrainRetry, Retry
  <2>3. QED
    BY <1>0, <2>1, <2>2
<1>5. ASSUME NEW a \in Agents, TurnEnds(a) PROVE Rest
  <2>1. ASSUME NEW cast \in Cast, CastBallot(a, cast) PROVE Rest
    <3>1. board' \in Board
      BY <1>0, <2>1 DEF CastBallot, Board, Ballots, Ballot
    <3>2. QED
      BY <1>0, <2>1, <3>1 DEF CastBallot
  <2>2. QED
    BY <1>0, <1>5, <2>1 DEF TurnEnds, FailTurn
<1>6. ASSUME NEW a \in Agents, Requeue(a) PROVE Rest
  BY <1>0, <1>6 DEF Requeue
<1>7. ASSUME NEW a \in Agents, Settle(a) PROVE Rest
  <2>1. CASE Begin(a)
    <3>1. board' \in Board
      BY <1>0, <2>1 DEF Begin, Board
    <3>2. QED
      BY <1>0, <2>1, <3>1 DEF Begin
  <2>2. CASE PostAnswer(a)
    <3>1. task[a].post \in Post
      BY <2>2, TaskFields DEF PostAnswer
    <3>2. PostTries \in Nat
      BY VoteAssumption
    <3>3. CASE posts' = Append(posts, task[a].post) /\ UNCHANGED reposting
      BY <1>0, <2>2, <3>1, <3>3 DEF PostAnswer
    <3>4. CASE reposting' = [left |-> PostTries, post |-> task[a].post] /\ UNCHANGED posts
      BY <1>0, <2>2, <3>1, <3>2, <3>4 DEF PostAnswer
    <3>5. QED
      BY <2>2, <3>3, <3>4 DEF PostAnswer
  <2>3. CASE Finish(a)
    <3>1. task[a].voters \in Nat /\ task[a].done \in BOOLEAN
      BY <2>3, TaskFields DEF Finish, HasRead
    <3>2. board' \in Board
      BY <1>0, <1>2, <2>3, <3>1 DEF Finish, Board
    <3>3. QED
      BY <1>0, <2>3, <3>2 DEF Finish
  <2>4. CASE Complete(a) \/ ReadVoters(a) \/ ResolveEmpty(a) \/ ResolveGrow(a) \/ ResolvePost(a)
    BY <1>0, <2>4 DEF Complete, ReadVoters, ResolveEmpty, ResolveGrow, ResolvePost
  <2>5. QED
    BY <1>7, <2>1, <2>2, <2>3, <2>4 DEF Settle
<1>8. ASSUME Repost PROVE Rest
  <2>1. reposting.left \in Nat \ {0} /\ reposting \in [left : Nat, post : Post]
    BY <1>0, <1>8 DEF Repost, NoRepost
  <2>2. posts' \in Seq(Post)
    BY <1>0, <1>8, <2>1 DEF Repost
  <2>3. reposting' \in {NoRepost} \cup [left : Nat, post : Post]
    BY <1>0, <1>8, <2>1 DEF Repost
  <2>4. announced' \in BOOLEAN
    BY <1>0, <1>8 DEF Repost
  <2>5. QED
    BY <1>0, <1>8, <2>2, <2>3, <2>4 DEF Repost
<1>9. ASSUME Crash \/ NewOwner PROVE Rest
  <2>1. UNCHANGED <<posts, announced, meddled>> /\ restarts' = restarts + 1
    BY <1>9 DEF Crash, NewOwner
  <2>2. board' \in {board, NoVotes} /\ reposting' \in {reposting, NoRepost}
    BY <1>9 DEF Crash, NewOwner
  <2>3. QED
    BY <1>0, <1>2, <2>1, <2>2
<1>10. ASSUME UNCHANGED vars PROVE Rest
  BY <1>0, <1>10 DEF vars
<1>11. Rest
  BY <1>4, <1>5, <1>6, <1>7, <1>8, <1>9, <1>10 DEF Next
<1>12. QED
  BY <1>1, <1>11 DEF TypeOK

\* At most one task moves in a step, unless all of them are gone; the steps of
\* a task are named by it.
LEMMA OneMoves ==
  ASSUME TypeOK, [Next]_vars
  PROVE  \/ task' = task /\ UNCHANGED vars
         \/ task' = task /\ \E i \in DOMAIN entries :
              \/ Reject(i)
              \/ \E status \in {"Cancelled", "Expired"} : Withdraw(i, status)
              \/ UserRetry(i)
              \/ DrainRetry(i)
         \/ task' = task /\ Repost
         \/ task' = [a \in Agents |-> Idle] /\ (Crash \/ NewOwner)
         \/ \E a \in Agents :
              /\ \A b \in Agents : b # a => task'[b] = task[b]
              /\ \/ \E i \in DOMAIN entries : entries[i].agent = a /\ Launch(a, i)
                 \/ TurnEnds(a)
                 \/ Requeue(a)
                 \/ Settle(a)
<1> DEFINE Stays(a) == \A b \in Agents : b # a => task'[b] = task[b]
<1>1. ASSUME NEW a \in Agents, NEW next, Move(a, next) PROVE Stays(a)
  BY <1>1 DEF Move, TypeOK
<1>2. ASSUME NEW a \in Agents, TurnEnds(a) \/ Requeue(a) PROVE Stays(a)
  BY <1>1, <1>2 DEF TurnEnds, CastBallot, FailTurn, Requeue
<1>3. ASSUME NEW a \in Agents, Settle(a) PROVE Stays(a)
  BY <1>1, <1>3 DEF Settle, Complete, ReadVoters, Begin, ResolveEmpty, ResolveGrow,
                    ResolvePost, PostAnswer, Finish
<1>4. ASSUME NEW i \in DOMAIN entries, Launch(entries[i].agent, i) PROVE Stays(entries[i].agent)
  <2>1. entries[i].agent \in Agents
    BY EntriesShape DEF EntryType
  <2>2. QED
    BY <1>1, <1>4, <2>1 DEF Launch
<1>5. ASSUME NEW i \in DOMAIN entries,
             \/ Reject(i)
             \/ \E status \in {"Cancelled", "Expired"} : Withdraw(i, status)
             \/ UserRetry(i)
             \/ DrainRetry(i)
      PROVE  task' = task
  BY <1>5 DEF Reject, Withdraw, UserRetry, DrainRetry, Retry
<1>6. CASE UNCHANGED vars
  BY <1>6 DEF vars
<1>7. CASE Repost
  BY <1>7 DEF Repost
<1>8. CASE Crash \/ NewOwner
  BY <1>8 DEF Crash, NewOwner
<1>9. \A i \in DOMAIN entries : entries[i].agent \in Agents
  BY EntriesShape DEF EntryType
<1>10. CASE \E i \in DOMAIN entries : StartWaiting(i)
  BY <1>4, <1>5, <1>9, <1>10 DEF StartWaiting
<1>11. QED
  BY <1>2, <1>3, <1>5, <1>6, <1>7, <1>8, <1>10 DEF Next

\* A step of a settle, as it changes the task that takes it.
LEMMA SettleMoves ==
  ASSUME TypeOK, NEW a \in Agents, Settle(a)
  PROVE  \/ Complete(a) /\ task[a].stage = "cast" /\ task'[a] = [stage |-> "ended"]
         \/ /\ ReadVoters(a) /\ task[a].stage = "ended"
            /\ \/ LiveRuns # {} /\ task'[a] = Idle
               \/ LiveRuns = {} /\ task'[a] = [stage |-> "read", voters |-> Len(entries)]
         \/ /\ Begin(a) /\ task[a].stage = "read" /\ UNCHANGED entries
            /\ \/ ~CanBegin(task[a].voters) /\ task'[a] = Idle /\ UNCHANGED board
               \/ /\ CanBegin(task[a].voters)
                  /\ task'[a] = [stage |-> "settling", voters |-> task[a].voters,
                                 cast |-> board.ballots]
                  /\ board' = [board EXCEPT !.busy = TRUE]
         \/ /\ ResolveEmpty(a) /\ task[a].stage = "settling" /\ UNCHANGED entries
            /\ task'[a] = [stage |-> "finishing", voters |-> task[a].voters, done |-> TRUE]
         \/ /\ ResolveGrow(a) /\ task[a].stage = "settling"
            /\ task'[a] = [stage |-> "finishing", voters |-> task[a].voters, done |-> FALSE]
         \/ /\ ResolvePost(a) /\ task[a].stage = "settling"
            /\ \E g \in Groupings(Counted(task[a].voters, task[a].cast)) :
                 task'[a] = [stage |-> "posting", voters |-> task[a].voters, post |-> PostOf(g)]
         \/ /\ PostAnswer(a) /\ task[a].stage = "posting" /\ UNCHANGED entries
            /\ task'[a] = [stage |-> "finishing", voters |-> task[a].voters, done |-> TRUE]
         \/ /\ Finish(a) /\ task[a].stage = "finishing" /\ UNCHANGED entries
            /\ task'[a] = Idle
<1>1. \A next : Move(a, next) => task'[a] = next
  BY DEF Move, TypeOK
<1>2. CASE Complete(a)
  BY <1>1, <1>2 DEF Complete
<1>3. CASE ReadVoters(a)
  BY <1>1, <1>3 DEF ReadVoters
<1>4. CASE Begin(a)
  BY <1>1, <1>4 DEF Begin
<1>5. CASE ResolveEmpty(a)
  BY <1>1, <1>5 DEF ResolveEmpty
<1>6. CASE ResolveGrow(a)
  BY <1>1, <1>6 DEF ResolveGrow
<1>7. CASE ResolvePost(a)
  <2>1. PICK g \in Groupings(Counted(task[a].voters, task[a].cast)) :
          Move(a, [stage |-> "posting", voters |-> task[a].voters, post |-> PostOf(g)])
    BY <1>7 DEF ResolvePost
  <2>2. task'[a] = [stage |-> "posting", voters |-> task[a].voters, post |-> PostOf(g)]
    BY <1>1, <2>1
  <2>3. task[a].stage = "settling"
    BY <1>7 DEF ResolvePost
  <2>4. QED
    BY <1>7, <2>2, <2>3
<1>8. CASE PostAnswer(a)
  BY <1>1, <1>8 DEF PostAnswer
<1>9. CASE Finish(a)
  BY <1>1, <1>9 DEF Finish
<1>10. QED
  BY <1>2, <1>3, <1>4, <1>5, <1>6, <1>7, <1>8, <1>9 DEF Settle

\* A settle is taken by a task that is not idle, and leaves it in no turn.
LEMMA SettleStages ==
  ASSUME TypeOK, NEW a \in Agents, Settle(a)
  PROVE  task[a].stage # "idle" /\ task'[a].stage \notin {"turn", "cast"}
<1> DEFINE Off == task'[a].stage \notin {"turn", "cast"}
<1>1. ASSUME task'[a] = Idle \/ task'[a] = [stage |-> "ended"] PROVE Off
  BY <1>1 DEF Idle
<1>2. ASSUME \E n : task'[a] = [stage |-> "read", voters |-> n] PROVE Off
  BY <1>2
<1>3. ASSUME \E n, c : task'[a] = [stage |-> "settling", voters |-> n, cast |-> c] PROVE Off
  BY <1>3
<1>4. ASSUME \E n, p : task'[a] = [stage |-> "posting", voters |-> n, post |-> p] PROVE Off
  BY <1>4
<1>5. ASSUME \E n, d : task'[a] = [stage |-> "finishing", voters |-> n, done |-> d] PROVE Off
  BY <1>5
<1> HIDE DEF Off
<1>6. Off
  BY <1>1, <1>2, <1>3, <1>4, <1>5, SettleMoves
<1>7. task[a].stage # "idle"
  BY DEF Settle, Complete, ReadVoters, Begin, ResolveEmpty, ResolveGrow, ResolvePost,
         PostAnswer, Finish
<1>8. QED
  BY <1>6, <1>7 DEF Off

\* How a task leaves its turn, or enters it.
LEMMA TurnMoves ==
  ASSUME TypeOK, NEW a \in Agents,
         \/ \E i \in DOMAIN entries : entries[i].agent = a /\ Launch(a, i)
         \/ TurnEnds(a)
         \/ Requeue(a)
  PROVE  /\ ~HasRead(a) /\ ~HasRead(a)'
         /\ task'[a].stage \in {"turn", "cast", "ended", "idle"}
<1>1. \A next : Move(a, next) => task'[a] = next
  BY DEF Move, TypeOK
<1>2. CASE \E i \in DOMAIN entries : entries[i].agent = a /\ Launch(a, i)
  BY <1>1, <1>2 DEF Launch, HasRead, Idle
<1>3. CASE TurnEnds(a)
  BY <1>1, <1>3 DEF TurnEnds, CastBallot, FailTurn, HasRead
<1>4. CASE Requeue(a)
  BY <1>1, <1>4 DEF Requeue, HasRead, Idle
<1>5. QED
  BY <1>2, <1>3, <1>4

-----------------------------------------------------------------------------
(* Runs and rounds                                                         *)

\* A task that keeps its run and its entry keeps its claim.
LEMMA RunKept ==
  ASSUME RunsRecorded, NEW a \in Agents, Running(a), task'[a] = task[a],
         task[a].run \in DOMAIN entries', entries'[task[a].run] = entries[task[a].run]
  PROVE  entries'[task'[a].run] = Entry(a, "Running") /\ task'[a].run \in DOMAIN entries'
BY DEF RunsRecorded

\* A step of the entries or of another task leaves a run alone.
LEMMA RunsRecordedStep ==
  ASSUME TypeOK, RunsRecorded, ReadsEnded, [Next]_vars
  PROVE  RunsRecorded'
<1> DEFINE Claims(a) == Running(a)' => /\ task'[a].run \in DOMAIN entries'
                                       /\ entries'[task'[a].run] = Entry(a, "Running")
<1>1. /\ Len(entries') >= Start
      /\ \A i \in 1 .. Start : entries'[i].agent = Pool[i]
      /\ \A i \in DOMAIN entries' : entries'[i].agent \in Seats
  <2>1. Start \in Nat /\ Len(entries) \in Nat /\ DOMAIN entries = 1 .. Len(entries)
    BY VoteAssumption, EntriesShape
  <2>2. Len(entries) >= Start /\ \A i \in 1 .. Start : entries[i].agent = Pool[i]
    BY DEF RunsRecorded
  <2>3. QED
    BY <2>1, <2>2, EntriesStep
<1>2. ASSUME NEW b \in Agents, task'[b] = task[b],
             Running(b) => entries'[task[b].run] = entries[task[b].run]
      PROVE  Claims(b)
  <2>1. Running(b) => task[b].run \in DOMAIN entries'
    BY EntriesStep DEF RunsRecorded
  <2>2. QED
    BY <1>2, <2>1, RunKept DEF Running
<1>3. ASSUME NEW b \in Agents, task'[b] = task[b], UNCHANGED entries PROVE Claims(b)
  BY <1>2, <1>3
<1>4. ASSUME NEW b \in Agents, task'[b] = task[b], NEW e \in EntryType,
             entries' = Append(entries, e)
      PROVE  Claims(b)
  BY <1>2, <1>4, Appended DEF RunsRecorded
<1>5. ASSUME NEW b \in Agents, task'[b] = task[b], NEW i \in DOMAIN entries, NEW s \in Status,
             SetStatus(i, s), entries[i] # Entry(b, "Running")
      PROVE  Claims(b)
  BY <1>2, <1>5, StatusSet DEF RunsRecorded
<1>6. CASE UNCHANGED vars
  BY <1>3, <1>6 DEF vars, RunsRecorded, Running
<1>7. ASSUME task' = task, NEW i \in DOMAIN entries,
             \/ Reject(i)
             \/ \E status \in {"Cancelled", "Expired"} : Withdraw(i, status)
             \/ UserRetry(i)
             \/ DrainRetry(i),
             NEW b \in Agents
      PROVE  Claims(b)
  <2>1. CASE Reject(i) \/ \E status \in {"Cancelled", "Expired"} : Withdraw(i, status)
    <3>1. PICK s \in Status : SetStatus(i, s) /\ entries[i].status = "Pending"
      BY <2>1 DEF Reject, Withdraw, Status, Retryable
    <3>2. entries[i] # Entry(b, "Running")
      BY <3>1 DEF Entry
    <3>3. QED
      BY <1>5, <1>7, <3>1, <3>2
  <2>2. CASE UserRetry(i) \/ DrainRetry(i)
    <3>1. entries' = Append(entries, Entry(entries[i].agent, "Pending"))
      BY <2>2 DEF UserRetry, DrainRetry, Retry
    <3>2. Entry(entries[i].agent, "Pending") \in EntryType
      BY EntriesShape DEF EntryType, Entry, Status, Live
    <3>3. QED
      BY <1>4, <1>7, <3>1, <3>2
  <2>3. QED
    BY <1>7, <2>1, <2>2
<1>8. CASE task' = task /\ Repost
  BY <1>1, <1>3, <1>8 DEF Repost, RunsRecorded, Running
<1>9. CASE task' = [a \in Agents |-> Idle]
  BY <1>1, <1>9 DEF RunsRecorded, Running, Idle
<1>10. ASSUME NEW a \in Agents, \A b \in Agents : b # a => task'[b] = task[b],
              NEW i \in DOMAIN entries, entries[i].agent = a, Launch(a, i), NEW b \in Agents
       PROVE  Claims(b)
  <2>1. SetStatus(i, "Running") /\ entries[i] = Entry(a, "Pending")
    BY <1>10 DEF Launch
  <2>2. "Running" \in Status /\ entries[i] # Entry(b, "Running")
    BY <2>1 DEF Status, Live, Entry
  <2>3. CASE b # a
    BY <1>5, <1>10, <2>1, <2>2, <2>3
  <2>4. CASE b = a
    <3>1. task'[a] = [stage |-> "turn", run |-> i]
      BY <1>10 DEF Launch, Move, TypeOK
    <3>2. i \in DOMAIN entries' /\ entries'[i] = Entry(a, "Running")
      BY <1>10, <2>1, <2>2, StatusSet
    <3>3. QED
      BY <2>4, <3>1, <3>2
  <2>5. QED
    BY <2>3, <2>4
<1>11. ASSUME NEW a \in Agents, \A b \in Agents : b # a => task'[b] = task[b],
              Running(a), NEW s \in Status, SetStatus(task[a].run, s), ~Running(a)',
              NEW b \in Agents
       PROVE  Claims(b)
  <2>1. task[a].run \in DOMAIN entries /\ entries[task[a].run] = Entry(a, "Running")
    BY <1>11 DEF RunsRecorded
  <2>2. CASE b # a
    <3>1. entries[task[a].run] # Entry(b, "Running")
      BY <2>1, <2>2 DEF Entry
    <3>2. QED
      BY <1>5, <1>11, <2>1, <2>2, <3>1
  <2>3. CASE b = a
    BY <1>11, <2>3
  <2>4. QED
    BY <2>2, <2>3
<1>12. ASSUME NEW a \in Agents, \A b \in Agents : b # a => task'[b] = task[b],
              TurnEnds(a) \/ Requeue(a), NEW b \in Agents
       PROVE  Claims(b)
  <2>1. \A next : Move(a, next) => task'[a] = next
    BY DEF Move, TypeOK
  <2>2. ASSUME NEW cast \in Cast, CastBallot(a, cast) PROVE Claims(b)
    <3>1. task'[a] = [stage |-> "cast", run |-> task[a].run] /\ UNCHANGED entries /\ Running(a)
      BY <2>1, <2>2 DEF CastBallot, Running
    <3>2. CASE b = a
      BY <3>1, <3>2 DEF RunsRecorded
    <3>3. QED
      BY <1>3, <1>12, <3>1, <3>2
  <2>3. CASE (\E st \in {"Failed", "Cancelled"} : FailTurn(a, st)) \/ Requeue(a)
    <3>1. PICK s \in Status : SetStatus(task[a].run, s)
      BY <2>3 DEF FailTurn, Requeue, Status, Live, Retryable
    <3>2. Running(a) /\ ~Running(a)'
      BY <2>1, <2>3 DEF FailTurn, Requeue, Running, Idle
    <3>3. QED
      BY <1>11, <1>12, <3>1, <3>2
  <2>4. QED
    BY <1>12, <2>2, <2>3 DEF TurnEnds
<1>13. ASSUME NEW a \in Agents, \A b \in Agents : b # a => task'[b] = task[b],
              Settle(a), NEW b \in Agents
       PROVE  Claims(b)
  <2>1. ~Running(a)'
    BY <1>13, SettleStages DEF Running
  <2>2. CASE Complete(a)
    <3>1. SetStatus(task[a].run, "Completed") /\ Running(a) /\ "Completed" \in Status
      BY <2>2 DEF Complete, Running, Status
    <3>2. QED
      BY <1>11, <1>13, <2>1, <3>1
  <2>3. CASE ~Complete(a)
    <3>1. CASE UNCHANGED entries
      BY <1>3, <1>13, <2>1, <3>1
    <3>2. CASE \E e \in EntryType : entries' = Append(entries, e)
      BY <1>4, <1>13, <2>1, <3>2
    <3>3. ASSUME ResolveGrow(a) \/ ResolvePost(a)
          PROVE  UNCHANGED entries \/ \E e \in EntryType : entries' = Append(entries, e)
      <4>1. task[a].voters \in Start .. Len(entries)
        BY <3>3 DEF ResolveGrow, ResolvePost, ReadsEnded, HasRead
      <4>2. \A next \in NextVoter(task[a].voters), s \in {"Pending", "Expired", "Cancelled"} :
              Entry(next, s) \in EntryType
        BY <4>1, NextHasSeat DEF Entry, EntryType, Status, Live, Retryable
      <4>3. CASE ResolveGrow(a)
        BY <4>2, <4>3 DEF ResolveGrow
      <4>4. CASE ResolvePost(a)
        BY <4>2, <4>4 DEF ResolvePost, RefuseVoter
      <4>5. QED
        BY <3>3, <4>3, <4>4
    <3>4. UNCHANGED entries \/ ResolveGrow(a) \/ ResolvePost(a)
      BY <1>13, <2>3 DEF Settle, ReadVoters, Begin, ResolveEmpty, PostAnswer, Finish
    <3>5. QED
      BY <3>1, <3>2, <3>3, <3>4
  <2>4. QED
    BY <2>2, <2>3
<1>14. \A b \in Agents : Claims(b)
  BY <1>3, <1>6, <1>7, <1>8, <1>9, <1>10, <1>12, <1>13, OneMoves DEF RunsRecorded
<1>15. QED
  BY <1>1, <1>14 DEF RunsRecorded

\* A settle keeps the number of entries it read, and they stay ended.
LEMMA ReadsEndedStep ==
  ASSUME TypeOK, RunsRecorded, ReadsEnded, [Next]_vars
  PROVE  ReadsEnded'
<1> DEFINE Ended(b) == HasRead(b)' => /\ task'[b].voters \in Start .. Len(entries')
                                      /\ \A i \in 1 .. task'[b].voters : entries'[i].status \notin Live
<1>1. Start \in Nat /\ Len(entries) \in Nat /\ DOMAIN entries = 1 .. Len(entries)
  BY VoteAssumption, EntriesShape
<1>2. ASSUME NEW b \in Agents, HasRead(b), task'[b].voters = task[b].voters PROVE Ended(b)
  <2>1. /\ task[b].voters \in Start .. Len(entries)
        /\ \A i \in 1 .. task[b].voters : entries[i].status \notin Live
    BY <1>2 DEF ReadsEnded
  <2>2. \A i \in 1 .. task[b].voters : i \in DOMAIN entries
    BY <1>1, <2>1
  <2>3. \A i \in 1 .. task[b].voters : entries'[i].status \notin Live
    BY <2>1, <2>2, EntriesStep
  <2>4. task[b].voters \in Start .. Len(entries')
    BY <1>1, <2>1, EntriesStep
  <2>5. QED
    BY <1>2, <2>3, <2>4
<1>3. ASSUME NEW b \in Agents, task'[b] = task[b] PROVE Ended(b)
  BY <1>2, <1>3 DEF HasRead
<1>4. CASE task' = task
  BY <1>3, <1>4 DEF ReadsEnded
<1>5. CASE task' = [a \in Agents |-> Idle]
  BY <1>5 DEF ReadsEnded, HasRead, Idle
<1>6. ASSUME NEW a \in Agents, Settle(a) PROVE Ended(a)
  <2>1. CASE task[a].stage = "ended" /\ UNCHANGED entries
             /\ LiveRuns = {} /\ task'[a] = [stage |-> "read", voters |-> Len(entries)]
    <3>1. Len(entries) \in Start .. Len(entries)
      BY <1>1 DEF RunsRecorded
    <3>2. \A i \in 1 .. Len(entries) : entries[i].status \notin Live
      BY <1>1, <2>1 DEF LiveRuns
    <3>3. QED
      BY <2>1, <3>1, <3>2
  <2>2. CASE HasRead(a) /\ task'[a].voters = task[a].voters
    BY <1>2, <2>2
  <2>3. CASE task'[a] = Idle \/ task'[a] = [stage |-> "ended"]
    BY <2>3 DEF HasRead, Idle
  <2>4. ReadVoters(a) => UNCHANGED entries
    BY DEF ReadVoters
  <2> DEFINE E == Ended(a)
  <2> HIDE DEF E
  <2>5. E
    <3>1. CASE \E c : /\ task[a].stage = "read"
                      /\ task'[a] = [stage |-> "settling", voters |-> task[a].voters, cast |-> c]
      BY <2>2, <3>1 DEF HasRead, E
    <3>2. CASE \E d : /\ HasRead(a)
                      /\ task'[a] = [stage |-> "finishing", voters |-> task[a].voters, done |-> d]
      BY <2>2, <3>2 DEF E
    <3>3. CASE \E p : /\ task[a].stage = "settling"
                      /\ task'[a] = [stage |-> "posting", voters |-> task[a].voters, post |-> p]
      BY <2>2, <3>3 DEF HasRead, E
    <3>4. task[a].stage \in {"settling", "posting"} => HasRead(a)
      BY DEF HasRead
    <3>5. QED
      BY <1>6, <2>1, <2>3, <2>4, <3>1, <3>2, <3>3, <3>4, SettleMoves DEF E
  <2>6. QED
    BY <2>5 DEF E
<1>7. ASSUME NEW a \in Agents, \A b \in Agents : b # a => task'[b] = task[b],
             ~HasRead(a)' \/ Ended(a)
      PROVE  ReadsEnded'
  BY <1>3, <1>7 DEF ReadsEnded
<1>8. QED
  BY <1>4, <1>5, <1>6, <1>7, OneMoves, TurnMoves

-----------------------------------------------------------------------------
(* One settle at a time                                                    *)

\* Settling: begun by the one whose board was free, ended by finish.
LEMMA OneSettleStep ==
  ASSUME TypeOK, RunsRecorded, ReadsEnded, OneSettle, [Next]_vars
  PROVE  OneSettle'
<1>0. board \in Board
  BY DEF TypeOK
<1>1. ASSUME task' = task \/ \E a \in Agents : /\ \A b \in Agents : b # a => task'[b] = task[b]
                                               /\ ~Settling(a)',
             board'.busy = board.busy, board'.settled = board.settled, board'.done = board.done
      PROVE  OneSettle'
  <2>1. \A b \in Agents : Settling(b)' => Settling(b) /\ task'[b] = task[b]
    BY <1>1 DEF Settling
  <2>2. QED
    BY <1>1, <2>1 DEF OneSettle
<1>2. CASE UNCHANGED vars \/ Repost
  BY <1>1, <1>2 DEF vars, Repost
<1>3. ASSUME task' = task, NEW i \in DOMAIN entries,
             \/ Reject(i)
             \/ \E status \in {"Cancelled", "Expired"} : Withdraw(i, status)
             \/ UserRetry(i)
             \/ DrainRetry(i)
      PROVE  OneSettle'
  BY <1>1, <1>3 DEF Reject, Withdraw, UserRetry, DrainRetry, Retry
<1>4. CASE task' = [a \in Agents |-> Idle] /\ (Crash \/ NewOwner)
  <2>1. board' \in {board, NoVotes}
    BY <1>4 DEF Crash, NewOwner
  <2>2. \A a \in Agents : ~Settling(a)'
    BY <1>4 DEF Settling, Idle
  <2>3. board'.busy => ~board'.done
    BY <2>1 DEF OneSettle, NoVotes
  <2>4. QED
    BY <2>2, <2>3 DEF OneSettle
<1>5. ASSUME NEW a \in Agents, \A b \in Agents : b # a => task'[b] = task[b],
             \/ \E i \in DOMAIN entries : entries[i].agent = a /\ Launch(a, i)
             \/ TurnEnds(a)
             \/ Requeue(a)
      PROVE  OneSettle'
  <2>1. ~Settling(a)'
    BY <1>5, TurnMoves DEF Settling
  <2>2. board'.busy = board.busy /\ board'.settled = board.settled /\ board'.done = board.done
    BY <1>0, <1>5 DEF Launch, TurnEnds, CastBallot, FailTurn, Requeue, Board
  <2>3. QED
    BY <1>1, <1>5, <2>1, <2>2
<1>6. ASSUME NEW a \in Agents, \A b \in Agents : b # a => task'[b] = task[b], Settle(a)
      PROVE  OneSettle'
  <2>1. CASE Complete(a) \/ ReadVoters(a)
    <3>1. ~Settling(a)'
      BY <2>1 DEF Complete, ReadVoters, Move, TypeOK, Settling, Idle
    <3>2. QED
      BY <1>1, <1>6, <2>1, <3>1 DEF Complete, ReadVoters
  <2>2. CASE Begin(a)
    <3>1. task[a].stage = "read"
      BY <2>2 DEF Begin
    <3>2. CASE ~CanBegin(task[a].voters)
      <4>1. task'[a] = Idle /\ UNCHANGED board
        BY <2>2, <3>2 DEF Begin, Move, TypeOK
      <4>2. QED
        BY <1>1, <1>6, <4>1 DEF Settling, Idle
    <3>3. CASE CanBegin(task[a].voters)
      <4>1. /\ task'[a].voters = task[a].voters
            /\ board' = [board EXCEPT !.busy = TRUE]
        BY <2>2, <3>3 DEF Begin, Move, TypeOK
      <4>2. board'.busy /\ board'.settled = board.settled /\ board'.done = board.done
        BY <1>0, <4>1 DEF Board
      <4>3. ~board.busy /\ ~board.done /\ task[a].voters > board.settled
        BY <3>3 DEF CanBegin
      <4>4. \A b \in Agents : ~Settling(b)
        BY <4>3 DEF OneSettle
      <4>5. \A b \in Agents : Settling(b)' => b = a
        BY <1>6, <4>4 DEF Settling
      <4>6. QED
        BY <4>1, <4>2, <4>3, <4>5 DEF OneSettle
    <3>4. QED
      BY <3>2, <3>3
  <2>3. CASE ResolveEmpty(a) \/ ResolveGrow(a) \/ ResolvePost(a) \/ PostAnswer(a)
    <3>1. Settling(a) /\ UNCHANGED board
      BY <2>3 DEF ResolveEmpty, ResolveGrow, ResolvePost, PostAnswer, Settling
    <3>2. task'[a].voters = task[a].voters
      <4>1. CASE \E d : Move(a, [stage |-> "finishing", voters |-> task[a].voters, done |-> d])
        BY <4>1 DEF Move, TypeOK
      <4>2. CASE \E p : Move(a, [stage |-> "posting", voters |-> task[a].voters, post |-> p])
        BY <4>2 DEF Move, TypeOK
      <4>3. QED
        BY <2>3, <4>1, <4>2 DEF ResolveEmpty, ResolveGrow, ResolvePost, PostAnswer
    <3>3. \A b \in Agents : Settling(b)' => Settling(b) /\ task'[b].voters = task[b].voters
      BY <1>6, <3>1, <3>2 DEF Settling
    <3>4. QED
      BY <3>1, <3>3 DEF OneSettle
  <2>4. CASE Finish(a)
    <3>1. task'[a] = Idle /\ ~board'.busy /\ Settling(a)
      BY <2>4 DEF Finish, Move, TypeOK, Settling
    <3>2. \A b \in Agents : ~Settling(b)'
      BY <1>6, <3>1 DEF OneSettle, Settling, Idle
    <3>3. QED
      BY <3>1, <3>2 DEF OneSettle
  <2>5. QED
    BY <1>6, <2>1, <2>2, <2>3, <2>4 DEF Settle
<1>7. QED
  BY <1>2, <1>3, <1>4, <1>5, <1>6, OneMoves

-----------------------------------------------------------------------------
(* One post                                                                *)

\* Where an answer was posted or is being posted, no settle comes to a post.
LEMMA OnePostStep ==
  ASSUME TypeOK, RunsRecorded, ReadsEnded, OneSettle, OnePost, [Next]_vars
  PROVE  OnePost'
<1>0. /\ board \in Board /\ posts \in Seq(Post) /\ Len(posts) \in Nat
      /\ reposting \in {NoRepost} \cup [left : Nat, post : Post]
      /\ reposting.left \in Nat
  BY DEF TypeOK, NoRepost
<1>1. ASSUME UNCHANGED <<posts, reposting>>, Resolved => Resolved', AllIdle /\ posts # <<>> => AllIdle'
      PROVE  OnePost'
  BY <1>1 DEF OnePost
<1>2. ASSUME task' = task, board' = board, UNCHANGED <<posts, reposting>> PROVE OnePost'
  BY <1>1, <1>2 DEF Resolved, AllIdle
<1>3. CASE UNCHANGED vars
  BY <1>2, <1>3 DEF vars
<1>4. ASSUME task' = task, NEW i \in DOMAIN entries,
             \/ Reject(i)
             \/ \E status \in {"Cancelled", "Expired"} : Withdraw(i, status)
             \/ UserRetry(i)
             \/ DrainRetry(i)
      PROVE  OnePost'
  BY <1>2, <1>4 DEF Reject, Withdraw, UserRetry, DrainRetry, Retry
<1>5. CASE Repost
  <2>1. reposting.left > 0 /\ UNCHANGED <<task, board>>
    BY <1>5 DEF Repost
  <2>2. posts = <<>> /\ Resolved
    BY <1>0, <2>1 DEF OnePost
  <2>3. Resolved'
    BY <2>1, <2>2 DEF Resolved
  <2>4. CASE posts' = Append(posts, reposting.post) /\ reposting' = NoRepost
    BY <1>0, <2>2, <2>3, <2>4 DEF OnePost, NoRepost
  <2>5. CASE UNCHANGED posts
    BY <1>0, <2>2, <2>3, <2>5 DEF OnePost
  <2>6. QED
    BY <1>5, <2>4, <2>5 DEF Repost
<1>6. CASE task' = [a \in Agents |-> Idle] /\ (Crash \/ NewOwner)
  <2>1. AllIdle'
    BY <1>6 DEF AllIdle
  <2>2. UNCHANGED posts
    BY <1>6 DEF Crash, NewOwner
  <2>3. CASE Crash
    BY <1>0, <2>1, <2>2, <2>3 DEF Crash, OnePost, NoRepost
  <2>4. CASE NewOwner
    <3>1. UNCHANGED <<board, reposting>>
      BY <2>4 DEF NewOwner
    <3>2. \A a \in Agents : task[a].stage # "finishing"
      BY <2>4 DEF NewOwner
    <3>3. Resolved => Resolved'
      BY <3>1, <3>2 DEF Resolved
    <3>4. QED
      BY <1>1, <2>1, <2>2, <3>1, <3>3
  <2>5. QED
    BY <1>6, <2>3, <2>4
<1>7. ASSUME NEW a \in Agents, \A b \in Agents : b # a => task'[b] = task[b],
             \/ \E i \in DOMAIN entries : entries[i].agent = a /\ Launch(a, i)
             \/ TurnEnds(a)
             \/ Requeue(a)
      PROVE  OnePost'
  <2>1. UNCHANGED <<posts, reposting>> /\ board'.done = board.done
    BY <1>0, <1>7 DEF Launch, TurnEnds, CastBallot, FailTurn, Requeue, Board
  <2>2. task[a].stage # "finishing"
    BY <1>7, TurnMoves DEF HasRead
  <2>3. Resolved => Resolved'
    BY <1>7, <2>1, <2>2 DEF Resolved
  <2>4. posts = <<>> \/ task[a] # Idle
    <3>1. CASE \E i \in DOMAIN entries : Launch(a, i)
      BY <3>1 DEF Launch, Answered
    <3>2. CASE TurnEnds(a) \/ Requeue(a)
      BY <3>2 DEF TurnEnds, CastBallot, FailTurn, Requeue, Idle
    <3>3. QED
      BY <1>7, <3>1, <3>2
  <2>5. QED
    BY <1>1, <2>1, <2>3, <2>4 DEF AllIdle
<1>8. ASSUME NEW a \in Agents, \A b \in Agents : b # a => task'[b] = task[b], Settle(a)
      PROVE  OnePost'
  <2>1. ~AllIdle
    BY <1>8, SettleStages DEF AllIdle, Idle
  <2>2. CASE Complete(a) \/ ReadVoters(a) \/ Begin(a) \/ ResolveGrow(a) \/ ResolveEmpty(a)
             \/ ResolvePost(a)
    <3>1. UNCHANGED <<posts, reposting>> /\ task[a].stage # "finishing"
      BY <2>2 DEF Complete, ReadVoters, Begin, ResolveGrow, ResolveEmpty, ResolvePost
    <3>2. board'.done = board.done
      BY <1>0, <2>2 DEF Complete, ReadVoters, Begin, ResolveGrow, ResolveEmpty, ResolvePost, Board
    <3>3. Resolved => Resolved'
      BY <1>8, <3>1, <3>2 DEF Resolved
    <3>4. QED
      BY <1>1, <2>1, <3>1, <3>3
  <2>3. CASE PostAnswer(a)
    <3>1. Settling(a) /\ task[a].stage = "posting"
      BY <2>3 DEF PostAnswer, Settling
    <3>2. ~Resolved
      BY <3>1 DEF Resolved, OneSettle, Settling
    <3>3. posts = <<>> /\ reposting.left = 0
      BY <1>0, <2>1, <3>2 DEF OnePost
    <3>4. task'[a] = [stage |-> "finishing", voters |-> task[a].voters, done |-> TRUE]
      BY <2>3 DEF PostAnswer, Move, TypeOK
    <3>5. Resolved'
      BY <3>4 DEF Resolved
    <3>6. task[a].post \in Post
      BY <3>1, TaskFields
    <3>7. CASE posts' = Append(posts, task[a].post) /\ UNCHANGED reposting
      BY <1>0, <3>3, <3>5, <3>6, <3>7 DEF OnePost
    <3>8. CASE UNCHANGED posts
      BY <1>0, <3>3, <3>5, <3>8 DEF OnePost
    <3>9. QED
      BY <2>3, <3>7, <3>8 DEF PostAnswer
  <2>4. CASE Finish(a)
    <3>1. /\ UNCHANGED <<posts, reposting>> /\ task[a].stage = "finishing"
          /\ board'.done = task[a].done
      BY <2>4 DEF Finish
    <3>2. ~board.done /\ \A b \in Agents : task[b].stage = "finishing" => b = a
      BY <3>1 DEF OneSettle, Settling
    <3>3. Resolved => Resolved'
      BY <3>1, <3>2 DEF Resolved
    <3>4. QED
      BY <1>1, <2>1, <3>1, <3>3
  <2>5. QED
    BY <1>8, <2>2, <2>3, <2>4 DEF Settle
<1>9. QED
  BY <1>3, <1>4, <1>5, <1>6, <1>7, <1>8, OneMoves

-----------------------------------------------------------------------------
(* As long as the user retries nothing                                     *)

\* What the user retried stays retried.
LEMMA RetryRemembered ==
  ASSUME [Next]_vars, NoRetry'
  PROVE  NoRetry /\ \A i \in DOMAIN entries : ~UserRetry(i)
<1>1. \A i \in DOMAIN entries : ~UserRetry(i)
  BY DEF UserRetry, NoRetry
<1>2. meddled \subseteq meddled'
  <2>1. CASE UNCHANGED vars
    BY <2>1 DEF vars
  <2>2. CASE \E i \in DOMAIN entries :
               \/ StartWaiting(i)
               \/ \E status \in {"Cancelled", "Expired"} : Withdraw(i, status)
               \/ UserRetry(i)
               \/ DrainRetry(i)
    BY <2>2 DEF StartWaiting, Launch, Reject, Withdraw, UserRetry, DrainRetry
  <2>3. CASE \E a \in Agents : TurnEnds(a) \/ Requeue(a)
    BY <2>3 DEF TurnEnds, CastBallot, FailTurn, Requeue
  <2>4. CASE \E a \in Agents : Settle(a)
    BY <2>4 DEF Settle, Complete, ReadVoters, Begin, ResolveEmpty, ResolveGrow,
                ResolvePost, PostAnswer, Finish
  <2>5. CASE Repost \/ Crash \/ NewOwner
    BY <2>5 DEF Repost, Crash, NewOwner
  <2>6. QED
    BY <2>1, <2>2, <2>3, <2>4, <2>5 DEF Next
<1>3. QED
  BY <1>1, <1>2 DEF NoRetry

\* An ended entry stays as it is, so these last.
LEMMA EndedLasts ==
  ASSUME TypeOK, RunsRecorded, ReadsEnded, [Next]_vars
  PROVE  /\ SomeCompleted => SomeCompleted'
         /\ \A n \in 0 .. Len(entries) : AllFailed(n) => AllFailed(n)'
         /\ LiveRuns = {} /\ Len(entries') = Len(entries) => LiveRuns' = {}
<1>1. Len(entries) \in Nat /\ DOMAIN entries = 1 .. Len(entries)
  BY EntriesShape
<1>2. SomeCompleted => SomeCompleted'
  BY EntriesStep DEF SomeCompleted, Live
<1>3. ASSUME NEW n \in 0 .. Len(entries), AllFailed(n) PROVE AllFailed(n)'
  <2>1. \A i \in 1 .. n : i \in DOMAIN entries
    BY <1>1
  <2>2. \A i \in 1 .. n : entries'[i] = entries[i]
    BY <1>3, <2>1, EntriesStep DEF AllFailed, Finished, Live
  <2>3. QED
    BY <1>3, <2>2 DEF AllFailed
<1>4. ASSUME LiveRuns = {}, Len(entries') = Len(entries) PROVE LiveRuns' = {}
  <2>1. DOMAIN entries' = DOMAIN entries
    BY <1>1, <1>4, EntriesStep
  <2>2. \A i \in DOMAIN entries : entries'[i] = entries[i]
    BY <1>4, EntriesStep DEF LiveRuns
  <2>3. QED
    BY <1>4, <2>1, <2>2 DEF LiveRuns
<1>5. QED
  BY <1>2, <1>3, <1>4

\* A round that may grow has an answer, so the drain puts nothing back: an
\* entry is added by the drain, when all before it failed, or by a settle.
LEMMA EntriesAdded ==
  ASSUME TypeOK, RunsRecorded, ReadsEnded, [Next]_vars, NoRetry'
  PROVE  \/ Len(entries') = Len(entries)
         \/ \E i \in DOMAIN entries :
              /\ DrainRetry(i)
              /\ entries' = Append(entries, Entry(entries[i].agent, "Pending"))
         \/ \E a \in Agents, next \in Agents, s \in Status :
              /\ task[a].stage = "settling" /\ UNCHANGED board
              /\ Counted(task[a].voters, task[a].cast) # {}
              /\ \/ ResolveGrow(a) /\ task'[a].stage = "finishing"
                 \/ ResolvePost(a) /\ task'[a].stage = "posting" /\ s \notin Live
              /\ task'[a].voters = task[a].voters
              /\ ~Opener(next) /\ ~Known(next)
              /\ entries' = Append(entries, Entry(next, s))
<1> DEFINE Same == Len(entries') = Len(entries)
           Drained == \E i \in DOMAIN entries :
              /\ DrainRetry(i)
              /\ entries' = Append(entries, Entry(entries[i].agent, "Pending"))
           Asked == \E a \in Agents, next \in Agents, s \in Status :
              /\ task[a].stage = "settling" /\ UNCHANGED board
              /\ Counted(task[a].voters, task[a].cast) # {}
              /\ \/ ResolveGrow(a) /\ task'[a].stage = "finishing"
                 \/ ResolvePost(a) /\ task'[a].stage = "posting" /\ s \notin Live
              /\ task'[a].voters = task[a].voters
              /\ ~Opener(next) /\ ~Known(next)
              /\ entries' = Append(entries, Entry(next, s))
<1>0. {"Pending", "Expired", "Cancelled"} \subseteq Status
  BY DEF Status, Live, Retryable
<1>1. ASSUME UNCHANGED entries PROVE Same
  BY <1>1
<1>2. ASSUME NEW i \in DOMAIN entries, NEW s \in Status, SetStatus(i, s) PROVE Same
  BY <1>2, StatusSet
<1>3. ASSUME entries' = Recovered PROVE Same
  BY <1>3, RecoveredShape
<1>4. ASSUME NEW a \in Agents, task[a].stage = "settling", NEW next \in NextVoter(task[a].voters)
      PROVE  next \in Agents /\ ~Opener(next)
  <2>1. task[a].voters \in Start .. Len(entries)
    BY <1>4 DEF ReadsEnded, HasRead
  <2>2. QED
    BY <1>4, <2>1, NextHasSeat
<1>5. ASSUME NEW a \in Agents, ResolveGrow(a) PROVE Asked
  <2>1. PICK next \in NextVoter(task[a].voters) :
          ~Known(next) /\ entries' = Append(entries, Entry(next, "Pending"))
    BY <1>5 DEF ResolveGrow
  <2>2. /\ task[a].stage = "settling" /\ Counted(task[a].voters, task[a].cast) # {}
        /\ task'[a] = [stage |-> "finishing", voters |-> task[a].voters, done |-> FALSE]
        /\ UNCHANGED board
    BY <1>5 DEF ResolveGrow, Move, TypeOK
  <2>3. next \in Agents /\ ~Opener(next)
    BY <1>4, <2>2
  <2>4. task'[a].stage = "finishing" /\ task'[a].voters = task[a].voters
    BY <2>2
  <2>5. QED
    BY <1>0, <1>5, <2>1, <2>2, <2>3, <2>4
<1>6. ASSUME NEW a \in Agents, ResolvePost(a) PROVE Same \/ Asked
  <2>1. PICK g \in Groupings(Counted(task[a].voters, task[a].cast)) :
          /\ \/ UNCHANGED entries
             \/ \E n \in NextVoter(task[a].voters) : RefuseVoter(n)
          /\ Move(a, [stage |-> "posting", voters |-> task[a].voters, post |-> PostOf(g)])
    BY <1>6 DEF ResolvePost
  <2>2. /\ task[a].stage = "settling" /\ Counted(task[a].voters, task[a].cast) # {}
        /\ task'[a] = [stage |-> "posting", voters |-> task[a].voters, post |-> PostOf(g)]
        /\ UNCHANGED board
    BY <1>6, <2>1 DEF ResolvePost, Move, TypeOK
  <2>3. task'[a].stage = "posting" /\ task'[a].voters = task[a].voters
    BY <2>2
  <2>4. ASSUME NEW next \in NextVoter(task[a].voters), ~Known(next),
               NEW s \in {"Expired", "Cancelled"}, entries' = Append(entries, Entry(next, s))
        PROVE  Asked
    <3>1. next \in Agents /\ ~Opener(next)
      BY <1>4, <2>2
    <3>2. s \in Status /\ s \notin Live
      BY <1>0 DEF Live
    <3>3. QED
      BY <1>6, <2>2, <2>3, <2>4, <3>1, <3>2
  <2>5. QED
    BY <1>1, <2>1, <2>4 DEF RefuseVoter
<1>7. ASSUME NEW i \in DOMAIN entries,
             \/ Reject(i)
             \/ \E status \in {"Cancelled", "Expired"} : Withdraw(i, status)
             \/ UserRetry(i)
             \/ DrainRetry(i)
      PROVE  Same \/ Drained
  <2>1. CASE Reject(i) \/ \E status \in {"Cancelled", "Expired"} : Withdraw(i, status)
    BY <1>0, <1>2, <2>1 DEF Reject, Withdraw
  <2>2. CASE DrainRetry(i)
    BY <2>2 DEF DrainRetry, Retry
  <2>3. QED
    BY <1>7, <2>1, <2>2, RetryRemembered
<1>8. ASSUME NEW a \in Agents,
             \/ \E i \in DOMAIN entries : entries[i].agent = a /\ Launch(a, i)
             \/ TurnEnds(a)
             \/ Requeue(a)
             \/ Complete(a)
      PROVE  Same
  <2>1. {"Running", "Failed", "Completed"} \subseteq Status
    BY DEF Status, Live, Retryable
  <2>2. CASE \E i \in DOMAIN entries : Launch(a, i)
    BY <1>2, <2>1, <2>2 DEF Launch
  <2>3. ASSUME NEW s \in Status, Running(a), SetStatus(task[a].run, s) PROVE Same
    BY <1>2, <2>3 DEF RunsRecorded
  <2>4. CASE TurnEnds(a) \/ Requeue(a) \/ Complete(a)
    BY <1>0, <1>1, <2>1, <2>3, <2>4
       DEF TurnEnds, CastBallot, FailTurn, Requeue, Complete, Running
  <2>5. QED
    BY <1>8, <2>2, <2>4
<1>9. ASSUME NEW a \in Agents,
             ReadVoters(a) \/ Begin(a) \/ ResolveEmpty(a) \/ PostAnswer(a) \/ Finish(a)
      PROVE  Same
  BY <1>1, <1>9 DEF ReadVoters, Begin, ResolveEmpty, PostAnswer, Finish
<1>10. ASSUME UNCHANGED vars \/ Repost PROVE Same
  BY <1>10 DEF vars, Repost
<1>11. ASSUME Crash \/ NewOwner PROVE Same
  BY <1>3, <1>11 DEF Crash, NewOwner
<1>12. ASSUME NEW a \in Agents, Settle(a) PROVE Same \/ Asked
  BY <1>5, <1>6, <1>8, <1>9, <1>12 DEF Settle
<1> HIDE DEF Same, Drained, Asked
<1>13. Same \/ Drained \/ Asked
  BY <1>7, <1>8, <1>10, <1>11, <1>12, OneMoves
<1>14. QED
  BY <1>13 DEF Same, Drained, Asked

\* While a candidate was asked that did not open the vote, or an answer is
\* about to be posted, some turn completed, and the drain stands back.
LEMMA NoDrain ==
  ASSUME SomeCompleted, NEW i \in DOMAIN entries
  PROVE  ~DrainRetry(i)
BY DEF SomeCompleted, DrainRetry

\* Entries are added one agent at a time.
LEMMA AskedOnceStep ==
  ASSUME TypeOK, RunsRecorded, ReadsEnded, AskedOnce, [Next]_vars, NoRetry'
  PROVE  AskedOnce'
<1> DEFINE n == Len(entries)
<1>1. n \in Nat /\ DOMAIN entries = 1 .. n
  BY EntriesShape
<1>2. \A i, j \in DOMAIN entries :
        i < j /\ entries'[i].agent = entries'[j].agent => entries'[i].status \in Finished
  BY EntriesStep DEF AskedOnce, Finished, Live
<1>3. \A i, j \in DOMAIN entries :
        i < j /\ Opener(entries'[j].agent) => Opener(entries'[i].agent)
  BY EntriesStep DEF AskedOnce
<1>4. (\E i \in DOMAIN entries : ~Opener(entries'[i].agent)) => SomeCompleted'
  BY EntriesStep, EndedLasts DEF AskedOnce
<1>5. CASE Len(entries') = n
  <2>1. DOMAIN entries' = DOMAIN entries
    BY <1>1, <1>5, EntriesStep
  <2>2. QED
    BY <1>2, <1>3, <1>4, <2>1 DEF AskedOnce
<1>6. ASSUME NEW a \in Agents, NEW s \in Status, entries' = Append(entries, Entry(a, s)),
             \A i \in DOMAIN entries : entries[i].agent = a => entries[i].status \in Finished,
             Opener(a) => \A i \in DOMAIN entries : Opener(entries[i].agent),
             ~Opener(a) => SomeCompleted
      PROVE  AskedOnce'
  <2>1. Entry(a, s) \in EntryType
    BY DEF Entry, EntryType
  <2>2. /\ DOMAIN entries' = 1 .. (n + 1)
        /\ \A i \in DOMAIN entries : entries'[i] = entries[i]
        /\ entries'[n + 1] = Entry(a, s)
    BY <1>6, <2>1, Appended
  <2>3. entries'[n + 1].agent = a
    BY <2>2 DEF Entry
  <2>4. \A i, j \in DOMAIN entries' : i < j =>
          i \in DOMAIN entries /\ (j \in DOMAIN entries \/ j = n + 1)
    BY <1>1, <2>2
  <2>5. \A i \in DOMAIN entries' : i \in DOMAIN entries \/ i = n + 1
    BY <1>1, <2>2
  <2>6. \A i, j \in DOMAIN entries' :
          i < j /\ entries'[i].agent = entries'[j].agent => entries'[i].status \in Finished
    BY <1>2, <1>6, <2>2, <2>3, <2>4
  <2>7. \A i, j \in DOMAIN entries' :
          i < j /\ Opener(entries'[j].agent) => Opener(entries'[i].agent)
    BY <1>3, <1>6, <2>2, <2>3, <2>4
  <2>8. (\E i \in DOMAIN entries' : ~Opener(entries'[i].agent)) => SomeCompleted'
    BY <1>4, <1>6, <2>3, <2>5, EndedLasts
  <2>9. QED
    BY <2>6, <2>7, <2>8 DEF AskedOnce
<1>7. ASSUME NEW i \in DOMAIN entries, DrainRetry(i),
             entries' = Append(entries, Entry(entries[i].agent, "Pending"))
      PROVE  AskedOnce'
  <2>1. \A j \in DOMAIN entries : entries[j].status \in Finished
    BY <1>7 DEF DrainRetry, Finished
  <2>2. ~SomeCompleted
    BY <2>1 DEF SomeCompleted, Finished
  <2>3. \A j \in DOMAIN entries : Opener(entries[j].agent)
    BY <2>2 DEF AskedOnce
  <2>4. entries[i].agent \in Agents /\ "Pending" \in Status
    BY EntriesShape DEF EntryType, Status, Live
  <2>5. QED
    BY <1>6, <1>7, <2>1, <2>3, <2>4
<1>8. ASSUME NEW a \in Agents, NEW next \in Agents, NEW s \in Status,
             task[a].stage = "settling", Counted(task[a].voters, task[a].cast) # {},
             ~Opener(next), ~Known(next), entries' = Append(entries, Entry(next, s))
      PROVE  AskedOnce'
  <2>1. task[a].voters \in Start .. Len(entries)
    BY <1>8 DEF ReadsEnded, HasRead
  <2>2. SomeCompleted
    BY <1>8, <2>1, CountedShape DEF SomeCompleted
  <2>3. QED
    BY <1>6, <1>8, <2>2 DEF Known
<1>9. QED
  BY <1>5, <1>7, <1>8, EntriesAdded

-----------------------------------------------------------------------------
(* Nobody still votes                                                      *)

\* A round with an answer that a settle works on is all there is.
LEMMA AnsweredRound ==
  ASSUME TypeOK, RunsRecorded, ReadsEnded, NobodyRuns, NEW a \in Agents,
         task[a].stage = "settling", Counted(task[a].voters, task[a].cast) # {}
  PROVE  task[a].voters = Len(entries) /\ LiveRuns = {} /\ SomeCompleted
<1>1. task[a].voters \in Start .. Len(entries)
  BY DEF ReadsEnded, HasRead
<1>2. PICK i \in Counted(task[a].voters, task[a].cast) :
        i \in DOMAIN entries /\ i \in 1 .. task[a].voters /\ entries[i].status = "Completed"
  BY <1>1, CountedShape
<1>3. ~AllFailed(task[a].voters)
  BY <1>2 DEF AllFailed, Finished
<1>4. QED
  BY <1>2, <1>3 DEF NobodyRuns, RoundKnown, Quiet, SomeCompleted

\* A quiet round stays quiet in a step that adds no entry but the drain's.
LEMMA QuietLasts ==
  ASSUME TypeOK, RunsRecorded, ReadsEnded, [Next]_vars, NEW n \in 0 .. Len(entries), Quiet(n),
         Len(entries') = Len(entries) \/ \E i \in DOMAIN entries : DrainRetry(i)
  PROVE  \/ n = Len(entries') /\ LiveRuns' = {}
         \/ \A i \in 1 .. n : entries'[i].status \in Finished
<1>0. AllFailed(n) => \A i \in 1 .. n : entries'[i].status \in Finished
  BY EndedLasts DEF AllFailed
<1>1. CASE Len(entries') = Len(entries)
  BY <1>0, <1>1, EndedLasts DEF Quiet
<1>2. CASE \E i \in DOMAIN entries : DrainRetry(i)
  <2>1. DOMAIN entries = 1 .. Len(entries) /\ Len(entries) \in Nat
    BY EntriesShape
  <2>2. AllFailed(n)
    BY <1>2, <2>1 DEF DrainRetry, AllFailed, Finished
  <2>3. QED
    BY <1>0, <2>2
<1>3. QED
  BY <1>1, <1>2

\* What a settle knows of the runs is kept by every step of another.
LEMMA NobodyRunsStep ==
  ASSUME TypeOK, RunsRecorded, ReadsEnded, OneSettle, NobodyRuns, [Next]_vars, NoRetry'
  PROVE  NobodyRuns'
<1> DEFINE
    LaterQuiet(n) == \/ n = Len(entries') /\ LiveRuns' = {}
                     \/ \A i \in 1 .. n : entries'[i].status \in Finished
    Adds == \E a \in Agents, next \in Agents, s \in Status :
              /\ task[a].stage = "settling" /\ UNCHANGED board
              /\ Counted(task[a].voters, task[a].cast) # {}
              /\ \/ ResolveGrow(a) /\ task'[a].stage = "finishing"
                 \/ ResolvePost(a) /\ task'[a].stage = "posting" /\ s \notin Live
              /\ task'[a].voters = task[a].voters
              /\ ~Opener(next) /\ ~Known(next)
              /\ entries' = Append(entries, Entry(next, s))
<1>1. Len(entries) \in Nat /\ DOMAIN entries = 1 .. Len(entries) /\ Start \in Nat /\ board \in Board
  BY EntriesShape, VoteAssumption DEF TypeOK
<1>s. board.settled \in Nat
  BY <1>1 DEF Board
<1>2. \A b \in Agents : HasRead(b) => task[b].voters \in 0 .. Len(entries)
  BY <1>1 DEF ReadsEnded
<1>3. \/ Len(entries') = Len(entries) \/ \E i \in DOMAIN entries : DrainRetry(i)
      \/ Adds
  BY EntriesAdded
\* Steps that add nothing, for a task that does not move.
<1>4. ASSUME NEW b \in Agents, task'[b] = task[b],
             Len(entries') = Len(entries) \/ \E i \in DOMAIN entries : DrainRetry(i),
             board'.settled >= board.settled,
             \A s \in Agents : task[s].stage \in {"posting", "finishing"} =>
               \/ task'[s].stage \in {"posting", "finishing"} /\ task'[s].voters = task[s].voters
               \/ board'.settled = task[s].voters
      PROVE  RoundKnown(b)'
  <2>1. CASE task[b].stage = "read"
    <3>1. task[b].voters \in 0 .. Len(entries)
      BY <1>2, <2>1 DEF HasRead
    <3>2. CASE Quiet(task[b].voters)
      <4>1. LaterQuiet(task[b].voters)
        BY <1>4, <3>1, <3>2, QuietLasts
      <4>2. QED
        BY <1>4, <2>1, <4>1 DEF RoundKnown, Quiet, AllFailed
    <3>3. CASE task[b].voters <= board.settled
      <4>1. board.settled \in Nat /\ board'.settled \in Nat /\ task[b].voters \in Nat
        BY <1>1, <3>1, TypeStep DEF Board, TypeOK
      <4>2. task'[b].voters <= board'.settled
        BY <1>4, <3>3, <4>1
      <4>3. QED
        BY <1>4, <2>1, <4>2 DEF RoundKnown
    <3>4. CASE \E s \in Agents : /\ task[s].stage \in {"posting", "finishing"}
                                 /\ task[b].voters <= task[s].voters
      <4>1. PICK s \in Agents : /\ task[s].stage \in {"posting", "finishing"}
                                /\ task[b].voters <= task[s].voters
        BY <3>4
      <4>2. CASE task'[s].stage \in {"posting", "finishing"} /\ task'[s].voters = task[s].voters
        BY <1>4, <2>1, <4>1, <4>2 DEF RoundKnown
      <4>3. CASE board'.settled = task[s].voters
        BY <1>4, <2>1, <4>1, <4>3 DEF RoundKnown
      <4>4. QED
        BY <1>4, <4>1, <4>2, <4>3
    <3>5. QED
      BY <2>1, <3>2, <3>3, <3>4 DEF NobodyRuns, RoundKnown
  <2>2. CASE task[b].stage = "settling"
    <3>1. task[b].voters \in 0 .. Len(entries) /\ Quiet(task[b].voters)
      BY <1>2, <2>2 DEF HasRead, NobodyRuns, RoundKnown
    <3>2. LaterQuiet(task[b].voters)
      BY <1>4, <3>1, QuietLasts
    <3>3. QED
      BY <1>4, <2>2, <3>2 DEF RoundKnown, Quiet, AllFailed
  <2>3. CASE task[b].stage = "posting"
    <3>1. LiveRuns = {} /\ SomeCompleted
      BY <2>3 DEF NobodyRuns, RoundKnown
    <3>2. Len(entries') = Len(entries)
      BY <1>4, <3>1, NoDrain
    <3>3. QED
      BY <1>4, <2>3, <3>1, <3>2, EndedLasts DEF RoundKnown
  <2>4. QED
    BY <1>4, <2>1, <2>2, <2>3 DEF RoundKnown
\* A settle adds an entry: all that was read is part of its round.
<1>5. ASSUME NEW a \in Agents, \A b \in Agents : b # a => task'[b] = task[b],
             task[a].stage = "settling", UNCHANGED board,
             Counted(task[a].voters, task[a].cast) # {},
             task'[a].stage \in {"posting", "finishing"}, task'[a].voters = task[a].voters,
             NEW b \in Agents, b # a
      PROVE  RoundKnown(b)'
  <2>1. task[a].voters = Len(entries) /\ LiveRuns = {} /\ SomeCompleted
    BY <1>5, AnsweredRound
  <2>2. ~Settling(b)
    BY <1>5 DEF OneSettle, Settling
  <2>3. ASSUME task[b].stage = "read" PROVE task[b].voters <= task'[a].voters
    BY <1>2, <1>5, <2>1, <2>3 DEF HasRead
  <2>4. QED
    BY <1>5, <2>2, <2>3 DEF Settling, RoundKnown
<1>6. ASSUME task' = task,
             \/ UNCHANGED vars
             \/ \E i \in DOMAIN entries :
                  \/ Reject(i)
                  \/ \E status \in {"Cancelled", "Expired"} : Withdraw(i, status)
                  \/ UserRetry(i)
                  \/ DrainRetry(i)
             \/ Repost
      PROVE  NobodyRuns'
  <2>1. board'.settled = board.settled
    BY <1>6 DEF vars, Repost, Reject, Withdraw, UserRetry, DrainRetry, Retry
  <2>2. ~Adds
    <3>1. ASSUME NEW a \in Agents, task[a].stage = "settling",
                 task'[a].stage \in {"finishing", "posting"}
          PROVE  FALSE
      BY <1>6, <3>1
    <3>2. QED
      BY <3>1
  <2>3. \A b \in Agents : RoundKnown(b)'
    BY <1>3, <1>4, <1>6, <1>s, <2>1, <2>2
  <2>4. QED
    BY <2>3 DEF NobodyRuns
<1>7. CASE task' = [a \in Agents |-> Idle]
  BY <1>7 DEF NobodyRuns, RoundKnown, Idle
<1>8. ASSUME NEW a \in Agents, \A b \in Agents : b # a => task'[b] = task[b],
             \/ \E i \in DOMAIN entries : entries[i].agent = a /\ Launch(a, i)
             \/ TurnEnds(a)
             \/ Requeue(a)
      PROVE  NobodyRuns'
  <2>1. ~HasRead(a) /\ ~HasRead(a)'
    BY <1>8, TurnMoves
  <2>2. board'.settled = board.settled
    BY <1>1, <1>8 DEF Launch, TurnEnds, CastBallot, FailTurn, Requeue, Board
  <2>3. UNCHANGED entries \/ \E i, s : SetStatus(i, s)
    BY <1>8 DEF Launch, TurnEnds, CastBallot, FailTurn, Requeue
  <2>4. Len(entries') = Len(entries)
    BY <2>3 DEF SetStatus
  <2>5. \A b \in Agents : b # a => RoundKnown(b)'
    BY <1>4, <1>8, <1>s, <2>1, <2>2, <2>4 DEF HasRead
  <2>6. QED
    BY <1>8, <2>1, <2>5 DEF NobodyRuns, RoundKnown, HasRead
<1>9. ASSUME NEW a \in Agents, \A b \in Agents : b # a => task'[b] = task[b], Settle(a)
      PROVE  NobodyRuns'
  <2>1. ASSUME RoundKnown(a)', Len(entries') = Len(entries), board'.settled = board.settled,
               task[a].stage \in {"posting", "finishing"} =>
                 /\ task'[a].stage \in {"posting", "finishing"}
                 /\ task'[a].voters = task[a].voters
        PROVE  NobodyRuns'
    <3>1. \A b \in Agents : b # a => RoundKnown(b)'
      BY <1>4, <1>9, <1>s, <2>1
    <3>2. QED
      BY <2>1, <3>1 DEF NobodyRuns, RoundKnown
  <2>2. CASE Complete(a)
    <3>1. task'[a].stage = "ended" /\ task[a].stage = "cast" /\ UNCHANGED board
      BY <2>2 DEF Complete, Move, TypeOK
    <3>2. Len(entries') = Len(entries)
      BY <2>2 DEF Complete, SetStatus
    <3>3. QED
      BY <2>1, <3>1, <3>2 DEF RoundKnown
  <2>3. CASE ReadVoters(a)
    <3>1. task[a].stage = "ended" /\ UNCHANGED <<board, entries>>
      BY <2>3 DEF ReadVoters
    <3>2. CASE LiveRuns # {}
      <4>1. task'[a] = Idle
        BY <2>3, <3>2 DEF ReadVoters, Move, TypeOK
      <4>2. QED
        BY <2>1, <3>1, <4>1 DEF Idle, RoundKnown
    <3>3. CASE LiveRuns = {}
      <4>1. task'[a] = [stage |-> "read", voters |-> Len(entries)]
        BY <2>3, <3>3 DEF ReadVoters, Move, TypeOK
      <4>2. LiveRuns' = {} /\ Len(entries') = Len(entries)
        BY <3>1, <3>3 DEF LiveRuns
      <4>3. RoundKnown(a)'
        BY <4>1, <4>2 DEF RoundKnown, Quiet
      <4>4. QED
        BY <2>1, <3>1, <4>2, <4>3
    <3>4. QED
      BY <3>2, <3>3
  <2>4. CASE Begin(a)
    <3>1. task[a].stage = "read" /\ UNCHANGED entries
      BY <2>4 DEF Begin
    <3>2. CASE ~CanBegin(task[a].voters)
      <4>1. task'[a] = Idle /\ UNCHANGED board
        BY <2>4, <3>2 DEF Begin, Move, TypeOK
      <4>2. QED
        BY <2>1, <3>1, <4>1 DEF Idle, RoundKnown
    <3>3. CASE CanBegin(task[a].voters)
      <4>1. /\ task'[a] = [stage |-> "settling", voters |-> task[a].voters, cast |-> board.ballots]
            /\ board' = [board EXCEPT !.busy = TRUE]
        BY <2>4, <3>3 DEF Begin, Move, TypeOK
      <4>2. ~board.busy /\ task[a].voters > board.settled
        BY <3>3 DEF CanBegin
      <4>3. ~ task[a].voters <= board.settled
        BY <1>1, <1>2, <3>1, <4>2 DEF Board, HasRead
      <4>4. \A s \in Agents : task[s].stage \notin {"posting", "finishing"}
        BY <4>2 DEF OneSettle, Settling
      <4>5. Quiet(task[a].voters)
        BY <3>1, <4>3, <4>4 DEF NobodyRuns, RoundKnown
      <4>6. LaterQuiet(task[a].voters)
        BY <1>2, <3>1, <4>5, QuietLasts DEF HasRead
      <4>7. board'.settled = board.settled
        BY <1>1, <4>1 DEF Board
      <4>8. task'[a].stage = "settling" /\ task'[a].voters = task[a].voters
        BY <4>1
      <4>9. RoundKnown(a)'
        BY <4>6, <4>8 DEF RoundKnown, Quiet, AllFailed
      <4>10. QED
        BY <2>1, <3>1, <4>7, <4>9
    <3>4. QED
      BY <3>2, <3>3
  <2>5. CASE ResolveEmpty(a)
    <3>1. task'[a] = [stage |-> "finishing", voters |-> task[a].voters, done |-> TRUE]
      BY <2>5 DEF ResolveEmpty, Move, TypeOK
    <3>2. task[a].stage = "settling" /\ UNCHANGED <<entries, board>>
      BY <2>5 DEF ResolveEmpty
    <3>3. QED
      BY <2>1, <3>1, <3>2 DEF RoundKnown
  <2>6. CASE ResolveGrow(a)
    <3>1. task'[a] = [stage |-> "finishing", voters |-> task[a].voters, done |-> FALSE]
      BY <2>6 DEF ResolveGrow, Move, TypeOK
    <3>2. /\ task[a].stage = "settling" /\ UNCHANGED board
          /\ Counted(task[a].voters, task[a].cast) # {}
      BY <2>6 DEF ResolveGrow
    <3>3. \A b \in Agents : b # a => RoundKnown(b)'
      BY <1>5, <1>9, <3>1, <3>2
    <3>4. QED
      BY <3>1, <3>3 DEF NobodyRuns, RoundKnown
  <2>7. CASE ResolvePost(a)
    <3>1. PICK g \in Groupings(Counted(task[a].voters, task[a].cast)) :
            Move(a, [stage |-> "posting", voters |-> task[a].voters, post |-> PostOf(g)])
      BY <2>7 DEF ResolvePost
    <3>2. task'[a] = [stage |-> "posting", voters |-> task[a].voters, post |-> PostOf(g)]
      BY <3>1 DEF Move, TypeOK
    <3>3. task'[a].stage = "posting" /\ task'[a].voters = task[a].voters
      BY <3>2
    <3>4. /\ task[a].stage = "settling" /\ UNCHANGED board
          /\ Counted(task[a].voters, task[a].cast) # {}
      BY <2>7 DEF ResolvePost
    <3>5. \A b \in Agents : b # a => RoundKnown(b)'
      BY <1>5, <1>9, <3>3, <3>4
    <3>6. LiveRuns = {} /\ SomeCompleted
      BY <3>4, AnsweredRound
    <3>7. LiveRuns' = {}
      <4>1. CASE Len(entries') = Len(entries)
        BY <3>6, <4>1, EndedLasts
      <4>2. CASE Len(entries') # Len(entries)
        <5>1. PICK c \in Agents, next \in Agents, s \in Status :
                /\ task[c].stage = "settling"
                /\ \/ ResolveGrow(c) /\ task'[c].stage = "finishing"
                   \/ ResolvePost(c) /\ task'[c].stage = "posting" /\ s \notin Live
                /\ entries' = Append(entries, Entry(next, s))
          BY <3>6, <4>2, EntriesAdded, NoDrain
        <5>2. c = a
          BY <3>4, <5>1 DEF OneSettle, Settling
        <5>3. s \notin Live
          BY <3>3, <5>1, <5>2
        <5>4. Entry(next, s) \in EntryType /\ Entry(next, s).status = s
          BY DEF Entry, EntryType
        <5>5. /\ DOMAIN entries' = 1 .. (Len(entries) + 1)
              /\ \A j \in DOMAIN entries : entries'[j] = entries[j]
              /\ entries'[Len(entries) + 1] = Entry(next, s)
          BY <5>1, <5>4, Appended
        <5>6. \A j \in DOMAIN entries' : j \in DOMAIN entries \/ j = Len(entries) + 1
          BY <1>1, <5>5
        <5>7. \A j \in DOMAIN entries' : entries'[j].status \notin Live
          BY <3>6, <5>3, <5>4, <5>5, <5>6 DEF LiveRuns
        <5>8. QED
          BY <5>7 DEF LiveRuns
      <4>3. QED
        BY <4>1, <4>2
    <3>8. RoundKnown(a)'
      BY <3>3, <3>6, <3>7, EndedLasts DEF RoundKnown
    <3>9. QED
      BY <3>5, <3>8 DEF NobodyRuns, RoundKnown
  <2>8. CASE PostAnswer(a)
    <3>1. task'[a] = [stage |-> "finishing", voters |-> task[a].voters, done |-> TRUE]
      BY <2>8 DEF PostAnswer, Move, TypeOK
    <3>2. UNCHANGED <<entries, board>>
      BY <2>8 DEF PostAnswer
    <3>3. QED
      BY <2>1, <3>1, <3>2 DEF RoundKnown
  <2>9. CASE Finish(a)
    <3>1. task'[a] = Idle /\ UNCHANGED entries
      BY <2>9 DEF Finish, Move, TypeOK
    <3>2. task[a].stage = "finishing" /\ board'.settled = task[a].voters
      BY <2>9 DEF Finish
    <3>3. board'.settled >= board.settled
      <4>1. task[a].voters > board.settled
        BY <3>2 DEF OneSettle, Settling
      <4>2. board.settled \in Nat /\ task[a].voters \in Nat
        BY <1>1, <3>2, TaskFields DEF Board, HasRead
      <4>3. QED
        BY <3>2, <4>1, <4>2
    <3>4. \A b \in Agents : b # a => RoundKnown(b)'
      <4>1. \A s \in Agents : task[s].stage \in {"posting", "finishing"} =>
              board'.settled = task[s].voters
        BY <3>2 DEF OneSettle, Settling
      <4>2. QED
        BY <1>4, <1>9, <3>1, <3>3, <4>1
    <3>5. RoundKnown(a)'
      BY <3>1 DEF Idle, RoundKnown
    <3>6. QED
      BY <3>4, <3>5 DEF NobodyRuns, RoundKnown
  <2>10. QED
    BY <1>9, <2>2, <2>3, <2>4, <2>5, <2>6, <2>7, <2>8, <2>9 DEF Settle
<1>10. QED
  BY <1>6, <1>7, <1>8, <1>9, OneMoves

\* While a post is tried again nothing runs and nothing is added.
LEMMA NobodyRunsLaterStep ==
  ASSUME TypeOK, RunsRecorded, ReadsEnded, OneSettle, OnePost, NobodyRuns, NobodyRunsLater,
         [Next]_vars, NoRetry'
  PROVE  NobodyRunsLater'
<1>1. CASE reposting.left > 0
  <2>1. LiveRuns = {} /\ SomeCompleted /\ Resolved
    BY <1>1 DEF NobodyRunsLater, OnePost
  <2>2. \A a \in Agents : task[a].stage # "settling"
    BY <2>1 DEF Resolved, OneSettle, Settling
  <2>3. Len(entries') = Len(entries)
    BY <2>1, <2>2, EntriesAdded, NoDrain
  <2>4. QED
    BY <2>1, <2>3, EndedLasts DEF NobodyRunsLater
<1>2. CASE ~(reposting.left > 0)
  <2>1. ASSUME NEW a \in Agents, PostAnswer(a) PROVE NobodyRunsLater'
    <3>1. LiveRuns = {} /\ SomeCompleted /\ UNCHANGED entries
      BY <2>1 DEF PostAnswer, NobodyRuns, RoundKnown
    <3>2. QED
      BY <3>1 DEF NobodyRunsLater, LiveRuns, SomeCompleted
  <2>2. CASE reposting' \in {reposting, NoRepost}
    BY <1>2, <2>2 DEF NobodyRunsLater, NoRepost
  <2>3. ASSUME NEW a \in Agents, Settle(a), ~PostAnswer(a) PROVE UNCHANGED reposting
    BY <2>3 DEF Settle, Complete, ReadVoters, Begin, ResolveEmpty, ResolveGrow, ResolvePost, Finish
  <2>4. ASSUME NEW a \in Agents, TurnEnds(a) \/ Requeue(a) PROVE UNCHANGED reposting
    BY <2>4 DEF TurnEnds, CastBallot, FailTurn, Requeue
  <2>5. ASSUME NEW i \in DOMAIN entries,
               \/ StartWaiting(i)
               \/ \E status \in {"Cancelled", "Expired"} : Withdraw(i, status)
               \/ UserRetry(i)
               \/ DrainRetry(i)
        PROVE  UNCHANGED reposting
    BY <2>5 DEF StartWaiting, Launch, Reject, Withdraw, UserRetry, DrainRetry, Retry
  <2>6. ~Repost
    BY <1>2 DEF Repost
  <2>7. (Crash \/ NewOwner \/ UNCHANGED vars) => reposting' \in {reposting, NoRepost}
    BY DEF Crash, NewOwner, vars
  <2>8. QED
    BY <2>1, <2>2, <2>3, <2>4, <2>5, <2>6, <2>7 DEF Next
<1>3. QED
  BY <1>1, <1>2

-----------------------------------------------------------------------------
(* Who is posted                                                           *)

\* Who completed a turn of this vote runs no other one.
LEMMA CompletedOnce ==
  ASSUME TypeOK, RunsRecorded, AskedOnce, NEW a \in Agents, Running(a),
         NEW i \in DOMAIN entries, entries[i].agent = a
  PROVE  entries[i].status # "Completed"
<1>1. task[a].run \in DOMAIN entries /\ entries[task[a].run] = Entry(a, "Running")
  BY DEF RunsRecorded
<1>2. entries[task[a].run].agent = a /\ entries[task[a].run].status = "Running"
  BY <1>1 DEF Entry
<1>3. DOMAIN entries = 1 .. Len(entries) /\ Len(entries) \in Nat
  BY EntriesShape
<1>4. i < task[a].run \/ i = task[a].run \/ task[a].run < i
  BY <1>1, <1>3
<1>5. QED
  BY <1>1, <1>2, <1>4 DEF AskedOnce, Finished

\* The ballot of a completed turn stays on the board until the board is reset
\* or its round is done.
LEMMA BallotStays ==
  ASSUME TypeOK, RunsRecorded, AskedOnce, [Next]_vars,
         NEW i \in DOMAIN entries, entries[i].status = "Completed",
         ~board'.done, ~Crash
  PROVE  board'.ballots[entries[i].agent] = board.ballots[entries[i].agent]
<1>0. board \in Board /\ entries[i].agent \in Agents
  BY EntriesShape DEF TypeOK, EntryType
<1>1. ASSUME NEW a \in Agents, NEW cast \in Cast, CastBallot(a, cast)
      PROVE  board'.ballots[entries[i].agent] = board.ballots[entries[i].agent]
  <2>1. Running(a)
    BY <1>1 DEF CastBallot, Running
  <2>2. entries[i].agent # a
    BY <2>1, CompletedOnce
  <2>3. QED
    BY <1>0, <1>1, <2>2 DEF CastBallot, Board, Ballots
<1>2. ASSUME NEW a \in Agents, Finish(a) PROVE board'.ballots = board.ballots
  BY <1>2 DEF Finish
<1>3. ASSUME NEW a \in Agents, Begin(a) PROVE board'.ballots = board.ballots
  BY <1>0, <1>3 DEF Begin, Board
<1>4. ASSUME NEW a \in Agents, Settle(a), ~Finish(a), ~Begin(a) PROVE UNCHANGED board
  BY <1>4 DEF Settle, Complete, ReadVoters, ResolveEmpty, ResolveGrow, ResolvePost, PostAnswer
<1>5. ASSUME NEW a \in Agents, Requeue(a) \/ \E st \in {"Failed", "Cancelled"} : FailTurn(a, st)
      PROVE  UNCHANGED board
  BY <1>5 DEF Requeue, FailTurn
<1>6. ASSUME NEW j \in DOMAIN entries,
             \/ StartWaiting(j)
             \/ \E status \in {"Cancelled", "Expired"} : Withdraw(j, status)
             \/ UserRetry(j)
             \/ DrainRetry(j)
      PROVE  UNCHANGED board
  BY <1>6 DEF StartWaiting, Launch, Reject, Withdraw, UserRetry, DrainRetry, Retry
<1>7. CASE UNCHANGED vars \/ Repost \/ NewOwner
  BY <1>7 DEF vars, Repost, NewOwner
<1>8. QED
  BY <1>1, <1>2, <1>3, <1>4, <1>5, <1>6, <1>7 DEF Next, TurnEnds

\* A settle's ballots stay those of the board.
LEMMA BallotsKeptStep ==
  ASSUME TypeOK, RunsRecorded, ReadsEnded, OneSettle, AskedOnce, BallotsKept, [Next]_vars
  PROVE  BallotsKept'
<1> DEFINE Kept(b) == task'[b].stage = "settling" =>
      \A i \in 1 .. task'[b].voters :
        entries'[i].status = "Completed" =>
          task'[b].cast[entries'[i].agent] = board'.ballots[entries'[i].agent]
<1>0. DOMAIN entries = 1 .. Len(entries) /\ Len(entries) \in Nat /\ Start \in Nat
  BY EntriesShape, VoteAssumption
<1>1. ASSUME NEW b \in Agents, task[b].stage = "settling", task'[b] = task[b] PROVE Kept(b)
  <2>1. task[b].voters \in Start .. Len(entries)
    BY <1>1 DEF ReadsEnded, HasRead
  <2>2. board.busy /\ ~board.done
    BY <1>1 DEF OneSettle, Settling
  <2>3. ~Crash
    BY <1>1 DEF Crash, Idle
  <2>4. ~board'.done
    <3>1. ASSUME NEW a \in Agents, Finish(a) PROVE FALSE
      <4>1. a = b
        BY <1>1, <3>1 DEF Finish, OneSettle, Settling
      <4>2. QED
        BY <1>1, <3>1, <4>1 DEF Finish
    <3>2. ASSUME NEW a \in Agents, Settle(a) PROVE board'.done = board.done
      BY <3>1, <3>2 DEF Settle, Complete, ReadVoters, Begin, ResolveEmpty, ResolveGrow,
                        ResolvePost, PostAnswer, TypeOK, Board
    <3>3. ASSUME NEW a \in Agents, TurnEnds(a) \/ Requeue(a) PROVE board'.done = board.done
      BY <3>3 DEF TurnEnds, CastBallot, FailTurn, Requeue, TypeOK, Board
    <3>4. ASSUME NEW j \in DOMAIN entries,
                 \/ StartWaiting(j)
                 \/ \E status \in {"Cancelled", "Expired"} : Withdraw(j, status)
                 \/ UserRetry(j)
                 \/ DrainRetry(j)
          PROVE  UNCHANGED board
      BY <3>4 DEF StartWaiting, Launch, Reject, Withdraw, UserRetry, DrainRetry, Retry
    <3>5. (UNCHANGED vars \/ Repost \/ NewOwner) => UNCHANGED board
      BY DEF vars, Repost, NewOwner
    <3>6. QED
      BY <2>2, <2>3, <3>2, <3>3, <3>4, <3>5 DEF Next
  <2>5. \A i \in 1 .. task[b].voters : i \in DOMAIN entries /\ entries'[i] = entries[i]
    <3>1. \A i \in 1 .. task[b].voters : entries[i].status \notin Live
      BY <1>1 DEF ReadsEnded, HasRead
    <3>2. \A i \in 1 .. task[b].voters : i \in DOMAIN entries
      BY <1>0, <2>1
    <3>3. QED
      BY <3>1, <3>2, EntriesStep
  <2>6. \A i \in 1 .. task[b].voters : entries[i].status = "Completed" =>
          task[b].cast[entries[i].agent] = board.ballots[entries[i].agent]
    BY <1>1 DEF BallotsKept
  <2>7. QED
    BY <1>1, <2>3, <2>4, <2>5, <2>6, BallotStays
<1>2. ASSUME NEW b \in Agents, Begin(b) PROVE Kept(b)
  <2>1. CASE CanBegin(task[b].voters)
    <3>1. /\ task'[b] = [stage |-> "settling", voters |-> task[b].voters, cast |-> board.ballots]
          /\ board' = [board EXCEPT !.busy = TRUE]
      BY <1>2, <2>1 DEF Begin, Move, TypeOK
    <3>2. board'.ballots = board.ballots /\ task'[b].cast = board.ballots
      BY <3>1 DEF TypeOK, Board
    <3>3. QED
      BY <3>2
  <2>2. CASE ~CanBegin(task[b].voters)
    BY <1>2, <2>2 DEF Begin, Move, TypeOK, Idle
  <2>3. QED
    BY <2>1, <2>2
<1>3. ASSUME NEW b \in Agents, Settle(b), ~Begin(b) PROVE task'[b].stage # "settling"
  <2>1. CASE ResolvePost(b)
    <3>1. PICK g \in Groupings(Counted(task[b].voters, task[b].cast)) :
            Move(b, [stage |-> "posting", voters |-> task[b].voters, post |-> PostOf(g)])
      BY <2>1 DEF ResolvePost
    <3>2. QED
      BY <3>1 DEF Move, TypeOK
  <2>2. CASE Complete(b) \/ ReadVoters(b) \/ ResolveEmpty(b) \/ ResolveGrow(b)
             \/ PostAnswer(b) \/ Finish(b)
    BY <2>2 DEF Complete, ReadVoters, ResolveEmpty, ResolveGrow, PostAnswer, Finish,
                Move, TypeOK, Idle
  <2>3. QED
    BY <1>3, <2>1, <2>2 DEF Settle
<1>4. \A b \in Agents : task'[b] = task[b] => Kept(b)
  BY <1>1
<1>5. ASSUME NEW a \in Agents, \A b \in Agents : b # a => task'[b] = task[b], Kept(a)
      PROVE  BallotsKept'
  <2>1. \A b \in Agents : Kept(b)
    BY <1>4, <1>5
  <2>2. QED
    BY <2>1 DEF BallotsKept
<1>6. CASE task' = task
  <2>1. \A b \in Agents : Kept(b)
    BY <1>4, <1>6
  <2>2. QED
    BY <2>1 DEF BallotsKept
<1>7. CASE task' = [a \in Agents |-> Idle]
  BY <1>7 DEF BallotsKept, Idle
<1>8. ASSUME NEW a \in Agents, Settle(a) PROVE Kept(a)
  BY <1>2, <1>3, <1>8
<1>9. ASSUME NEW a \in Agents, ~HasRead(a)' PROVE Kept(a)
  BY <1>9 DEF HasRead
<1> HIDE DEF Kept
<1>10. QED
  BY <1>5, <1>6, <1>7, <1>8, <1>9, OneMoves, TurnMoves

\* The answer of an opener is on the board while others are asked.
LEMMA OpenerAnsweredStep ==
  ASSUME TypeOK, RunsRecorded, ReadsEnded, OneSettle, AskedOnce, BallotsKept, OpenerAnswered,
         [Next]_vars, NoRetry',
         \E i \in DOMAIN entries' : ~Opener(entries'[i].agent),
         ~board'.done, LiveRuns' # {} \/ ~AllIdle'
  PROVE  \E i \in DOMAIN entries' :
           /\ Opener(entries'[i].agent)
           /\ entries'[i].status = "Completed"
           /\ board'.ballots[entries'[i].agent] = "answer"
<1>0. DOMAIN entries = 1 .. Len(entries) /\ Len(entries) \in Nat /\ Start \in Nat
  BY EntriesShape, VoteAssumption
<1>1. ~Crash /\ ~NewOwner
  <2>1. ASSUME Crash \/ NewOwner PROVE FALSE
    <3>1. AllIdle'
      BY <2>1 DEF Crash, NewOwner, AllIdle
    <3>2. entries' = Recovered
      BY <2>1 DEF Crash, NewOwner
    <3>3. DOMAIN entries' = DOMAIN entries /\ \A i \in DOMAIN entries : entries'[i].status \notin Live
      BY <3>2, RecoveredShape DEF Finished, Live
    <3>4. LiveRuns' = {}
      BY <3>3 DEF LiveRuns
    <3>5. QED
      BY <3>1, <3>4
  <2>2. QED
    BY <2>1
<1>2. ASSUME NEW i \in DOMAIN entries, Opener(entries[i].agent), entries[i].status = "Completed",
             board.ballots[entries[i].agent] = "answer"
      PROVE  /\ i \in DOMAIN entries' /\ Opener(entries'[i].agent)
             /\ entries'[i].status = "Completed"
             /\ board'.ballots[entries'[i].agent] = "answer"
  <2>1. i \in DOMAIN entries' /\ entries'[i] = entries[i]
    BY <1>2, EntriesStep DEF Live
  <2>2. QED
    BY <1>1, <1>2, <2>1, BallotStays
<1>3. CASE \E i \in DOMAIN entries : ~Opener(entries[i].agent)
  <2>1. SomeCompleted
    BY <1>3 DEF AskedOnce
  <2>2. LiveRuns # {} \/ ~AllIdle
    <3>1. SUFFICES ASSUME LiveRuns = {}, AllIdle PROVE FALSE
      OBVIOUS
    <3>2. \A a \in Agents : task[a].stage = "idle"
      BY <3>1 DEF AllIdle, Idle
    <3>3. Len(entries') = Len(entries)
      BY <2>1, <3>2, EntriesAdded, NoDrain
    <3>4. LiveRuns' = {}
      BY <3>1, <3>3, EndedLasts
    <3>5. task' = task
      <4>1. ASSUME NEW a \in Agents, TurnEnds(a) \/ Requeue(a) PROVE FALSE
        BY <3>2, <4>1 DEF TurnEnds, CastBallot, FailTurn, Requeue
      <4>2. ASSUME NEW a \in Agents, Settle(a) PROVE FALSE
        BY <3>2, <4>2, SettleStages
      <4>3. ASSUME NEW a \in Agents, NEW i \in DOMAIN entries, Launch(a, i) PROVE FALSE
        BY <3>1, <4>3 DEF Launch, LiveRuns, Entry, Live
      <4>4. QED
        BY <1>1, <4>1, <4>2, <4>3, OneMoves
    <3>6. QED
      BY <3>1, <3>4, <3>5 DEF AllIdle
  <2>3. ~board.done
    <3>1. ASSUME board.done PROVE FALSE
      <4>1. \A a \in Agents : ~Settling(a)
        BY <3>1 DEF OneSettle
      <4>2. ASSUME NEW a \in Agents, Settle(a) PROVE board'.done = board.done
        <5>1. ~Finish(a)
          BY <4>1 DEF Finish, Settling
        <5>2. QED
          BY <4>2, <5>1 DEF Settle, Complete, ReadVoters, Begin, ResolveEmpty, ResolveGrow,
                            ResolvePost, PostAnswer, TypeOK, Board
      <4>3. ASSUME NEW a \in Agents, TurnEnds(a) \/ Requeue(a) PROVE board'.done = board.done
        BY <4>3 DEF TurnEnds, CastBallot, FailTurn, Requeue, TypeOK, Board
      <4>4. ASSUME NEW j \in DOMAIN entries,
                   \/ StartWaiting(j)
                   \/ \E status \in {"Cancelled", "Expired"} : Withdraw(j, status)
                   \/ UserRetry(j)
                   \/ DrainRetry(j)
            PROVE  UNCHANGED board
        BY <4>4 DEF StartWaiting, Launch, Reject, Withdraw, UserRetry, DrainRetry, Retry
      <4>5. (UNCHANGED vars \/ Repost) => UNCHANGED board
        BY DEF vars, Repost
      <4>6. QED
        BY <1>1, <3>1, <4>2, <4>3, <4>4, <4>5 DEF Next
    <3>2. QED
      BY <3>1
  <2>4. QED
    BY <1>2, <1>3, <2>2, <2>3 DEF OpenerAnswered
<1>4. CASE \A i \in DOMAIN entries : Opener(entries[i].agent)
  <2>1. Len(entries') # Len(entries)
    <3>1. SUFFICES ASSUME Len(entries') = Len(entries) PROVE FALSE
      OBVIOUS
    <3>2. DOMAIN entries' = DOMAIN entries
      BY <1>0, <3>1, EntriesStep
    <3>3. QED
      BY <1>4, <3>2, EntriesStep
  <2>2. \A i \in DOMAIN entries : ~DrainRetry(i)
    <3>1. ASSUME NEW i \in DOMAIN entries, DrainRetry(i),
                 entries' = Append(entries, Entry(entries[i].agent, "Pending"))
          PROVE  FALSE
      <4>1. Entry(entries[i].agent, "Pending") \in EntryType
        BY EntriesShape DEF Entry, EntryType, Status, Live
      <4>2. /\ DOMAIN entries' = 1 .. (Len(entries) + 1)
            /\ \A j \in DOMAIN entries : entries'[j] = entries[j]
            /\ entries'[Len(entries) + 1].agent = entries[i].agent
        BY <3>1, <4>1, Appended DEF Entry
      <4>3. \A j \in DOMAIN entries' : j \in DOMAIN entries \/ j = Len(entries) + 1
        BY <1>0, <4>2
      <4>4. QED
        BY <1>4, <4>2, <4>3
    <3>2. QED
      BY <3>1 DEF DrainRetry, Retry
  <2>3. PICK a \in Agents : /\ task[a].stage = "settling" /\ UNCHANGED board
                            /\ Counted(task[a].voters, task[a].cast) # {}
    BY <2>1, <2>2, EntriesAdded
  <2>4. task[a].voters \in Start .. Len(entries)
    BY <2>3 DEF ReadsEnded, HasRead
  <2>5. PICK i \in Counted(task[a].voters, task[a].cast) :
          /\ i \in DOMAIN entries /\ i \in 1 .. task[a].voters
          /\ entries[i].status = "Completed"
          /\ task[a].cast[entries[i].agent] = "answer"
    BY <2>3, <2>4, CountedShape
  <2>6. board.ballots[entries[i].agent] = "answer"
    BY <2>3, <2>5 DEF BallotsKept
  <2>7. QED
    BY <1>2, <1>4, <2>5, <2>6
<1>5. QED
  BY <1>3, <1>4

\* Sets of two elements or more.
LEMMA TwoElements ==
  ASSUME NEW S, IsFiniteSet(S)
  PROVE  /\ Cardinality(S) \in Nat
         /\ Cardinality(S) >= 2 <=> \E x, y \in S : x # y
<1>1. Cardinality(S) \in Nat
  BY FS_CardinalityType
<1>2. Cardinality(S) = 0 <=> S = {}
  BY FS_EmptySet
<1>3. Cardinality(S) = 1 <=> \E x : S = {x}
  BY FS_Singleton
<1>4. Cardinality(S) >= 2 <=> Cardinality(S) # 0 /\ Cardinality(S) # 1
  BY <1>1
<1>5. (\E x, y \in S : x # y) <=> S # {} /\ ~ \E x : S = {x}
  OBVIOUS
<1>6. QED
  BY <1>1, <1>2, <1>3, <1>4, <1>5

\* The agents of two completed entries are two.
LEMMA TwoAgents ==
  ASSUME TypeOK, AskedOnce, NEW K \in SUBSET DOMAIN entries, IsFiniteSet(K),
         \A k \in K : entries[k].status = "Completed"
  PROVE  Cardinality(K) >= 2 => Cardinality({entries[k].agent : k \in K}) >= 2
<1> DEFINE names == {entries[k].agent : k \in K}
           name  == [k \in K |-> entries[k].agent]
<1>1. name \in Surjection(K, names)
  BY DEF Surjection
<1>2. IsFiniteSet(names)
  BY <1>1, FS_Surjection
<1>3. ASSUME NEW i \in K, NEW j \in K, i # j PROVE entries[i].agent # entries[j].agent
  <2>1. i \in Nat /\ j \in Nat
    BY EntriesShape
  <2>2. i < j \/ j < i
    BY <1>3, <2>1
  <2>3. QED
    BY <2>2 DEF AskedOnce, Finished
<1>4. ASSUME Cardinality(K) >= 2 PROVE Cardinality(names) >= 2
  <2>1. PICK i \in K, j \in K : i # j
    BY <1>4, TwoElements
  <2>2. entries[i].agent \in names /\ entries[j].agent \in names
    OBVIOUS
  <2>3. QED
    BY <1>2, <1>3, <2>1, <2>2, TwoElements
<1>5. QED
  BY <1>4

\* What a settle posts is sound.
LEMMA PostIsSound ==
  ASSUME TypeOK, RunsRecorded, ReadsEnded, OneSettle, AskedOnce, BallotsKept, OpenerAnswered,
         NEW a \in Agents, task[a].stage = "settling",
         Counted(task[a].voters, task[a].cast) # {},
         NEW g \in Groupings(Counted(task[a].voters, task[a].cast))
  PROVE  Sound(PostOf(g))
<1> DEFINE C == Counted(task[a].voters, task[a].cast)
           top == Top(g)
           G == GroupOf(g, top)
<1>1. task[a].voters \in Start .. Len(entries)
  BY DEF ReadsEnded, HasRead
<1>2. /\ C \in SUBSET Nat /\ IsFiniteSet(C)
      /\ \A i \in C : /\ i \in DOMAIN entries /\ i \in 1 .. task[a].voters
                      /\ entries[i].status = "Completed"
  BY <1>1, CountedShape
<1>3. /\ top \in C /\ G \in SUBSET C
      /\ \A k \in C : GroupOf(g, k) \in SUBSET C /\ Cardinality(GroupOf(g, k)) \in Nat
      /\ \A m \in C : \/ Cardinality(GroupOf(g, m)) < Cardinality(G)
                      \/ Cardinality(GroupOf(g, m)) = Cardinality(G) /\ top <= m
  BY <1>2, TopIsLargest
<1>4. DOMAIN g = C /\ \A k \in C : g[k] \in C /\ g[k] <= k /\ g[g[k]] = g[k]
  BY DEF Groupings
<1>5. /\ PostOf(g).group = {entries[k].agent : k \in G}
      /\ PostOf(g).by = entries[top].agent
      /\ PostOf(g).agreed = Unanimous(g)
  BY DEF PostOf
<1>6. PostOf(g).group \in SUBSET Seats
  BY <1>1, PostTyped
<1> HIDE DEF C, top, G
<1>7. IsFiniteSet(G) /\ G \in SUBSET DOMAIN entries /\ \A k \in G : entries[k].status = "Completed"
  BY <1>2, <1>3, FS_Subset
<1>8. ASSUME Cardinality(G) >= 2 PROVE Cardinality(PostOf(g).group) >= 2
  BY <1>5, <1>7, <1>8, TwoAgents
<1>9. ASSUME Unanimous(g) PROVE Cardinality(G) >= 2
  <2>1. Cardinality({g[k] : k \in C}) = 1 /\ Cardinality(C) > 1
    BY <1>4, <1>9 DEF Unanimous
  <2>2. IsFiniteSet({g[k] : k \in C})
    <3>1. {g[k] : k \in C} \in SUBSET C
      BY <1>4
    <3>2. QED
      BY <1>2, <3>1, FS_Subset
  <2>3. PICK c : {g[k] : k \in C} = {c}
    BY <2>1, <2>2, FS_Singleton
  <2>4. c \in C /\ \A k \in C : g[k] = c
    BY <1>3, <1>4, <2>3
  <2>5. GroupOf(g, c) = C
    BY <1>4, <2>4 DEF GroupOf
  <2>6. Cardinality(C) \in Nat /\ Cardinality(G) \in Nat /\ Cardinality(C) >= 2
    BY <1>2, <1>7, <2>1, FS_CardinalityType
  <2>7. Cardinality(GroupOf(g, c)) <= Cardinality(G)
    BY <1>3, <2>4, <2>5, <2>6
  <2>8. QED
    BY <2>5, <2>6, <2>7
<1>10. ASSUME ~Opener(PostOf(g).by)
       PROVE  Cardinality(G) >= 2 /\ \A b \in PostOf(g).group : ~Opener(b)
  <2>1. top \in DOMAIN entries /\ ~Opener(entries[top].agent)
    BY <1>2, <1>3, <1>5, <1>10
  <2>2. \A k \in C : k \in Nat
    BY <1>2
  <2>3. \A k \in G : top <= k
    BY <1>3, <1>4 DEF G, GroupOf
  <2>4. \A k \in G : ~Opener(entries[k].agent)
    <3>1. TAKE k \in G
    <3>2. k = top \/ top < k
      BY <1>3, <2>2, <2>3
    <3>3. QED
      BY <1>7, <2>1, <3>2 DEF AskedOnce
  <2>5. /\ ~board.done /\ ~AllIdle
    BY DEF OneSettle, Settling, AllIdle, Idle
  <2>6. PICK i \in DOMAIN entries : /\ Opener(entries[i].agent)
                                    /\ entries[i].status = "Completed"
                                    /\ board.ballots[entries[i].agent] = "answer"
    BY <2>1, <2>5 DEF OpenerAnswered
  <2>7. i < top
    <3>1. i \in Nat /\ top \in Nat
      BY <1>3, <2>2, EntriesShape
    <3>2. i # top /\ ~(top < i)
      BY <2>1, <2>6 DEF AskedOnce
    <3>3. QED
      BY <3>1, <3>2
  <2>8. i \in 1 .. task[a].voters
    <3>1. /\ i \in Nat \ {0} /\ top \in Nat /\ task[a].voters \in Nat
          /\ top <= task[a].voters
      BY <1>2, <1>3, <2>2, TaskFields, EntriesShape DEF HasRead
    <3>2. QED
      BY <2>7, <3>1
  <2>9. i \in C
    BY <2>6, <2>8 DEF C, Counted, BallotsKept
  <2>10. g[i] \in C /\ g[i] <= i /\ i \in GroupOf(g, g[i])
    BY <1>4, <2>9 DEF GroupOf
  <2>11. Cardinality(GroupOf(g, g[i])) >= 1
    <3>1. IsFiniteSet(GroupOf(g, g[i]))
      BY <1>2, <1>3, <2>10, FS_Subset
    <3>2. Cardinality(GroupOf(g, g[i])) # 0 /\ Cardinality(GroupOf(g, g[i])) \in Nat
      BY <2>10, <3>1, FS_EmptySet, FS_CardinalityType
    <3>3. QED
      BY <3>2
  <2>12. ~(top <= g[i])
    BY <1>3, <2>2, <2>7, <2>9, <2>10
  <2>13. Cardinality(GroupOf(g, g[i])) < Cardinality(G)
    BY <1>3, <2>10, <2>12
  <2>14. Cardinality(G) \in Nat /\ Cardinality(GroupOf(g, g[i])) \in Nat
    BY <1>3, <1>7, <2>10, FS_CardinalityType
  <2>15. QED
    BY <1>5, <2>4, <2>11, <2>13, <2>14
<1>11. QED
  BY <1>5, <1>6, <1>8, <1>9, <1>10 DEF Sound

\* Only what a settle chose is posted, at once or later.
LEMMA PostsSoundStep ==
  ASSUME TypeOK, RunsRecorded, ReadsEnded, OneSettle, AskedOnce, BallotsKept, OpenerAnswered,
         PostsSound, [Next]_vars
  PROVE  PostsSound'
<1>0. /\ posts \in Seq(Post) /\ Len(posts) \in Nat
      /\ reposting \in {NoRepost} \cup [left : Nat, post : Post]
  BY DEF TypeOK
<1>1. ASSUME NEW a \in Agents, task'[a].stage = "posting" PROVE Sound(task'[a].post)
  <2>1. CASE task'[a] = task[a]
    BY <1>1, <2>1 DEF PostsSound
  <2>2. CASE task'[a] # task[a]
    <3>1. Settle(a)
      <4>1. CASE task' = [b \in Agents |-> Idle]
        BY <1>1, <4>1 DEF Idle
      <4>2. CASE task' = task
        BY <2>2, <4>2
      <4>3. ASSUME NEW b \in Agents, \A c \in Agents : c # b => task'[c] = task[c],
                   \/ \E i \in DOMAIN entries : entries[i].agent = b /\ Launch(b, i)
                   \/ TurnEnds(b)
                   \/ Requeue(b)
            PROVE  FALSE
        BY <1>1, <2>2, <4>3, TurnMoves DEF HasRead
      <4>4. QED
        BY <2>2, <4>1, <4>2, <4>3, OneMoves
    <3>2. ResolvePost(a)
      BY <1>1, <3>1 DEF Settle, Complete, ReadVoters, Begin, ResolveEmpty, ResolveGrow,
                        PostAnswer, Finish, Move, TypeOK, Idle
    <3>3. PICK g \in Groupings(Counted(task[a].voters, task[a].cast)) :
            Move(a, [stage |-> "posting", voters |-> task[a].voters, post |-> PostOf(g)])
      BY <3>2 DEF ResolvePost
    <3>4. task[a].stage = "settling" /\ Counted(task[a].voters, task[a].cast) # {}
      BY <3>2 DEF ResolvePost
    <3>5. task'[a].post = PostOf(g)
      BY <3>3 DEF Move, TypeOK
    <3>6. QED
      BY <3>4, <3>5, PostIsSound
  <2>3. QED
    BY <2>1, <2>2
<1> DEFINE Later == reposting'.left > 0 => Sound(reposting'.post)
           Posted == \A k \in DOMAIN posts' : Sound(posts'[k])
<1>2. ASSUME UNCHANGED <<posts, reposting>> PROVE Later /\ Posted
  BY <1>2 DEF PostsSound
<1>3. ASSUME NEW p \in Post, Sound(p), posts' = Append(posts, p) PROVE Posted
  BY <1>0, <1>3 DEF PostsSound
<1>4. ASSUME NEW a \in Agents, PostAnswer(a) PROVE Later /\ Posted
  <2>1. Sound(task[a].post) /\ task[a].post \in Post
    BY <1>4, TaskFields DEF PostAnswer, PostsSound
  <2>2. CASE posts' = Append(posts, task[a].post) /\ UNCHANGED reposting
    BY <1>3, <2>1, <2>2 DEF PostsSound
  <2>3. CASE reposting' = [left |-> PostTries, post |-> task[a].post] /\ UNCHANGED posts
    BY <2>1, <2>3 DEF PostsSound
  <2>4. QED
    BY <1>4, <2>2, <2>3 DEF PostAnswer
<1>5. ASSUME Repost PROVE Later /\ Posted
  <2>1. reposting.left > 0 /\ Sound(reposting.post)
    BY <1>5 DEF Repost, PostsSound
  <2>2. reposting \in [left : Nat, post : Post]
    BY <1>0, <2>1 DEF NoRepost
  <2>3. CASE posts' = Append(posts, reposting.post) /\ reposting' = NoRepost
    BY <1>3, <2>1, <2>2, <2>3 DEF NoRepost
  <2>4. CASE UNCHANGED posts /\ reposting' = IF reposting.left = 1 THEN NoRepost
                                             ELSE [reposting EXCEPT !.left = @ - 1]
    <3>1. reposting' = NoRepost \/ reposting'.post = reposting.post
      BY <2>2, <2>4
    <3>2. Later
      BY <2>1, <3>1 DEF NoRepost
    <3>3. QED
      BY <2>4, <3>2 DEF PostsSound
  <2>5. QED
    BY <1>5, <2>3, <2>4 DEF Repost
<1>6. ASSUME Crash \/ NewOwner PROVE Later /\ Posted
  <2>1. UNCHANGED posts /\ reposting' \in {reposting, NoRepost}
    BY <1>6 DEF Crash, NewOwner
  <2>2. QED
    BY <2>1 DEF PostsSound, NoRepost
<1>7. ASSUME NEW a \in Agents, TurnEnds(a) \/ Requeue(a) PROVE UNCHANGED <<posts, reposting>>
  BY <1>7 DEF TurnEnds, CastBallot, FailTurn, Requeue
<1>8. ASSUME NEW a \in Agents, Settle(a), ~PostAnswer(a) PROVE UNCHANGED <<posts, reposting>>
  BY <1>8 DEF Settle, Complete, ReadVoters, Begin, ResolveEmpty, ResolveGrow, ResolvePost, Finish
<1>9. ASSUME NEW i \in DOMAIN entries,
             \/ StartWaiting(i)
             \/ \E status \in {"Cancelled", "Expired"} : Withdraw(i, status)
             \/ UserRetry(i)
             \/ DrainRetry(i)
      PROVE  UNCHANGED <<posts, reposting>>
  BY <1>9 DEF StartWaiting, Launch, Reject, Withdraw, UserRetry, DrainRetry, Retry
<1>10. UNCHANGED vars => UNCHANGED <<posts, reposting>>
  BY DEF vars
<1> HIDE DEF Later, Posted
<1>11. Later /\ Posted
  BY <1>2, <1>4, <1>5, <1>6, <1>7, <1>8, <1>9, <1>10 DEF Next
<1>12. QED
  BY <1>1, <1>11 DEF PostsSound, Later, Posted

-----------------------------------------------------------------------------
(* Theorems                                                                *)

Invariant == TypeOK /\ Safe /\ Undisturbed

\* The vote opens with its openers waiting and nothing else.
LEMMA InvariantInit ==
  Init => Invariant
<1> SUFFICES ASSUME Init PROVE Invariant
  OBVIOUS
<1>1. /\ Pool \in Seq(Agents) /\ Start \in 1 .. Len(Pool) /\ Len(Pool) \in Nat
      /\ DOMAIN Pool = 1 .. Len(Pool) /\ \A i \in DOMAIN Pool : Pool[i] \in Agents
      /\ IsInjective(Pool)
  BY VoteAssumption
<1>2. /\ entries = [i \in 1 .. Start |-> Entry(Pool[i], "Pending")]
      /\ task = [a \in Agents |-> Idle] /\ board = NoVotes
      /\ posts = <<>> /\ reposting = NoRepost
      /\ announced = FALSE /\ restarts = 0 /\ meddled = {}
  BY DEF Init
<1>3. \A i \in 1 .. Start : Pool[i] \in Agents /\ entries[i] = Entry(Pool[i], "Pending")
  BY <1>1, <1>2
<1>4. entries \in [1 .. Start -> EntryType]
  BY <1>1, <1>2 DEF Entry, EntryType, Status, Live
<1>5. /\ entries \in Seq(EntryType) /\ Len(entries) = Start /\ DOMAIN entries = 1 .. Start
  BY <1>1, <1>4
<1>6. \A a \in Agents : task[a].stage = "idle" /\ task[a] = Idle
  BY <1>2 DEF Idle
<1>7. TypeOK
  <2>1. task \in [Agents -> Task]
    BY <1>2 DEF Idle, Task
  <2>2. board \in Board
    BY <1>2 DEF NoVotes, Board, Ballots, Ballot
  <2>3. posts \in Seq(Post)
    BY <1>2
  <2>4. QED
    BY <1>2, <1>5, <2>1, <2>2, <2>3 DEF TypeOK
<1>8. RunsRecorded
  <2>1. \A i \in DOMAIN entries : entries[i].agent \in Seats
    BY <1>1, <1>3, <1>5 DEF Seats, Entry
  <2>2. QED
    BY <1>1, <1>3, <1>5, <1>6, <2>1 DEF RunsRecorded, Running, Entry
<1>9. ReadsEnded
  BY <1>6 DEF ReadsEnded, HasRead
<1>10. OneSettle
  BY <1>2, <1>6 DEF OneSettle, Settling, NoVotes
<1>11. OnePost
  BY <1>2 DEF OnePost, NoRepost
<1>12. \A i \in DOMAIN entries : Opener(entries[i].agent)
  BY <1>3, <1>5 DEF Opener, Entry
<1>13. AskedOnce
  <2>1. \A i, j \in DOMAIN entries : entries[i].agent = entries[j].agent => i = j
    BY <1>1, <1>3, <1>5 DEF Entry, IsInjective
  <2>2. \A i, j \in DOMAIN entries : i < j => i # j
    BY <1>1, <1>5
  <2>3. QED
    BY <1>12, <2>1, <2>2 DEF AskedOnce
<1>14. NobodyRuns
  BY <1>6 DEF NobodyRuns, RoundKnown
<1>15. NobodyRunsLater
  BY <1>2 DEF NobodyRunsLater, NoRepost
<1>16. BallotsKept
  BY <1>6 DEF BallotsKept
<1>17. OpenerAnswered
  BY <1>12 DEF OpenerAnswered
<1>18. PostsSound
  BY <1>2, <1>6 DEF PostsSound, NoRepost
<1>19. QED
  BY <1>7, <1>8, <1>9, <1>10, <1>11, <1>13, <1>14, <1>15, <1>16, <1>17, <1>18
     DEF Invariant, Safe, Undisturbed

\* Every step keeps what is known; what the user retried is let go.
LEMMA InvariantStep ==
  Invariant /\ [Next]_vars => Invariant'
<1> SUFFICES ASSUME Invariant, [Next]_vars PROVE Invariant'
  OBVIOUS
<1>1. TypeOK /\ RunsRecorded /\ ReadsEnded /\ OneSettle /\ OnePost
  BY DEF Invariant, Safe
<1>2. TypeOK'
  BY <1>1, TypeStep
<1>3. Safe'
  BY <1>1, RunsRecordedStep, ReadsEndedStep, OneSettleStep, OnePostStep DEF Safe
<1>4. ASSUME NoRetry'
      PROVE  /\ AskedOnce' /\ NobodyRuns' /\ NobodyRunsLater'
             /\ BallotsKept' /\ OpenerAnswered' /\ PostsSound'
  <2>1. NoRetry
    BY <1>4, RetryRemembered
  <2>2. /\ AskedOnce /\ NobodyRuns /\ NobodyRunsLater
        /\ BallotsKept /\ OpenerAnswered /\ PostsSound
    BY <2>1 DEF Invariant, Undisturbed
  <2>3. AskedOnce'
    BY <1>1, <1>4, <2>2, AskedOnceStep
  <2>4. NobodyRuns' /\ NobodyRunsLater'
    BY <1>1, <1>4, <2>2, NobodyRunsStep, NobodyRunsLaterStep
  <2>5. BallotsKept'
    BY <1>1, <2>2, BallotsKeptStep
  <2>6. OpenerAnswered'
    BY <1>1, <1>4, <2>2, OpenerAnsweredStep DEF OpenerAnswered
  <2>7. PostsSound'
    BY <1>1, <2>2, PostsSoundStep
  <2>8. QED
    BY <2>3, <2>4, <2>5, <2>6, <2>7
<1>5. Undisturbed'
  BY <1>4 DEF Undisturbed
<1>6. QED
  BY <1>2, <1>3, <1>5 DEF Invariant

\* All of it holds all along.
THEOREM InvariantHolds == Spec => []Invariant
<1>1. QED
  BY InvariantInit, InvariantStep, PTL DEF Spec

\* The variables have their types: a task knows what its stage needs.
THEOREM TypeCorrect == Spec => []TypeOK
<1>1. Invariant => TypeOK
  BY DEF Invariant
<1>2. QED
  BY <1>1, InvariantHolds, PTL

\* A vote posts one answer at most, whatever the interleaving of its settles,
\* failed posts, retries by the user, and restarts.
THEOREM OneAnswer == Spec => []AtMostOnePost
<1>1. Invariant => AtMostOnePost
  BY DEF Invariant, Safe, OnePost, AtMostOnePost
<1>2. QED
  BY <1>1, InvariantHolds, PTL

\* No answer is posted, by a settle or by its background retry, while an entry
\* of the vote waits or runs, unless the user retried a run.
THEOREM PostedWhenAllVoted == Spec => NobodyStillVoting
<1>1. ASSUME Invariant, [Next]_vars, Len(posts') > Len(posts), "retried" \notin meddled
      PROVE  LiveRuns = {}
  <2>1. Len(posts) \in Nat
    BY <1>1 DEF Invariant, TypeOK
  <2>2. NobodyRuns /\ NobodyRunsLater
    BY <1>1 DEF Invariant, Undisturbed, NoRetry
  <2>3. posts' # posts
    BY <1>1, <2>1
  <2>4. CASE Repost
    BY <2>2, <2>4 DEF Repost, NobodyRunsLater
  <2>5. ASSUME NEW a \in Agents, PostAnswer(a) PROVE LiveRuns = {}
    BY <2>2, <2>5 DEF PostAnswer, NobodyRuns, RoundKnown
  <2>6. ASSUME NEW a \in Agents, Settle(a), ~PostAnswer(a) PROVE FALSE
    BY <2>3, <2>6 DEF Settle, Complete, ReadVoters, Begin, ResolveEmpty, ResolveGrow,
                      ResolvePost, Finish
  <2>7. ASSUME NEW a \in Agents, TurnEnds(a) \/ Requeue(a) PROVE FALSE
    BY <2>3, <2>7 DEF TurnEnds, CastBallot, FailTurn, Requeue
  <2>8. ASSUME NEW i \in DOMAIN entries,
               \/ StartWaiting(i)
               \/ \E status \in {"Cancelled", "Expired"} : Withdraw(i, status)
               \/ UserRetry(i)
               \/ DrainRetry(i)
        PROVE  FALSE
    BY <2>3, <2>8 DEF StartWaiting, Launch, Reject, Withdraw, UserRetry, DrainRetry, Retry
  <2>9. CASE UNCHANGED vars \/ Crash \/ NewOwner
    BY <2>3, <2>9 DEF vars, Crash, NewOwner
  <2>10. QED
    BY <1>1, <2>4, <2>5, <2>6, <2>7, <2>8, <2>9 DEF Next
<1>2. Invariant /\ [Next]_vars =>
        [Len(posts') > Len(posts) /\ "retried" \notin meddled => LiveRuns = {}]_vars
  BY <1>1
<1>3. QED
  BY <1>2, InvariantHolds, PTL DEF Spec, NobodyStillVoting

\* A round that is said to agree has two agents that agree, unless the user had
\* one of them answer again.
THEOREM AgreementIsOfTwo == Spec => []TwoAgentsUnlessRetried
<1>1. Invariant => TwoAgentsUnlessRetried
  BY DEF Invariant, Undisturbed, NoRetry, PostsSound, Sound, TwoAgentsUnlessRetried,
         AgreementTakesTwoAgents
<1>2. QED
  BY <1>1, InvariantHolds, PTL

\* The answer of an agent that did not open the vote is posted only with that
\* of another one: however many voters there may be, nobody who was asked to
\* break a tie wins it alone.
NeverAlone ==
  "retried" \notin meddled =>
    \A k \in DOMAIN posts : Opener(posts[k].by) \/ Cardinality(posts[k].group) >= 2

THEOREM TieBreakersNeverAlone == Spec => []NeverAlone
<1>1. Invariant => NeverAlone
  BY DEF Invariant, Undisturbed, NoRetry, PostsSound, Sound, NeverAlone
<1>2. QED
  BY <1>1, InvariantHolds, PTL

\* Where one tie-breaker can be asked, as in the default of two voters and a
\* third, an answer that is posted is an opener's.  (Two tie-breakers could
\* agree with each other.)
THEOREM TieBreakersConfirm ==
  ASSUME MaxVoters <= Start + 1
  PROVE  Spec => []TieBreakersOnlyConfirm
<1>1. ASSUME NEW p \in Post, Sound(p), ~Opener(p.by) PROVE FALSE
  <2>1. /\ p.group \in SUBSET Seats /\ \A b \in p.group : ~Opener(b)
        /\ Cardinality(p.group) >= 2
    BY <1>1 DEF Sound
  <2>2. Start \in Nat /\ MaxVoters \in Nat /\ DOMAIN Pool = 1 .. Len(Pool) /\ Len(Pool) \in Nat
    BY VoteAssumption
  <2>3. \A b \in p.group : b = Pool[Start + 1]
    <3>1. TAKE b \in p.group
    <3>2. PICK i \in DOMAIN Pool : (i <= Start \/ i <= MaxVoters) /\ b = Pool[i]
      BY <2>1 DEF Seats
    <3>3. ~(i \in 1 .. Start)
      BY <2>1, <3>2 DEF Opener
    <3>4. i = Start + 1
      BY <2>2, <3>2, <3>3
    <3>5. QED
      BY <3>2, <3>4
  <2>4. p.group \in SUBSET {Pool[Start + 1]}
    BY <2>3
  <2>5. IsFiniteSet(p.group)
    <3>1. IsFiniteSet({Pool[Start + 1]})
      BY FS_Singleton
    <3>2. QED
      BY <2>4, <3>1, FS_Subset
  <2>6. PICK x \in p.group, y \in p.group : x # y
    BY <2>1, <2>5, TwoElements
  <2>7. QED
    BY <2>3, <2>6
<1>2. Invariant => TieBreakersOnlyConfirm
  <2> SUFFICES ASSUME Invariant, "retried" \notin meddled, NEW k \in DOMAIN posts
               PROVE  \E i \in 1 .. Start : Pool[i] = posts[k].by
    BY DEF TieBreakersOnlyConfirm
  <2>1. posts[k] \in Post
    BY DEF Invariant, TypeOK
  <2>2. Sound(posts[k])
    BY DEF Invariant, Undisturbed, NoRetry, PostsSound
  <2>3. QED
    BY <1>1, <2>1, <2>2 DEF Opener
<1>3. QED
  BY <1>2, InvariantHolds, PTL
=============================================================================
