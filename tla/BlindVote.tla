----------------------------- MODULE BlindVote -----------------------------
(***************************************************************************)
(* One blind vote (src/src/agent/warden/vote.rs): the voters of a message  *)
(* run as ordinary unaddressed turns of the execution inbox, their answers *)
(* are held on the board, and the last voter to finish settles the round:  *)
(* it posts one answer or asks one more agent.                             *)
(*                                                                         *)
(* The inbox is reduced to the entries of this message; what it promises   *)
(* about them is the subject of ExecutionInbox.  The worker runs one turn  *)
(* per agent, so a task is named by its agent.  Which answers agree is     *)
(* decided by their ANSWER lines or by a model: any partition can result.  *)
(***************************************************************************)
EXTENDS Naturals, Sequences, FiniteSets, FiniteSetsExt, Functions

CONSTANTS Agents,      \* the agents of this device that listen
          Pool,        \* Assignment::pool, the candidates, best first
          Start,       \* how many of them open the vote
          MaxVoters,   \* Assignment::max
          PostTries,   \* length of POST_RETRY
          MaxEntries,  \* bound: entries of this message
          MaxRestarts  \* bound: restarts of the process or of the inbox's owner

ASSUME VoteAssumption ==
  /\ Pool \in Seq(Agents) /\ IsInjective(Pool)
  /\ Start \in 1 .. Len(Pool)
  /\ MaxVoters \in Nat /\ PostTries \in Nat
  /\ MaxEntries \in Nat /\ MaxRestarts \in Nat

VARIABLES entries,   \* the message's entries, in admission order
          task,      \* task[a]: where agent a's task is in run_next and settle:
                     \* idle, turn, cast, ended, read, settling, posting, finishing
          board,     \* MessageVote
          posts,     \* answers the vote posted to the room
          reposting, \* the background retry of a post that failed
          announced, \* the room was told that no answer is coming
          restarts,
          meddled    \* history: "retried", a run of this vote by the user, or
                     \* "withdrawn", a voter that waited

vars == <<entries, task, board, posts, reposting, announced, restarts, meddled>>

Live      == {"Pending", "Running"}
Retryable == {"Failed", "Interrupted", "Expired", "Cancelled"}
Cast      == {"answer", "pass"}
NoBallot  == "none"

NoRepost == [left |-> 0]
Idle     == [stage |-> "idle"]

NoVotes == [ballots |-> [a \in Agents |-> NoBallot],
            settled |-> 0, busy |-> FALSE, done |-> FALSE]

-----------------------------------------------------------------------------
(* The entries of the message                                              *)

Entry(a, status) == [agent |-> a, status |-> status]

SetStatus(i, status) == entries' = [entries EXCEPT ![i].status = status]

LiveRuns == {i \in DOMAIN entries : entries[i].status \in Live}

\* answered_by_an_agent, as far as this vote's own posts go.
Answered == posts # <<>>

\* The inbox has an entry of this agent: another admission is a duplicate.
Known(a) == \E i \in DOMAIN entries : entries[i].agent = a

Move(a, next) == task' = [task EXCEPT ![a] = next]

\* The durable running claim, after launch_rejection found no objection.
Launch(a, i) ==
  /\ task[a] = Idle
  /\ entries[i] = Entry(a, "Pending")
  /\ ~Answered
  /\ SetStatus(i, "Running")
  /\ Move(a, [stage |-> "turn", run |-> i])
  /\ UNCHANGED <<board, posts, reposting, announced, restarts, meddled>>

\* launch_rejection: another agent answered first.  No settle follows.
Reject(i) ==
  /\ entries[i].status = "Pending"
  /\ Answered
  /\ SetStatus(i, "Cancelled")
  /\ UNCHANGED <<task, board, posts, reposting, announced, restarts, meddled>>

\* A waiting voter is withdrawn: by the user, by a stopped chain, by another
\* device's claim or a changed setting found at launch (cancelled), or by a
\* queue that needs its place (expired).  No settle follows.
Withdraw(i, status) ==
  /\ entries[i].status = "Pending"
  /\ SetStatus(i, status)
  /\ meddled' = meddled \cup {"withdrawn"}
  /\ UNCHANGED <<task, board, posts, reposting, announced, restarts>>

\* Inbox::retry of run i.
Retry(i) ==
  /\ Len(entries) < MaxEntries
  /\ entries[i].status \in Retryable
  /\ \A j \in LiveRuns : entries[j].agent # entries[i].agent
  /\ entries' = Append(entries, Entry(entries[i].agent, "Pending"))
  /\ UNCHANGED <<task, board, posts, reposting, announced, restarts>>

UserRetry(i) == Retry(i) /\ meddled' = meddled \cup {"retried"}

\* The drain puts back a turn that never started, when every attempt at the
\* message failed or expired (unanswered_attempts).
DrainRetry(i) ==
  /\ \A j \in DOMAIN entries :
       entries[j].status \in {"Failed", "Interrupted", "Expired"}
  /\ entries[i].status = "Expired"
  /\ Retry(i)
  /\ UNCHANGED meddled

-----------------------------------------------------------------------------
(* A voter's turn                                                          *)

\* react: the reply is a ballot, not a post.
CastBallot(a, cast) ==
  /\ task[a].stage = "turn"
  /\ board' = [board EXCEPT !.ballots[a] = cast]
  /\ Move(a, [stage |-> "cast", run |-> task[a].run])
  /\ UNCHANGED <<entries, posts, reposting, announced, restarts, meddled>>

\* The turn failed or was stopped while it ran.
FailTurn(a, status) ==
  /\ task[a].stage = "turn"
  /\ SetStatus(task[a].run, status)
  /\ Move(a, [stage |-> "ended"])
  /\ UNCHANGED <<board, posts, reposting, announced, restarts, meddled>>

\* The conversation or the device was busy: the run waits again, or expires
\* when the queues are full by now.  Neither settles anything.
Requeue(a) ==
  /\ task[a].stage = "turn"
  /\ \/ SetStatus(task[a].run, "Pending") /\ UNCHANGED meddled
     \/ SetStatus(task[a].run, "Expired") /\ meddled' = meddled \cup {"withdrawn"}
  /\ Move(a, Idle)
  /\ UNCHANGED <<board, posts, reposting, announced, restarts>>

Complete(a) ==
  /\ task[a].stage = "cast"
  /\ SetStatus(task[a].run, "Completed")
  /\ Move(a, [stage |-> "ended"])
  /\ UNCHANGED <<board, posts, reposting, announced, restarts, meddled>>

-----------------------------------------------------------------------------
(* settle                                                                  *)

\* votes_for, read from the inbox: nothing to do while a voter is live.
ReadVoters(a) ==
  /\ task[a].stage = "ended"
  /\ Move(a, IF LiveRuns # {} THEN Idle
             ELSE [stage |-> "read", voters |-> Len(entries)])
  /\ UNCHANGED <<entries, board, posts, reposting, announced, restarts, meddled>>

\* Fault: a finished vote is settled again by a later voter.
CanBeginAgain(voters) == ~board.busy /\ voters > board.settled

\* Fault: a round that was settled is settled once more.
CanBeginSettled(voters) == ~board.done /\ ~board.busy

\* Board::begin.
CanBegin(voters) == ~board.done /\ ~board.busy /\ voters > board.settled

Begin(a) ==
  /\ task[a].stage = "read"
  /\ LET voters == task[a].voters
     IN IF CanBegin(voters)
        THEN /\ board' = [board EXCEPT !.busy = TRUE]
             /\ Move(a, [stage |-> "settling", voters |-> voters,
                         cast |-> board.ballots])
        ELSE /\ Move(a, Idle)
             /\ UNCHANGED board
  /\ UNCHANGED <<entries, posts, reposting, announced, restarts, meddled>>

\* The entries whose answers count in a round.
Counted(voters, cast) ==
  {i \in 1 .. voters : /\ entries[i].status = "Completed"
                       /\ cast[entries[i].agent] = "answer"}

\* Which answers agree: each joins the group of an earlier one or founds its
\* own.  g[k] is the first member of k's group.
Groupings(counted) ==
  {g \in [counted -> counted] : \A k \in counted : g[k] <= k /\ g[g[k]] = g[k]}

GroupOf(g, k) == {m \in DOMAIN g : g[m] = k}

\* Fault: a tie goes to the one that answered last.
TopLast(g) ==
  LET Size(k) == Cardinality(GroupOf(g, k))
  IN CHOOSE k \in {g[m] : m \in DOMAIN g} :
       \A m \in DOMAIN g : Size(m) < Size(k) \/ (Size(m) = Size(k) /\ k >= m)

\* The largest group; a tie goes to the one that answered first.
Top(g) ==
  LET Size(k) == Cardinality(GroupOf(g, k))
  IN CHOOSE k \in DOMAIN g :
       \A m \in DOMAIN g : Size(m) < Size(k) \/ (Size(m) = Size(k) /\ k <= m)

\* Fault: a lone answer agrees with itself.
UnanimousAlone(g) == Cardinality({g[k] : k \in DOMAIN g}) = 1

\* One group, of more than one answer.
Unanimous(g) ==
  Cardinality({g[k] : k \in DOMAIN g}) = 1 /\ Cardinality(DOMAIN g) > 1

\* The next candidate nobody used yet, if the vote may grow: a set.
NextVoter(voters) ==
  LET used   == {entries[i].agent : i \in 1 .. voters}
      unused == {k \in DOMAIN Pool : Pool[k] \notin used}
  IN IF voters < MaxVoters /\ unused # {} THEN {Pool[Min(unused)]} ELSE {}

\* What is posted: whose text, the agents said to agree with it, and whether
\* the round ended in agreement.
PostOf(g) ==
  [by     |-> entries[Top(g)].agent,
   group  |-> {entries[k].agent : k \in GroupOf(g, Top(g))},
   agreed |-> Unanimous(g)]

\* resolve, up to the post.  Nobody answered: the round is done.
ResolveEmpty(a) ==
  /\ task[a].stage = "settling"
  /\ Counted(task[a].voters, task[a].cast) = {}
  /\ Move(a, [stage |-> "finishing", voters |-> task[a].voters, done |-> TRUE])
  /\ UNCHANGED <<entries, board, posts, reposting, announced, restarts, meddled>>

\* No agreement and a candidate left: one more voter is admitted.
ResolveGrow(a) ==
  /\ task[a].stage = "settling"
  /\ LET counted == Counted(task[a].voters, task[a].cast)
     IN /\ counted # {}
        /\ \E g \in Groupings(counted) : ~Unanimous(g)
  /\ Len(entries) < MaxEntries
  /\ \E next \in NextVoter(task[a].voters) :
       ~Known(next) /\ entries' = Append(entries, Entry(next, "Pending"))
  /\ Move(a, [stage |-> "finishing", voters |-> task[a].voters, done |-> FALSE])
  /\ UNCHANGED <<board, posts, reposting, announced, restarts, meddled>>

\* A full queue or a spent budget leaves a terminal entry; a duplicate or a
\* failed write none.
RefuseVoter(a) ==
  \/ UNCHANGED entries
  \/ /\ ~Known(a) /\ Len(entries) < MaxEntries
     /\ \E status \in {"Expired", "Cancelled"} :
          entries' = Append(entries, Entry(a, status))

\* Agreement, nobody left to ask, or the admission was refused.
ResolvePost(a) ==
  /\ task[a].stage = "settling"
  /\ LET voters  == task[a].voters
         counted == Counted(voters, task[a].cast)
         next    == NextVoter(voters)
     IN /\ counted # {}
        /\ \E g \in Groupings(counted) :
             /\ \/ (Unanimous(g) \/ next = {}) /\ UNCHANGED entries
                \/ ~Unanimous(g) /\ \E n \in next : RefuseVoter(n)
             /\ Move(a, [stage |-> "posting", voters |-> voters,
                         post |-> PostOf(g)])
  /\ UNCHANGED <<board, posts, reposting, announced, restarts, meddled>>

\* The answer goes to the room, or to a background task that keeps trying.
PostAnswer(a) ==
  /\ task[a].stage = "posting"
  /\ LET post == task[a].post
     IN \/ posts' = Append(posts, post) /\ UNCHANGED reposting
        \/ /\ reposting' = [left |-> PostTries, post |-> post]
           /\ UNCHANGED posts
  /\ Move(a, [stage |-> "finishing", voters |-> task[a].voters, done |-> TRUE])
  /\ UNCHANGED <<entries, board, announced, restarts, meddled>>

\* Fault: a vote that goes on stays busy.
FinishKeepsBusy(a) ==
  /\ task[a].stage = "finishing"
  /\ board' = [board EXCEPT !.settled = task[a].voters, !.done = task[a].done]
  /\ Move(a, Idle)
  /\ UNCHANGED <<entries, posts, reposting, announced, restarts, meddled>>

\* Board::finish.
Finish(a) ==
  /\ task[a].stage = "finishing"
  /\ board' = [ballots |-> IF task[a].done THEN NoVotes.ballots ELSE board.ballots,
               settled |-> task[a].voters, busy |-> FALSE, done |-> task[a].done]
  /\ Move(a, Idle)
  /\ UNCHANGED <<entries, posts, reposting, announced, restarts, meddled>>

\* retry_post: one more attempt; after the last the room is told.
Repost ==
  /\ reposting.left > 0
  /\ \/ /\ posts' = Append(posts, reposting.post)
        /\ reposting' = NoRepost
        /\ UNCHANGED announced
     \/ /\ reposting' = IF reposting.left = 1 THEN NoRepost
                        ELSE [reposting EXCEPT !.left = @ - 1]
        /\ announced' = (reposting.left = 1)
        /\ UNCHANGED posts
  /\ UNCHANGED <<entries, task, board, restarts, meddled>>

-----------------------------------------------------------------------------
(* Restarts                                                                *)

\* Every entry is unaddressed: what waited expires, what ran is interrupted.
Recovered ==
  [i \in DOMAIN entries |->
     CASE entries[i].status = "Running" -> Entry(entries[i].agent, "Interrupted")
       [] entries[i].status = "Pending" -> Entry(entries[i].agent, "Expired")
       [] OTHER -> entries[i]]

\* The process dies: the ballots and every task go with it.
Crash ==
  /\ restarts < MaxRestarts
  /\ restarts' = restarts + 1
  /\ entries' = Recovered
  /\ task' = [a \in Agents |-> Idle]
  /\ board' = NoVotes
  /\ reposting' = NoRepost
  /\ UNCHANGED <<posts, announced, meddled>>

\* The inbox could not be written and got a new owner, once the turns that
\* ran had ended without being recorded.  The board outlives it.
NewOwner ==
  /\ restarts < MaxRestarts
  /\ restarts' = restarts + 1
  /\ \A a \in Agents : task[a].stage \in {"idle", "turn", "cast"}
  /\ entries' = Recovered
  /\ task' = [a \in Agents |-> Idle]
  /\ UNCHANGED <<board, posts, reposting, announced, meddled>>

-----------------------------------------------------------------------------

\* offer_selected: the vote's first voters are admitted together.
Init ==
  /\ entries = [i \in 1 .. Start |-> Entry(Pool[i], "Pending")]
  /\ task = [a \in Agents |-> Idle]
  /\ board = NoVotes
  /\ posts = <<>>
  /\ reposting = NoRepost
  /\ announced = FALSE
  /\ restarts = 0
  /\ meddled = {}

TurnEnds(a) ==
  \/ \E cast \in Cast : CastBallot(a, cast)
  \/ \E status \in {"Failed", "Cancelled"} : FailTurn(a, status)

Settle(a) ==
  \/ Complete(a) \/ ReadVoters(a) \/ Begin(a)
  \/ ResolveEmpty(a) \/ ResolveGrow(a) \/ ResolvePost(a)
  \/ PostAnswer(a) \/ Finish(a)

StartWaiting(i) == Launch(entries[i].agent, i) \/ Reject(i)

Next ==
  \/ \E i \in DOMAIN entries :
       \/ StartWaiting(i)
       \/ \E status \in {"Cancelled", "Expired"} : Withdraw(i, status)
       \/ UserRetry(i)
       \/ DrainRetry(i)
  \/ \E a \in Agents : TurnEnds(a) \/ Requeue(a) \/ Settle(a)
  \/ Repost
  \/ Crash
  \/ NewOwner

Spec == Init /\ [][Next]_vars

\* The worker looks at every waiting run each reconcile tick; a turn that is
\* launched again and again ends at some time; tasks run on.
Fairness ==
  /\ \A i \in 1 .. MaxEntries :
       WF_vars(i \in DOMAIN entries /\ StartWaiting(i))
  /\ \A a \in Agents : SF_vars(TurnEnds(a)) /\ WF_vars(Settle(a))
  /\ WF_vars(Repost)

FairSpec == Spec /\ Fairness

-----------------------------------------------------------------------------
(* Properties                                                              *)

\* "The message is not answered twice, which is the failure that matters in a
\* room": through settles that race, retries, background posts and restarts.
AtMostOnePost == Len(posts) <= 1

\* No answer is chosen while a voter of the vote may still answer: neither one
\* of the round nor the one a round before it added.  (A run the user retries
\* while a settle is under way is too late for it.)
NobodyStillVoting ==
  [][Len(posts') > Len(posts) /\ "retried" \notin meddled => LiveRuns = {}]_vars

\* A tie-breaking voter "posts only when it sides with an earlier voter, whose
\* answer is the one posted" (reaction.rs, vote_pool).  (A restart loses the
\* earlier ballots; the user may have the tie-breaker vote again.)
TieBreakersOnlyConfirm ==
  "retried" \notin meddled => \A k \in DOMAIN posts : \E i \in 1 .. Start : Pool[i] = posts[k].by

\* "Agreement needs two answers that agree": of two agents.
AgreementTakesTwoAgents ==
  \A k \in DOMAIN posts : posts[k].agreed => Cardinality(posts[k].group) >= 2

\* Agreement is of two agents as long as the user retries nothing: the drain
\* puts a turn back only when no turn of the message completed.
TwoAgentsUnlessRetried == "retried" \notin meddled => AgreementTakesTwoAgents

\* The answer of a voter whose run is recorded, as the board holds it.
Holds(a) ==
  /\ board.ballots[a] = "answer"
  /\ \E i \in DOMAIN entries : entries[i] = Entry(a, "Completed")

Held == \E a \in Agents : Holds(a)

Told == Answered \/ announced

\* A held answer is posted, or the room is told why not.
HeldAnswerPosted == Held /\ ~board.done ~> Told

\* A voter's turn ends while the settle that added it has not finished.
Overtaking ==
  \E a, b \in Agents :
    /\ task[a].stage = "finishing" /\ ~task[a].done
    /\ \/ task[b].stage = "ended"
       \/ task[b].stage = "read" /\ task[b].voters > task[a].voters

\* A held answer is posted, through any number of added voters, posts that
\* fail, busy conversations and voters that were refused: the last turn to end
\* settles the round (vote.rs, settle).  Not so when an added voter ended
\* before the settle that added it, when a waiting voter was withdrawn, when a
\* run of a round that is done was retried, or when a restart lost the board.
RoundsSettle == [](~Overtaking /\ meddled = {} /\ restarts = 0) => HeldAnswerPosted
=============================================================================
