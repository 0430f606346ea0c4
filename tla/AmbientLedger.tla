--------------------------- MODULE AmbientLedger ---------------------------
(***************************************************************************)
(* What one device does with a message that nobody addressed               *)
(* (src/src/agent/reaction.rs drain_ambient, ledger.rs, and the runs it    *)
(* leaves in inbox.rs).  The drain decides each message once: it declines  *)
(* it, leaves it for later, or offers it to some of the agents that read   *)
(* the room.  When every run it made came to nothing it hands the message  *)
(* to agents not yet tried, puts back the runs that never started, or      *)
(* gives up and says so in the room.                                       *)
(*                                                                         *)
(* The model follows one message.  The drain is one synchronous function,  *)
(* but the worker, users and peers go on while it works, so it takes a     *)
(* step for what it reads, and one for each thing it writes.               *)
(***************************************************************************)
EXTENDS Naturals, Sequences, FiniteSets

CONSTANTS Listeners,     \* the agents that read the room
          Spoke,         \* those of them that spoke a moment ago
          Responders,    \* ambient_responders
          MaxAttempts,   \* ambient_max_attempts
          ExpiredLimit,  \* EXPIRED_REQUEUE_LIMIT, 3 in the code
          MaxRestarts,   \* bound: restarts of the daemon
          MaxMishaps     \* bound: runs a user retries, ledger lines that cannot
                         \* be written and claims on the message, together

ASSUME AmbientAssumption ==
  /\ IsFiniteSet(Listeners) /\ Listeners # {} /\ Spoke \subseteq Listeners
  /\ {Responders, MaxAttempts, ExpiredLimit} \subseteq Nat \ {0}
  /\ {MaxRestarts, MaxMishaps} \subseteq Nat

VARIABLES
  here,      \* the message is in this device's transcript
  answered,  \* so is an agent's reply to it
  noticed,   \* so is the notice that no agent could answer it
  held,      \* what keeps the drain from deciding
  quiet,     \* the listeners that spoke a moment ago
  decision,  \* the ledger's decision, in memory
  file,      \* the ledger's file: whether there is one, its lines on the message
  runs,      \* runs[a]: the inbox's entries for agent a, oldest first
  drain,     \* what the drain has read, and what it has left to do
  used,      \* how much of each bound was used
  cut        \* history: what a crash, a full disk or the throttle cut off

vars == <<here, answered, noticed, held, quiet, decision, file, runs, drain, used, cut>>
room == <<here, answered, noticed>>
surroundings == <<held, quiet>>
ledger == <<decision, file>>

\* The message it replies to has not synced; another device or a CLI agent
\* works on it; the warden has not answered.
Hold == {"orphan", "claim", "warden"}

\* Backlog, NoListener and most Skipped are `declined`; the Skipped that
\* replaces Offered when the agents are exhausted is `givenUp`.
Decision == {"offered", "declined", "givenUp", "preActivation"}
Undecided == "none"

Status == {"pending", "running", "completed", "failed", "interrupted", "expired", "cancelled"}
Live == {"pending", "running"}

Indices(a) == 1 .. Len(runs[a])
Last(s) == s[Len(s)]
IsLive(a) == runs[a] # <<>> /\ Last(runs[a]) \in Live
Has(a, S) == \E i \in Indices(a) : runs[a][i] \in S

\* The runs <<agent, place>> in one of some states.
Slots(S) == {k \in UNION {{<<a, i>> : i \in Indices(a)} : a \in Listeners} : runs[k[1]][k[2]] \in S}
Count(S) == Cardinality(Slots(S))

\* A user's retry, a lost line or a claim.
Mishap(what) ==
  /\ used.retries + used.lost + used.claims < MaxMishaps
  /\ used' = [used EXCEPT ![what] = @ + 1]

-----------------------------------------------------------------------------
(* What the drain reads                                                    *)

\* The ends that settle a message: an answer, even PASS, is one, a withdrawal
\* is a decision, and a live run has not finished failing.
Settling == Live \cup {"completed", "cancelled"}

\* Fault: only runs that started count.
ReopensRan ==
  /\ \A a \in Listeners : ~Has(a, Settling)
  /\ Count({"failed", "interrupted"}) > 0

\* unanswered_attempts is Some.
Reopens ==
  /\ \A a \in Listeners : ~Has(a, Settling)
  /\ \E a \in Listeners : runs[a] # <<>>

\* The fields of Unanswered, and whether it is answered, as of now.
Reading ==
  [fresh     |-> decision = Undecided,
   answered  |-> answered,
   offered   |-> {a \in Listeners : runs[a] # <<>>},
   executed  |-> Count({"failed", "interrupted"}),
   expired   |-> Count({"expired"}),
   unstarted |-> Slots({"expired"})]

\* Fault: one attempt more than is allowed.
SpentLate(seen) ==
  seen.executed > MaxAttempts \/ seen.expired >= ExpiredLimit * Cardinality(Listeners)

Spent(seen) ==
  seen.executed >= MaxAttempts \/ seen.expired >= ExpiredLimit * Cardinality(Listeners)

Untried(seen) == Listeners \ seen.offered

Nothing == [fresh |-> FALSE, answered |-> FALSE, offered |-> {}, executed |-> 0,
            expired |-> 0, unstarted |-> {}]

\* The steps of the drain: "read", "offering" to the agents that are left,
\* "requeueing" the runs that are left, "announcing".
Idle == [step |-> "idle", seen |-> Nothing, agents |-> {}, runs |-> {}, put |-> FALSE]
Announcing == [Idle EXCEPT !.step = "announcing"]
At(step) == drain.step = step

-----------------------------------------------------------------------------
(* The ledger                                                              *)

\* append: one more line, which also makes the file, or none when the disk
\* refuses it.
AppendLine(d) ==
  \/ /\ file' = [exists |-> TRUE, lines |-> Append(file.lines, d)]
     /\ UNCHANGED <<used, cut>>
  \/ /\ Mishap("lost")
     /\ cut' = cut \cup {"line"}
     /\ UNCHANGED file

\* settle; and record, where nothing was decided.
Settle(d) == decision' = d /\ AppendLine(d)

\* The first write of a decision on another message.
OtherDecision ==
  /\ ~file.exists
  /\ file' = [file EXCEPT !.exists = TRUE]
  /\ UNCHANGED <<room, surroundings, decision, runs, drain, used, cut>>

\* Fault: the first line on a message stands.
LoadedFirst(present) ==
  CASE ~file.exists /\ present  -> [d |-> "preActivation", f |-> [exists |-> TRUE, lines |-> <<"preActivation">>]]
    [] ~file.exists /\ ~present -> [d |-> Undecided, f |-> file]
    [] file.exists /\ present /\ file.lines # <<>> -> [d |-> Head(file.lines), f |-> [file EXCEPT !.lines = <<Head(@)>>]]
    [] file.exists /\ (~present \/ file.lines = <<>>) -> [d |-> Undecided, f |-> [file EXCEPT !.lines = <<>>]]

\* load: without a file, all that is in the transcript was there before the
\* device listened; otherwise the last line stands, if the message is there.
Loaded(present) ==
  CASE ~file.exists /\ present  -> [d |-> "preActivation", f |-> [exists |-> TRUE, lines |-> <<"preActivation">>]]
    [] ~file.exists /\ ~present -> [d |-> Undecided, f |-> file]
    [] file.exists /\ present /\ file.lines # <<>> -> [d |-> Last(file.lines), f |-> [file EXCEPT !.lines = <<Last(@)>>]]
    [] file.exists /\ (~present \/ file.lines = <<>>) -> [d |-> Undecided, f |-> [file EXCEPT !.lines = <<>>]]

-----------------------------------------------------------------------------
(* The room                                                                *)

Arrive ==
  /\ ~here
  /\ here' = TRUE
  /\ UNCHANGED <<answered, noticed, surroundings, ledger, runs, drain, used, cut>>

\* Another device's agent, or one a user started, replies.
AnsweredElsewhere ==
  /\ here /\ ~answered
  /\ answered' = TRUE
  /\ UNCHANGED <<here, noticed, surroundings, ledger, runs, drain, used, cut>>

\* A claim made on the message, its end, the arrival of what it replies to,
\* and the warden's answer.
Claim ==
  /\ here /\ "claim" \notin held
  /\ Mishap("claims")
  /\ held' = held \cup {"claim"}
  /\ UNCHANGED <<room, quiet, ledger, runs, drain, cut>>

Release(h) ==
  /\ h \in held
  /\ held' = held \ {h}
  /\ UNCHANGED <<room, quiet, ledger, runs, drain, used, cut>>

\* AMBIENT_QUIET_SECS after its last message.
Quieten(a) ==
  /\ a \in quiet
  /\ quiet' = quiet \ {a}
  /\ UNCHANGED <<room, held, ledger, runs, drain, used, cut>>

-----------------------------------------------------------------------------
(* The drain                                                               *)

\* The transcript and the inbox's entries, once for the whole drain.
Read ==
  /\ At("idle") /\ here
  /\ decision = Undecided \/ (decision = "offered" /\ Reopens)
  /\ drain' = [Idle EXCEPT !.step = "read", !.seen = Reading]
  /\ UNCHANGED <<room, surroundings, ledger, runs, used, cut>>

Fresh == At("read") /\ drain.seen.fresh
Reopened == At("read") /\ ~drain.seen.fresh

\* A cheap gate, an exchange with an agent, no listener, an answer, a backlog,
\* listeners that all just spoke, or the warden.
Decline ==
  /\ Fresh /\ "orphan" \notin held
  /\ Settle("declined")
  /\ drain' = Idle
  /\ UNCHANGED <<room, surroundings, runs>>

\* Left undecided, for the next drain.
Leave ==
  /\ Fresh /\ held # {}
  /\ drain' = Idle
  /\ UNCHANGED <<room, surroundings, ledger, runs, used, cut>>

\* Who may be chosen of a set: rotation and the warden take some that did not
\* just speak.
Choices(A) == {S \in SUBSET (A \ quiet) : S # {} /\ Cardinality(S) <= Responders}

\* offer_selected: the decision is written before anyone is admitted.
Offer(S) ==
  /\ Fresh /\ held = {} /\ ~drain.seen.answered
  /\ S \in Choices(Listeners)
  /\ Settle("offered")
  /\ drain' = [Idle EXCEPT !.step = "offering", !.agents = S]
  /\ UNCHANGED <<room, surroundings, runs>>

\* The same for a reopened message, where record changes nothing.
OfferAgain(S) ==
  /\ Reopened /\ ~Spent(drain.seen)
  /\ S \in Choices(Untried(drain.seen))
  /\ drain' = [Idle EXCEPT !.step = "offering", !.agents = S]
  /\ UNCHANGED <<room, surroundings, ledger, runs, used, cut>>

\* Everyone untried just spoke: the next drain looks again.
LeaveReopened ==
  /\ Reopened /\ ~Spent(drain.seen)
  /\ Untried(drain.seen) # {} /\ Untried(drain.seen) \subseteq quiet
  /\ drain' = Idle
  /\ UNCHANGED <<room, surroundings, ledger, runs, used, cut>>

\* The rest of the agents, or the end of the drain.
Offered(a) ==
  IF drain.agents = {a} THEN Idle ELSE [drain EXCEPT !.agents = @ \ {a}]

\* dispatch and Inbox::admit.  An agent that has an entry is a Duplicate; a
\* full queue expires the entry and a spent relay budget cancels it.
Dispatch(a) ==
  /\ At("offering") /\ a \in drain.agents
  /\ IF runs[a] # <<>> THEN UNCHANGED runs
     ELSE \E st \in {"pending", "expired", "cancelled"} :
            runs' = [runs EXCEPT ![a] = <<st>>]
  /\ drain' = Offered(a)
  /\ UNCHANGED <<room, surroundings, ledger, used, cut>>

\* dispatch leaves no entry: the device is set to pull, the agent is configured
\* no more, an imported marker says it was handled, or the inbox cannot be
\* written.  An offer that ends without any entry is never looked at again.
Refuse(a) ==
  /\ At("offering") /\ a \in drain.agents /\ runs[a] = <<>>
  /\ drain' = Offered(a)
  /\ cut' = cut \cup {w \in {"offer"} : drain.agents = {a} /\ \A b \in Listeners : runs[b] = <<>>}
  /\ UNCHANGED <<room, surroundings, ledger, runs, used>>

Exhausted(seen) == Spent(seen) \/ (Untried(seen) = {} /\ seen.unstarted = {})

GiveUp ==
  /\ Reopened /\ Exhausted(drain.seen)
  /\ Settle("givenUp")
  /\ drain' = Announcing
  /\ UNCHANGED <<room, surroundings, runs>>

\* Every listener had a go: the runs that never started are put back, each of
\* them, however many an agent has.
PutBack ==
  /\ Reopened /\ ~Exhausted(drain.seen) /\ Untried(drain.seen) = {}
  /\ drain' = [Idle EXCEPT !.step = "requeueing", !.runs = drain.seen.unstarted]
  /\ UNCHANGED <<room, surroundings, ledger, runs, used, cut>>

\* The rest of the runs, or the end of the drain.
Considered(k, rest) ==
  IF drain.runs = {k} THEN Idle ELSE [rest EXCEPT !.runs = @ \ {k}]

\* Fault: whether the agent has a live run is not asked again.
RequeueUnchecked(k) ==
  /\ At("requeueing") /\ k \in drain.runs
  /\ runs' = [runs EXCEPT ![k[1]] = Append(@, "pending")]
  /\ drain' = Considered(k, [drain EXCEPT !.put = TRUE])
  /\ UNCHANGED <<room, surroundings, ledger, used, cut>>

\* Inbox::retry of an expired run, a new entry of its agent.
Requeue(k) ==
  /\ At("requeueing") /\ k \in drain.runs /\ ~IsLive(k[1])
  /\ runs' = [runs EXCEPT ![k[1]] = Append(@, "pending")]
  /\ drain' = Considered(k, [drain EXCEPT !.put = TRUE])
  /\ UNCHANGED <<room, surroundings, ledger, used, cut>>

\* It refuses an agent with a live run, a full queue, a spent relay budget and
\* an inbox that cannot be written.  When no run could be put back the message
\* is given up.
RefuseRequeue(k) ==
  /\ At("requeueing") /\ k \in drain.runs
  /\ IF drain.runs = {k} /\ ~drain.put
       THEN Settle("givenUp") /\ drain' = Announcing
       ELSE drain' = Considered(k, drain) /\ UNCHANGED <<ledger, used, cut>>
  /\ UNCHANGED <<room, surroundings, runs>>

\* announce_unanswered: nothing when the message was answered after all.
Announce ==
  /\ At("announcing")
  /\ noticed' = (noticed \/ ~answered)
  /\ drain' = Idle
  /\ UNCHANGED <<here, answered, surroundings, ledger, runs, used, cut>>

\* ANNOUNCE_THROTTLE_SECS after the same notice on another message.
Throttle ==
  /\ At("announcing") /\ ~answered
  /\ cut' = cut \cup {"notice"}
  /\ drain' = Idle
  /\ UNCHANGED <<room, surroundings, ledger, runs, used>>

-----------------------------------------------------------------------------
(* The runs                                                                *)

WithLast(a, st) == [runs EXCEPT ![a][Len(runs[a])] = st]
LastIs(a, st) == runs[a] # <<>> /\ Last(runs[a]) = st

\* Changes only the last entry of a, from one of S to st.
Turn(a, from, st) ==
  /\ LastIs(a, from)
  /\ runs' = WithLast(a, st)
  /\ UNCHANGED <<room, surroundings, ledger, drain, used, cut>>

\* run_next_cancellable, after launch_rejection found nothing.
Launch(a) ==
  /\ ~answered /\ "claim" \notin held
  /\ Turn(a, "pending", "running")

\* An answer, a claim by someone who was not offered it, a stopped cascade, a
\* spent budget, an agent that reads the room no more, or the user.
Withdraw(a) == Turn(a, "pending", "cancelled")

\* Another request takes its place in the queue.
Displace(a) == Turn(a, "pending", "expired")

\* The turn posts what it has to say, before it ends.  (That a is then quiet
\* changes nothing: it is not offered this message again.)
Reply(a) ==
  /\ LastIs(a, "running") /\ ~answered
  /\ answered' = TRUE
  /\ UNCHANGED <<here, noticed, surroundings, ledger, runs, drain, used, cut>>

\* It completes, with a reply or a PASS, fails, or is stopped.
End(a) == \E st \in {"completed", "failed", "cancelled"} : Turn(a, "running", st)

\* No process was launched: back in the queue, if there is room.
Busy(a) == \E st \in {"pending", "expired"} : Turn(a, "running", st)

\* A user retries a run that ended badly.
UserRetry(a) ==
  /\ Has(a, {"failed", "interrupted", "expired", "cancelled"}) /\ ~IsLive(a)
  /\ Mishap("retries")
  /\ runs' = [runs EXCEPT ![a] = Append(@, "pending")]
  /\ UNCHANGED <<room, surroundings, ledger, drain, cut>>

\* Inbox::open, on the ambient entries.
AfterRestart(st) ==
  CASE st = "running" -> "interrupted"
    [] st = "pending" -> "expired"
    [] st \notin Live -> st

\* The daemon stops at any point and starts.  What reached the transcript since
\* its last save is lost, until a peer sends it again.
Restart ==
  /\ used.restarts < MaxRestarts
  /\ used' = [used EXCEPT !.restarts = @ + 1]
  /\ \E kept \in BOOLEAN :
       /\ here' = (here /\ kept)
       /\ answered' = (answered /\ kept)
       /\ noticed' = (noticed /\ kept)
       /\ decision' = Loaded(here').d
       /\ file' = Loaded(here').f
       /\ cut' = cut
            \cup {w \in {"offer"} : At("offering") /\ \A a \in Listeners : runs[a] = <<>>}
            \cup {w \in {"notice"} : At("announcing")}
            \cup {w \in {"transcript"} : here /\ ~kept}
  /\ runs' = [a \in Listeners |-> [i \in Indices(a) |-> AfterRestart(runs[a][i])]]
  /\ drain' = Idle
  /\ UNCHANGED surroundings

-----------------------------------------------------------------------------
Init ==
  /\ here = FALSE /\ answered = FALSE /\ noticed = FALSE
  /\ held \in SUBSET {"orphan", "warden"}
  /\ quiet = Spoke
  /\ decision = Undecided
  /\ file \in [exists : BOOLEAN, lines : {<<>>}]
  /\ runs = [a \in Listeners |-> <<>>]
  /\ drain = Idle
  /\ used = [restarts |-> 0, retries |-> 0, lost |-> 0, claims |-> 0]
  /\ cut = {}

DecideFresh == Decline \/ Leave \/ \E S \in SUBSET Listeners : Offer(S)

DecideReopened ==
  \/ LeaveReopened \/ GiveUp \/ PutBack
  \/ \E S \in SUBSET Listeners : OfferAgain(S)

Proceed ==
  \/ DecideFresh \/ DecideReopened
  \/ \E a \in Listeners : Dispatch(a) \/ Refuse(a)
  \/ \E k \in drain.runs : Requeue(k) \/ RefuseRequeue(k)
  \/ Announce \/ Throttle

Room == Arrive \/ AnsweredElsewhere \/ Claim \/ OtherDecision

Next ==
  \/ Room
  \/ \E h \in Hold : Release(h)
  \/ Read \/ Proceed
  \/ \E a \in Listeners :
       \/ Quieten(a) \/ Launch(a) \/ Withdraw(a) \/ Displace(a)
       \/ Reply(a) \/ End(a) \/ Busy(a) \/ UserRetry(a)
  \/ Restart

Spec == Init /\ [][Next]_vars

\* The loop drains at every tick and its drain ends; the worker takes up what
\* is pending; a turn that is put back again and again ends at some time; a
\* claim and the quiet time expire; the warden answers, if by its fallback.
Fairness ==
  /\ WF_vars(Read) /\ WF_vars(Proceed)
  /\ WF_vars(Release("claim")) /\ WF_vars(Release("warden"))
  /\ \A a \in Listeners :
       /\ WF_vars(Quieten(a))
       /\ WF_vars(Launch(a) \/ Withdraw(a))
       /\ SF_vars(End(a))

FairSpec == Spec /\ Fairness

-----------------------------------------------------------------------------
(* Properties                                                              *)

TypeOK ==
  /\ {here, answered, noticed} \subseteq BOOLEAN
  /\ held \subseteq Hold /\ quiet \subseteq Listeners
  /\ decision \in Decision \cup {Undecided}
  /\ file.exists \in BOOLEAN /\ \A i \in 1 .. Len(file.lines) : file.lines[i] \in Decision
  /\ \A a \in Listeners : \A i \in Indices(a) :
       runs[a][i] \in (IF i = Len(runs[a]) THEN Status ELSE Status \ Live)
  /\ drain.step \in {"idle", "read", "offering", "requeueing", "announcing"}
  /\ drain.agents \subseteq Listeners
  /\ drain.runs \subseteq Listeners \X Nat
  /\ cut \subseteq {"offer", "notice", "line", "transcript"}

\* How many turns one message may cost (reaction.rs:602, ambient_max_attempts):
\* however often the device restarts, and whatever it expires and puts back,
\* no more start than one of every listener, or than one short of the attempts
\* allowed and one for each run but one of the rounds that may expire: every
\* run that expired is put back, also when another of its agent's has failed
\* meanwhile.  A user's retries and decisions lost with the ledger's line or
\* the transcript are not counted against it.
Started == {"running", "completed", "failed", "interrupted"}
TurnLimit ==
  LET round == Cardinality(Listeners)
      reopened == (MaxAttempts - 1) + (ExpiredLimit * round - 1)
  IN IF reopened < round THEN round ELSE reopened
TurnsBounded ==
  used.retries = 0 /\ cut \cap {"line", "transcript"} = {} => Count(Started) <= TurnLimit

\* A run is added by the device itself when no user asked for it.
Added(a) == Len(runs'[a]) > Len(runs[a]) /\ used'.retries = used.retries

\* The room was told that no agent could answer (reaction.rs:1796): the device
\* starts nothing more on the message of its own accord, across restarts too.
NoTurnAfterNotice ==
  [][noticed /\ cut \cap {"line", "transcript"} = {} => \A a \in Listeners : ~Added(a)]_vars

\* What a reader of the room may count on.
Settled ==
  \/ answered \/ noticed \/ decision = "declined"
  \/ \E a \in Listeners : Has(a, {"completed", "cancelled"})

\* The known ways to lose a message: it was there before there was a ledger, it
\* was offered and a crash or a refusal left no agent an entry, or the notice
\* was cut off or throttled.
Lost == decision = "preActivation" \/ cut \cap {"offer", "notice"} # {}

\* A message in the transcript is in the end declined, answered, considered by
\* an agent, withdrawn or given up aloud, whatever fails and restarts; unless
\* offers to agents not yet tried go on to be refused, at every drain again.
RefusalsEnd == <>[][\A a \in Listeners : ~Refuse(a)]_vars
NothingForgotten ==
  RefusalsEnd => ((here /\ "orphan" \notin held) ~> (Settled \/ Lost \/ ~here))

\* docs/development/reference/execution-inbox.md:41: no automatic retry of an
\* interrupted run, since its effects may already have happened.
InterruptedNotRepeated ==
  [][\A a \in Listeners : Added(a) => ~Has(a, {"interrupted"})]_vars
=============================================================================
