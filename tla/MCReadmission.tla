--------------------------- MODULE MCReadmission ---------------------------
(* Instances of Readmission for TLC.                                       *)
EXTENDS Readmission

CONSTANTS a, m, j

\* A restart, a lost connection and a busy document, and time to recover.
Troubled ==
  [present |-> {a}, holders |-> {a}, auto |-> TRUE, screens |-> {"admits"},
   prompt |-> TRUE, tombstoned |-> TRUE,
   epochs |-> 7, keys |-> 6, busy |-> 1, restarts |-> 1, drops |-> 1]

\* Two key holders, and a removal and a return.
Crowded ==
  [present |-> {a, m}, holders |-> {a, m}, auto |-> TRUE, screens |-> {"admits"},
   prompt |-> TRUE, tombstoned |-> FALSE,
   epochs |-> 4, keys |-> 3, busy |-> 0, restarts |-> 0, drops |-> 0]

\* Tasks that any number of snapshots overtake.
Overtaken == [Troubled EXCEPT !.prompt = FALSE, !.busy = 0, !.restarts = 0]

\* Requests that are screened out, for a while or for good.
Screened ==
  [present |-> {a}, holders |-> {a}, auto |-> TRUE, screens |-> Screens,
   prompt |-> TRUE, tombstoned |-> FALSE,
   epochs |-> 5, keys |-> 4, busy |-> 0, restarts |-> 1, drops |-> 0]

\* An Admin that approves by hand only.
Manual == [Screened EXCEPT !.auto = FALSE, !.screens = {"admits", "distrusted"}, !.restarts = 0]

Circumstances == {Troubled, Crowded, Overtaken, Screened, Manual}
=============================================================================
