----------------------------- MODULE LiveBoard -----------------------------
(***************************************************************************)
(* From a stored rate to what the page shows: CorrectnessPipeline together *)
(* with the ingester's flush_snapshots, for one submission, in             *)
(* services/ingester/main.py, and fetchLeaderboard of                      *)
(* services/frontend/src/lib/redis.ts.  How windows are counted is in      *)
(* Ingester; here a window has events or has none.  The other three scores *)
(* of an entry are the same for all, so that its rate decides its place.   *)
(***************************************************************************)
EXTENDS CorrectnessPipeline

VARIABLES
  consumed,  \* events counted in a window so far
  window,    \* are there any in the open one
  flusher,   \* "sleep" "summary" "rate" "publish" "reset"
  read,      \* the rate it has read
  board      \* the rates of the members of leaderboard

boardVars == <<consumed, window, flusher, read, board>>
allVars == <<vars, boardVars>>

BoardInit ==
  /\ Init
  /\ consumed = 0 /\ window = FALSE
  /\ flusher = "sleep" /\ read = None /\ board = {}

---------------------------------------------------------------------------
Flushing(from, to) == flusher = from /\ flusher' = to

\* consume_loop has read what there is of events:<sid>.
CountEvents ==
  /\ setup.shown /\ consumed < events
  /\ consumed' = events /\ window' = TRUE
  /\ UNCHANGED <<vars, flusher, read, board>>

\* A snapshot of a window with events; the name and the errors come first.
TakeSnapshot ==
  /\ Flushing("sleep", "summary")
  /\ window
  /\ UNCHANGED <<vars, consumed, window, read, board>>

\* Variant for mutation runs: what was read once is read no more.
ReadSummary_Once ==
  /\ flusher = "summary"
  /\ flusher' = IF summary = None /\ read = None THEN "rate" ELSE "publish"
  /\ read' = IF read = None THEN summary ELSE read
  /\ UNCHANGED <<vars, consumed, window, board>>

\* _correctness_rate: the JSON, if there is one.
ReadSummary ==
  /\ flusher = "summary"
  /\ flusher' = IF summary = None THEN "rate" ELSE "publish"
  /\ read' = summary
  /\ UNCHANGED <<vars, consumed, window, board>>

\* Otherwise the hash, and full marks if that is not there either.
ReadRate ==
  /\ Flushing("rate", "publish")
  /\ read' = IF score = None THEN <<1, 1>> ELSE score.rate
  /\ UNCHANGED <<vars, consumed, window, board>>

\* zadd: a member more.
PublishEntry ==
  /\ Flushing("publish", "reset")
  /\ board' = board \cup {read}
  /\ UNCHANGED <<vars, consumed, window, read>>

ResetWindow ==
  /\ Flushing("reset", "sleep")
  /\ window' = FALSE
  /\ UNCHANGED <<vars, consumed, read, board>>

Flush == TakeSnapshot \/ ReadSummary \/ ReadRate \/ PublishEntry \/ ResetWindow

BoardNext == (Next /\ UNCHANGED boardVars) \/ CountEvents \/ Flush

BoardSpec == BoardInit /\ [][BoardNext]_allVars

\* As for the pipeline, and the ingester's coroutines run.
BoardFairSpec ==
  /\ BoardSpec
  /\ WF_allVars(Bot /\ UNCHANGED boardVars) /\ WF_allVars(Poll /\ UNCHANGED boardVars)
  /\ WF_allVars(CountEvents) /\ WF_allVars(Flush)

---------------------------------------------------------------------------
(* Properties. *)

\* fetchLeaderboard: all members, the best rate first.
Top(rate) == rate \in board /\ \A r \in board : r[1] * rate[2] <= rate[1] * r[2]

\* A validated rate gets on the board as long as there is an event to be flushed
\* after it, whatever the flusher has read, published and wiped before: an echo
\* gets an entry with half the points at most.
ValidatedIsShown ==
  ~Honest /\ Partial(summary) /\ flusher = "sleep" /\ window ~> \E r \in board : Partial(r)

\* What leads the board for an echo whose completed test has been validated is
\* partial credit.
EchoTopIsPartial ==
  ~Honest /\ completedValidated /\ Partial(summary)
    => \A rate \in board : Top(rate) => Partial(rate)
=============================================================================
