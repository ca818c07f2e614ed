------------------------ MODULE RecoveryProperties ------------------------
(***************************************************************************)
(* What a restart keeps of what SearchProperties promises, and what it     *)
(* promises of its own.  Without Accidents; each of them breaks one.       *)
(***************************************************************************)
EXTENDS SearchRecovery

\* shutdown, "Stop every search this run started": once the application has shut down in
\* order, none of them is left to ask the railway for seats nobody would hear of.
ShutdownStopsAll ==
  phase = "down" /\ stopping => \A p \in Pids : ~Searching(p)

\* reconcile_after_restart: an application that serves has no record of an earlier run,
\* and no search of an earlier run is still going.
NothingLeftOver ==
  phase = "up" =>
    \A p \in earlier : ~Searching(p) /\ running[owner[p]] # p

\* A search of an earlier run that is over is one its chat has heard of.
NoSilentEnd ==
  phase = "up" => \A p \in earlier : told[p] # {}

\* A search picked up again, or reported as interrupted, had not come to an end of its
\* own: no second seat is booked for a chat that already has one.
TruthfulResume ==
  \A p \in Pids : told[p] \intersect {"resumed", "interrupted"} # {} => outcome[p] = "none"

\* start_reservation_process: "the offer needs a login to make good on".  A chat shown a
\* resume button can resume.
OfferHasLogin ==
  \A c \in Chats : phase = "up" /\ AtRest(c) /\ dead[c] = "resumable" => creds[c]

\* No search goes on with nothing tracking it, whichever run started it.  While the
\* application is down nothing is in anybody's hand.
NoOrphanAcrossRuns == phase = "up" => NoOrphan

\* The record of an earlier run does not stay: its chat is free to search again, or is
\* searching again.
StaleRecordSettled ==
  \A c \in Chats, p \in Pids : (running[c] = p /\ phase = "down") ~> (running[c] # p)
=============================================================================
