------------------------- MODULE SearchProperties -------------------------
(***************************************************************************)
(* What SearchLifecycle promises.  The first group holds however the       *)
(* threads interleave; the second needs one request thread at a time and   *)
(* the schedules SearchLifecycle!Scenarios leaves out, and the runs that   *)
(* admit them show which promise each one breaks.                          *)
(***************************************************************************)
EXTENDS SearchLifecycle

TypeOK ==
  /\ running  \in [Chats -> Pids \union {NoPid}]
  /\ dead     \in [Chats -> Dead]
  /\ creds    \in [Chats -> BOOLEAN]
  /\ session  \in [Chats -> {"IDLE", "FINDING"}]
  /\ proc     \in [Pids -> ProcState]
  /\ owner    \in [Pids -> Chats]
  /\ outcome  \in [Pids -> {"none", "booked", "failed"}]
  /\ callback \in [Pids -> CbState]
  /\ children \in SUBSET Pids
  /\ earlier  \in SUBSET Pids
  /\ stopping \in BOOLEAN
  /\ pc       \in [Threads -> PC]
  /\ mode     \in [Threads -> {"booking", "resume"}]
  /\ chat     \in [Threads -> Chats]
  /\ pid      \in [Threads -> Pids \union {NoPid}]
  /\ seen     \in [Threads -> [Chats -> Pids \union {NoPid}]]
  /\ told     \in [Pids -> SUBSET Reports]

-----------------------------------------------------------------------------
(* However the threads interleave *)

\* Every search of this run that is still alive has its handle in _children: shutdown,
\* which goes by the handles, reaches it even when its record is lost.
EveryChildHasHandle ==
  \A p \in Pids : Alive(p) /\ p \notin earlier => p \in children

\* A chat told that its search was cancelled, by itself or by the administrator, has no
\* such process any more; and no late step of the start brings the record back.
CancelledStaysGone ==
  \A p \in Pids : /\ "cancelled" \in told[p] => Exited(p) /\ running[owner[p]] # p
                  /\ "swept" \in told[p] => Exited(p)

\* A search is reported dead, on the way up or later, only when its process is gone.
NoLiveSearchReportedDead ==
  \A p \in Pids : told[p] \intersect {"crashed", "start_failed"} # {} => Exited(p)

\* A record whose process is gone does not stay: its chat, refused a new search for as
\* long as it is there, is told and can start again.
DeadRecordCleared ==
  \A c \in Chats, p \in Pids :
    (running[c] = p /\ Exited(p)) ~> (running[c] # p)

-----------------------------------------------------------------------------
(* One request thread, no overlap between one search of a chat and the next *)

\* Somebody is about to record the process, or about to stop it.
InHand(p) ==
  \E t \in Users : pid[t] = p /\ pc[t] \in {"confirm", "cancel_delete", "cancel_kill"}

\* _may_start: no search goes on with nothing tracking it, out of reach of /cancel.
NoOrphan ==
  \A p \in Pids : Searching(p) => running[owner[p]] = p \/ InHand(p)

\* A chat never has two processes asking the railway for seats on its account.
OneSearchPerChat ==
  \A p, q \in Pids : Searching(p) /\ Searching(q) /\ owner[p] = owner[q] => p = q

\* detect_dead_searches: a search reported as crashed did crash; it was not stopped on
\* purpose and did not end by itself.
TruthfulCrash ==
  \A p \in Pids : "crashed" \in told[p] => proc[p] = "crashed"

\* Nothing is under way for the chat: no request, no watchdog pass over its record, no callback.
AtRest(c) ==
  /\ \A t \in Threads : (pc[t] # "idle" /\ (t \in Users \/ pc[t] # "pass")) => chat[t] # c
  /\ \A t \in Users : seen[t][c] = NoPid
  /\ \A p \in Pids : owner[p] = c => Served(p)

\* What a restart needs to resume a recorded search is there for as long as it is recorded.
RecordedKeepsLogin ==
  \A c \in Chats : KeepsLogin /\ running[c] # NoPid /\ AtRest(c) => creds[c]

\* A session that says a search is running, and so turns every booking away, is backed
\* by a record that /cancel, /status and the watchdog can find.
SessionAgrees ==
  \A c \in Chats : session[c] = "FINDING" /\ AtRest(c) => running[c] # NoPid

\* A search whose end the chat was told of is not recorded once its callback is served.
FinishedNotRecorded ==
  \A p \in Pids : callback[p] = "done" => running[owner[p]] # p
=============================================================================
