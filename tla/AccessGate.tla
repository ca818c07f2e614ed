----------------------------- MODULE AccessGate -----------------------------
(***************************************************************************)
(* Who may run a search (AccessService).                                   *)
(*                                                                         *)
(* The gate hangs off the phone number, not the chat.  It is asked when a  *)
(* booking is confirmed and charged when the search really runs; the two   *)
(* are Redis commands of their own with the start of a process in between. *)
(***************************************************************************)
EXTENDS ChatSession, Integers

CONSTANTS
  TrialLimit,    \* TRIAL_SEARCH_LIMIT: below zero, the trial never runs out
  Preapproved    \* PREAPPROVED_USERS, Settings.is_preapproved

ASSUME GateAssumption == TrialLimit \in Int /\ Preapproved \subseteq Numbers

VARIABLES
  trial,     \* trial_count:<hash>
  approved,  \* approved users
  requests   \* pending access requests

gate == <<trial, approved, requests>>

Levels == {"developer", "approved", "trial", "exhausted"}

GateInit ==
  /\ trial    = [n \in Numbers |-> 0]
  /\ approved = {}
  /\ requests = {}

NoLimit == TrialLimit < 0

\* evaluate
EvaluatedOffByOne(n, is_developer) ==
  IF is_developer THEN "developer"
  ELSE IF n \in Preapproved \union approved THEN "approved"
  ELSE IF NoLimit \/ trial[n] <= TrialLimit THEN "trial" ELSE "exhausted"
Evaluated(n, is_developer) ==
  IF is_developer THEN "developer"
  ELSE IF n \in Preapproved \union approved THEN "approved"
  ELSE IF NoLimit \/ trial[n] < TrialLimit THEN "trial" ELSE "exhausted"

\* consume: a trial that is limited counts
Counts(level) == level = "trial" /\ ~NoLimit
ConsumedFromWhatIsLeft(n, level) == [trial EXCEPT ![n] = IF Counts(level) THEN @ - 1 ELSE @]
Consumed(n, level) == [trial EXCEPT ![n] = IF Counts(level) THEN @ + 1 ELSE @]

\* request_access: one pending request per number
RequestAccess(n) ==
  /\ requests' = requests \union {n}
  /\ UNCHANGED <<trial, approved>>

\* approve, reject: the request goes either way
Approve(n) ==
  /\ n \in requests
  /\ approved' = approved \union {n}
  /\ requests' = requests \ {n}
  /\ UNCHANGED trial

Reject(n) ==
  /\ n \in requests
  /\ requests' = requests \ {n}
  /\ UNCHANGED <<trial, approved>>

\* revoke: the trial count stays where it is
Revoke(n) ==
  /\ n \in approved
  /\ approved' = approved \ {n}
  /\ UNCHANGED <<trial, requests>>
=============================================================================
