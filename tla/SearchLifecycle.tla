------------------------- MODULE SearchLifecycle -------------------------
(***************************************************************************)
(* A search, from the button that starts it to the last trace of it.       *)
(*                                                                         *)
(* The application keeps one record per chat in Redis (running, dead,      *)
(* creds, session) and one child process per search.  Request threads      *)
(* (Telegram poller, Mini App) book, resume, discard and cancel; the       *)
(* watchdog thread buries records whose process is gone; the child reports *)
(* its end over HTTP and a Flask thread serves that callback.  None of     *)
(* them takes a lock: every step below is one Redis command, one system    *)
(* call, or reads and a write with nothing slow in between.                *)
(***************************************************************************)
EXTENDS Naturals, FiniteSets

CONSTANTS
  Chats,        \* Telegram chats
  Pids,         \* search processes; the kernel never reuses one in a behaviour
  Users,        \* threads that run users' requests: the poller and the Mini App's
  Poller,       \* the one that serves the chats; only chats resume, discard and cancel all
  Watchdog,     \* the thread of SearchWatchdogService
  NoPid,        \* no process: an absent record, an unused local
  Limit,        \* MAX_CONCURRENT_SEARCHES, 0 for none
  KeepsLogin,   \* RESUME_ON_RESTART
  Scenarios     \* which unlikely schedules the instance admits, see below

Threads == Users \union {Watchdog}

(***************************************************************************)
(* "late_pass":     a chat starts a search while a watchdog pass over an   *)
(*                  earlier one is still under way                         *)
(* "late_callback": the same while a callback of an earlier one is served  *)
(* "early_exit":    a child ends before the call that started it returns   *)
(*                  (a death inside the start grace is always admitted)    *)
(* "slow_callback": the child's ten-second timeout on its callback expires *)
(* "cancel_all":    the administrator cancels every search                 *)
(***************************************************************************)
AllScenarios == {"late_pass", "late_callback", "early_exit", "slow_callback", "cancel_all"}

ASSUME LifecycleAssumption ==
  /\ Poller \in Users
  /\ Watchdog \notin Users
  /\ NoPid \notin Pids
  /\ Limit \in Nat
  /\ KeepsLogin \in BOOLEAN
  /\ Scenarios \subseteq AllScenarios

VARIABLES
  running,   \* RunningReservation per chat, by the process it names
  dead,      \* DeadSearch per chat: none, resumable, or with no login left
  creds,     \* is a login kept for the chat's search
  session,   \* UserSession.last_action: FINDING_TICKET or anything else
  proc,      \* the operating system's view of each search process
  owner,     \* the chat a process searches for (argv)
  outcome,   \* what the process reported through its callback
  callback,  \* where the Flask thread serving that callback is
  children,  \* ReservationService._children
  earlier,   \* processes of earlier runs: what a record's run_id tells apart
  stopping,  \* ReservationService._shutting_down
  pc,        \* per thread: the step of its operation it is about to take
  mode,      \* per thread: booking or resuming
  chat,      \* per thread: the chat it works for
  pid,       \* per thread: the process it works on
  seen,      \* per thread: the snapshot of the records it iterates over
  told       \* history: what the chat was told about each search

store    == <<running, dead, creds, session>>
system   == <<proc, owner, outcome, callback>>
service  == <<children, earlier, stopping>>
locals   == <<pc, mode, chat, pid, seen>>
vars     == <<store, system, service, locals, told>>

Exits     == {"crashed", "killed", "finished"}
ProcState == {"unborn", "searching", "calling", "watching"} \union Exits
Dead      == {"none", "resumable", "lost"}
Reports   == {"booked", "failed", "start_failed", "crashed", "cancelled", "swept",
              "resumed", "interrupted"}
CbState   == {"none", "tell", "drop", "forget", "done"}
PC        == {"idle", "start", "confirm", "settle", "stamp", "unbook",
              "bury_save", "bury_delete", "cancel_delete", "cancel_kill", "cancel_clean",
              "sweep", "sweep_delete", "pass"}

Exited(p)    == proc[p] \in Exits
Alive(p)     == proc[p] \in {"searching", "calling", "watching"}
Searching(p) == proc[p] = "searching"
Served(p)    == callback[p] \in {"none", "done"}

NoRecords == [c \in Chats |-> NoPid]

-----------------------------------------------------------------------------
(* Schedules an instance leaves out *)

\* Nothing is under way about an earlier search of the chat.
Quiet(c) ==
  /\ "late_pass" \in Scenarios \/
       /\ seen[Watchdog][c] = NoPid
       /\ pc[Watchdog] \in {"bury_save", "bury_delete"} => chat[Watchdog] # c
  /\ "late_callback" \in Scenarios \/
       \A p \in Pids : owner[p] = c => Served(p)

\* The call that started the process is over, or has got no further than `steps`.
Returned(p, steps) ==
  \/ "early_exit" \in Scenarios
  \/ \A t \in Users : pid[t] = p => pc[t] \notin {"confirm", "settle", "stamp"} \ steps

-----------------------------------------------------------------------------
(* Building blocks *)

Init ==
  /\ running  = NoRecords
  /\ dead     = [c \in Chats |-> "none"]
  /\ creds    = [c \in Chats |-> FALSE]
  /\ session  = [c \in Chats |-> "IDLE"]
  /\ proc     = [p \in Pids |-> "unborn"]
  /\ outcome  = [p \in Pids |-> "none"]
  /\ callback = [p \in Pids |-> "none"]
  /\ children = {}
  /\ earlier  = {}
  /\ stopping = FALSE
  /\ pc       = [t \in Threads |-> "idle"]
  /\ mode     = [t \in Threads |-> "booking"]
  /\ pid      = [t \in Threads |-> NoPid]
  /\ seen     = [t \in Threads |-> NoRecords]
  /\ told     = [p \in Pids |-> {}]
  \* what a process not yet born or an idle thread would name means nothing
  /\ \E c \in Chats : /\ owner = [p \in Pids |-> c]
                      /\ chat  = [t \in Threads |-> c]

Goto(t, from, to) ==
  /\ pc[t] = from
  /\ pc' = [pc EXCEPT ![t] = to]

\* The operation is over and the thread's locals with it.
Return(t, from) ==
  /\ Goto(t, from, "idle")
  /\ pid'  = [pid EXCEPT ![t] = NoPid]
  /\ mode' = [mode EXCEPT ![t] = "booking"]

\* _reap_children
ReapedWhileCalling == {p \in children : Searching(p)}
Unreaped == {p \in children : ~Exited(p)}

\* _owns_process: /proc still lists the process as one of our searches.  Where there is a
\* /proc and it can be read; a host without one, or a read that fails, is left out.
OwnsAnything(p) == TRUE
OwnsSearching(p) == Searching(p)
OwnsProcess(p) == Alive(p)

\* _under_concurrency_limit
UnderLimit == Limit = 0 \/ Cardinality({c \in Chats : running[c] # NoPid}) < Limit

\* _terminate_search_process: SIGTERM, then SIGKILL; a process already gone is left alone
SigtermIgnored(p) == [proc EXCEPT ![p] = IF proc[p] = "calling" THEN "killed" ELSE @]
Terminated(p) == [proc EXCEPT ![p] = IF OwnsProcess(p) THEN "killed" ELSE @]

\* the _announce_* and send_message calls: what the chat now knows about p
Told(p, what) == told' = [told EXCEPT ![p] = @ \union {what}]

-----------------------------------------------------------------------------
(* start_booking and start_reservation_process *)

\* The surface asked for the booking turns away a chat whose session is FINDING_TICKET.
BookBegin(t, c) ==
  /\ Goto(t, "idle", "start")
  /\ session[c] # "FINDING"
  /\ chat' = [chat EXCEPT ![t] = c]
  /\ UNCHANGED <<store, system, service, mode, pid, seen, told>>

\* save_resume_credentials, before the start is confirmed
LoginNotKept(c) == creds
LoginKept(c) == [creds EXCEPT ![c] = @ \/ KeepsLogin]

\* Popen, the handle, and the login a restart would need
Spawn(t, c) ==
  /\ \E p \in Pids :
       /\ proc[p] = "unborn"
       /\ proc'     = [proc EXCEPT ![p] = "searching"]
       /\ owner'    = [owner EXCEPT ![p] = c]
       /\ children' = Unreaped \union {p}
       /\ pid'      = [pid EXCEPT ![t] = p]
  /\ creds' = LoginKept(c)
  /\ UNCHANGED <<running, outcome, callback, earlier, stopping, seen, told>>

\* _may_start and _under_concurrency_limit
MayStartUnrecorded(c) == UnderLimit
MayStart(c) == running[c] = NoPid /\ UnderLimit

BookStart(t) ==
  /\ MayStart(chat[t])
  /\ Quiet(chat[t])
  /\ Goto(t, "start", "confirm")
  /\ Spawn(t, chat[t])
  /\ session' = [session EXCEPT ![chat[t]] = "FINDING"]
  /\ UNCHANGED <<dead, mode, chat>>

BookRefused(t) ==
  /\ ~MayStart(chat[t])
  /\ Goto(t, "start", "unbook")
  /\ session' = [session EXCEPT ![chat[t]] = "FINDING"]
  /\ children' = Unreaped
  /\ UNCHANGED <<running, dead, creds, system, earlier, stopping, mode, chat, pid, seen, told>>

\* resume_dead_search: the dead record goes first, and nothing looks for a running one.
Resume(t, c) ==
  /\ dead[c] # "none"
  /\ creds[c]
  /\ Quiet(c)
  /\ Goto(t, "idle", "confirm")
  /\ Spawn(t, c)
  /\ dead' = [dead EXCEPT ![c] = "none"]
  /\ mode' = [mode EXCEPT ![t] = "resume"]
  /\ chat' = [chat EXCEPT ![t] = c]
  /\ UNCHANGED session

ResumeWithoutLogin(t, c) ==
  /\ pc[t] = "idle"
  /\ dead[c] # "none"
  /\ ~creds[c]
  /\ dead' = [dead EXCEPT ![c] = "none"]
  /\ UNCHANGED <<running, creds, session, system, service, locals, told>>

\* _confirm_started, and the record once the grace is over
Confirm(t) ==
  /\ Goto(t, "confirm", "settle")
  /\ ~Exited(pid[t])
  /\ running' = [running EXCEPT ![chat[t]] = pid[t]]
  /\ UNCHANGED <<dead, creds, session, system, service, mode, chat, pid, seen, told>>

StartFailed(t) ==
  /\ Goto(t, "confirm", "bury_save")
  /\ Exited(pid[t])
  /\ children' = children \ {pid[t]}
  /\ UNCHANGED <<store, system, earlier, stopping, mode, chat, pid, seen, told>>

SettleKeepsDead(t) ==
  /\ IF mode[t] = "booking"
       THEN Goto(t, "settle", "stamp") /\ UNCHANGED <<mode, pid>>
       ELSE Return(t, "settle")
  /\ UNCHANGED <<store, system, service, chat, seen, told>>
Settle(t) ==
  /\ IF mode[t] = "booking"
       THEN Goto(t, "settle", "stamp") /\ UNCHANGED <<mode, pid>>
       ELSE Return(t, "settle")
  /\ dead' = [dead EXCEPT ![chat[t]] = "none"]
  /\ UNCHANGED <<running, creds, session, system, service, chat, seen, told>>

\* start_booking saves the session object it has held since before the start.
Stamp(t) ==
  /\ Return(t, "stamp")
  /\ session' = [session EXCEPT ![chat[t]] = "FINDING"]
  /\ UNCHANGED <<running, dead, creds, system, service, chat, seen, told>>

Unbook(t) ==
  /\ Return(t, "unbook")
  /\ session' = [session EXCEPT ![chat[t]] = "IDLE"]
  /\ UNCHANGED <<running, dead, creds, system, service, chat, seen, told>>

-----------------------------------------------------------------------------
(* _record_death, shared by a failed start and the watchdog *)

BurySave(t) ==
  /\ Goto(t, "bury_save", "bury_delete")
  /\ dead' = [dead EXCEPT ![chat[t]] =
                IF KeepsLogin /\ creds[chat[t]] THEN "resumable" ELSE "lost"]
  /\ UNCHANGED <<running, creds, session, system, service, mode, chat, pid, seen, told>>

\* The record, the session, the announcement; then back to whoever found the death.
Bury(t, report) ==
  /\ running' = [running EXCEPT ![chat[t]] = NoPid]
  /\ session' = [session EXCEPT ![chat[t]] = "IDLE"]
  /\ Told(pid[t], report)
  /\ UNCHANGED <<dead, creds, system, service, chat, seen>>

BuryCrashed ==
  /\ Goto(Watchdog, "bury_delete", "pass")
  /\ Bury(Watchdog, "crashed")
  /\ pid' = [pid EXCEPT ![Watchdog] = NoPid]
  /\ UNCHANGED mode

BuryFailedStart(t) ==
  /\ IF mode[t] = "booking"
       THEN Goto(t, "bury_delete", "unbook") /\ UNCHANGED <<mode, pid>>
       ELSE Return(t, "bury_delete")
  /\ Bury(t, "start_failed")

-----------------------------------------------------------------------------
(* discard_dead_search, handle_cancel and cancel_reservation *)

\* The discard button, and /cancel when a dead search is what there is to cancel.
Discard(t, c) ==
  /\ pc[t] = "idle"
  /\ dead[c] # "none"
  /\ dead'  = [dead EXCEPT ![c] = "none"]
  /\ creds' = [creds EXCEPT ![c] = FALSE]
  /\ \/ session' = session
     \/ session' = [session EXCEPT ![c] = "IDLE"]
  /\ UNCHANGED <<running, system, service, locals, told>>

\* /cancel with nothing to cancel still leaves the conversation.
CancelNothing(t, c) ==
  /\ pc[t] = "idle"
  /\ dead[c] = "none"
  /\ running[c] = NoPid
  /\ session' = [session EXCEPT ![c] = "IDLE"]
  /\ UNCHANGED <<running, dead, creds, system, service, locals, told>>

\* /cancel drops a dead search instead, when there is one; the Mini App does not look.
CancelBegin(t, c) ==
  /\ running[c] # NoPid
  /\ t = Poller => dead[c] = "none"
  /\ Goto(t, "idle", "cancel_delete")
  /\ chat' = [chat EXCEPT ![t] = c]
  /\ pid'  = [pid EXCEPT ![t] = running[c]]
  /\ UNCHANGED <<store, system, service, mode, seen, told>>

\* The record goes before the process it points at.
CancelDelete(t) ==
  /\ Goto(t, "cancel_delete", "cancel_kill")
  /\ running' = [running EXCEPT ![chat[t]] = NoPid]
  /\ UNCHANGED <<dead, creds, session, system, service, mode, chat, pid, seen, told>>

CancelKill(t) ==
  /\ Goto(t, "cancel_kill", "cancel_clean")
  /\ proc' = Terminated(pid[t])
  /\ children' = children \ {pid[t]}
  /\ UNCHANGED <<store, owner, outcome, callback, earlier, stopping, mode, chat, pid, seen, told>>

CancelClean(t) ==
  /\ Return(t, "cancel_clean")
  /\ creds'   = [creds EXCEPT ![chat[t]] = FALSE]
  /\ session' = [session EXCEPT ![chat[t]] = "IDLE"]
  /\ Told(pid[t], "cancelled")
  /\ UNCHANGED <<running, dead, system, service, chat, seen>>

-----------------------------------------------------------------------------
(* cancel_all_reservations *)

SweepBegin(t) ==
  /\ "cancel_all" \in Scenarios
  /\ Goto(t, "idle", "sweep")
  /\ seen' = [seen EXCEPT ![t] = running]
  /\ UNCHANGED <<store, system, service, mode, chat, pid, told>>

SweepKill(t, c) ==
  /\ seen[t][c] # NoPid
  /\ Goto(t, "sweep", "sweep_delete")
  /\ chat' = [chat EXCEPT ![t] = c]
  /\ pid'  = [pid EXCEPT ![t] = seen[t][c]]
  /\ seen' = [seen EXCEPT ![t][c] = NoPid]
  /\ proc' = Terminated(seen[t][c])
  /\ children' = children \ {seen[t][c]}
  /\ creds' = [creds EXCEPT ![c] = FALSE]
  /\ UNCHANGED <<running, dead, session, owner, outcome, callback, earlier, stopping, mode, told>>

\* Here the record goes last.
SweepDelete(t) ==
  /\ Goto(t, "sweep_delete", "sweep")
  /\ session' = [session EXCEPT ![chat[t]] = "IDLE"]
  /\ running' = [running EXCEPT ![chat[t]] = NoPid]
  /\ pid'     = [pid EXCEPT ![t] = NoPid]
  /\ Told(pid[t], "swept")
  /\ UNCHANGED <<dead, creds, system, service, mode, chat, seen>>

SweepEnd(t) ==
  /\ seen[t] = NoRecords
  /\ Return(t, "sweep")
  /\ UNCHANGED <<store, system, service, chat, seen, told>>

-----------------------------------------------------------------------------
(* detect_dead_searches, once per tick of the watchdog *)

PassBeginAnyway ==
  /\ running # NoRecords
  /\ Goto(Watchdog, "idle", "pass")
  /\ seen' = [seen EXCEPT ![Watchdog] = running]
  /\ children' = Unreaped
  /\ UNCHANGED <<store, system, earlier, stopping, mode, chat, pid, told>>
PassBegin ==
  /\ ~stopping
  /\ running # NoRecords
  /\ Goto(Watchdog, "idle", "pass")
  /\ seen' = [seen EXCEPT ![Watchdog] = running]
  /\ children' = Unreaped
  /\ UNCHANGED <<store, system, earlier, stopping, mode, chat, pid, told>>

\* The second look asks whether the chat has a record, not whether it is this one.
NoSecondLook(c) == TRUE
StillRecorded(c) == running[c] # NoPid

\* A live process, a stale record, or no record any more: on to the next.  Exited is
\* stable, so reading it together with the second look at the record loses nothing.
PassSkip(c) ==
  LET p == seen[Watchdog][c] IN
  /\ pc[Watchdog] = "pass"
  /\ p # NoPid
  /\ p \in earlier \/ OwnsProcess(p) \/ ~StillRecorded(c)
  /\ seen' = [seen EXCEPT ![Watchdog][c] = NoPid]
  /\ UNCHANGED <<store, system, service, pc, mode, chat, pid, told>>

PassFound(c) ==
  LET p == seen[Watchdog][c] IN
  /\ p # NoPid
  /\ p \notin earlier
  /\ ~OwnsProcess(p)
  /\ StillRecorded(c)
  /\ Goto(Watchdog, "pass", "bury_save")
  /\ chat' = [chat EXCEPT ![Watchdog] = c]
  /\ pid'  = [pid EXCEPT ![Watchdog] = p]
  /\ seen' = [seen EXCEPT ![Watchdog][c] = NoPid]
  /\ children' = children \ {p}
  /\ UNCHANGED <<store, system, earlier, stopping, mode, told>>

PassEnd ==
  /\ seen[Watchdog] = NoRecords
  /\ Return(Watchdog, "pass")
  /\ UNCHANGED <<store, system, service, chat, seen, told>>

\* SESSION_TTL_SECONDS: a session is gone a day after a request last saved it, searching or not.
SessionExpires(c) ==
  /\ session[c] = "FINDING"
  /\ \A t \in Users : pc[t] # "idle" => chat[t] # c
  /\ session' = [session EXCEPT ![c] = "IDLE"]
  /\ UNCHANGED <<running, dead, creds, system, service, locals, told>>

-----------------------------------------------------------------------------
(* The child process *)

\* The search is over, a seat booked or the attempt abandoned: _send_callback
ChildCalls(p, what) ==
  /\ Searching(p)
  /\ Returned(p, {})
  /\ proc'     = [proc EXCEPT ![p] = "calling"]
  /\ outcome'  = [outcome EXCEPT ![p] = what]
  /\ callback' = [callback EXCEPT ![p] = "tell"]
  /\ UNCHANGED <<store, owner, service, locals, told>>

\* The answer came, or the child's timeout; a booked seat is then watched until paid.
ChildAnswered(p) ==
  /\ proc[p] = "calling"
  /\ callback[p] = "done" \/ "slow_callback" \in Scenarios
  /\ proc' = [proc EXCEPT ![p] = IF outcome[p] = "booked" THEN "watching" ELSE "finished"]
  /\ UNCHANGED <<store, owner, outcome, callback, service, locals, told>>

PaymentWatchEnds(p) ==
  /\ proc[p] = "watching"
  /\ proc' = [proc EXCEPT ![p] = "finished"]
  /\ UNCHANGED <<store, owner, outcome, callback, service, locals, told>>

\* Out of memory, a stray signal, a crash that skips the error path
ChildCrashes(p) ==
  /\ proc[p] \in {"searching", "calling"}
  /\ Returned(p, {"confirm"})
  /\ proc' = [proc EXCEPT ![p] = "crashed"]
  /\ UNCHANGED <<store, owner, outcome, callback, service, locals, told>>

-----------------------------------------------------------------------------
(* ReservationCallbackAPI.get, on a thread of its own per callback *)

CallbackGoto(p, from, to) ==
  /\ callback[p] = from
  /\ callback' = [callback EXCEPT ![p] = to]
  /\ UNCHANGED <<dead, proc, owner, outcome, service, locals>>

SessionKept(p, what) == session' = session
SessionUnset(p, what) == session' = [session EXCEPT ![owner[p]] = "UNSET"]
SessionResetIf(p, what) ==
  session' = IF outcome[p] = what THEN [session EXCEPT ![owner[p]] = "IDLE"] ELSE session

\* The message goes first, and takes as long as Telegram takes.
CallbackTell(p) ==
  /\ CallbackGoto(p, "tell", "drop")
  /\ Told(p, outcome[p])
  /\ UNCHANGED <<running, creds, session>>

CallbackDropFailed(p) ==
  /\ CallbackGoto(p, "drop", "forget")
  /\ SessionResetIf(p, "booked")
  /\ running' = IF outcome[p] = "failed" THEN [running EXCEPT ![owner[p]] = NoPid] ELSE running
  /\ UNCHANGED <<creds, told>>

\* It knows the chat, not the process.
CallbackDrop(p) ==
  /\ CallbackGoto(p, "drop", "forget")
  /\ SessionResetIf(p, "booked")
  /\ running' = [running EXCEPT ![owner[p]] = NoPid]
  /\ UNCHANGED <<creds, told>>

CallbackForget(p) ==
  /\ CallbackGoto(p, "forget", "done")
  /\ SessionResetIf(p, "failed")
  /\ creds' = [creds EXCEPT ![owner[p]] = FALSE]
  /\ UNCHANGED <<running, told>>

-----------------------------------------------------------------------------
(* The system *)

StartStep(t)  == \/ BookStart(t) \/ BookRefused(t) \/ Confirm(t) \/ StartFailed(t)
                 \/ Settle(t) \/ Stamp(t) \/ Unbook(t) \/ BurySave(t) \/ BuryFailedStart(t)
CancelStep(t) == CancelDelete(t) \/ CancelKill(t) \/ CancelClean(t)
SweepStep(t)  == SweepDelete(t) \/ SweepEnd(t) \/ \E c \in Chats : SweepKill(t, c)

ChatRequest   == \/ SweepBegin(Poller)
                 \/ \E c \in Chats : \/ Resume(Poller, c) \/ ResumeWithoutLogin(Poller, c)
                                    \/ Discard(Poller, c) \/ CancelNothing(Poller, c)
Request(t)    == \E c \in Chats : BookBegin(t, c) \/ CancelBegin(t, c)
UserStep(t)   == StartStep(t) \/ CancelStep(t) \/ SweepStep(t)
WatchdogStep  == \/ PassBegin \/ PassEnd \/ BurySave(Watchdog) \/ BuryCrashed
                 \/ \E c \in Chats : PassSkip(c) \/ PassFound(c)
CallbackServe(p) == CallbackTell(p) \/ CallbackDrop(p) \/ CallbackForget(p)
ChildStep(p)  == \/ \E what \in {"booked", "failed"} : ChildCalls(p, what)
                 \/ ChildAnswered(p) \/ PaymentWatchEnds(p) \/ ChildCrashes(p)

Next ==
  \/ ChatRequest
  \/ \E c \in Chats : SessionExpires(c)
  \/ \E t \in Users : Request(t) \/ UserStep(t)
  \/ WatchdogStep
  \/ \E p \in Pids : CallbackServe(p) \/ ChildStep(p)

Spec == Init /\ [][Next]_vars

\* Threads go on with what they began; users, children and the kernel owe nothing.
Fairness ==
  /\ \A t \in Users : WF_vars(UserStep(t))
  /\ WF_vars(WatchdogStep)
  /\ \A p \in Pids : WF_vars(CallbackServe(p))

FairSpec == Spec /\ Fairness
=============================================================================
