-------------------------- MODULE SearchRecovery --------------------------
(***************************************************************************)
(* SearchLifecycle, with an application that stops, crashes and comes      *)
(* back.  What survives is Redis and, after a crash, the search processes; *)
(* the next run goes through the records of earlier ones before any other  *)
(* thread of it starts (reconcile_after_restart).                          *)
(*                                                                         *)
(* That loop runs on the main thread.  It calls the same start and the     *)
(* same _record_death as a resume from a chat, and is over before the      *)
(* poller begins, so for those it borrows the poller's locals.             *)
(***************************************************************************)
EXTENDS SearchProperties

CONSTANTS
  MaxStops,     \* bound: how often the application stops or crashes
  Accidents     \* which accidents the instance admits, see below

(***************************************************************************)
(* "cut_request":   the application goes away in the middle of a request,  *)
(*                  a burial or a resume                                   *)
(* "late_start":    a search is started while the application shuts down   *)
(* "late_death":    the watchdog is in a pass when the shutdown begins     *)
(* "lost_callback": a search ends while nobody serves its callback, or the *)
(*                  application goes away while it does                    *)
(* "resume_dies":   a search resumed at start-up dies within the grace     *)
(* "cancel_dying":  a chat cancels a search that is being buried           *)
(* "dies_calling":  a search crashes while its callback is being served    *)
(* "redis_fails":   Redis fails as a search just started is to be recorded *)
(***************************************************************************)
AllAccidents == {"cut_request", "late_start", "late_death", "lost_callback",
                 "resume_dies", "cancel_dying", "dies_calling", "redis_fails"}

ASSUME RecoveryAssumption ==
  /\ MaxStops \in Nat
  /\ Accidents \subseteq AllAccidents

VARIABLES
  phase,    \* of the application: up, stopping, down, or where start-up is
  doomed,   \* the handles shutdown found alive and has still to stop
  stale,    \* the records of earlier runs that start-up has still to settle
  stops     \* how often it stopped, for the bound

recovery == <<phase, doomed, stale, stops>>
allvars  == <<vars, recovery>>

Phases   == {"up", "stopping", "down", "reconciling", "deciding", "resuming"}
Serving  == phase \in {"up", "stopping"}
NotCalled(p) == callback[p] = "none"

RecoveryInit ==
  /\ Init
  /\ phase  = "up"
  /\ doomed = {}
  /\ stale  = NoRecords
  /\ stops  = 0

-----------------------------------------------------------------------------
(* While it runs: the steps of SearchLifecycle *)

\* A request thread may begin a start as long as the process lives; the poller's stop()
\* does not wait for it, and the Mini App is not told.
StartsNow == phase = "up" \/ "late_start" \in Accidents

Working(step) == step /\ UNCHANGED recovery

\* A chat cancels a search, and the watchdog buries it, but not both at a time.
NotBuried(c) ==
  "cancel_dying" \in Accidents \/ (pc[Watchdog] \in {"bury_save", "bury_delete"} => chat[Watchdog] # c)
NotCancelled(c) ==
  "cancel_dying" \in Accidents \/
    \A t \in Users : pc[t] \in {"cancel_delete", "cancel_kill", "cancel_clean"} => chat[t] # c

\* The record could not be written; the child lives and the call returns False.
RecordFails(t) ==
  /\ "redis_fails" \in Accidents
  /\ pc[t] = "confirm"
  /\ ~Exited(pid[t])
  /\ IF mode[t] = "booking"
       THEN Goto(t, "confirm", "unbook") /\ UNCHANGED <<mode, pid>>
       ELSE Return(t, "confirm")
  /\ UNCHANGED <<store, system, service, chat, seen, told>>

AppRequest ==
  \/ SweepBegin(Poller)
  \/ \E c \in Chats :
       \/ ResumeWithoutLogin(Poller, c)
       \/ CancelNothing(Poller, c)
       \/ (StartsNow /\ Resume(Poller, c))
       \/ (NotBuried(c) /\ Discard(Poller, c))
       \/ \E t \in Users : \/ (StartsNow /\ BookBegin(t, c))
                           \/ (NotBuried(c) /\ CancelBegin(t, c))

UserWork(t) ==
  \/ (StartsNow /\ BookStart(t)) \/ BookRefused(t) \/ Confirm(t) \/ StartFailed(t)
  \/ RecordFails(t) \/ Settle(t) \/ Stamp(t) \/ Unbook(t)
  \/ BurySave(t) \/ BuryFailedStart(t) \/ CancelStep(t) \/ SweepStep(t)

WatchdogWork ==
  \/ PassBegin \/ PassEnd \/ BurySave(Watchdog) \/ BuryCrashed
  \/ \E c \in Chats : PassSkip(c) \/ (NotCancelled(c) /\ PassFound(c))

-----------------------------------------------------------------------------
(* The children, whoever listens *)

\* _send_callback with nobody to answer: logged, not tried again.
ChildCallsNobody(p, what) ==
  /\ "lost_callback" \in Accidents
  /\ phase # "up"
  /\ Searching(p)
  /\ proc'     = [proc EXCEPT ![p] = IF what = "booked" THEN "watching" ELSE "finished"]
  /\ outcome'  = [outcome EXCEPT ![p] = what]
  /\ callback' = [callback EXCEPT ![p] = "done"]
  /\ UNCHANGED <<store, owner, service, locals, told, recovery>>

ChildDies(p) ==
  /\ proc[p] = "calling" => "dies_calling" \in Accidents
  /\ phase = "resuming" /\ pid[Poller] = p => "resume_dies" \in Accidents
  /\ ChildCrashes(p)

ChildrenStep ==
  \E p \in Pids :
    \/ \E what \in {"booked", "failed"} :
         ChildCallsNobody(p, what) \/ (phase = "up" /\ Working(ChildCalls(p, what)))
    \/ Working(ChildAnswered(p)) \/ Working(PaymentWatchEnds(p)) \/ Working(ChildDies(p))

-----------------------------------------------------------------------------
(* Shutdown and crash *)

\* Nobody is where going away would leave half a request behind.
RequestsOver ==
  \/ "cut_request" \in Accidents
  \/ /\ \A t \in Threads : pc[t] \in {"idle", "start", "stamp", "pass"}
     /\ phase # "resuming"

CallbacksOver == "lost_callback" \in Accidents \/ \A p \in Pids : Served(p)

\* The threads, their locals and the handles are gone, and what is left is of an earlier
\* run (a new RUN_ID); so are the callbacks being served.
GoesDown ==
  /\ RequestsOver
  /\ CallbacksOver
  /\ phase'    = "down"
  /\ doomed'   = {}
  /\ stale'    = NoRecords
  /\ callback' = [p \in Pids |-> IF NotCalled(p) THEN "none" ELSE "done"]
  /\ children' = {}
  /\ pc'       = [t \in Threads |-> "idle"]
  /\ mode'     = [t \in Threads |-> "booking"]
  /\ pid'      = [t \in Threads |-> NoPid]
  /\ seen'     = [t \in Threads |-> NoRecords]
  /\ earlier'  = {p \in Pids : proc[p] # "unborn"}
  /\ UNCHANGED <<store, proc, owner, outcome, chat, told>>

\* shutdown: the flag, and the handles alive at that moment.  A record that outlives its
\* search is left for the next run; so is the watchdog, which reads the flag on entry only.
ShutdownBegin ==
  /\ phase = "up"
  /\ stops < MaxStops
  /\ "late_start" \in Accidents \/ \A t \in Users : pc[t] # "start"
  /\ "late_death" \in Accidents \/ pc[Watchdog] = "idle"
  /\ RequestsOver
  /\ phase'    = "stopping"
  /\ stops'    = stops + 1
  /\ stopping' = TRUE
  /\ children' = Unreaped
  /\ doomed'   = {p \in children : Alive(p)}
  /\ UNCHANGED <<store, system, earlier, locals, told, stale>>

ShutdownKill(p) ==
  /\ p \in doomed
  /\ doomed'   = doomed \ {p}
  /\ proc'     = Terminated(p)
  /\ children' = children \ {p}
  /\ UNCHANGED <<store, owner, outcome, callback, earlier, stopping, locals, told,
                 phase, stale, stops>>

\* An orderly end leaves `stopping` set, for ShutdownStopsAll to tell it from a crash.
ShutdownEnd ==
  /\ phase = "stopping"
  /\ doomed = {}
  /\ GoesDown
  /\ UNCHANGED <<stopping, stops>>

Crash ==
  /\ phase # "down"
  /\ stops < MaxStops
  /\ GoesDown
  /\ stops'    = stops + 1
  /\ stopping' = FALSE

-----------------------------------------------------------------------------
(* reconcile_after_restart *)

\* RunningReservation.is_stale
IsStaleOnceGone(c) == running[c] \in earlier /\ Exited(running[c])
IsStale(c) == running[c] \in earlier

\* The records of earlier runs
StartUp ==
  /\ phase = "down"
  /\ phase'    = "reconciling"
  /\ stopping' = FALSE
  /\ stale'    = [c \in Chats |-> IF IsStale(c) THEN running[c] ELSE NoPid]
  /\ UNCHANGED <<store, system, children, earlier, locals, told, doomed, stops>>

\* A crash does not stop the children.
LeftAlone(p) == proc
StoppedStale(p) == Terminated(p)
ReconcileStop(c) ==
  /\ phase = "reconciling"
  /\ stale[c] # NoPid
  /\ phase' = "deciding"
  /\ proc'  = StoppedStale(stale[c])
  /\ chat'  = [chat EXCEPT ![Poller] = c]
  /\ UNCHANGED <<store, owner, outcome, callback, service, pc, mode, pid, seen, told,
                 doomed, stale, stops>>

\* _resume, by start_reservation_process(resumed=True)
ResumeStale ==
  LET c == chat[Poller] IN
  /\ phase = "deciding"
  /\ KeepsLogin
  /\ creds[c]
  /\ phase' = "resuming"
  /\ Goto(Poller, "idle", "confirm")
  /\ Spawn(Poller, c)
  /\ mode' = [mode EXCEPT ![Poller] = "resume"]
  /\ UNCHANGED <<dead, session, chat, doomed, stale, stops>>

ReconciledSilently(report) ==
  /\ phase' = "reconciling"
  /\ stale' = [stale EXCEPT ![chat[Poller]] = NoPid]
  /\ UNCHANGED <<dead, system, service, locals, told, doomed, stops>>
Reconciled(report) ==
  /\ phase' = "reconciling"
  /\ stale' = [stale EXCEPT ![chat[Poller]] = NoPid]
  /\ Told(stale[chat[Poller]], report)
  /\ UNCHANGED <<dead, system, service, locals, doomed, stops>>

ResumedStale ==
  /\ phase = "resuming"
  /\ pc[Poller] = "idle"
  /\ running[chat[Poller]] \notin earlier \union {NoPid}
  /\ Reconciled("resumed")
  /\ UNCHANGED <<running, creds, session>>

\* _abandon: no login, seats of a random run already held, or the resumed search died
AbandonStale ==
  LET c == chat[Poller] IN
  /\ \/ phase = "deciding"
     \/ phase = "resuming" /\ pc[Poller] = "idle" /\ running[c] \in earlier \union {NoPid}
  /\ running' = [running EXCEPT ![c] = NoPid]
  /\ creds'   = [creds EXCEPT ![c] = FALSE]
  /\ session' = [session EXCEPT ![c] = "IDLE"]
  /\ Reconciled("interrupted")

ReconcileEnd ==
  /\ phase = "reconciling"
  /\ stale = NoRecords
  /\ phase' = "up"
  /\ UNCHANGED <<vars, doomed, stale, stops>>

\* The start a resume goes through
ResumeStep ==
  /\ phase = "resuming"
  /\ \/ Working(Confirm(Poller)) \/ Working(StartFailed(Poller)) \/ Working(RecordFails(Poller))
     \/ Working(Settle(Poller)) \/ Working(BurySave(Poller)) \/ Working(BuryFailedStart(Poller))

MainStep ==
  \/ ShutdownEnd \/ StartUp
  \/ ResumeStale \/ ResumeStep \/ ResumedStale \/ AbandonStale \/ ReconcileEnd
  \/ \E p \in Pids : ShutdownKill(p)
  \/ \E c \in Chats : ReconcileStop(c)

-----------------------------------------------------------------------------
RecoveryNext ==
  \/ Serving /\ Working(AppRequest)
  \/ \E t \in Users : Serving /\ Working(UserWork(t))
  \/ Serving /\ Working(WatchdogWork)
  \/ \E p \in Pids : Serving /\ Working(CallbackServe(p))
  \/ \E c \in Chats : Working(SessionExpires(c))
  \/ ChildrenStep
  \/ ShutdownBegin
  \/ Crash
  \/ MainStep

RecoverySpec == RecoveryInit /\ [][RecoveryNext]_allvars

\* The threads go on with what they began; a supervisor starts the application again.
RecoveryFairness ==
  /\ \A t \in Users : WF_allvars(Serving /\ Working(UserWork(t)))
  /\ WF_allvars(Serving /\ Working(WatchdogWork))
  /\ \A p \in Pids : WF_allvars(Serving /\ Working(CallbackServe(p)))
  /\ WF_allvars(MainStep)

FairRecovery == RecoverySpec /\ RecoveryFairness
=============================================================================
