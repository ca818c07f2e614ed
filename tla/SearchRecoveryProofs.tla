------------------------ MODULE SearchRecoveryProofs ------------------------
(***************************************************************************)
(* What stops, crashes and restarts leave of a search, however often the   *)
(* application goes away.  While it serves it takes the steps of           *)
(* SearchLifecycle, and what was proved of those is used again here.       *)
(***************************************************************************)
EXTENDS RecoveryProperties, SearchRecordProofs

\* The deployment of SearchSerialProofs, an application that does not go away in the middle
\* of a request, and a Redis that takes the record of a search that has started.
Tracked == Serial /\ Accidents \intersect {"cut_request", "redis_fails"} = {}

Booting == {"reconciling", "deciding", "resuming"}

-----------------------------------------------------------------------------
(* For any threads, schedules and accidents *)

\* What start-up still has to settle is of an earlier run, and while the application is not
\* serving there is nobody but start-up.
BootInv ==
  /\ phase \in Phases /\ doomed \in SUBSET Pids /\ stale \in [Chats -> Pids \union {NoPid}]
  /\ phase \notin Booting => stale = NoRecords
  /\ phase # "stopping" => doomed = {}
  /\ \A c \in Chats : stale[c] # NoPid => stale[c] \in earlier /\ owner[stale[c]] = c
  /\ \A p \in earlier : proc[p] # "unborn"
  /\ phase = "down" => \A p \in Pids : proc[p] # "unborn" => p \in earlier
  /\ ~Serving =>
       /\ \A t \in Threads : seen[t] = NoRecords /\ (t # Poller => pc[t] = "idle")
       /\ \A p \in Pids : Served(p)
       /\ phase # "resuming" => pc[Poller] = "idle"
  /\ phase \in {"deciding", "resuming"} =>
       stale[chat[Poller]] # NoPid /\ Exited(stale[chat[Poller]])
  /\ phase = "resuming" =>
       /\ pc[Poller] \in {"idle", "confirm", "settle", "bury_save", "bury_delete"}
       /\ pc[Poller] # "idle" => mode[Poller] = "resume"

-----------------------------------------------------------------------------
(* For Tracked *)

\* Nothing of an earlier run is left once the application serves; until then start-up has
\* it on its list.
LeftInv ==
  /\ Serving => \A p \in earlier : ~Searching(p) /\ running[owner[p]] # p
  /\ phase \in Booting =>
       \A p \in earlier : Searching(p) \/ running[owner[p]] = p => stale[owner[p]] = p
  /\ phase \in Booting =>
       \A c \in Chats : stale[c] # NoPid => running[c] = stale[c] \/ (phase = "resuming" /\ chat[Poller] = c)
  /\ \A t \in Threads : pid[t] \notin earlier /\ \A c \in Chats : seen[t][c] \notin earlier

\* A resume at start-up: the record of the search it replaces is there until it is
\* overwritten, which RecordInv does not allow a resume from a chat.
ResumeInv ==
  /\ CallInv /\ HandInv /\ NoOrphan
  /\ pc[Poller] \in {"confirm", "bury_save", "bury_delete"} => running[chat[Poller]] \in earlier
  /\ \A c \in Chats : dead[c] # "none" =>
       running[c] = NoPid \/ (pc[Poller] = "bury_delete" /\ chat[Poller] = c)

TrackInv == IF phase = "resuming" THEN ResumeInv ELSE SerialInv

\* Whoever takes a search off the record tells its chat.
Hands == OwnSteps \ {"settle", "stamp"}
Heard(p) == \/ told[p] # {} \/ running[owner[p]] = p \/ stale[owner[p]] = p
            \/ \E t \in Threads : pid[t] = p /\ pc[t] \in Hands
HeardInv ==
  /\ \A p \in Pids : proc[p] # "unborn" => Heard(p)
  /\ \A p \in Pids : callback[p] \in {"drop", "forget"} => told[p] # {}

\* shutdown has every search in sight.
NoLateStart == "late_start" \notin Accidents
ShutInv ==
  /\ phase = "stopping" => /\ \A p \in Pids : Searching(p) => p \in doomed
                           /\ \A t \in Users : pc[t] # "start"
  /\ ShutdownStopsAll

\* What start-up tells of a search.
AtStart == {"resumed", "interrupted"}

\* What is resumed or reported as interrupted was recorded, and had not called back.
ResumedInv ==
  /\ \A p \in Pids : outcome[p] # "none" => callback[p] # "none"
  /\ \A c \in Chats : stale[c] # NoPid => outcome[stale[c]] = "none"
  /\ \A p \in Pids : told[p] \intersect AtStart # {} => Exited(p) /\ outcome[p] = "none"

\* No watchdog pass is under way when a shutdown begins.
NoLateDeath == "late_death" \notin Accidents

\* CrashInv, with searches stopped on purpose while no watchdog looks: by shutdown, and those of
\* earlier runs by start-up.
StopInv ==
  /\ phase = "stopping" => stopping /\ pc[Watchdog] = "idle"
  /\ \A p \in Pids : proc[p] \in {"watching", "finished"} => callback[p] = "done"
  /\ phase # "stopping" =>
       \A c \in Chats : running[c] \notin earlier \union {NoPid} /\ Exited(running[c]) =>
                         proc[running[c]] = "crashed"
  /\ pc[Watchdog] \in {"bury_save", "bury_delete"} => proc[pid[Watchdog]] = "crashed"
  /\ \A t \in Users : pc[t] \notin {"sweep", "sweep_delete"}
  /\ TruthfulCrash

\* No schedule and no accident of those that part an offer from its login.
Untroubled == Undisturbed /\ Accidents \subseteq {"late_start"}

\* A resumable search has its login, and nobody is about to delete it: no cancel and no
\* callback of the chat is under way, and start-up only gives up what it could not resume.
Cancelling == {"cancel_delete", "cancel_kill", "cancel_clean"}
OfferInv ==
  /\ \A c \in Chats : dead[c] = "resumable" => creds[c]
  /\ \A t \in Users : pc[t] \in Cancelling => dead[chat[t]] # "resumable" /\ ~Burying(chat[t])
  /\ \A p \in Pids : ~Served(p) =>
       /\ dead[owner[p]] # "resumable" /\ ~Burying(owner[p]) /\ proc[p] # "crashed"
       /\ \A t \in Users : pc[t] = "bury_save" => chat[t] # owner[p]
  /\ phase = "resuming" =>
       \/ pc[Poller] = "confirm" /\ Searching(pid[Poller])
       \/ pc[Poller] = "settle" /\ running[chat[Poller]] = pid[Poller]
       \/ pc[Poller] = "idle" /\ running[chat[Poller]] \notin earlier \union {NoPid}

-----------------------------------------------------------------------------
(* The steps, by when they may be taken *)

ServingStep == Serving /\ Next
QuietStep   == \/ \E c \in Chats : SessionExpires(c)
               \/ \E p \in Pids : \/ \E what \in {"booked", "failed"} : phase = "up" /\ ChildCalls(p, what)
                                  \/ ChildAnswered(p) \/ PaymentWatchEnds(p) \/ ChildCrashes(p)
BootStep    == /\ phase = "resuming"
               /\ \/ Confirm(Poller) \/ StartFailed(Poller) \/ Settle(Poller)
                  \/ BurySave(Poller) \/ BuryFailedStart(Poller)
LifeStep    == UNCHANGED recovery /\ (ServingStep \/ QuietStep \/ BootStep)
LosesRecord == UNCHANGED recovery /\ (Serving \/ phase = "resuming") /\ \E t \in Users : RecordFails(t)
CallsNobody == \E p \in Pids, what \in {"booked", "failed"} : ChildCallsNobody(p, what)

LEMMA StepKinds ==
  ASSUME [RecoveryNext]_allvars
  PROVE  \/ LifeStep \/ LosesRecord \/ CallsNobody
         \/ ShutdownBegin \/ (\E p \in Pids : ShutdownKill(p)) \/ ShutdownEnd \/ Crash
         \/ StartUp \/ (\E c \in Chats : ReconcileStop(c)) \/ ResumeStale
         \/ ResumedStale \/ AbandonStale \/ ReconcileEnd
         \/ UNCHANGED allvars
<1> USE LifecycleAssumption
<1>1. CASE Serving /\ Working(AppRequest)
  <2>1. AppRequest => Next
    BY DEF AppRequest, Next, ChatRequest, Request
  <2> QED
    BY <1>1, <2>1 DEF Working, LifeStep, ServingStep
<1>2. ASSUME NEW t \in Users, Serving /\ Working(UserWork(t)) PROVE LifeStep \/ LosesRecord
  <2>1. UserWork(t) => RecordFails(t) \/ UserStep(t)
    BY DEF UserWork, UserStep, StartStep
  <2> QED
    BY <1>2, <2>1 DEF Working, LifeStep, ServingStep, LosesRecord, Next
<1>3. CASE Serving /\ Working(WatchdogWork)
  <2>1. WatchdogWork => Next
    BY DEF WatchdogWork, Next, WatchdogStep
  <2> QED
    BY <1>3, <2>1 DEF Working, LifeStep, ServingStep
<1>4. ASSUME NEW p \in Pids, Serving /\ Working(CallbackServe(p)) PROVE LifeStep
  BY <1>4 DEF Working, LifeStep, ServingStep, Next
<1>5. ASSUME NEW c \in Chats, Working(SessionExpires(c)) PROVE LifeStep
  BY <1>5 DEF Working, LifeStep, QuietStep
<1>6. CASE ChildrenStep
  BY <1>6 DEF ChildrenStep, Working, ChildDies, LifeStep, QuietStep, CallsNobody
<1>7. CASE MainStep
  <2>1. ResumeStep => LifeStep \/ LosesRecord
    BY DEF ResumeStep, Working, LifeStep, BootStep, LosesRecord
  <2> QED
    BY <1>7, <2>1 DEF MainStep
<1> QED
  BY <1>1, <1>2, <1>3, <1>4, <1>5, <1>6, <1>7 DEF RecoveryNext

LEMMA LifeIsNext == ASSUME LifeStep PROVE [Next]_vars
<1>1. QuietStep => Next
  BY DEF QuietStep, Next, ChildStep
<1>2. BootStep => Next
  BY LifecycleAssumption DEF BootStep, Next, UserStep, StartStep
<1> QED
  BY <1>1, <1>2 DEF LifeStep, ServingStep

\* A start whose record could not be written goes on as one that failed.
Unrecorded(t) ==
  /\ pc[t] = "confirm" /\ ~Exited(pid[t])
  /\ Serving \/ phase = "resuming"
  /\ IF mode[t] = "booking"
       THEN pc' = [pc EXCEPT ![t] = "unbook"] /\ UNCHANGED <<mode, pid>>
       ELSE Return(t, "confirm")
  /\ UNCHANGED <<store, system, service, chat, seen, told, recovery>>

LEMMA LosesEffect == ASSUME LosesRecord PROVE \E t \in Users : Unrecorded(t)
<1>1. PICK t \in Users : RecordFails(t)
  BY DEF LosesRecord
<1>2. CASE mode[t] = "booking"
  BY <1>1, <1>2 DEF RecordFails, Unrecorded, Goto, LosesRecord
<1>3. CASE mode[t] # "booking"
  BY <1>1, <1>3 DEF RecordFails, Unrecorded, LosesRecord
<1> QED
  BY <1>2, <1>3

-----------------------------------------------------------------------------
(* For any threads, schedules and accidents *)

\* A restart leaves names that were born, and no thread to hold one.
LEMMA TypeRecovery ==
  ASSUME TypeInv, CoreInv, BootInv, [RecoveryNext]_allvars PROVE TypeInv'
<1> USE LifecycleAssumption
<1> USE DEF TypeInv, TypeOK, OutcomeInv, Threads, Goto, ProcState, Exits, CbState, PC, Reports,
            store, system, service, locals, recovery, NoRecords
<1>1. CASE LifeStep
  BY <1>1, LifeIsNext, TypeNext
<1>2. CASE LosesRecord
  <2>1. PICK t \in Users : Unrecorded(t)
    BY <1>2, LosesEffect
  <2>2. CASE mode[t] = "booking"
    BY <2>1, <2>2 DEF Unrecorded
  <2>3. CASE mode[t] # "booking"
    BY <2>1, <2>3 DEF Unrecorded, Return
  <2> QED
    BY <2>2, <2>3
<1>3. CASE CallsNobody
  BY <1>3 DEF CallsNobody, ChildCallsNobody
<1>4. CASE ShutdownBegin
  BY <1>4 DEF ShutdownBegin, Unreaped
<1>5. ASSUME NEW p \in Pids, ShutdownKill(p) PROVE TypeInv'
  BY <1>5 DEF ShutdownKill, Terminated
<1>6. CASE ShutdownEnd \/ Crash
  <2>1. GoesDown /\ stopping' \in BOOLEAN
    BY <1>6 DEF ShutdownEnd, Crash
  <2>2. OutcomeInv'
    BY <2>1 DEF GoesDown, NotCalled
  <2>3. TypeOK'
    BY <2>1 DEF GoesDown, NotCalled
  <2> QED
    BY <2>2, <2>3
<1>7. CASE StartUp
  BY <1>7 DEF StartUp
<1>8. ASSUME NEW c \in Chats, ReconcileStop(c) PROVE TypeInv'
  BY <1>8 DEF ReconcileStop, StoppedStale, Terminated
<1>9. CASE ResumeStale
  BY <1>9 DEF ResumeStale, Spawn, LoginKept, Unreaped
<1>10. CASE ResumedStale
  BY <1>10 DEF ResumedStale, Reconciled, Told
<1>11. CASE AbandonStale
  BY <1>11 DEF AbandonStale, Reconciled, Told
<1>12. CASE ReconcileEnd \/ UNCHANGED allvars
  BY <1>12 DEF ReconcileEnd, allvars, vars
<1> QED
  BY <1>1, <1>2, <1>3, <1>4, <1>5, <1>6, <1>7, <1>8, <1>9, <1>10, <1>11, <1>12, StepKinds

\* What CoreInv says of names, locals and handles a restart begins with none of.
LEMMA CoreRecovery ==
  ASSUME TypeInv, CoreInv, BootInv, [RecoveryNext]_allvars
  PROVE  CoreInv'
<1> USE LifecycleAssumption
<1> USE DEF TypeInv, TypeOK, OutcomeInv, Threads, Goto, ProcState, Exits, store, system,
            service, locals, recovery, NoRecords, CoreInv, NamesInv, LocalsInv, OwnSteps,
            GoneSteps, Exited, OwnsProcess, Alive, Searching, Served, RecordOnceInv, FreshInv,
            CancelInv, EveryChildHasHandle, ToldInv, CancelledStaysGone,
            NoLiveSearchReportedDead
<1>1. CASE LifeStep
  BY <1>1, LifeIsNext, CoreNext
<1>2. CASE LosesRecord
  <2>1. PICK t \in Users : Unrecorded(t)
    BY <1>2, LosesEffect
  <2>2. CASE mode[t] = "booking"
    <3>1. pc' = [pc EXCEPT ![t] = "unbook"] /\ UNCHANGED <<mode, pid>>
      BY <2>1, <2>2 DEF Unrecorded
    <3> QED
      BY <2>1, <3>1 DEF Unrecorded
  <2>3. CASE mode[t] # "booking"
    <3>1. Return(t, "confirm")
      BY <2>1, <2>3 DEF Unrecorded
    <3> QED
      BY <2>1, <3>1 DEF Unrecorded, Return
  <2> QED
    BY <2>2, <2>3
<1>3. CASE CallsNobody
  BY <1>3 DEF CallsNobody, ChildCallsNobody
<1>4. CASE ShutdownBegin
  BY <1>4 DEF ShutdownBegin, Unreaped
<1>5. ASSUME NEW p \in Pids, ShutdownKill(p) PROVE CoreInv'
  BY <1>5 DEF ShutdownKill, Terminated
<1>6. CASE ShutdownEnd \/ Crash
  <2>1. GoesDown /\ phase # "down"
    BY <1>6 DEF ShutdownEnd, Crash
  <2> QED
    BY <2>1 DEF GoesDown, NotCalled, RequestsOver, CallbacksOver
<1>7. CASE StartUp
  BY <1>7 DEF StartUp, IsStale
<1>8. ASSUME NEW c \in Chats, ReconcileStop(c) PROVE CoreInv'
  <2>1. pid[Poller] = NoPid
    BY <1>8 DEF ReconcileStop, BootInv, Serving
  <2> QED
    BY <1>8, <2>1 DEF ReconcileStop, StoppedStale, Terminated
<1>9. CASE ResumeStale
  BY <1>9 DEF ResumeStale, Spawn, LoginKept, Unreaped
<1>10. CASE ResumedStale
  BY <1>10 DEF ResumedStale, Reconciled, Told
<1>11. CASE AbandonStale
  BY <1>11 DEF AbandonStale, Reconciled, Told
<1>12. CASE ReconcileEnd \/ UNCHANGED allvars
  BY <1>12 DEF ReconcileEnd, allvars, vars
<1> QED
  BY <1>1, <1>2, <1>3, <1>4, <1>5, <1>6, <1>7, <1>8, <1>9, <1>10, <1>11, <1>12, StepKinds

\* What no step of the lifecycle takes back.
Kept ==
  /\ earlier' = earlier
  /\ \A p \in Pids : /\ proc[p] # "unborn" => proc'[p] # "unborn" /\ owner'[p] = owner[p]
                     /\ Exited(p) => proc'[p] = proc[p]
                     /\ Searching(p)' => Searching(p) \/ proc[p] = "unborn"
                     /\ told'[p] \intersect AtStart = told[p] \intersect AtStart
                     /\ callback[p] # "none" => callback'[p] # "none"
                     /\ outcome'[p] = outcome[p] \/ (Searching(p) /\ callback'[p] = "tell")
  /\ \A c \in Chats : \/ running'[c] \in {running[c], NoPid}
                       \/ \E t \in Threads : pc[t] = "confirm" /\ running'[c] = pid[t]
  /\ \A t \in Threads :
       /\ \/ pid'[t] \in {pid[t], NoPid} \/ (pid'[t] \in Pids /\ proc[pid'[t]] = "unborn")
          \/ \E c \in Chats : pid'[t] \in {running[c], seen[t][c]}
       /\ \A c \in Chats : seen'[t][c] \in {seen[t][c], running[c], NoPid}

LEMMA NextKeeps ==
  ASSUME TypeInv, [Next]_vars
  PROVE  Kept
<1> USE LifecycleAssumption
<1> USE DEF TypeInv, TypeOK, OutcomeInv, Threads, Goto, ProcState, Exits, store, system,
            service, locals, Exited, Searching, Kept, AtStart, Alive, OwnsProcess
<1>1. ASSUME NEW t \in Users, StartStep(t) PROVE Kept
  <2>1. CASE BookStart(t)
    BY <2>1 DEF BookStart, Spawn, LoginKept, Unreaped
  <2>2. CASE BookRefused(t)
    BY <2>2 DEF BookRefused, Unreaped
  <2>3. CASE Confirm(t)
    BY <2>3 DEF Confirm
  <2>4. CASE StartFailed(t)
    BY <2>4 DEF StartFailed
  <2>5. CASE Settle(t)
    <3>1. CASE mode[t] = "booking"
      BY <2>5, <3>1 DEF Settle
    <3>2. CASE mode[t] # "booking"
      BY <2>5, <3>2 DEF Settle, Return
    <3> QED
      BY <3>1, <3>2
  <2>6. CASE Stamp(t)
    BY <2>6 DEF Stamp, Return
  <2>7. CASE Unbook(t)
    BY <2>7 DEF Unbook, Return
  <2>8. CASE BurySave(t)
    BY <2>8 DEF BurySave
  <2>9. CASE BuryFailedStart(t)
    <3>1. CASE mode[t] = "booking"
      BY <2>9, <3>1 DEF BuryFailedStart, Bury, Told
    <3>2. CASE mode[t] # "booking"
      BY <2>9, <3>2 DEF BuryFailedStart, Bury, Told, Return
    <3> QED
      BY <3>1, <3>2
  <2> QED
    BY <1>1, <2>1, <2>2, <2>3, <2>4, <2>5, <2>6, <2>7, <2>8, <2>9 DEF StartStep
<1>2. ASSUME NEW t \in Users, CancelStep(t) PROVE Kept
  <2>1. CASE CancelDelete(t)
    BY <2>1 DEF CancelDelete
  <2>2. CASE CancelKill(t)
    BY <2>2 DEF CancelKill, Terminated
  <2>3. CASE CancelClean(t)
    BY <2>3 DEF CancelClean, Return, Told
  <2> QED
    BY <1>2, <2>1, <2>2, <2>3 DEF CancelStep
<1>3. ASSUME NEW t \in Users, SweepStep(t) PROVE Kept
  <2>1. CASE SweepDelete(t)
    BY <2>1 DEF SweepDelete, Told
  <2>2. CASE SweepEnd(t)
    BY <2>2 DEF SweepEnd, Return
  <2>3. ASSUME NEW c \in Chats, SweepKill(t, c) PROVE Kept
    BY <2>3 DEF SweepKill, Terminated
  <2> QED
    BY <1>3, <2>1, <2>2, <2>3 DEF SweepStep
<1>4. ASSUME NEW t \in Users, Request(t) PROVE Kept
  <2>1. ASSUME NEW c \in Chats, BookBegin(t, c) PROVE Kept
    BY <2>1 DEF BookBegin
  <2>2. ASSUME NEW c \in Chats, CancelBegin(t, c) PROVE Kept
    BY <2>2 DEF CancelBegin
  <2> QED
    BY <1>4, <2>1, <2>2 DEF Request
<1>5. CASE ChatRequest
  <2>1. CASE SweepBegin(Poller)
    BY <2>1 DEF SweepBegin
  <2>2. ASSUME NEW c \in Chats, Resume(Poller, c) PROVE Kept
    BY <2>2 DEF Resume, Spawn, LoginKept, Unreaped
  <2>3. ASSUME NEW c \in Chats, ResumeWithoutLogin(Poller, c) PROVE Kept
    BY <2>3 DEF ResumeWithoutLogin
  <2>4. ASSUME NEW c \in Chats, Discard(Poller, c) PROVE Kept
    BY <2>4 DEF Discard
  <2>5. ASSUME NEW c \in Chats, CancelNothing(Poller, c) PROVE Kept
    BY <2>5 DEF CancelNothing
  <2> QED
    BY <1>5, <2>1, <2>2, <2>3, <2>4, <2>5 DEF ChatRequest
<1>6. ASSUME NEW c \in Chats, SessionExpires(c) PROVE Kept
  BY <1>6 DEF SessionExpires
<1>7. CASE WatchdogStep
  <2>1. CASE PassBegin
    BY <2>1 DEF PassBegin, Unreaped
  <2>2. CASE PassEnd
    BY <2>2 DEF PassEnd, Return
  <2>3. CASE BurySave(Watchdog)
    BY <2>3 DEF BurySave
  <2>4. CASE BuryCrashed
    BY <2>4 DEF BuryCrashed, Bury, Told
  <2>5. ASSUME NEW c \in Chats, PassSkip(c) PROVE Kept
    BY <2>5 DEF PassSkip
  <2>6. ASSUME NEW c \in Chats, PassFound(c) PROVE Kept
    BY <2>6 DEF PassFound, StillRecorded
  <2> QED
    BY <1>7, <2>1, <2>2, <2>3, <2>4, <2>5, <2>6 DEF WatchdogStep
<1>8. ASSUME NEW p \in Pids, CallbackServe(p) PROVE Kept
  <2>1. CASE CallbackTell(p)
    BY <2>1 DEF CallbackTell, CallbackGoto, Told
  <2>2. CASE CallbackDrop(p)
    BY <2>2 DEF CallbackDrop, CallbackGoto, SessionResetIf
  <2>3. CASE CallbackForget(p)
    BY <2>3 DEF CallbackForget, CallbackGoto, SessionResetIf
  <2> QED
    BY <1>8, <2>1, <2>2, <2>3 DEF CallbackServe
<1>9. ASSUME NEW p \in Pids, ChildStep(p) PROVE Kept
  <2>1. ASSUME NEW what \in {"booked", "failed"}, ChildCalls(p, what) PROVE Kept
    BY <2>1 DEF ChildCalls, Returned
  <2>2. CASE ChildAnswered(p)
    BY <2>2 DEF ChildAnswered
  <2>3. CASE PaymentWatchEnds(p)
    BY <2>3 DEF PaymentWatchEnds
  <2>4. CASE ChildCrashes(p)
    BY <2>4 DEF ChildCrashes, Returned
  <2> QED
    BY <1>9, <2>1, <2>2, <2>3, <2>4 DEF ChildStep
<1>10. CASE UNCHANGED vars
  BY <1>10 DEF vars
<1> HIDE DEF Kept
<1> QED
  BY <1>1, <1>2, <1>3, <1>4, <1>5, <1>6, <1>7, <1>8, <1>9, <1>10 DEF Next, UserStep

LEMMA QuietKeeps ==
  ASSUME TypeInv, QuietStep
  PROVE  /\ UNCHANGED <<running, dead, creds, children, earlier, stopping, locals, told, owner>>
         /\ \A p \in Pids : proc[p] = "unborn" => proc'[p] = "unborn"
         /\ phase # "up" => UNCHANGED <<callback, outcome>>
  BY DEF QuietStep, SessionExpires, ChildCalls, ChildAnswered, PaymentWatchEnds, ChildCrashes, store,
         system, service, TypeInv, TypeOK, Searching

\* While the application is not serving there is nobody but start-up.
LEMMA BootNext ==
  ASSUME TypeInv, CoreInv, BootInv, [RecoveryNext]_allvars
  PROVE  BootInv'
<1> USE LifecycleAssumption
<1> USE DEF TypeInv, TypeOK, OutcomeInv, Threads, Goto, ProcState, Exits, store, system,
            service, locals, recovery, NoRecords, CoreInv, NamesInv, LocalsInv, OwnSteps,
            GoneSteps, Exited, OwnsProcess, Alive, Searching, Served, BootInv, Serving, Booting, Phases
<1>1. CASE LifeStep
  <2>1. Kept /\ UNCHANGED recovery
    BY <1>1, LifeIsNext, NextKeeps DEF LifeStep
  <2>2. CASE ServingStep
    BY <2>1, <2>2 DEF ServingStep, Serving, Kept
  <2>3. CASE QuietStep
    BY <2>1, <2>3, QuietKeeps DEF Serving, Kept
  <2>4. CASE BootStep
    <3>1. CASE Confirm(Poller)
      BY <2>1, <2>4, <3>1 DEF BootStep, Confirm, Serving, Kept
    <3>2. CASE StartFailed(Poller)
      BY <2>1, <2>4, <3>2 DEF BootStep, StartFailed, Serving, Kept
    <3>3. CASE Settle(Poller)
      BY <2>1, <2>4, <3>3 DEF BootStep, Settle, Return, Serving, Kept
    <3>4. CASE BurySave(Poller)
      BY <2>1, <2>4, <3>4 DEF BootStep, BurySave, Serving, Kept
    <3>5. CASE BuryFailedStart(Poller)
      BY <2>1, <2>4, <3>5 DEF BootStep, BuryFailedStart, Bury, Told, Return, Serving, Kept
    <3> QED
      BY <2>4, <3>1, <3>2, <3>3, <3>4, <3>5 DEF BootStep
  <2> QED
    BY <1>1, <2>2, <2>3, <2>4 DEF LifeStep
<1>2. CASE LosesRecord
  <2>1. PICK t \in Users : Unrecorded(t)
    BY <1>2, LosesEffect
  <2>2. CASE mode[t] = "booking"
    BY <2>1, <2>2 DEF Unrecorded
  <2>3. CASE mode[t] # "booking"
    BY <2>1, <2>3 DEF Unrecorded, Return
  <2> QED
    BY <2>2, <2>3
<1>3. CASE CallsNobody
  BY <1>3 DEF CallsNobody, ChildCallsNobody
<1>4. CASE ShutdownBegin
  BY <1>4 DEF ShutdownBegin, Unreaped
<1>5. ASSUME NEW p \in Pids, ShutdownKill(p) PROVE BootInv'
  BY <1>5 DEF ShutdownKill, Terminated
<1>6. CASE ShutdownEnd \/ Crash
  <2>1. GoesDown /\ phase # "down"
    BY <1>6 DEF ShutdownEnd, Crash
  <2> QED
    BY <2>1 DEF GoesDown, NotCalled, RequestsOver, CallbacksOver
<1>7. CASE StartUp
  BY <1>7 DEF StartUp, IsStale
<1>8. ASSUME NEW c \in Chats, ReconcileStop(c) PROVE BootInv'
  BY <1>8 DEF ReconcileStop, StoppedStale, Terminated
<1>9. CASE ResumeStale
  BY <1>9 DEF ResumeStale, Spawn, LoginKept, Unreaped
<1>10. CASE ResumedStale
  BY <1>10 DEF ResumedStale, Reconciled, Told
<1>11. CASE AbandonStale
  BY <1>11 DEF AbandonStale, Reconciled, Told
<1>12. CASE ReconcileEnd \/ UNCHANGED allvars
  BY <1>12 DEF ReconcileEnd, allvars, vars
<1> QED
  BY <1>1, <1>2, <1>3, <1>4, <1>5, <1>6, <1>7, <1>8, <1>9, <1>10, <1>11, <1>12, StepKinds

LEMMA BootInit == RecoveryInit => TypeInv /\ CoreInv /\ BootInv
<1> SUFFICES ASSUME RecoveryInit PROVE TypeInv /\ CoreInv /\ BootInv
  OBVIOUS
<1>1. TypeInv /\ CoreInv
  BY TypeInit, CoreInit DEF RecoveryInit
<1>2. BootInv
  BY LifecycleAssumption DEF RecoveryInit, Init, BootInv, Phases, Booting, Serving, NoRecords
<1> QED
  BY <1>1, <1>2

BaseInv == TypeInv /\ CoreInv /\ BootInv

\* What holds whatever happens, and the rest stands on.
LEMMA BaseCorrect == RecoverySpec => []BaseInv
<1>1. RecoveryInit => BaseInv
  BY BootInit DEF BaseInv
<1>2. BaseInv /\ [RecoveryNext]_allvars => BaseInv'
  BY TypeRecovery, CoreRecovery, BootNext DEF BaseInv
<1> QED
  BY <1>1, <1>2, PTL DEF RecoverySpec

-----------------------------------------------------------------------------
(* One request thread, and no request cut short *)

\* Start-up has everything of an earlier run on its list, because nothing was orphaned.
LEMMA LeftNext ==
  ASSUME TypeInv, CoreInv, BootInv, Tracked, TrackInv, LeftInv, [RecoveryNext]_allvars
  PROVE  LeftInv'
<1> USE LifecycleAssumption
<1> USE DEF TypeInv, TypeOK, OutcomeInv, Threads, Goto, ProcState, Exits, store, system,
            service, locals, recovery, NoRecords, CoreInv, NamesInv, LocalsInv, OwnSteps,
            GoneSteps, Exited, OwnsProcess, Alive, Searching, Served, BootInv, Serving, Booting,
            Phases, LeftInv
<1>1. CASE LifeStep
  <2>1. Kept /\ UNCHANGED recovery
    BY <1>1, LifeIsNext, NextKeeps DEF LifeStep
  <2>2. CASE ServingStep
    <3>1. \A c \in Chats : running[c] \notin earlier
      BY <2>2 DEF ServingStep
    <3>2. \A p \in earlier : ~Searching(p)' /\ running'[owner'[p]] # p
      BY <2>1, <2>2, <3>1 DEF ServingStep, Kept
    <3>3. NoPid \notin earlier /\ \A p \in earlier : proc[p] # "unborn"
      OBVIOUS
    <3>4. ASSUME NEW t \in Threads
          PROVE  pid'[t] \notin earlier /\ \A c \in Chats : seen'[t][c] \notin earlier
      <4>1. pid[t] \notin earlier /\ \A c \in Chats : seen[t][c] \notin earlier
        OBVIOUS
      <4>2. \A c \in Chats : seen'[t][c] \in {seen[t][c], running[c], NoPid}
        BY <2>1 DEF Kept
      <4>3. \/ pid'[t] \in {pid[t], NoPid} \/ (pid'[t] \in Pids /\ proc[pid'[t]] = "unborn")
            \/ \E c \in Chats : pid'[t] \in {running[c], seen[t][c]}
        BY <2>1 DEF Kept
      <4>4. pid'[t] \notin earlier
        <5>1. CASE pid'[t] \in {pid[t], NoPid}
          BY <3>3, <4>1, <5>1
        <5>2. CASE pid'[t] \in Pids /\ proc[pid'[t]] = "unborn"
          BY <3>3, <5>2
        <5>3. ASSUME NEW c \in Chats, pid'[t] \in {running[c], seen[t][c]} PROVE pid'[t] \notin earlier
          BY <3>1, <4>1, <5>3
        <5> QED
          BY <4>3, <5>1, <5>2, <5>3
      <4>5. ASSUME NEW c \in Chats PROVE seen'[t][c] \notin earlier
        BY <3>1, <3>3, <4>1, <4>2
      <4> QED
        BY <4>4, <4>5
    <3> QED
      BY <2>1, <2>2, <3>2, <3>4 DEF ServingStep, Kept
  <2>3. CASE QuietStep
    BY <2>1, <2>3, QuietKeeps DEF Kept
  <2>4. CASE BootStep
    <3>1. CASE Confirm(Poller)
      BY <2>1, <2>4, <3>1 DEF BootStep, Confirm, Kept
    <3>2. CASE StartFailed(Poller)
      BY <2>1, <2>4, <3>2 DEF BootStep, StartFailed, Kept
    <3>3. CASE Settle(Poller)
      <4>1. pid' = [pid EXCEPT ![Poller] = NoPid] /\ UNCHANGED <<running, proc, owner, seen, earlier>>
        BY <2>4, <3>3 DEF BootStep, Settle, Return
      <4>2. phase = "resuming" /\ UNCHANGED <<phase, stale, chat>>
        BY <2>1, <2>4, <3>3 DEF BootStep, Settle
      <4> QED
        BY <4>1, <4>2
    <3>4. CASE BurySave(Poller)
      BY <2>1, <2>4, <3>4 DEF BootStep, BurySave, Kept
    <3>5. CASE BuryFailedStart(Poller)
      <4>1. /\ pid' = [pid EXCEPT ![Poller] = NoPid] /\ running' = [running EXCEPT ![chat[Poller]] = NoPid]
            /\ UNCHANGED <<proc, owner, seen, earlier>>
        BY <2>4, <3>5 DEF BootStep, BuryFailedStart, Bury, Return
      <4>2. phase = "resuming" /\ UNCHANGED <<phase, stale, chat>>
        BY <2>1, <2>4, <3>5 DEF BootStep, BuryFailedStart, Bury
      <4> QED
        BY <4>1, <4>2
    <3> QED
      BY <2>4, <3>1, <3>2, <3>3, <3>4, <3>5 DEF BootStep
  <2> QED
    BY <1>1, <2>2, <2>3, <2>4 DEF LifeStep
<1>2. CASE LosesRecord
  BY <1>2 DEF LosesRecord, RecordFails, Tracked
<1>3. CASE CallsNobody
  BY <1>3 DEF CallsNobody, ChildCallsNobody
<1>4. CASE ShutdownBegin
  BY <1>4 DEF ShutdownBegin, Unreaped
<1>5. ASSUME NEW p \in Pids, ShutdownKill(p) PROVE LeftInv'
  BY <1>5 DEF ShutdownKill, Terminated
<1>6. CASE ShutdownEnd \/ Crash
  <2>1. GoesDown /\ phase # "down"
    BY <1>6 DEF ShutdownEnd, Crash
  <2> QED
    BY <2>1 DEF GoesDown, NotCalled, RequestsOver, CallbacksOver
<1>7. CASE StartUp
  BY <1>7 DEF StartUp, IsStale, TrackInv, SerialInv, NoOrphan, InHand
<1>8. ASSUME NEW c \in Chats, ReconcileStop(c) PROVE LeftInv'
  BY <1>8 DEF ReconcileStop, StoppedStale, Terminated
<1>9. CASE ResumeStale
  <2>1. PICK p \in Pids :
          /\ proc[p] = "unborn" /\ proc' = [proc EXCEPT ![p] = "searching"]
          /\ owner' = [owner EXCEPT ![p] = chat[Poller]] /\ pid' = [pid EXCEPT ![Poller] = p]
    BY <1>9 DEF ResumeStale, Spawn
  <2>2. /\ p \notin earlier /\ UNCHANGED <<running, earlier, seen, stale, chat>>
        /\ phase = "deciding" /\ phase' = "resuming"
    BY <1>9, <2>1 DEF ResumeStale, Spawn
  <2> QED
    BY <2>1, <2>2
<1>10. CASE ResumedStale
  BY <1>10 DEF ResumedStale, Reconciled, Told
<1>11. CASE AbandonStale
  <2>1. /\ running' = [running EXCEPT ![chat[Poller]] = NoPid]
        /\ stale' = [stale EXCEPT ![chat[Poller]] = NoPid]
        /\ phase \in {"deciding", "resuming"} /\ phase' = "reconciling"
        /\ UNCHANGED <<proc, owner, earlier, pid, seen>>
    BY <1>11 DEF AbandonStale, Reconciled
  <2> QED
    BY <2>1
<1>12. CASE ReconcileEnd \/ UNCHANGED allvars
  BY <1>12 DEF ReconcileEnd, allvars, vars
<1> QED
  BY <1>1, <1>2, <1>3, <1>4, <1>5, <1>6, <1>7, <1>8, <1>9, <1>10, <1>11, <1>12, StepKinds
\* A restart begins with no thread in the middle of anything; a resume at start-up is the one
\* start whose chat has a record.
LEMMA TrackNext ==
  ASSUME TypeInv, CoreInv, BootInv, Tracked, TrackInv, LeftInv, [RecoveryNext]_allvars
  PROVE  TrackInv'
<1> USE LifecycleAssumption
<1> USE DEF TypeInv, TypeOK, OutcomeInv, Threads, Goto, ProcState, Exits, store, system,
            service, locals, recovery, NoRecords, CoreInv, NamesInv, LocalsInv, OwnSteps,
            GoneSteps, Exited, OwnsProcess, Alive, Searching, Served, BootInv, Serving, Booting,
            Phases, LeftInv, TrackInv, ResumeInv, SerialInv, CallInv, RecordInv, StartInv,
            DeadInv, HandInv, NoOrphan, InHand, Burying, Tracked, Serial
<1>1. CASE LifeStep
  <2>1. CASE phase # "resuming"
    BY <1>1, <2>1, LifeIsNext, SerialNext DEF LifeStep, TrackInv, Tracked
  <2>2. CASE phase = "resuming" /\ QuietStep
    BY <2>2, <1>1, QuietKeeps, LifeIsNext, NextKeeps DEF LifeStep, Kept, TrackInv, ResumeInv, CallInv, HandInv, NoOrphan, InHand
  <2>3. CASE phase = "resuming" /\ BootStep
    <3> USE <2>3 DEF TrackInv, ResumeInv, CallInv, HandInv, NoOrphan, InHand
    <3>1. CASE Confirm(Poller)
      <4>1. CallInv' /\ HandInv'
        BY <1>1, <3>1 DEF LifeStep, BootStep, Confirm
      <4>2. ASSUME NEW p \in Pids, Searching(p)'
            PROVE  (running[owner[p]] = p \/ InHand(p))'
        <5>0. /\ pid[Poller] \in Pids /\ owner[pid[Poller]] = chat[Poller] /\ pc[Poller] = "confirm"
              /\ Searching(p) /\ owner' = owner
          BY <3>1, <4>2 DEF Confirm
        <5>1. CASE owner[p] = chat[Poller]
          <6>1. p = pid[Poller]
            BY <5>0, <5>1
          <6> QED
            BY <3>1, <5>0, <6>1 DEF Confirm
        <5>2. CASE owner[p] # chat[Poller]
          <6>1. running'[owner[p]] = running[owner[p]]
            BY <3>1, <5>2 DEF Confirm
          <6>2. ~InHand(p)
            BY <5>0, <5>2
          <6> QED
            BY <5>0, <6>1, <6>2
        <5> QED
          BY <5>1, <5>2
      <4>3. \A c \in Chats : dead[c] # "none" => running'[c] = NoPid
        BY <3>1 DEF Confirm
      <4>4. NoOrphan'
        <5> HIDE DEF InHand
        <5> QED
          BY <4>2
      <4>5. phase' = "resuming" /\ pc'[Poller] = "settle" /\ UNCHANGED dead
        BY <1>1, <2>3, <3>1 DEF LifeStep, Confirm
      <4>6. ResumeInv'
        <5> HIDE DEF CallInv, HandInv, NoOrphan
        <5> QED
          BY <4>1, <4>3, <4>4, <4>5
      <4> QED
        BY <4>5, <4>6
    <3>2. CASE StartFailed(Poller)
      BY <1>1, <3>2 DEF LifeStep, BootStep, StartFailed
    <3>3. CASE Settle(Poller)
      BY <1>1, <3>3 DEF LifeStep, BootStep, Settle, Return
    <3>4. CASE BurySave(Poller)
      BY <1>1, <3>4 DEF LifeStep, BootStep, BurySave
    <3>5. CASE BuryFailedStart(Poller)
      BY <1>1, <3>5 DEF LifeStep, BootStep, BuryFailedStart, Bury, Told, Return
    <3> QED
      BY <3>1, <3>2, <3>3, <3>4, <3>5 DEF BootStep
  <2> QED
    BY <1>1, <2>1, <2>2, <2>3 DEF LifeStep, ServingStep
<1>2. CASE LosesRecord
  BY <1>2 DEF LosesRecord, RecordFails, Tracked
<1>3. CASE CallsNobody
  BY <1>3 DEF CallsNobody, ChildCallsNobody
<1>4. CASE ShutdownBegin
  BY <1>4 DEF ShutdownBegin, Unreaped
<1>5. ASSUME NEW p \in Pids, ShutdownKill(p) PROVE TrackInv'
  BY <1>5 DEF ShutdownKill, Terminated
<1>6. CASE ShutdownEnd \/ Crash
  <2>1. GoesDown /\ phase # "down"
    BY <1>6 DEF ShutdownEnd, Crash
  <2> QED
    BY <2>1 DEF GoesDown, NotCalled, RequestsOver, CallbacksOver
<1>7. CASE StartUp
  BY <1>7 DEF StartUp, IsStale
<1>8. ASSUME NEW c \in Chats, ReconcileStop(c) PROVE TrackInv'
  BY <1>8 DEF ReconcileStop, StoppedStale, Terminated
<1>9. CASE ResumeStale
  BY <1>9 DEF ResumeStale, Spawn, LoginKept, Unreaped
<1>10. CASE ResumedStale
  BY <1>10 DEF ResumedStale, Reconciled, Told
<1>11. CASE AbandonStale
  BY <1>11 DEF AbandonStale, Reconciled, Told
<1>12. CASE ReconcileEnd \/ UNCHANGED allvars
  BY <1>12 DEF ReconcileEnd, allvars, vars
<1> QED
  BY <1>1, <1>2, <1>3, <1>4, <1>5, <1>6, <1>7, <1>8, <1>9, <1>10, <1>11, <1>12, StepKinds

LEMMA TrackInit == RecoveryInit => TrackInv /\ LeftInv
<1> SUFFICES ASSUME RecoveryInit PROVE TrackInv /\ LeftInv
  OBVIOUS
<1>1. SerialInv
  BY SerialInit DEF RecoveryInit
<1>2. TrackInv
  BY <1>1 DEF RecoveryInit, TrackInv
<1>3. LeftInv
  BY LifecycleAssumption DEF RecoveryInit, Init, LeftInv, Serving, Booting, Threads
<1> QED
  BY <1>2, <1>3

LEMMA TrackCorrect == ASSUME Tracked PROVE RecoverySpec => [](BaseInv /\ TrackInv /\ LeftInv)
<1>1. RecoveryInit => TrackInv /\ LeftInv
  BY TrackInit
<1>2. BaseInv /\ TrackInv /\ LeftInv /\ [RecoveryNext]_allvars => TrackInv' /\ LeftInv'
  BY Tracked, TrackNext, LeftNext DEF BaseInv
<1> QED
  BY <1>1, <1>2, BaseCorrect, PTL DEF RecoverySpec

\* reconcile_after_restart: whatever crash or shutdown went before, and whatever start-up
\* made of it, an application that serves has no record and no search of an earlier run.
THEOREM EarlierRunsAreOver == ASSUME Tracked PROVE RecoverySpec => []NothingLeftOver
<1>1. LeftInv => NothingLeftOver
  BY DEF LeftInv, NothingLeftOver, Serving
<1> QED
  BY <1>1, Tracked, TrackCorrect, PTL

\* _may_start, for a search resumed at start-up as well: none goes on untracked.
THEOREM NothingOrphanedByRestarts == ASSUME Tracked PROVE RecoverySpec => []NoOrphanAcrossRuns
<1>1. TrackInv => NoOrphanAcrossRuns
  BY DEF TrackInv, SerialInv, NoOrphanAcrossRuns
<1> QED
  BY <1>1, Tracked, TrackCorrect, PTL

-----------------------------------------------------------------------------
(* Shutdown in order *)

\* Without late_start nobody begins a search while the application shuts down.
NoneBegun == /\ \A p \in Pids : Searching(p)' => Searching(p)
             /\ \A t \in Users : pc'[t] # "start"

LEMMA NoneBegins ==
  ASSUME TypeInv, NoLateStart, phase = "stopping", \A t \in Users : pc[t] # "start",
         UNCHANGED recovery, [RecoveryNext]_allvars
  PROVE  NoneBegun
<1> USE LifecycleAssumption
<1> USE DEF TypeInv, TypeOK, Threads, Goto, ProcState, Exits, store, system, service, locals, recovery,
            Searching, NoneBegun, NoLateStart
<1>1. CASE AppRequest
  <2>1. CASE SweepBegin(Poller)
    BY <2>1 DEF SweepBegin
  <2>2. ASSUME NEW c \in Chats, ResumeWithoutLogin(Poller, c) PROVE NoneBegun
    BY <2>2 DEF ResumeWithoutLogin
  <2>3. ASSUME NEW c \in Chats, CancelNothing(Poller, c) PROVE NoneBegun
    BY <2>3 DEF CancelNothing
  <2>4. ASSUME NEW c \in Chats, Discard(Poller, c) PROVE NoneBegun
    BY <2>4 DEF Discard
  <2>5. ASSUME NEW c \in Chats, NEW t \in Users, CancelBegin(t, c) PROVE NoneBegun
    BY <2>5 DEF CancelBegin
  <2> QED
    BY <1>1, <2>1, <2>2, <2>3, <2>4, <2>5 DEF AppRequest, StartsNow
<1>2. ASSUME NEW t \in Users, UserWork(t) PROVE NoneBegun
  <2>1. CASE BookStart(t)
    BY <2>1 DEF BookStart
  <2>2. CASE BookRefused(t)
    BY <2>2 DEF BookRefused
  <2>3. CASE Confirm(t)
    BY <2>3 DEF Confirm
  <2>4. CASE StartFailed(t)
    BY <2>4 DEF StartFailed
  <2>5. CASE RecordFails(t)
    BY <2>5 DEF RecordFails, Return
  <2>6. CASE Settle(t)
    BY <2>6 DEF Settle, Return
  <2>7. CASE Stamp(t)
    BY <2>7 DEF Stamp, Return
  <2>8. CASE Unbook(t)
    BY <2>8 DEF Unbook, Return
  <2>9. CASE BurySave(t)
    BY <2>9 DEF BurySave
  <2>10. CASE BuryFailedStart(t)
    BY <2>10 DEF BuryFailedStart, Bury, Return
  <2>11. CASE CancelDelete(t)
    BY <2>11 DEF CancelDelete
  <2>12. CASE CancelKill(t)
    BY <2>12 DEF CancelKill, Terminated
  <2>13. CASE CancelClean(t)
    BY <2>13 DEF CancelClean, Return
  <2>14. CASE SweepDelete(t)
    BY <2>14 DEF SweepDelete
  <2>15. CASE SweepEnd(t)
    BY <2>15 DEF SweepEnd, Return
  <2>16. ASSUME NEW c \in Chats, SweepKill(t, c) PROVE NoneBegun
    BY <2>16 DEF SweepKill, Terminated
  <2> QED
    BY <1>2, <2>1, <2>2, <2>3, <2>4, <2>5, <2>6, <2>7, <2>8, <2>9, <2>10, <2>11, <2>12, <2>13, <2>14, <2>15, <2>16 DEF UserWork, CancelStep, SweepStep
<1>3. CASE WatchdogWork
  <2>1. CASE PassBegin
    BY <2>1 DEF PassBegin
  <2>2. CASE PassEnd
    BY <2>2 DEF PassEnd, Return
  <2>3. CASE BurySave(Watchdog)
    BY <2>3 DEF BurySave
  <2>4. CASE BuryCrashed
    BY <2>4 DEF BuryCrashed, Bury
  <2>5. ASSUME NEW c \in Chats, PassSkip(c) \/ PassFound(c) PROVE NoneBegun
    BY <2>5 DEF PassSkip, PassFound
  <2> QED
    BY <1>3, <2>1, <2>2, <2>3, <2>4, <2>5 DEF WatchdogWork
<1>4. ASSUME NEW p \in Pids, CallbackServe(p) PROVE NoneBegun
  BY <1>4 DEF CallbackServe, CallbackTell, CallbackDrop, CallbackForget, CallbackGoto
<1>5. ASSUME NEW c \in Chats, SessionExpires(c) PROVE NoneBegun
  BY <1>5 DEF SessionExpires
<1>6. CASE ChildrenStep
  BY <1>6 DEF ChildrenStep, ChildDies, ChildCallsNobody, ChildCalls, ChildAnswered, PaymentWatchEnds, ChildCrashes, Working
<1>7. CASE ShutdownBegin \/ Crash \/ MainStep
  BY <1>7 DEF ShutdownBegin, Crash, MainStep, ShutdownEnd, StartUp, ResumeStale, ResumeStep, ResumedStale, AbandonStale,
              ReconcileEnd, ReconcileStop, ShutdownKill, GoesDown, Reconciled
<1>8. CASE UNCHANGED allvars
  BY <1>8 DEF allvars, vars
<1> QED
  BY <1>1, <1>2, <1>3, <1>4, <1>5, <1>6, <1>7, <1>8 DEF RecoveryNext, Working

\* shutdown goes by the handles: every search of this run has one, and none of an earlier run
\* is left.
LEMMA ShutNext ==
  ASSUME TypeInv, CoreInv, BootInv, Tracked, NoLateStart, LeftInv, ShutInv,
         [RecoveryNext]_allvars
  PROVE  ShutInv'
<1> USE LifecycleAssumption
<1> USE DEF TypeInv, TypeOK, OutcomeInv, Threads, Goto, ProcState, Exits, store, system,
            service, locals, recovery, NoRecords, CoreInv, NamesInv, LocalsInv, OwnSteps,
            GoneSteps, Exited, OwnsProcess, Alive, Searching, Served, BootInv, Serving, Booting,
            Phases, LeftInv, ShutInv, ShutdownStopsAll, EveryChildHasHandle, NoLateStart
<1>1. CASE LifeStep
  <2>0. Kept /\ UNCHANGED recovery
    BY <1>1, LifeIsNext, NextKeeps DEF LifeStep
  <2>1. CASE ServingStep
    <3>1. CASE phase = "stopping"
      BY <2>0, <2>1, <3>1, NoneBegins DEF NoneBegun, ServingStep
    <3>2. CASE phase = "up"
      BY <2>0, <3>2
    <3> QED
      BY <2>1, <3>1, <3>2 DEF ServingStep
  <2>2. CASE QuietStep
    BY <2>0, <2>2, QuietKeeps DEF Kept
  <2>3. CASE BootStep
    BY <2>0, <2>3 DEF BootStep
  <2> QED
    BY <1>1, <2>1, <2>2, <2>3 DEF LifeStep
<1>2. CASE LosesRecord
  BY <1>2 DEF LosesRecord, RecordFails, Tracked
<1>3. CASE CallsNobody
  BY <1>3 DEF CallsNobody, ChildCallsNobody
<1>4. CASE ShutdownBegin
  BY <1>4 DEF ShutdownBegin, Unreaped
<1>5. ASSUME NEW p \in Pids, ShutdownKill(p) PROVE ShutInv'
  BY <1>5 DEF ShutdownKill, Terminated
<1>6. CASE ShutdownEnd \/ Crash
  <2>1. GoesDown /\ phase' = "down"
    BY <1>6 DEF ShutdownEnd, Crash, GoesDown
  <2>2. CASE ShutdownEnd
    BY <2>1, <2>2 DEF ShutdownEnd, GoesDown
  <2>3. CASE Crash
    BY <2>1, <2>3 DEF Crash
  <2> QED
    BY <1>6, <2>2, <2>3
<1>7. CASE StartUp
  BY <1>7 DEF StartUp, IsStale
<1>8. ASSUME NEW c \in Chats, ReconcileStop(c) PROVE ShutInv'
  BY <1>8 DEF ReconcileStop, StoppedStale, Terminated
<1>9. CASE ResumeStale
  BY <1>9 DEF ResumeStale, Spawn, LoginKept, Unreaped
<1>10. CASE ResumedStale
  BY <1>10 DEF ResumedStale, Reconciled, Told
<1>11. CASE AbandonStale
  BY <1>11 DEF AbandonStale, Reconciled, Told
<1>12. CASE ReconcileEnd \/ UNCHANGED allvars
  BY <1>12 DEF ReconcileEnd, allvars, vars
<1> QED
  BY <1>1, <1>2, <1>3, <1>4, <1>5, <1>6, <1>7, <1>8, <1>9, <1>10, <1>11, <1>12, StepKinds
\* shutdown, "Stop every search this run started": with no start let in while it shuts
\* down, the handles are all the searches there are.
THEOREM ShutdownIsComplete == ASSUME Tracked, NoLateStart PROVE RecoverySpec => []ShutdownStopsAll
<1>1. RecoveryInit => ShutInv
  BY DEF RecoveryInit, ShutInv, ShutdownStopsAll
<1>2. BaseInv /\ LeftInv /\ ShutInv /\ [RecoveryNext]_allvars => ShutInv'
  BY Tracked, NoLateStart, ShutNext DEF BaseInv
<1>3. ShutInv => ShutdownStopsAll
  BY DEF ShutInv
<1> QED
  BY <1>1, <1>2, <1>3, Tracked, TrackCorrect, PTL DEF RecoverySpec

-----------------------------------------------------------------------------
(* Who is told *)

LEMMA TellsOf ==
  ASSUME TypeInv, NEW p \in Pids, NEW report, Told(p, report)
  PROVE  told'[p] # {} /\ \A q \in Pids : told[q] # {} => told'[q] # {}
  BY DEF Told, TypeInv, TypeOK

\* Whoever takes a search off the record tells its chat; the record a handler deletes is of the
\* search it has in hand (RecordInv).
LEMMA HeardServing ==
  ASSUME TypeInv, CoreInv, Serial, SerialInv, UNCHANGED stale, HeardInv, [Next]_vars
  PROVE  HeardInv'
<1> USE LifecycleAssumption
<1> USE DEF TypeInv, TypeOK, OutcomeInv, Threads, Goto, ProcState, Exits, store, system,
            service, locals, CoreInv, NamesInv, LocalsInv, NoRecords, OwnSteps, GoneSteps,
            Exited, OwnsProcess, Alive, Searching, Served, Serial, SerialInv, CallInv,
            RecordInv, Hands, HeardInv, Heard, Heard
<1>1. ASSUME NEW t \in Users, StartStep(t) PROVE HeardInv'
  <2>1. CASE BookStart(t)
    BY <2>1 DEF BookStart, Spawn, LoginKept, Unreaped
  <2>2. CASE BookRefused(t)
    BY <2>2 DEF BookRefused, Unreaped
  <2>3. CASE Confirm(t)
    BY <2>3 DEF Confirm
  <2>4. CASE StartFailed(t)
    BY <2>4 DEF StartFailed
  <2>5. CASE Settle(t)
    <3>1. CASE mode[t] = "booking"
      BY <2>5, <3>1 DEF Settle
    <3>2. CASE mode[t] # "booking"
      BY <2>5, <3>2 DEF Settle, Return
    <3> QED
      BY <3>1, <3>2
  <2>6. CASE Stamp(t)
    BY <2>6 DEF Stamp, Return
  <2>7. CASE Unbook(t)
    BY <2>7 DEF Unbook, Return
  <2>8. CASE BurySave(t)
    BY <2>8 DEF BurySave
  <2>9. CASE BuryFailedStart(t)
    <3>1. CASE mode[t] = "booking"
      BY <2>9, <3>1, TellsOf DEF BuryFailedStart, Bury
    <3>2. CASE mode[t] # "booking"
      BY <2>9, <3>2, TellsOf DEF BuryFailedStart, Bury, Return
    <3> QED
      BY <3>1, <3>2
  <2> QED
    BY <1>1, <2>1, <2>2, <2>3, <2>4, <2>5, <2>6, <2>7, <2>8, <2>9 DEF StartStep
<1>2. ASSUME NEW t \in Users, CancelStep(t) PROVE HeardInv'
  <2>1. CASE CancelDelete(t)
    BY <2>1 DEF CancelDelete
  <2>2. CASE CancelKill(t)
    BY <2>2 DEF CancelKill, Terminated
  <2>3. CASE CancelClean(t)
    BY <2>3, TellsOf DEF CancelClean, Return
  <2> QED
    BY <1>2, <2>1, <2>2, <2>3 DEF CancelStep
<1>3. ASSUME NEW t \in Users, SweepStep(t) PROVE HeardInv'
  <2>1. CASE SweepDelete(t)
    BY <2>1, TellsOf DEF SweepDelete
  <2>2. CASE SweepEnd(t)
    BY <2>2 DEF SweepEnd, Return
  <2>3. ASSUME NEW c \in Chats, SweepKill(t, c) PROVE HeardInv'
    BY <2>3 DEF SweepKill, Terminated
  <2> QED
    BY <1>3, <2>1, <2>2, <2>3 DEF SweepStep
<1>4. ASSUME NEW t \in Users, Request(t) PROVE HeardInv'
  <2>1. ASSUME NEW c \in Chats, BookBegin(t, c) PROVE HeardInv'
    BY <2>1 DEF BookBegin
  <2>2. ASSUME NEW c \in Chats, CancelBegin(t, c) PROVE HeardInv'
    BY <2>2 DEF CancelBegin
  <2> QED
    BY <1>4, <2>1, <2>2 DEF Request
<1>5. CASE ChatRequest
  <2>1. CASE SweepBegin(Poller)
    BY <2>1 DEF SweepBegin
  <2>2. ASSUME NEW c \in Chats, Resume(Poller, c) PROVE HeardInv'
    BY <2>2 DEF Resume, Spawn, LoginKept, Unreaped
  <2>3. ASSUME NEW c \in Chats, ResumeWithoutLogin(Poller, c) PROVE HeardInv'
    BY <2>3 DEF ResumeWithoutLogin
  <2>4. ASSUME NEW c \in Chats, Discard(Poller, c) PROVE HeardInv'
    BY <2>4 DEF Discard
  <2>5. ASSUME NEW c \in Chats, CancelNothing(Poller, c) PROVE HeardInv'
    BY <2>5 DEF CancelNothing
  <2> QED
    BY <1>5, <2>1, <2>2, <2>3, <2>4, <2>5 DEF ChatRequest
<1>6. ASSUME NEW c \in Chats, SessionExpires(c) PROVE HeardInv'
  BY <1>6 DEF SessionExpires
<1>7. CASE WatchdogStep
  <2>1. CASE PassBegin
    BY <2>1 DEF PassBegin, Unreaped
  <2>2. CASE PassEnd
    BY <2>2 DEF PassEnd, Return
  <2>3. CASE BurySave(Watchdog)
    BY <2>3 DEF BurySave
  <2>4. CASE BuryCrashed
    BY <2>4, TellsOf DEF BuryCrashed, Bury
  <2>5. ASSUME NEW c \in Chats, PassSkip(c) PROVE HeardInv'
    BY <2>5 DEF PassSkip
  <2>6. ASSUME NEW c \in Chats, PassFound(c) PROVE HeardInv'
    BY <2>6 DEF PassFound, StillRecorded
  <2> QED
    BY <1>7, <2>1, <2>2, <2>3, <2>4, <2>5, <2>6 DEF WatchdogStep
<1>8. ASSUME NEW p \in Pids, CallbackServe(p) PROVE HeardInv'
  <2>1. CASE CallbackTell(p)
    BY <2>1, TellsOf DEF CallbackTell, CallbackGoto
  <2>2. CASE CallbackDrop(p)
    BY <2>2 DEF CallbackDrop, CallbackGoto, SessionResetIf
  <2>3. CASE CallbackForget(p)
    BY <2>3 DEF CallbackForget, CallbackGoto, SessionResetIf
  <2> QED
    BY <1>8, <2>1, <2>2, <2>3 DEF CallbackServe
<1>9. ASSUME NEW p \in Pids, ChildStep(p) PROVE HeardInv'
  <2>1. ASSUME NEW what \in {"booked", "failed"}, ChildCalls(p, what) PROVE HeardInv'
    BY <2>1 DEF ChildCalls, Returned
  <2>2. CASE ChildAnswered(p)
    BY <2>2 DEF ChildAnswered
  <2>3. CASE PaymentWatchEnds(p)
    BY <2>3 DEF PaymentWatchEnds
  <2>4. CASE ChildCrashes(p)
    BY <2>4 DEF ChildCrashes, Returned
  <2> QED
    BY <1>9, <2>1, <2>2, <2>3, <2>4 DEF ChildStep
<1>10. CASE UNCHANGED vars
  BY <1>10 DEF vars
<1> HIDE DEF HeardInv
<1> QED
  BY <1>1, <1>2, <1>3, <1>4, <1>5, <1>6, <1>7, <1>8, <1>9, <1>10 DEF Next, UserStep

\* Nothing is in anybody's hand when the application goes away, and start-up tells of all it
\* takes off its list.
LEMMA HeardNext ==
  ASSUME TypeInv, CoreInv, BootInv, Tracked, TrackInv, LeftInv, HeardInv, [RecoveryNext]_allvars
  PROVE  HeardInv'
<1> USE LifecycleAssumption
<1> USE DEF TypeInv, TypeOK, OutcomeInv, Threads, Goto, ProcState, Exits, store, system,
            service, locals, recovery, NoRecords, CoreInv, NamesInv, LocalsInv, OwnSteps,
            GoneSteps, Exited, OwnsProcess, Alive, Searching, Served, BootInv, Serving, Booting,
            Phases, LeftInv, Hands, HeardInv, Heard, Tracked
<1>1. CASE LifeStep
  <2>1. CASE phase # "resuming"
    BY <1>1, <2>1, LifeIsNext, HeardServing DEF LifeStep, TrackInv, Tracked
  <2>2. CASE phase = "resuming" /\ QuietStep
    <3>1. UNCHANGED <<running, owner, callback, pc, pid, told, stale>>
      BY <1>1, <2>2, QuietKeeps DEF LifeStep
    <3>2. \A p \in Pids : proc[p] = "unborn" => proc'[p] = "unborn"
      BY <2>2, QuietKeeps
    <3>3. \A p \in Pids : Heard(p) => Heard(p)'
      BY <3>1
    <3> HIDE DEF Heard
    <3> QED
      BY <3>1, <3>2, <3>3
  <2>3. CASE phase = "resuming" /\ BootStep
    <3>1. CASE Confirm(Poller)
      <4>1. running[chat[Poller]] \in earlier /\ phase = "resuming"
        BY <2>3, <3>1 DEF TrackInv, ResumeInv, Confirm
      <4>2. stale[chat[Poller]] = running[chat[Poller]]
        BY <4>1
      <4>3. /\ pc' = [pc EXCEPT ![Poller] = "settle"] /\ running' = [running EXCEPT ![chat[Poller]] = pid[Poller]]
            /\ owner[pid[Poller]] = chat[Poller]
            /\ UNCHANGED <<proc, owner, callback, told, pid, stale>>
        BY <1>1, <3>1 DEF LifeStep, Confirm
      <4>4. ASSUME NEW p \in Pids, Heard(p) PROVE Heard(p)'
        <5>1. CASE pid[Poller] = p
          BY <4>3, <5>1
        <5>2. CASE pid[Poller] # p /\ owner[p] = chat[Poller] /\ running[owner[p]] = p
          BY <4>2, <4>3, <5>2
        <5>3. CASE pid[Poller] # p /\ ~(owner[p] = chat[Poller] /\ running[owner[p]] = p)
          BY <4>3, <4>4, <5>3
        <5> QED
          BY <5>1, <5>2, <5>3
      <4> QED
        <5> HIDE DEF Heard
        <5> QED
          BY <4>3, <4>4
    <3>2. CASE StartFailed(Poller)
      BY <1>1, <2>3, <3>2 DEF LifeStep, BootStep, StartFailed
    <3>3. CASE Settle(Poller)
      BY <1>1, <2>3, <3>3 DEF LifeStep, BootStep, Settle, Return
    <3>4. CASE BurySave(Poller)
      BY <1>1, <2>3, <3>4 DEF LifeStep, BootStep, BurySave
    <3>5. CASE BuryFailedStart(Poller)
      <4>1. running[chat[Poller]] \in earlier /\ phase = "resuming"
        BY <2>3, <3>5 DEF TrackInv, ResumeInv, BuryFailedStart, Return
      <4>2. stale[chat[Poller]] = running[chat[Poller]]
        BY <4>1
      <4>3. /\ pid' = [pid EXCEPT ![Poller] = NoPid] /\ running' = [running EXCEPT ![chat[Poller]] = NoPid]
            /\ pc[Poller] = "bury_delete" /\ pc' = [pc EXCEPT ![Poller] = "idle"]
            /\ UNCHANGED <<proc, owner, callback, stale>>
        BY <1>1, <2>3, <3>5 DEF LifeStep, BuryFailedStart, Bury, Return
      <4>4. told'[pid[Poller]] # {} /\ \A q \in Pids : told[q] # {} => told'[q] # {}
        BY <3>5, <4>3, TellsOf DEF BuryFailedStart, Bury
      <4>5. ASSUME NEW p \in Pids, Heard(p) PROVE Heard(p)'
        <5>1. CASE pid[Poller] = p
          BY <4>4, <5>1
        <5>2. CASE owner[p] = chat[Poller] /\ running[owner[p]] = p
          BY <4>2, <4>3, <5>2
        <5>3. CASE told[p] # {} \/ stale[owner[p]] = p
          BY <4>3, <4>4, <5>3
        <5>4. CASE owner[p] # chat[Poller] /\ running[owner[p]] = p
          BY <4>3, <5>4
        <5>5. CASE pid[Poller] # p /\ \E t \in Threads : pid[t] = p /\ pc[t] \in Hands
          <6>1. PICK t \in Threads : pid[t] = p /\ pc[t] \in Hands /\ t # Poller
            BY <5>5
          <6>2. pid'[t] = p /\ pc'[t] \in Hands
            BY <4>3, <6>1
          <6> QED
            BY <6>2
        <5> QED
          BY <4>5, <5>1, <5>2, <5>3, <5>4, <5>5
      <4> QED
        <5> HIDE DEF Heard
        <5> QED
          BY <4>3, <4>4, <4>5
    <3> QED
      BY <2>3, <3>1, <3>2, <3>3, <3>4, <3>5 DEF BootStep
  <2> QED
    BY <1>1, <2>1, <2>2, <2>3 DEF LifeStep, ServingStep
<1>2. CASE LosesRecord
  BY <1>2 DEF LosesRecord, RecordFails, Tracked
<1>3. CASE CallsNobody
  <2>1. PICK p \in Pids : Searching(p) /\ \E what \in {"booked", "failed"} : ChildCallsNobody(p, what)
    BY <1>3 DEF CallsNobody, ChildCallsNobody
  <2>2. /\ callback' = [callback EXCEPT ![p] = "done"] /\ proc[p] = "searching"
        /\ UNCHANGED <<running, owner, pc, pid, told, stale>>
        /\ \A q \in Pids : proc'[q] # "unborn" => proc[q] # "unborn"
    BY <2>1 DEF ChildCallsNobody
  <2>3. \A q \in Pids : Heard(q) => Heard(q)'
    BY <2>2
  <2> HIDE DEF Heard
  <2> QED
    BY <2>2, <2>3
<1>4. CASE ShutdownBegin
  BY <1>4 DEF ShutdownBegin, Unreaped
<1>5. ASSUME NEW p \in Pids, ShutdownKill(p) PROVE HeardInv'
  BY <1>5 DEF ShutdownKill, Terminated
<1>6. CASE ShutdownEnd \/ Crash
  <2>1. GoesDown
    BY <1>6 DEF ShutdownEnd, Crash
  <2>2. /\ \A t \in Threads : pc[t] \notin Hands
        /\ phase # "resuming"
    BY <2>1 DEF GoesDown, RequestsOver, Tracked
  <2>3. \A c \in Chats : stale[c] # NoPid => running[c] = stale[c]
    BY <2>2
  <2>4. /\ \A p \in Pids : callback'[p] \notin {"drop", "forget"}
        /\ UNCHANGED <<running, proc, owner, told>>
    BY <2>1 DEF GoesDown
  <2>5. ASSUME NEW p \in Pids, Heard(p) PROVE Heard(p)'
    BY <2>2, <2>3, <2>4, <2>5
  <2> QED
    BY <2>4, <2>5
<1>7. CASE StartUp
  BY <1>7 DEF StartUp, IsStale
<1>8. ASSUME NEW c \in Chats, ReconcileStop(c) PROVE HeardInv'
  BY <1>8 DEF ReconcileStop, StoppedStale, Terminated
<1>9. CASE ResumeStale
  BY <1>9 DEF ResumeStale, Spawn, LoginKept, Unreaped
<1>10. CASE ResumedStale
  <2> DEFINE c == chat[Poller]
  <2>1. /\ stale' = [stale EXCEPT ![c] = NoPid] /\ stale[c] \in Pids
        /\ Told(stale[c], "resumed") /\ UNCHANGED <<running, proc, owner, callback, pc, pid>>
    BY <1>10 DEF ResumedStale, Reconciled
  <2>2. told'[stale[c]] # {} /\ \A q \in Pids : told[q] # {} => told'[q] # {}
    BY <2>1, TellsOf
  <2>3. ASSUME NEW p \in Pids, Heard(p) PROVE Heard(p)'
    BY <2>1, <2>2, <2>3
  <2> HIDE DEF Heard
  <2> QED
    BY <2>1, <2>2, <2>3
<1>11. CASE AbandonStale
  <2> DEFINE c == chat[Poller]
  <2>1. /\ running' = [running EXCEPT ![c] = NoPid] /\ stale' = [stale EXCEPT ![c] = NoPid]
        /\ stale[c] \in Pids /\ running[c] \in {stale[c], NoPid} \union (Pids \ earlier)
        /\ Told(stale[c], "interrupted") /\ UNCHANGED <<proc, owner, callback, pc, pid>>
    BY <1>11 DEF AbandonStale, Reconciled
  <2>2. running[c] \in {stale[c], NoPid}
    BY <1>11, <2>1 DEF AbandonStale
  <2>3. told'[stale[c]] # {} /\ \A q \in Pids : told[q] # {} => told'[q] # {}
    BY <2>1, TellsOf
  <2>4. ASSUME NEW p \in Pids, Heard(p) PROVE Heard(p)'
    BY <2>1, <2>2, <2>3, <2>4
  <2> QED
    BY <2>1, <2>3, <2>4
<1>12. CASE ReconcileEnd \/ UNCHANGED allvars
  <2>1. UNCHANGED <<running, proc, owner, callback, pc, pid, told, stale>>
    BY <1>12 DEF ReconcileEnd, allvars, vars
  <2> QED
    BY <2>1
<1> QED
  BY <1>1, <1>2, <1>3, <1>4, <1>5, <1>6, <1>7, <1>8, <1>9, <1>10, <1>11, <1>12, StepKinds
\* reconcile_after_restart, "either resumed or cleaned up and reported": when start-up is
\* through, the chat of every search of an earlier run has heard how it ended.
THEOREM NoneEndsSilently == ASSUME Tracked PROVE RecoverySpec => []NoSilentEnd
<1>1. RecoveryInit => HeardInv
  BY DEF RecoveryInit, Init, HeardInv
<1>2. BaseInv /\ TrackInv /\ LeftInv /\ HeardInv /\ [RecoveryNext]_allvars => HeardInv'
  BY Tracked, HeardNext DEF BaseInv
<1>3. BaseInv /\ LeftInv /\ HeardInv => NoSilentEnd
  <2> SUFFICES ASSUME BaseInv, LeftInv, HeardInv, phase = "up", NEW p \in earlier
               PROVE  told[p] # {}
    BY DEF NoSilentEnd
  <2>1. p \in Pids /\ proc[p] # "unborn" /\ owner[p] \in Chats
    BY DEF BaseInv, BootInv, TypeInv, TypeOK
  <2>2. Heard(p)
    BY <2>1 DEF HeardInv
  <2>3. stale = NoRecords
    BY DEF BaseInv, BootInv, Booting
  <2>4. stale[owner[p]] # p
    BY <2>1, <2>3, LifecycleAssumption DEF NoRecords
  <2>5. running[owner[p]] # p /\ \A t \in Threads : pid[t] # p
    BY DEF LeftInv, Serving
  <2> QED
    BY <2>2, <2>4, <2>5 DEF Heard
<1> QED
  BY <1>1, <1>2, <1>3, Tracked, TrackCorrect, BaseCorrect, PTL DEF RecoverySpec

-----------------------------------------------------------------------------
(* What start-up says of a search, whatever the threads and the other accidents *)

\* A callback is always answered before the application goes away.
Delivered == "lost_callback" \notin Accidents

\* A restart finds no callback half served.
LEMMA CalledRecovery ==
  ASSUME TypeInv, CoreInv, BootInv, Outlasts, Delivered, CalledInv, [RecoveryNext]_allvars
  PROVE  CalledInv'
<1> USE LifecycleAssumption
<1> USE DEF TypeInv, TypeOK, OutcomeInv, Threads, Goto, ProcState, Exits, store, system,
            service, locals, recovery, NoRecords, CoreInv, NamesInv, LocalsInv, OwnSteps,
            GoneSteps, Exited, OwnsProcess, Alive, Searching, Served, BootInv, Serving, Booting,
            Phases, CalledInv, Delivered
<1>1. CASE LifeStep
  BY <1>1, LifeIsNext, CalledNext
<1>2. CASE LosesRecord
  <2>1. PICK t \in Users : Unrecorded(t)
    BY <1>2, LosesEffect
  <2>2. CASE mode[t] = "booking"
    <3>1. pc' = [pc EXCEPT ![t] = "unbook"] /\ UNCHANGED <<mode, pid>>
      BY <2>1, <2>2 DEF Unrecorded
    <3> QED
      BY <2>1, <3>1 DEF Unrecorded
  <2>3. CASE mode[t] # "booking"
    <3>1. Return(t, "confirm")
      BY <2>1, <2>3 DEF Unrecorded
    <3> QED
      BY <2>1, <3>1 DEF Unrecorded, Return
  <2> QED
    BY <2>2, <2>3
<1>3. CASE CallsNobody
  BY <1>3 DEF CallsNobody, ChildCallsNobody
<1>4. CASE ShutdownBegin
  BY <1>4 DEF ShutdownBegin, Unreaped
<1>5. ASSUME NEW p \in Pids, ShutdownKill(p) PROVE CalledInv'
  BY <1>5 DEF ShutdownKill, Terminated
<1>6. CASE ShutdownEnd \/ Crash
  <2>1. GoesDown /\ phase # "down"
    BY <1>6 DEF ShutdownEnd, Crash
  <2> QED
    BY <2>1 DEF GoesDown, NotCalled, RequestsOver, CallbacksOver
<1>7. CASE StartUp
  BY <1>7 DEF StartUp, IsStale
<1>8. ASSUME NEW c \in Chats, ReconcileStop(c) PROVE CalledInv'
  BY <1>8 DEF ReconcileStop, StoppedStale, Terminated
<1>9. CASE ResumeStale
  BY <1>9 DEF ResumeStale, Spawn, LoginKept, Unreaped
<1>10. CASE ResumedStale
  BY <1>10 DEF ResumedStale, Reconciled, Told
<1>11. CASE AbandonStale
  BY <1>11 DEF AbandonStale, Reconciled, Told
<1>12. CASE ReconcileEnd \/ UNCHANGED allvars
  BY <1>12 DEF ReconcileEnd, allvars, vars
<1> QED
  BY <1>1, <1>2, <1>3, <1>4, <1>5, <1>6, <1>7, <1>8, <1>9, <1>10, <1>11, <1>12, StepKinds

\* Start-up picks up what is recorded, and a search that called back no longer is.
LEMMA ResumedNext ==
  ASSUME TypeInv, CoreInv, BootInv, CalledInv, Delivered, ResumedInv, [RecoveryNext]_allvars
  PROVE  ResumedInv'
<1> USE LifecycleAssumption
<1> USE DEF TypeInv, TypeOK, OutcomeInv, Threads, Goto, ProcState, Exits, store, system,
            service, locals, recovery, NoRecords, CoreInv, NamesInv, LocalsInv, OwnSteps,
            GoneSteps, Exited, OwnsProcess, Alive, Searching, Served, BootInv, Serving, Booting,
            Phases, CalledInv, Delivered, ResumedInv, AtStart
<1>1. CASE LifeStep
  <2>1. Kept /\ UNCHANGED recovery
    BY <1>1, LifeIsNext, NextKeeps DEF LifeStep
  <2>2. CASE Serving
    BY <2>1, <2>2 DEF Kept
  <2>3. CASE ~Serving
    <3>1. QuietStep \/ BootStep
      BY <1>1, <2>3 DEF LifeStep, ServingStep
    <3>2. UNCHANGED outcome /\ UNCHANGED callback
      <4>1. CASE QuietStep
        BY <2>3, <4>1, QuietKeeps
      <4>2. CASE BootStep
        BY <4>2 DEF BootStep, Confirm, StartFailed, Settle, BurySave, BuryFailedStart, Bury
      <4> QED
        BY <3>1, <4>1, <4>2
    <3> QED
      BY <2>1, <3>2 DEF Kept
  <2> QED
    BY <2>2, <2>3
<1>2. CASE LosesRecord
  <2>1. PICK t \in Users : Unrecorded(t)
    BY <1>2, LosesEffect
  <2>2. CASE mode[t] = "booking"
    <3>1. pc' = [pc EXCEPT ![t] = "unbook"] /\ UNCHANGED <<mode, pid>>
      BY <2>1, <2>2 DEF Unrecorded
    <3> QED
      BY <2>1, <3>1 DEF Unrecorded
  <2>3. CASE mode[t] # "booking"
    <3>1. Return(t, "confirm")
      BY <2>1, <2>3 DEF Unrecorded
    <3> QED
      BY <2>1, <3>1 DEF Unrecorded, Return
  <2> QED
    BY <2>2, <2>3
<1>3. CASE CallsNobody
  BY <1>3 DEF CallsNobody, ChildCallsNobody
<1>4. CASE ShutdownBegin
  BY <1>4 DEF ShutdownBegin, Unreaped
<1>5. ASSUME NEW p \in Pids, ShutdownKill(p) PROVE ResumedInv'
  BY <1>5 DEF ShutdownKill, Terminated
<1>6. CASE ShutdownEnd \/ Crash
  <2>1. GoesDown /\ phase # "down"
    BY <1>6 DEF ShutdownEnd, Crash
  <2> QED
    BY <2>1 DEF GoesDown, NotCalled, RequestsOver, CallbacksOver
<1>7. CASE StartUp
  BY <1>7 DEF StartUp, IsStale
<1>8. ASSUME NEW c \in Chats, ReconcileStop(c) PROVE ResumedInv'
  BY <1>8 DEF ReconcileStop, StoppedStale, Terminated
<1>9. CASE ResumeStale
  BY <1>9 DEF ResumeStale, Spawn, LoginKept, Unreaped
<1>10. CASE ResumedStale
  BY <1>10 DEF ResumedStale, Reconciled, Told
<1>11. CASE AbandonStale
  BY <1>11 DEF AbandonStale, Reconciled, Told
<1>12. CASE ReconcileEnd \/ UNCHANGED allvars
  BY <1>12 DEF ReconcileEnd, allvars, vars
<1> QED
  BY <1>1, <1>2, <1>3, <1>4, <1>5, <1>6, <1>7, <1>8, <1>9, <1>10, <1>11, <1>12, StepKinds
LEMMA CalledCorrect ==
  ASSUME Outlasts, Delivered PROVE RecoverySpec => [](BaseInv /\ CalledInv)
<1>1. RecoveryInit => CalledInv
  BY CalledInit DEF RecoveryInit
<1>2. BaseInv /\ CalledInv /\ [RecoveryNext]_allvars => CalledInv'
  BY Outlasts, Delivered, CalledRecovery DEF BaseInv
<1> QED
  BY <1>1, <1>2, BaseCorrect, PTL DEF RecoverySpec

\* A search picked up again after a restart, or reported as interrupted, had booked nothing
\* and not given up: the callback of one that had has dropped its record.
THEOREM ResumesAreTrue == ASSUME Outlasts, Delivered PROVE RecoverySpec => []TruthfulResume
<1>1. RecoveryInit => ResumedInv
  BY LifecycleAssumption DEF RecoveryInit, Init, ResumedInv, NoRecords
<1>2. BaseInv /\ CalledInv /\ ResumedInv /\ [RecoveryNext]_allvars => ResumedInv'
  BY Delivered, ResumedNext DEF BaseInv
<1>3. ResumedInv => TruthfulResume
  BY DEF ResumedInv, TruthfulResume, AtStart
<1> QED
  BY <1>1, <1>2, <1>3, Outlasts, Delivered, CalledCorrect, PTL DEF RecoverySpec

-----------------------------------------------------------------------------
(* What the watchdog says of a search *)

\* As CrashNext; a shutdown stops searches, but a watchdog pass does not begin any more.
LEMMA StopServing ==
  ASSUME TypeInv, CoreInv, Undisturbed, SerialInv, CalledInv, UNCHANGED recovery, StopInv,
         [Next]_vars
  PROVE  StopInv'
<1> USE LifecycleAssumption
<1> USE DEF TypeInv, TypeOK, OutcomeInv, Threads, Goto, ProcState, Exits, store, system,
            service, locals, CoreInv, NamesInv, LocalsInv, NoRecords, OwnSteps, GoneSteps,
            Exited, OwnsProcess, Alive, Searching, Served, Undisturbed, Serial, SerialInv,
            CallInv, RecordInv, CalledInv, recovery, StopInv, TruthfulCrash
<1>1. ASSUME NEW t \in Users, StartStep(t) PROVE StopInv'
  <2>1. CASE BookStart(t)
    BY <2>1 DEF BookStart, Spawn, LoginKept, Unreaped
  <2>2. CASE BookRefused(t)
    BY <2>2 DEF BookRefused, Unreaped
  <2>3. CASE Confirm(t)
    BY <2>3 DEF Confirm
  <2>4. CASE StartFailed(t)
    BY <2>4 DEF StartFailed
  <2>5. CASE Settle(t)
    <3>1. CASE mode[t] = "booking"
      BY <2>5, <3>1 DEF Settle
    <3>2. CASE mode[t] # "booking"
      BY <2>5, <3>2 DEF Settle, Return
    <3> QED
      BY <3>1, <3>2
  <2>6. CASE Stamp(t)
    BY <2>6 DEF Stamp, Return
  <2>7. CASE Unbook(t)
    BY <2>7 DEF Unbook, Return
  <2>8. CASE BurySave(t)
    BY <2>8 DEF BurySave
  <2>9. CASE BuryFailedStart(t)
    <3>1. CASE mode[t] = "booking"
      BY <2>9, <3>1 DEF BuryFailedStart, Bury, Told
    <3>2. CASE mode[t] # "booking"
      BY <2>9, <3>2 DEF BuryFailedStart, Bury, Told, Return
    <3> QED
      BY <3>1, <3>2
  <2> QED
    BY <1>1, <2>1, <2>2, <2>3, <2>4, <2>5, <2>6, <2>7, <2>8, <2>9 DEF StartStep
<1>2. ASSUME NEW t \in Users, CancelStep(t) PROVE StopInv'
  <2>1. CASE CancelDelete(t)
    BY <2>1 DEF CancelDelete
  <2>2. CASE CancelKill(t)
    BY <2>2 DEF CancelKill, Terminated
  <2>3. CASE CancelClean(t)
    BY <2>3 DEF CancelClean, Return, Told
  <2> QED
    BY <1>2, <2>1, <2>2, <2>3 DEF CancelStep
<1>3. ASSUME NEW t \in Users, SweepStep(t) PROVE StopInv'
  <2>1. CASE SweepDelete(t)
    BY <2>1 DEF SweepDelete, Told
  <2>2. CASE SweepEnd(t)
    BY <2>2 DEF SweepEnd, Return
  <2>3. ASSUME NEW c \in Chats, SweepKill(t, c) PROVE StopInv'
    BY <2>3 DEF SweepKill, Terminated
  <2> QED
    BY <1>3, <2>1, <2>2, <2>3 DEF SweepStep
<1>4. ASSUME NEW t \in Users, Request(t) PROVE StopInv'
  <2>1. ASSUME NEW c \in Chats, BookBegin(t, c) PROVE StopInv'
    BY <2>1 DEF BookBegin
  <2>2. ASSUME NEW c \in Chats, CancelBegin(t, c) PROVE StopInv'
    BY <2>2 DEF CancelBegin
  <2> QED
    BY <1>4, <2>1, <2>2 DEF Request
<1>5. CASE ChatRequest
  <2>1. CASE SweepBegin(Poller)
    BY <2>1 DEF SweepBegin
  <2>2. ASSUME NEW c \in Chats, Resume(Poller, c) PROVE StopInv'
    BY <2>2 DEF Resume, Spawn, LoginKept, Unreaped
  <2>3. ASSUME NEW c \in Chats, ResumeWithoutLogin(Poller, c) PROVE StopInv'
    BY <2>3 DEF ResumeWithoutLogin
  <2>4. ASSUME NEW c \in Chats, Discard(Poller, c) PROVE StopInv'
    BY <2>4 DEF Discard
  <2>5. ASSUME NEW c \in Chats, CancelNothing(Poller, c) PROVE StopInv'
    BY <2>5 DEF CancelNothing
  <2> QED
    BY <1>5, <2>1, <2>2, <2>3, <2>4, <2>5 DEF ChatRequest
<1>6. ASSUME NEW c \in Chats, SessionExpires(c) PROVE StopInv'
  BY <1>6 DEF SessionExpires
<1>7. CASE WatchdogStep
  <2>1. CASE PassBegin
    BY <2>1 DEF PassBegin, Unreaped
  <2>2. CASE PassEnd
    BY <2>2 DEF PassEnd, Return
  <2>3. CASE BurySave(Watchdog)
    BY <2>3 DEF BurySave
  <2>4. CASE BuryCrashed
    BY <2>4 DEF BuryCrashed, Bury, Told
  <2>5. ASSUME NEW c \in Chats, PassSkip(c) PROVE StopInv'
    BY <2>5 DEF PassSkip
  <2>6. ASSUME NEW c \in Chats, PassFound(c) PROVE StopInv'
    BY <2>6 DEF PassFound, StillRecorded
  <2> QED
    BY <1>7, <2>1, <2>2, <2>3, <2>4, <2>5, <2>6 DEF WatchdogStep
<1>8. ASSUME NEW p \in Pids, CallbackServe(p) PROVE StopInv'
  <2>1. CASE CallbackTell(p)
    BY <2>1 DEF CallbackTell, CallbackGoto, Told
  <2>2. CASE CallbackDrop(p)
    BY <2>2 DEF CallbackDrop, CallbackGoto, SessionResetIf
  <2>3. CASE CallbackForget(p)
    BY <2>3 DEF CallbackForget, CallbackGoto, SessionResetIf
  <2> QED
    BY <1>8, <2>1, <2>2, <2>3 DEF CallbackServe
<1>9. ASSUME NEW p \in Pids, ChildStep(p) PROVE StopInv'
  <2>1. ASSUME NEW what \in {"booked", "failed"}, ChildCalls(p, what) PROVE StopInv'
    BY <2>1 DEF ChildCalls, Returned
  <2>2. CASE ChildAnswered(p)
    BY <2>2 DEF ChildAnswered
  <2>3. CASE PaymentWatchEnds(p)
    BY <2>3 DEF PaymentWatchEnds
  <2>4. CASE ChildCrashes(p)
    BY <2>4 DEF ChildCrashes, Returned
  <2> QED
    BY <1>9, <2>1, <2>2, <2>3, <2>4 DEF ChildStep
<1>10. CASE UNCHANGED vars
  BY <1>10 DEF vars
<1> HIDE DEF StopInv
<1> QED
  BY <1>1, <1>2, <1>3, <1>4, <1>5, <1>6, <1>7, <1>8, <1>9, <1>10 DEF Next, UserStep

\* Whom shutdown and start-up stop is of an earlier run when the watchdog looks again.
LEMMA StopNext ==
  ASSUME TypeInv, CoreInv, BootInv, Tracked, Undisturbed, NoLateDeath, Delivered, TrackInv,
         LeftInv, CalledInv, StopInv, [RecoveryNext]_allvars
  PROVE  StopInv'
<1> USE LifecycleAssumption
<1> USE DEF TypeInv, TypeOK, OutcomeInv, Threads, Goto, ProcState, Exits, store, system,
            service, locals, recovery, NoRecords, CoreInv, NamesInv, LocalsInv, OwnSteps,
            GoneSteps, Exited, OwnsProcess, Alive, Searching, Served, BootInv, Serving, Booting,
            Phases, LeftInv, CalledInv, Undisturbed, NoLateDeath, Delivered, StopInv,
            TruthfulCrash, Tracked
<1>1. CASE LifeStep
  <2>1. CASE phase # "resuming"
    BY <1>1, <2>1, LifeIsNext, StopServing DEF LifeStep, TrackInv
  <2>2. CASE phase = "resuming" /\ QuietStep
    BY <1>1, <2>2 DEF LifeStep, QuietStep, SessionExpires, ChildAnswered, PaymentWatchEnds, ChildCrashes
  <2>3. CASE phase = "resuming" /\ BootStep
    <3>1. CASE Confirm(Poller)
      BY <1>1, <2>3, <3>1 DEF LifeStep, BootStep, Confirm
    <3>2. CASE StartFailed(Poller)
      BY <1>1, <2>3, <3>2 DEF LifeStep, BootStep, StartFailed
    <3>3. CASE Settle(Poller)
      BY <1>1, <2>3, <3>3 DEF LifeStep, BootStep, Settle, Return
    <3>4. CASE BurySave(Poller)
      BY <1>1, <2>3, <3>4 DEF LifeStep, BootStep, BurySave
    <3>5. CASE BuryFailedStart(Poller)
      BY <1>1, <2>3, <3>5 DEF LifeStep, BootStep, BuryFailedStart, Bury, Told, Return
    <3> QED
      BY <2>3, <3>1, <3>2, <3>3, <3>4, <3>5 DEF BootStep
  <2> QED
    BY <1>1, <2>1, <2>2, <2>3 DEF LifeStep, ServingStep
<1>2. CASE LosesRecord
  BY <1>2 DEF LosesRecord, RecordFails, Tracked
<1>3. CASE CallsNobody
  BY <1>3 DEF CallsNobody, ChildCallsNobody
<1>4. CASE ShutdownBegin
  BY <1>4 DEF ShutdownBegin, Unreaped
<1>5. ASSUME NEW p \in Pids, ShutdownKill(p) PROVE StopInv'
  BY <1>5 DEF ShutdownKill, Terminated
<1>6. CASE ShutdownEnd \/ Crash
  <2>1. GoesDown /\ phase # "down"
    BY <1>6 DEF ShutdownEnd, Crash
  <2> QED
    BY <2>1 DEF GoesDown, NotCalled, RequestsOver, CallbacksOver
<1>7. CASE StartUp
  BY <1>7 DEF StartUp, IsStale
<1>8. ASSUME NEW c \in Chats, ReconcileStop(c) PROVE StopInv'
  BY <1>8 DEF ReconcileStop, StoppedStale, Terminated
<1>9. CASE ResumeStale
  BY <1>9 DEF ResumeStale, Spawn, LoginKept, Unreaped
<1>10. CASE ResumedStale
  BY <1>10 DEF ResumedStale, Reconciled, Told
<1>11. CASE AbandonStale
  BY <1>11 DEF AbandonStale, Reconciled, Told
<1>12. CASE ReconcileEnd \/ UNCHANGED allvars
  BY <1>12 DEF ReconcileEnd, allvars, vars
<1> QED
  BY <1>1, <1>2, <1>3, <1>4, <1>5, <1>6, <1>7, <1>8, <1>9, <1>10, <1>11, <1>12, StepKinds
LEMMA StopCorrect ==
  ASSUME Tracked, Undisturbed, NoLateDeath, Delivered
  PROVE  RecoverySpec => [](BaseInv /\ TrackInv /\ LeftInv /\ CalledInv /\ StopInv)
<1>1. RecoveryInit => StopInv
  <2> SUFFICES ASSUME RecoveryInit PROVE StopInv
    OBVIOUS
  <2>1. /\ phase = "up" /\ running = NoRecords /\ proc = [p \in Pids |-> "unborn"]
        /\ pc = [t \in Threads |-> "idle"] /\ told = [p \in Pids |-> {}]
    BY DEF RecoveryInit, Init
  <2> QED
    BY <2>1, LifecycleAssumption DEF StopInv, TruthfulCrash, NoRecords, Threads
<1>2. BaseInv /\ TrackInv /\ LeftInv /\ CalledInv /\ StopInv /\ [RecoveryNext]_allvars => StopInv'
  BY Tracked, Undisturbed, NoLateDeath, Delivered, StopNext DEF BaseInv
<1>3. RecoverySpec => [](BaseInv /\ CalledInv)
  BY Undisturbed, Delivered, CalledCorrect DEF Undisturbed, Outlasts
<1> QED
  BY <1>1, <1>2, <1>3, Tracked, TrackCorrect, PTL DEF RecoverySpec

\* detect_dead_searches across restarts: what shutdown and start-up stop on purpose is
\* never reported as a crash.
THEOREM CrashesStayTrue ==
  ASSUME Tracked, Undisturbed, NoLateDeath, Delivered PROVE RecoverySpec => []TruthfulCrash
<1>1. StopInv => TruthfulCrash
  BY DEF StopInv
<1> QED
  BY <1>1, Tracked, Undisturbed, NoLateDeath, Delivered, StopCorrect, PTL

-----------------------------------------------------------------------------
(* What a chat is offered *)

\* What the accidents left out do not let happen.
Guarded ==
  /\ \A p \in Pids : proc[p] = "calling" => proc'[p] # "crashed"
  /\ \A p \in Pids : phase = "resuming" /\ pid[Poller] = p /\ Searching(p) => Searching(p)'
  /\ \A t \in Users : pc[t] = "idle" /\ pc'[t] \in Cancelling => ~Burying(chat'[t])
  /\ \A c \in Chats : pc[Watchdog] = "pass" /\ Burying(c)' =>
       \A t \in Users : pc[t] \in Cancelling => chat[t] # c

LEMMA AccidentsLeftOut ==
  ASSUME TypeInv, CoreInv, BootInv, Untroubled, [RecoveryNext]_allvars, LifeStep
  PROVE  Guarded
<1> USE LifecycleAssumption
<1> USE DEF TypeInv, TypeOK, Threads, Goto, ProcState, Exits, store, system, service, locals, recovery,
            CoreInv, LocalsInv, Searching, Guarded, Cancelling, Burying, Untroubled, Serving
<1>1. CASE Serving /\ Working(AppRequest)
  <2>1. CASE SweepBegin(Poller)
    BY <1>1, <2>1 DEF SweepBegin
  <2>2. ASSUME NEW c \in Chats, ResumeWithoutLogin(Poller, c) PROVE Guarded
    BY <1>1, <2>2 DEF ResumeWithoutLogin
  <2>3. ASSUME NEW c \in Chats, CancelNothing(Poller, c) PROVE Guarded
    BY <1>1, <2>3 DEF CancelNothing
  <2>4. ASSUME NEW c \in Chats, Discard(Poller, c) PROVE Guarded
    BY <1>1, <2>4 DEF Discard
  <2>5. ASSUME NEW c \in Chats, NEW t \in Users, NotBuried(c) /\ CancelBegin(t, c) PROVE Guarded
    BY <1>1, <2>5 DEF CancelBegin, NotBuried
  <2>6. ASSUME NEW c \in Chats, Resume(Poller, c) PROVE Guarded
    BY <1>1, <2>6 DEF Resume, Spawn
  <2>7. ASSUME NEW c \in Chats, NEW t \in Users, BookBegin(t, c) PROVE Guarded
    BY <1>1, <2>7 DEF BookBegin
  <2> QED
    BY <1>1, <2>1, <2>2, <2>3, <2>4, <2>5, <2>6, <2>7 DEF AppRequest, Working
<1>2. ASSUME NEW t \in Users, Serving /\ Working(UserWork(t)) PROVE Guarded
  <2>1. CASE BookStart(t)
    BY <1>2, <2>1 DEF BookStart, Spawn
  <2>2. CASE BookRefused(t)
    BY <1>2, <2>2 DEF BookRefused
  <2>3. CASE Confirm(t)
    BY <1>2, <2>3 DEF Confirm
  <2>4. CASE StartFailed(t)
    BY <1>2, <2>4 DEF StartFailed
  <2>5. CASE RecordFails(t)
    BY <1>2, <2>5 DEF RecordFails, Return
  <2>6. CASE Settle(t)
    BY <1>2, <2>6 DEF Settle, Return
  <2>7. CASE Stamp(t)
    BY <1>2, <2>7 DEF Stamp, Return
  <2>8. CASE Unbook(t)
    BY <1>2, <2>8 DEF Unbook, Return
  <2>9. CASE BurySave(t)
    BY <1>2, <2>9 DEF BurySave
  <2>10. CASE BuryFailedStart(t)
    BY <1>2, <2>10 DEF BuryFailedStart, Bury, Return
  <2>11. CASE CancelDelete(t)
    BY <1>2, <2>11 DEF CancelDelete
  <2>12. CASE CancelKill(t)
    BY <1>2, <2>12 DEF CancelKill, Terminated
  <2>13. CASE CancelClean(t)
    BY <1>2, <2>13 DEF CancelClean, Return
  <2>14. CASE SweepDelete(t)
    BY <1>2, <2>14 DEF SweepDelete
  <2>15. CASE SweepEnd(t)
    BY <1>2, <2>15 DEF SweepEnd, Return
  <2>16. ASSUME NEW c \in Chats, SweepKill(t, c) PROVE Guarded
    BY <1>2, <2>16 DEF SweepKill, Terminated
  <2> QED
    BY <1>2, <2>1, <2>2, <2>3, <2>4, <2>5, <2>6, <2>7, <2>8, <2>9, <2>10, <2>11, <2>12, <2>13, <2>14, <2>15, <2>16 DEF UserWork, CancelStep, SweepStep, Working
<1>3. CASE Serving /\ Working(WatchdogWork)
  <2>1. CASE PassBegin
    BY <1>3, <2>1 DEF PassBegin
  <2>2. CASE PassEnd
    BY <1>3, <2>2 DEF PassEnd, Return
  <2>3. CASE BurySave(Watchdog)
    BY <1>3, <2>3 DEF BurySave
  <2>4. CASE BuryCrashed
    BY <1>3, <2>4 DEF BuryCrashed, Bury
  <2>5. ASSUME NEW c \in Chats, PassSkip(c) PROVE Guarded
    BY <1>3, <2>5 DEF PassSkip
  <2>6. ASSUME NEW c \in Chats, NotCancelled(c), PassFound(c) PROVE Guarded
    BY <1>3, <2>6 DEF PassFound, NotCancelled
  <2> QED
    BY <1>3, <2>1, <2>2, <2>3, <2>4, <2>5, <2>6 DEF WatchdogWork, Working
<1>4. ASSUME NEW p \in Pids, Serving /\ CallbackServe(p) PROVE Guarded
  BY <1>4 DEF CallbackServe, CallbackTell, CallbackDrop, CallbackForget, CallbackGoto
<1>5. ASSUME NEW c \in Chats, SessionExpires(c) PROVE Guarded
  BY <1>5 DEF SessionExpires
<1>6. CASE ChildrenStep
  <2>1. ASSUME NEW p \in Pids, NEW what \in {"booked", "failed"},
               ChildCallsNobody(p, what) \/ (phase = "up" /\ Working(ChildCalls(p, what)))
        PROVE  Guarded
    BY <2>1 DEF ChildCallsNobody, ChildCalls, Working
  <2>2. ASSUME NEW p \in Pids, ChildAnswered(p) PROVE Guarded
    BY <2>2 DEF ChildAnswered
  <2>3. ASSUME NEW p \in Pids, PaymentWatchEnds(p) PROVE Guarded
    BY <2>3 DEF PaymentWatchEnds
  <2>4. ASSUME NEW p \in Pids, ChildDies(p) PROVE Guarded
    BY <2>4 DEF ChildDies, ChildCrashes
  <2> QED
    BY <1>6, <2>1, <2>2, <2>3, <2>4 DEF ChildrenStep, Working
<1>7. CASE ShutdownBegin \/ Crash \/ (MainStep /\ ~ResumeStep)
  BY <1>7 DEF LifeStep, ShutdownBegin, Crash, MainStep, ShutdownEnd, StartUp, ResumeStale, ResumedStale, AbandonStale,
              ReconcileEnd, ReconcileStop, ShutdownKill, GoesDown, ReconcileStop, Reconciled
<1>8. CASE ResumeStep
  <2>1. phase = "resuming" /\ pc[Watchdog] = "idle" /\ proc' = proc
    BY <1>8 DEF ResumeStep, BootInv, Working, Confirm, StartFailed, RecordFails, Settle, BurySave, BuryFailedStart, Bury
  <2>2. pc'[Watchdog] = "idle" /\ pc'[Poller] \notin Cancelling /\ \A t \in Users \ {Poller} : pc'[t] = pc[t]
    BY <1>8, <2>1 DEF ResumeStep, BootInv, Working, Confirm, StartFailed, RecordFails, Settle, BurySave, BuryFailedStart, Return
  <2> QED
    BY <2>1, <2>2
<1>9. CASE UNCHANGED allvars
  BY <1>9 DEF allvars, vars
<1> QED
  BY <1>1, <1>2, <1>3, <1>4, <1>5, <1>6, <1>7, <1>8, <1>9 DEF RecoveryNext, Working

\* A death is put on record only when no cancel and no callback of the chat is under way, and
\* neither begins while it is.
LEMMA OfferServing ==
  ASSUME TypeInv, CoreInv, Undisturbed, SerialInv, CalledInv, StopInv, Guarded, phase #
         "resuming", UNCHANGED phase, OfferInv, [Next]_vars
  PROVE  OfferInv'
<1> USE LifecycleAssumption
<1> USE DEF TypeInv, TypeOK, OutcomeInv, Threads, Goto, ProcState, Exits, store, system,
            service, locals, CoreInv, NamesInv, LocalsInv, NoRecords, OwnSteps, GoneSteps,
            Exited, OwnsProcess, Alive, Searching, Served, Undisturbed, Serial, SerialInv,
            CallInv, RecordInv, StartInv, DeadInv, HandInv, NoOrphan, InHand, Burying,
            CalledInv, StopInv, Guarded, Cancelling, OfferInv
<1>1. ASSUME NEW t \in Users, StartStep(t) PROVE OfferInv'
  <2>1. CASE BookStart(t)
    BY <2>1 DEF BookStart, Spawn, LoginKept, Unreaped
  <2>2. CASE BookRefused(t)
    BY <2>2 DEF BookRefused, Unreaped
  <2>3. CASE Confirm(t)
    BY <2>3 DEF Confirm
  <2>4. CASE StartFailed(t)
    BY <2>4 DEF StartFailed
  <2>5. CASE Settle(t)
    <3>1. CASE mode[t] = "booking"
      BY <2>5, <3>1 DEF Settle
    <3>2. CASE mode[t] # "booking"
      BY <2>5, <3>2 DEF Settle, Return
    <3> QED
      BY <3>1, <3>2
  <2>6. CASE Stamp(t)
    BY <2>6 DEF Stamp, Return
  <2>7. CASE Unbook(t)
    BY <2>7 DEF Unbook, Return
  <2>8. CASE BurySave(t)
    BY <2>8 DEF BurySave
  <2>9. CASE BuryFailedStart(t)
    <3>1. CASE mode[t] = "booking"
      BY <2>9, <3>1 DEF BuryFailedStart, Bury, Told
    <3>2. CASE mode[t] # "booking"
      BY <2>9, <3>2 DEF BuryFailedStart, Bury, Told, Return
    <3> QED
      BY <3>1, <3>2
  <2> QED
    BY <1>1, <2>1, <2>2, <2>3, <2>4, <2>5, <2>6, <2>7, <2>8, <2>9 DEF StartStep
<1>2. ASSUME NEW t \in Users, CancelStep(t) PROVE OfferInv'
  <2>1. CASE CancelDelete(t)
    BY <2>1 DEF CancelDelete
  <2>2. CASE CancelKill(t)
    BY <2>2 DEF CancelKill, Terminated
  <2>3. CASE CancelClean(t)
    BY <2>3 DEF CancelClean, Return, Told
  <2> QED
    BY <1>2, <2>1, <2>2, <2>3 DEF CancelStep
<1>3. ASSUME NEW t \in Users, SweepStep(t) PROVE OfferInv'
  <2>1. CASE SweepDelete(t)
    BY <2>1 DEF SweepDelete, Told
  <2>2. CASE SweepEnd(t)
    BY <2>2 DEF SweepEnd, Return
  <2>3. ASSUME NEW c \in Chats, SweepKill(t, c) PROVE OfferInv'
    BY <2>3 DEF SweepKill, Terminated
  <2> QED
    BY <1>3, <2>1, <2>2, <2>3 DEF SweepStep
<1>4. ASSUME NEW t \in Users, Request(t) PROVE OfferInv'
  <2>1. ASSUME NEW c \in Chats, BookBegin(t, c) PROVE OfferInv'
    BY <2>1 DEF BookBegin
  <2>2. ASSUME NEW c \in Chats, CancelBegin(t, c) PROVE OfferInv'
    BY <2>2 DEF CancelBegin
  <2> QED
    BY <1>4, <2>1, <2>2 DEF Request
<1>5. CASE ChatRequest
  <2>1. CASE SweepBegin(Poller)
    BY <2>1 DEF SweepBegin
  <2>2. ASSUME NEW c \in Chats, Resume(Poller, c) PROVE OfferInv'
    BY <2>2 DEF Resume, Spawn, LoginKept, Unreaped
  <2>3. ASSUME NEW c \in Chats, ResumeWithoutLogin(Poller, c) PROVE OfferInv'
    BY <2>3 DEF ResumeWithoutLogin
  <2>4. ASSUME NEW c \in Chats, Discard(Poller, c) PROVE OfferInv'
    BY <2>4 DEF Discard
  <2>5. ASSUME NEW c \in Chats, CancelNothing(Poller, c) PROVE OfferInv'
    BY <2>5 DEF CancelNothing
  <2> QED
    BY <1>5, <2>1, <2>2, <2>3, <2>4, <2>5 DEF ChatRequest
<1>6. ASSUME NEW c \in Chats, SessionExpires(c) PROVE OfferInv'
  BY <1>6 DEF SessionExpires
<1>7. CASE WatchdogStep
  <2>1. CASE PassBegin
    BY <2>1 DEF PassBegin, Unreaped
  <2>2. CASE PassEnd
    BY <2>2 DEF PassEnd, Return
  <2>3. CASE BurySave(Watchdog)
    BY <2>3 DEF BurySave
  <2>4. CASE BuryCrashed
    BY <2>4 DEF BuryCrashed, Bury, Told
  <2>5. ASSUME NEW c \in Chats, PassSkip(c) PROVE OfferInv'
    BY <2>5 DEF PassSkip
  <2>6. ASSUME NEW c \in Chats, PassFound(c) PROVE OfferInv'
    BY <2>6 DEF PassFound, StillRecorded
  <2> QED
    BY <1>7, <2>1, <2>2, <2>3, <2>4, <2>5, <2>6 DEF WatchdogStep
<1>8. ASSUME NEW p \in Pids, CallbackServe(p) PROVE OfferInv'
  <2>1. CASE CallbackTell(p)
    BY <2>1 DEF CallbackTell, CallbackGoto, Told
  <2>2. CASE CallbackDrop(p)
    BY <2>2 DEF CallbackDrop, CallbackGoto, SessionResetIf
  <2>3. CASE CallbackForget(p)
    BY <2>3 DEF CallbackForget, CallbackGoto, SessionResetIf
  <2> QED
    BY <1>8, <2>1, <2>2, <2>3 DEF CallbackServe
<1>9. ASSUME NEW p \in Pids, ChildStep(p) PROVE OfferInv'
  <2>1. ASSUME NEW what \in {"booked", "failed"}, ChildCalls(p, what) PROVE OfferInv'
    BY <2>1 DEF ChildCalls, Returned
  <2>2. CASE ChildAnswered(p)
    BY <2>2 DEF ChildAnswered
  <2>3. CASE PaymentWatchEnds(p)
    BY <2>3 DEF PaymentWatchEnds
  <2>4. CASE ChildCrashes(p)
    BY <2>4 DEF ChildCrashes, Returned
  <2> QED
    BY <1>9, <2>1, <2>2, <2>3, <2>4 DEF ChildStep
<1>10. CASE UNCHANGED vars
  BY <1>10 DEF vars
<1> HIDE DEF OfferInv
<1> QED
  BY <1>1, <1>2, <1>3, <1>4, <1>5, <1>6, <1>7, <1>8, <1>9, <1>10 DEF Next, UserStep

\* A chat whose search start-up gives up had no other on offer (DeadInv).
LEMMA OfferNext ==
  ASSUME TypeInv, CoreInv, BootInv, Tracked, Untroubled, TrackInv, LeftInv, CalledInv, StopInv,
         OfferInv, [RecoveryNext]_allvars
  PROVE  OfferInv'
<1> USE LifecycleAssumption
<1> USE DEF TypeInv, TypeOK, OutcomeInv, Threads, Goto, ProcState, Exits, store, system,
            service, locals, recovery, NoRecords, CoreInv, NamesInv, LocalsInv, OwnSteps,
            GoneSteps, Exited, OwnsProcess, Alive, Searching, Served, BootInv, Serving, Booting,
            Phases, LeftInv, CalledInv, Untroubled, Undisturbed, OfferInv, Burying, Cancelling,
            Tracked
<1>1. CASE LifeStep
  <2>0. Guarded /\ UNCHANGED recovery
    BY <1>1, AccidentsLeftOut DEF LifeStep
  <2>1. CASE phase # "resuming"
    BY <1>1, <2>0, <2>1, LifeIsNext, OfferServing DEF TrackInv, Untroubled
  <2>2. CASE phase = "resuming" /\ QuietStep
    <3>1. UNCHANGED <<running, dead, creds, callback, pc, chat, pid, owner, earlier>>
      BY <2>2, QuietKeeps DEF locals
    <3>2. \A p \in Pids : pid[Poller] = p /\ Searching(p) => Searching(p)'
      BY <2>0, <2>2 DEF Guarded
    <3> QED
      BY <2>0, <2>2, <3>1, <3>2
  <2>3. CASE phase = "resuming" /\ BootStep
    <3>1. CASE Confirm(Poller)
      BY <2>0, <2>3, <3>1 DEF BootStep, Confirm
    <3>2. CASE StartFailed(Poller)
      BY <2>0, <2>3, <3>2 DEF BootStep, StartFailed
    <3>3. CASE Settle(Poller)
      BY <2>0, <2>3, <3>3 DEF BootStep, Settle, Return
    <3>4. CASE BurySave(Poller)
      BY <2>0, <2>3, <3>4 DEF BootStep, BurySave
    <3>5. CASE BuryFailedStart(Poller)
      BY <2>0, <2>3, <3>5 DEF BootStep, BuryFailedStart, Bury, Told, Return
    <3> QED
      BY <2>3, <3>1, <3>2, <3>3, <3>4, <3>5 DEF BootStep
  <2> QED
    BY <1>1, <2>1, <2>2, <2>3 DEF LifeStep, ServingStep
<1>2. CASE LosesRecord
  BY <1>2 DEF LosesRecord, RecordFails, Tracked
<1>3. CASE CallsNobody
  BY <1>3 DEF CallsNobody, ChildCallsNobody
<1>4. CASE ShutdownBegin
  BY <1>4 DEF ShutdownBegin, Unreaped
<1>5. ASSUME NEW p \in Pids, ShutdownKill(p) PROVE OfferInv'
  BY <1>5 DEF ShutdownKill, Terminated
<1>6. CASE ShutdownEnd \/ Crash
  <2>1. GoesDown /\ phase # "down"
    BY <1>6 DEF ShutdownEnd, Crash
  <2> QED
    BY <2>1 DEF GoesDown, NotCalled, RequestsOver, CallbacksOver
<1>7. CASE StartUp
  BY <1>7 DEF StartUp, IsStale
<1>8. ASSUME NEW c \in Chats, ReconcileStop(c) PROVE OfferInv'
  BY <1>8 DEF ReconcileStop, StoppedStale, Terminated
<1>9. CASE ResumeStale
  BY <1>9 DEF ResumeStale, Spawn, LoginKept, Unreaped
<1>10. CASE ResumedStale
  BY <1>10 DEF ResumedStale, Reconciled, Told
<1>11. CASE AbandonStale
  BY <1>11 DEF AbandonStale, Reconciled, TrackInv, SerialInv, DeadInv
<1>12. CASE ReconcileEnd \/ UNCHANGED allvars
  BY <1>12 DEF ReconcileEnd, allvars, vars
<1> QED
  BY <1>1, <1>2, <1>3, <1>4, <1>5, <1>6, <1>7, <1>8, <1>9, <1>10, <1>11, <1>12, StepKinds
LEMMA OfferInit == RecoveryInit => OfferInv
<1> SUFFICES ASSUME RecoveryInit PROVE OfferInv
  OBVIOUS
<1>1. /\ phase = "up" /\ dead = [c \in Chats |-> "none"] /\ callback = [p \in Pids |-> "none"]
      /\ pc = [t \in Threads |-> "idle"]
  BY DEF RecoveryInit, Init
<1> QED
  BY <1>1, LifecycleAssumption DEF OfferInv, Cancelling, Served, Threads

\* start_reservation_process, "the offer needs a login to make good on": a chat shown a
\* resume button can resume, whichever run of the application shows it.
THEOREM OffersAreGood == ASSUME Untroubled PROVE RecoverySpec => []OfferHasLogin
<1>1. Tracked /\ Undisturbed /\ NoLateDeath /\ Delivered
  BY Untroubled DEF Untroubled, Undisturbed, Tracked, NoLateDeath, Delivered
<1>2. BaseInv /\ TrackInv /\ LeftInv /\ CalledInv /\ StopInv /\ OfferInv /\ [RecoveryNext]_allvars
        => OfferInv'
  BY <1>1, Untroubled, OfferNext DEF BaseInv
<1>3. OfferInv => OfferHasLogin
  BY DEF OfferInv, OfferHasLogin
<1> QED
  BY OfferInit, <1>1, <1>2, <1>3, StopCorrect, PTL DEF RecoverySpec

=============================================================================
