------------------------- MODULE SearchRecordProofs -------------------------
(***************************************************************************)
(* What a chat's record, its login and its session say of its search, when *)
(* no child ends before the call that started it has returned.             *)
(***************************************************************************)
EXTENDS SearchSerialProofs

\* A search lasts longer than the call that starts it.
Outlasts == "early_exit" \notin Scenarios

\* No administrator's sweep, and no answer too late for the child, either.
Undisturbed == Serial /\ Scenarios = {}

\* The callback of a search begins when its start has returned, and it drops the record
\* before it forgets the login.
CalledInv ==
  /\ \A p \in Pids : proc[p] = "unborn" => callback[p] = "none"
  /\ \A p \in Pids : proc[p] \in {"calling", "watching"} => callback[p] # "none"
  /\ \A t \in Users : pc[t] \in {"confirm", "settle", "stamp"} => callback[pid[t]] = "none"
  /\ \A p \in Pids : callback[p] \in {"forget", "done"} => running[owner[p]] # p

\* A recorded search has its login, but for one that is being buried or swept.
LoginInv ==
  /\ \A c \in Chats : KeepsLogin /\ running[c] # NoPid /\ ~creds[c] =>
       \/ pc[Watchdog] = "bury_delete" /\ chat[Watchdog] = c
       \/ \E t \in Users : pc[t] = "sweep_delete" /\ chat[t] = c
  /\ \A t \in Users : KeepsLogin /\ pc[t] = "confirm" => creds[chat[t]]
  /\ \A t \in Users : pc[t] = "cancel_clean" => running[chat[t]] = NoPid

\* A session that says a search runs has a record, or somebody who is about to reset it.
SessionInv ==
  /\ \A c \in Chats : session[c] = "FINDING" /\ running[c] = NoPid =>
       \/ \E t \in Users :
            /\ chat[t] = c
            /\ pc[t] \in {"confirm", "unbook", "bury_save", "bury_delete", "cancel_kill", "cancel_clean"}
       \/ \E p \in Pids : owner[p] = c /\ callback[p] = "forget" /\ outcome[p] = "failed"
  /\ \A t \in Users : pc[t] \in {"settle", "stamp"} =>
       running[chat[t]] = pid[t] /\ ~Exited(pid[t])

\* The only end that leaves a record behind is a crash, and nobody sweeps.
CrashInv ==
  /\ \A p \in Pids : proc[p] \in {"watching", "finished"} => callback[p] = "done"
  /\ \A c \in Chats : running[c] # NoPid /\ Exited(running[c]) => proc[running[c]] = "crashed"
  /\ pc[Watchdog] \in {"bury_save", "bury_delete"} => proc[pid[Watchdog]] = "crashed"
  /\ \A t \in Users : pc[t] \notin {"sweep", "sweep_delete"}
  /\ TruthfulCrash

\* ChildCalls waits for the call that started the search, so whoever writes the record writes
\* it before its callback has begun.
LEMMA CalledNext ==
  ASSUME TypeInv, CoreInv, Outlasts, CalledInv, [Next]_vars
  PROVE  CalledInv'
<1> USE LifecycleAssumption
<1> USE DEF TypeInv, TypeOK, OutcomeInv, Threads, Goto, ProcState, Exits, store, system,
            service, locals, CoreInv, NamesInv, LocalsInv, NoRecords, OwnSteps, GoneSteps,
            Exited, OwnsProcess, Alive, Searching, Served, Outlasts, CalledInv, RecordOnceInv,
            FreshInv
<1>1. ASSUME NEW t \in Users, StartStep(t) PROVE CalledInv'
  <2>1. CASE BookStart(t)
    BY <2>1 DEF BookStart, Spawn, LoginKept, Unreaped
  <2>2. CASE BookRefused(t)
    BY <2>2 DEF BookRefused, Unreaped
  <2>3. CASE Confirm(t)
    BY <2>3 DEF Confirm
  <2>4. CASE StartFailed(t)
    BY <2>4 DEF StartFailed
  <2>5. CASE Settle(t)
    <3>1. CASE mode[t] = "booking"
      BY <2>5, <3>1 DEF Settle
    <3>2. CASE mode[t] # "booking"
      BY <2>5, <3>2 DEF Settle, Return
    <3> QED
      BY <3>1, <3>2
  <2>6. CASE Stamp(t)
    BY <2>6 DEF Stamp, Return
  <2>7. CASE Unbook(t)
    BY <2>7 DEF Unbook, Return
  <2>8. CASE BurySave(t)
    BY <2>8 DEF BurySave
  <2>9. CASE BuryFailedStart(t)
    <3>1. CASE mode[t] = "booking"
      BY <2>9, <3>1 DEF BuryFailedStart, Bury, Told
    <3>2. CASE mode[t] # "booking"
      BY <2>9, <3>2 DEF BuryFailedStart, Bury, Told, Return
    <3> QED
      BY <3>1, <3>2
  <2> QED
    BY <1>1, <2>1, <2>2, <2>3, <2>4, <2>5, <2>6, <2>7, <2>8, <2>9 DEF StartStep
<1>2. ASSUME NEW t \in Users, CancelStep(t) PROVE CalledInv'
  <2>1. CASE CancelDelete(t)
    BY <2>1 DEF CancelDelete
  <2>2. CASE CancelKill(t)
    BY <2>2 DEF CancelKill, Terminated
  <2>3. CASE CancelClean(t)
    BY <2>3 DEF CancelClean, Return, Told
  <2> QED
    BY <1>2, <2>1, <2>2, <2>3 DEF CancelStep
<1>3. ASSUME NEW t \in Users, SweepStep(t) PROVE CalledInv'
  <2>1. CASE SweepDelete(t)
    BY <2>1 DEF SweepDelete, Told
  <2>2. CASE SweepEnd(t)
    BY <2>2 DEF SweepEnd, Return
  <2>3. ASSUME NEW c \in Chats, SweepKill(t, c) PROVE CalledInv'
    BY <2>3 DEF SweepKill, Terminated
  <2> QED
    BY <1>3, <2>1, <2>2, <2>3 DEF SweepStep
<1>4. ASSUME NEW t \in Users, Request(t) PROVE CalledInv'
  <2>1. ASSUME NEW c \in Chats, BookBegin(t, c) PROVE CalledInv'
    BY <2>1 DEF BookBegin
  <2>2. ASSUME NEW c \in Chats, CancelBegin(t, c) PROVE CalledInv'
    BY <2>2 DEF CancelBegin
  <2> QED
    BY <1>4, <2>1, <2>2 DEF Request
<1>5. CASE ChatRequest
  <2>1. CASE SweepBegin(Poller)
    BY <2>1 DEF SweepBegin
  <2>2. ASSUME NEW c \in Chats, Resume(Poller, c) PROVE CalledInv'
    BY <2>2 DEF Resume, Spawn, LoginKept, Unreaped
  <2>3. ASSUME NEW c \in Chats, ResumeWithoutLogin(Poller, c) PROVE CalledInv'
    BY <2>3 DEF ResumeWithoutLogin
  <2>4. ASSUME NEW c \in Chats, Discard(Poller, c) PROVE CalledInv'
    BY <2>4 DEF Discard
  <2>5. ASSUME NEW c \in Chats, CancelNothing(Poller, c) PROVE CalledInv'
    BY <2>5 DEF CancelNothing
  <2> QED
    BY <1>5, <2>1, <2>2, <2>3, <2>4, <2>5 DEF ChatRequest
<1>6. ASSUME NEW c \in Chats, SessionExpires(c) PROVE CalledInv'
  BY <1>6 DEF SessionExpires
<1>7. CASE WatchdogStep
  <2>1. CASE PassBegin
    BY <2>1 DEF PassBegin, Unreaped
  <2>2. CASE PassEnd
    BY <2>2 DEF PassEnd, Return
  <2>3. CASE BurySave(Watchdog)
    BY <2>3 DEF BurySave
  <2>4. CASE BuryCrashed
    BY <2>4 DEF BuryCrashed, Bury, Told
  <2>5. ASSUME NEW c \in Chats, PassSkip(c) PROVE CalledInv'
    BY <2>5 DEF PassSkip
  <2>6. ASSUME NEW c \in Chats, PassFound(c) PROVE CalledInv'
    BY <2>6 DEF PassFound, StillRecorded
  <2> QED
    BY <1>7, <2>1, <2>2, <2>3, <2>4, <2>5, <2>6 DEF WatchdogStep
<1>8. ASSUME NEW p \in Pids, CallbackServe(p) PROVE CalledInv'
  <2>1. CASE CallbackTell(p)
    BY <2>1 DEF CallbackTell, CallbackGoto, Told
  <2>2. CASE CallbackDrop(p)
    BY <2>2 DEF CallbackDrop, CallbackGoto, SessionResetIf
  <2>3. CASE CallbackForget(p)
    BY <2>3 DEF CallbackForget, CallbackGoto, SessionResetIf
  <2> QED
    BY <1>8, <2>1, <2>2, <2>3 DEF CallbackServe
<1>9. ASSUME NEW p \in Pids, ChildStep(p) PROVE CalledInv'
  <2>1. ASSUME NEW what \in {"booked", "failed"}, ChildCalls(p, what) PROVE CalledInv'
    BY <2>1 DEF ChildCalls, Returned
  <2>2. CASE ChildAnswered(p)
    BY <2>2 DEF ChildAnswered
  <2>3. CASE PaymentWatchEnds(p)
    BY <2>3 DEF PaymentWatchEnds
  <2>4. CASE ChildCrashes(p)
    BY <2>4 DEF ChildCrashes, Returned
  <2> QED
    BY <1>9, <2>1, <2>2, <2>3, <2>4 DEF ChildStep
<1>10. CASE UNCHANGED vars
  BY <1>10 DEF vars
<1> HIDE DEF CalledInv
<1> QED
  BY <1>1, <1>2, <1>3, <1>4, <1>5, <1>6, <1>7, <1>8, <1>9, <1>10 DEF Next, UserStep

\* Who deletes the login has deleted the record, or is about to (RecordInv, DeadInv).
LEMMA LoginNext ==
  ASSUME TypeInv, CoreInv, Serial, SerialInv, Outlasts, CalledInv, LoginInv, [Next]_vars
  PROVE  LoginInv'
<1> USE LifecycleAssumption
<1> USE DEF TypeInv, TypeOK, OutcomeInv, Threads, Goto, ProcState, Exits, store, system,
            service, locals, CoreInv, NamesInv, LocalsInv, NoRecords, OwnSteps, GoneSteps,
            Exited, OwnsProcess, Alive, Searching, Served, Serial, SerialInv, RecordInv,
            StartInv, DeadInv, Outlasts, CalledInv, LoginInv
<1>1. ASSUME NEW t \in Users, StartStep(t) PROVE LoginInv'
  <2>1. CASE BookStart(t)
    BY <2>1 DEF BookStart, Spawn, LoginKept, Unreaped
  <2>2. CASE BookRefused(t)
    BY <2>2 DEF BookRefused, Unreaped
  <2>3. CASE Confirm(t)
    BY <2>3 DEF Confirm
  <2>4. CASE StartFailed(t)
    BY <2>4 DEF StartFailed
  <2>5. CASE Settle(t)
    <3>1. CASE mode[t] = "booking"
      BY <2>5, <3>1 DEF Settle
    <3>2. CASE mode[t] # "booking"
      BY <2>5, <3>2 DEF Settle, Return
    <3> QED
      BY <3>1, <3>2
  <2>6. CASE Stamp(t)
    BY <2>6 DEF Stamp, Return
  <2>7. CASE Unbook(t)
    BY <2>7 DEF Unbook, Return
  <2>8. CASE BurySave(t)
    BY <2>8 DEF BurySave
  <2>9. CASE BuryFailedStart(t)
    <3>1. CASE mode[t] = "booking"
      BY <2>9, <3>1 DEF BuryFailedStart, Bury, Told
    <3>2. CASE mode[t] # "booking"
      BY <2>9, <3>2 DEF BuryFailedStart, Bury, Told, Return
    <3> QED
      BY <3>1, <3>2
  <2> QED
    BY <1>1, <2>1, <2>2, <2>3, <2>4, <2>5, <2>6, <2>7, <2>8, <2>9 DEF StartStep
<1>2. ASSUME NEW t \in Users, CancelStep(t) PROVE LoginInv'
  <2>1. CASE CancelDelete(t)
    BY <2>1 DEF CancelDelete
  <2>2. CASE CancelKill(t)
    BY <2>2 DEF CancelKill, Terminated
  <2>3. CASE CancelClean(t)
    BY <2>3 DEF CancelClean, Return, Told
  <2> QED
    BY <1>2, <2>1, <2>2, <2>3 DEF CancelStep
<1>3. ASSUME NEW t \in Users, SweepStep(t) PROVE LoginInv'
  <2>1. CASE SweepDelete(t)
    BY <2>1 DEF SweepDelete, Told
  <2>2. CASE SweepEnd(t)
    BY <2>2 DEF SweepEnd, Return
  <2>3. ASSUME NEW c \in Chats, SweepKill(t, c) PROVE LoginInv'
    BY <2>3 DEF SweepKill, Terminated
  <2> QED
    BY <1>3, <2>1, <2>2, <2>3 DEF SweepStep
<1>4. ASSUME NEW t \in Users, Request(t) PROVE LoginInv'
  <2>1. ASSUME NEW c \in Chats, BookBegin(t, c) PROVE LoginInv'
    BY <2>1 DEF BookBegin
  <2>2. ASSUME NEW c \in Chats, CancelBegin(t, c) PROVE LoginInv'
    BY <2>2 DEF CancelBegin
  <2> QED
    BY <1>4, <2>1, <2>2 DEF Request
<1>5. CASE ChatRequest
  <2>1. CASE SweepBegin(Poller)
    BY <2>1 DEF SweepBegin
  <2>2. ASSUME NEW c \in Chats, Resume(Poller, c) PROVE LoginInv'
    BY <2>2 DEF Resume, Spawn, LoginKept, Unreaped
  <2>3. ASSUME NEW c \in Chats, ResumeWithoutLogin(Poller, c) PROVE LoginInv'
    BY <2>3 DEF ResumeWithoutLogin
  <2>4. ASSUME NEW c \in Chats, Discard(Poller, c) PROVE LoginInv'
    BY <2>4 DEF Discard
  <2>5. ASSUME NEW c \in Chats, CancelNothing(Poller, c) PROVE LoginInv'
    BY <2>5 DEF CancelNothing
  <2> QED
    BY <1>5, <2>1, <2>2, <2>3, <2>4, <2>5 DEF ChatRequest
<1>6. ASSUME NEW c \in Chats, SessionExpires(c) PROVE LoginInv'
  BY <1>6 DEF SessionExpires
<1>7. CASE WatchdogStep
  <2>1. CASE PassBegin
    BY <2>1 DEF PassBegin, Unreaped
  <2>2. CASE PassEnd
    BY <2>2 DEF PassEnd, Return
  <2>3. CASE BurySave(Watchdog)
    BY <2>3 DEF BurySave
  <2>4. CASE BuryCrashed
    BY <2>4 DEF BuryCrashed, Bury, Told
  <2>5. ASSUME NEW c \in Chats, PassSkip(c) PROVE LoginInv'
    BY <2>5 DEF PassSkip
  <2>6. ASSUME NEW c \in Chats, PassFound(c) PROVE LoginInv'
    BY <2>6 DEF PassFound, StillRecorded
  <2> QED
    BY <1>7, <2>1, <2>2, <2>3, <2>4, <2>5, <2>6 DEF WatchdogStep
<1>8. ASSUME NEW p \in Pids, CallbackServe(p) PROVE LoginInv'
  <2>1. CASE CallbackTell(p)
    BY <2>1 DEF CallbackTell, CallbackGoto, Told
  <2>2. CASE CallbackDrop(p)
    BY <2>2 DEF CallbackDrop, CallbackGoto, SessionResetIf
  <2>3. CASE CallbackForget(p)
    BY <2>3 DEF CallbackForget, CallbackGoto, SessionResetIf
  <2> QED
    BY <1>8, <2>1, <2>2, <2>3 DEF CallbackServe
<1>9. ASSUME NEW p \in Pids, ChildStep(p) PROVE LoginInv'
  <2>1. ASSUME NEW what \in {"booked", "failed"}, ChildCalls(p, what) PROVE LoginInv'
    BY <2>1 DEF ChildCalls, Returned
  <2>2. CASE ChildAnswered(p)
    BY <2>2 DEF ChildAnswered
  <2>3. CASE PaymentWatchEnds(p)
    BY <2>3 DEF PaymentWatchEnds
  <2>4. CASE ChildCrashes(p)
    BY <2>4 DEF ChildCrashes, Returned
  <2> QED
    BY <1>9, <2>1, <2>2, <2>3, <2>4 DEF ChildStep
<1>10. CASE UNCHANGED vars
  BY <1>10 DEF vars
<1> HIDE DEF LoginInv
<1> QED
  BY <1>1, <1>2, <1>3, <1>4, <1>5, <1>6, <1>7, <1>8, <1>9, <1>10 DEF Next, UserStep

\* Who deletes the record resets the session.
LEMMA SessionNext ==
  ASSUME TypeInv, CoreInv, Serial, SerialInv, Outlasts, CalledInv, SessionInv, [Next]_vars
  PROVE  SessionInv'
<1> USE LifecycleAssumption
<1> USE DEF TypeInv, TypeOK, OutcomeInv, Threads, Goto, ProcState, Exits, store, system,
            service, locals, CoreInv, NamesInv, LocalsInv, NoRecords, OwnSteps, GoneSteps,
            Exited, OwnsProcess, Alive, Searching, Served, Serial, SerialInv, CallInv,
            RecordInv, Outlasts, CalledInv, SessionInv
<1>1. ASSUME NEW t \in Users, StartStep(t) PROVE SessionInv'
  <2>1. CASE BookStart(t)
    BY <2>1 DEF BookStart, Spawn, LoginKept, Unreaped
  <2>2. CASE BookRefused(t)
    BY <2>2 DEF BookRefused, Unreaped
  <2>3. CASE Confirm(t)
    BY <2>3 DEF Confirm
  <2>4. CASE StartFailed(t)
    BY <2>4 DEF StartFailed
  <2>5. CASE Settle(t)
    <3>1. CASE mode[t] = "booking"
      BY <2>5, <3>1 DEF Settle
    <3>2. CASE mode[t] # "booking"
      BY <2>5, <3>2 DEF Settle, Return
    <3> QED
      BY <3>1, <3>2
  <2>6. CASE Stamp(t)
    BY <2>6 DEF Stamp, Return
  <2>7. CASE Unbook(t)
    BY <2>7 DEF Unbook, Return
  <2>8. CASE BurySave(t)
    BY <2>8 DEF BurySave
  <2>9. CASE BuryFailedStart(t)
    <3>1. CASE mode[t] = "booking"
      BY <2>9, <3>1 DEF BuryFailedStart, Bury, Told
    <3>2. CASE mode[t] # "booking"
      BY <2>9, <3>2 DEF BuryFailedStart, Bury, Told, Return
    <3> QED
      BY <3>1, <3>2
  <2> QED
    BY <1>1, <2>1, <2>2, <2>3, <2>4, <2>5, <2>6, <2>7, <2>8, <2>9 DEF StartStep
<1>2. ASSUME NEW t \in Users, CancelStep(t) PROVE SessionInv'
  <2>1. CASE CancelDelete(t)
    BY <2>1 DEF CancelDelete
  <2>2. CASE CancelKill(t)
    BY <2>2 DEF CancelKill, Terminated
  <2>3. CASE CancelClean(t)
    BY <2>3 DEF CancelClean, Return, Told
  <2> QED
    BY <1>2, <2>1, <2>2, <2>3 DEF CancelStep
<1>3. ASSUME NEW t \in Users, SweepStep(t) PROVE SessionInv'
  <2>1. CASE SweepDelete(t)
    BY <2>1 DEF SweepDelete, Told
  <2>2. CASE SweepEnd(t)
    BY <2>2 DEF SweepEnd, Return
  <2>3. ASSUME NEW c \in Chats, SweepKill(t, c) PROVE SessionInv'
    BY <2>3 DEF SweepKill, Terminated
  <2> QED
    BY <1>3, <2>1, <2>2, <2>3 DEF SweepStep
<1>4. ASSUME NEW t \in Users, Request(t) PROVE SessionInv'
  <2>1. ASSUME NEW c \in Chats, BookBegin(t, c) PROVE SessionInv'
    BY <2>1 DEF BookBegin
  <2>2. ASSUME NEW c \in Chats, CancelBegin(t, c) PROVE SessionInv'
    BY <2>2 DEF CancelBegin
  <2> QED
    BY <1>4, <2>1, <2>2 DEF Request
<1>5. CASE ChatRequest
  <2>1. CASE SweepBegin(Poller)
    BY <2>1 DEF SweepBegin
  <2>2. ASSUME NEW c \in Chats, Resume(Poller, c) PROVE SessionInv'
    BY <2>2 DEF Resume, Spawn, LoginKept, Unreaped
  <2>3. ASSUME NEW c \in Chats, ResumeWithoutLogin(Poller, c) PROVE SessionInv'
    BY <2>3 DEF ResumeWithoutLogin
  <2>4. ASSUME NEW c \in Chats, Discard(Poller, c) PROVE SessionInv'
    BY <2>4 DEF Discard
  <2>5. ASSUME NEW c \in Chats, CancelNothing(Poller, c) PROVE SessionInv'
    BY <2>5 DEF CancelNothing
  <2> QED
    BY <1>5, <2>1, <2>2, <2>3, <2>4, <2>5 DEF ChatRequest
<1>6. ASSUME NEW c \in Chats, SessionExpires(c) PROVE SessionInv'
  BY <1>6 DEF SessionExpires
<1>7. CASE WatchdogStep
  <2>1. CASE PassBegin
    BY <2>1 DEF PassBegin, Unreaped
  <2>2. CASE PassEnd
    BY <2>2 DEF PassEnd, Return
  <2>3. CASE BurySave(Watchdog)
    BY <2>3 DEF BurySave
  <2>4. CASE BuryCrashed
    BY <2>4 DEF BuryCrashed, Bury, Told
  <2>5. ASSUME NEW c \in Chats, PassSkip(c) PROVE SessionInv'
    BY <2>5 DEF PassSkip
  <2>6. ASSUME NEW c \in Chats, PassFound(c) PROVE SessionInv'
    BY <2>6 DEF PassFound, StillRecorded
  <2> QED
    BY <1>7, <2>1, <2>2, <2>3, <2>4, <2>5, <2>6 DEF WatchdogStep
<1>8. ASSUME NEW p \in Pids, CallbackServe(p) PROVE SessionInv'
  <2>1. CASE CallbackTell(p)
    BY <2>1 DEF CallbackTell, CallbackGoto, Told
  <2>2. CASE CallbackDrop(p)
    BY <2>2 DEF CallbackDrop, CallbackGoto, SessionResetIf
  <2>3. CASE CallbackForget(p)
    BY <2>3 DEF CallbackForget, CallbackGoto, SessionResetIf
  <2> QED
    BY <1>8, <2>1, <2>2, <2>3 DEF CallbackServe
<1>9. ASSUME NEW p \in Pids, ChildStep(p) PROVE SessionInv'
  <2>1. ASSUME NEW what \in {"booked", "failed"}, ChildCalls(p, what) PROVE SessionInv'
    BY <2>1 DEF ChildCalls, Returned
  <2>2. CASE ChildAnswered(p)
    BY <2>2 DEF ChildAnswered
  <2>3. CASE PaymentWatchEnds(p)
    BY <2>3 DEF PaymentWatchEnds
  <2>4. CASE ChildCrashes(p)
    BY <2>4 DEF ChildCrashes, Returned
  <2> QED
    BY <1>9, <2>1, <2>2, <2>3, <2>4 DEF ChildStep
<1>10. CASE UNCHANGED vars
  BY <1>10 DEF vars
<1> HIDE DEF SessionInv
<1> QED
  BY <1>1, <1>2, <1>3, <1>4, <1>5, <1>6, <1>7, <1>8, <1>9, <1>10 DEF Next, UserStep

\* Who stops a search on purpose has deleted its record (RecordInv), and so has the callback of
\* one that ended by itself (CalledInv).
LEMMA CrashNext ==
  ASSUME TypeInv, CoreInv, Undisturbed, SerialInv, CalledInv, CrashInv, [Next]_vars
  PROVE  CrashInv'
<1> USE LifecycleAssumption
<1> USE DEF TypeInv, TypeOK, OutcomeInv, Threads, Goto, ProcState, Exits, store, system,
            service, locals, CoreInv, NamesInv, LocalsInv, NoRecords, OwnSteps, GoneSteps,
            Exited, OwnsProcess, Alive, Searching, Served, Undisturbed, Serial, SerialInv,
            CallInv, RecordInv, CalledInv, CrashInv, TruthfulCrash
<1>1. ASSUME NEW t \in Users, StartStep(t) PROVE CrashInv'
  <2>1. CASE BookStart(t)
    BY <2>1 DEF BookStart, Spawn, LoginKept, Unreaped
  <2>2. CASE BookRefused(t)
    BY <2>2 DEF BookRefused, Unreaped
  <2>3. CASE Confirm(t)
    BY <2>3 DEF Confirm
  <2>4. CASE StartFailed(t)
    BY <2>4 DEF StartFailed
  <2>5. CASE Settle(t)
    <3>1. CASE mode[t] = "booking"
      BY <2>5, <3>1 DEF Settle
    <3>2. CASE mode[t] # "booking"
      BY <2>5, <3>2 DEF Settle, Return
    <3> QED
      BY <3>1, <3>2
  <2>6. CASE Stamp(t)
    BY <2>6 DEF Stamp, Return
  <2>7. CASE Unbook(t)
    BY <2>7 DEF Unbook, Return
  <2>8. CASE BurySave(t)
    BY <2>8 DEF BurySave
  <2>9. CASE BuryFailedStart(t)
    <3>1. CASE mode[t] = "booking"
      BY <2>9, <3>1 DEF BuryFailedStart, Bury, Told
    <3>2. CASE mode[t] # "booking"
      BY <2>9, <3>2 DEF BuryFailedStart, Bury, Told, Return
    <3> QED
      BY <3>1, <3>2
  <2> QED
    BY <1>1, <2>1, <2>2, <2>3, <2>4, <2>5, <2>6, <2>7, <2>8, <2>9 DEF StartStep
<1>2. ASSUME NEW t \in Users, CancelStep(t) PROVE CrashInv'
  <2>1. CASE CancelDelete(t)
    BY <2>1 DEF CancelDelete
  <2>2. CASE CancelKill(t)
    BY <2>2 DEF CancelKill, Terminated
  <2>3. CASE CancelClean(t)
    BY <2>3 DEF CancelClean, Return, Told
  <2> QED
    BY <1>2, <2>1, <2>2, <2>3 DEF CancelStep
<1>3. ASSUME NEW t \in Users, SweepStep(t) PROVE CrashInv'
  <2>1. CASE SweepDelete(t)
    BY <2>1 DEF SweepDelete, Told
  <2>2. CASE SweepEnd(t)
    BY <2>2 DEF SweepEnd, Return
  <2>3. ASSUME NEW c \in Chats, SweepKill(t, c) PROVE CrashInv'
    BY <2>3 DEF SweepKill, Terminated
  <2> QED
    BY <1>3, <2>1, <2>2, <2>3 DEF SweepStep
<1>4. ASSUME NEW t \in Users, Request(t) PROVE CrashInv'
  <2>1. ASSUME NEW c \in Chats, BookBegin(t, c) PROVE CrashInv'
    BY <2>1 DEF BookBegin
  <2>2. ASSUME NEW c \in Chats, CancelBegin(t, c) PROVE CrashInv'
    BY <2>2 DEF CancelBegin
  <2> QED
    BY <1>4, <2>1, <2>2 DEF Request
<1>5. CASE ChatRequest
  <2>1. CASE SweepBegin(Poller)
    BY <2>1 DEF SweepBegin
  <2>2. ASSUME NEW c \in Chats, Resume(Poller, c) PROVE CrashInv'
    BY <2>2 DEF Resume, Spawn, LoginKept, Unreaped
  <2>3. ASSUME NEW c \in Chats, ResumeWithoutLogin(Poller, c) PROVE CrashInv'
    BY <2>3 DEF ResumeWithoutLogin
  <2>4. ASSUME NEW c \in Chats, Discard(Poller, c) PROVE CrashInv'
    BY <2>4 DEF Discard
  <2>5. ASSUME NEW c \in Chats, CancelNothing(Poller, c) PROVE CrashInv'
    BY <2>5 DEF CancelNothing
  <2> QED
    BY <1>5, <2>1, <2>2, <2>3, <2>4, <2>5 DEF ChatRequest
<1>6. ASSUME NEW c \in Chats, SessionExpires(c) PROVE CrashInv'
  BY <1>6 DEF SessionExpires
<1>7. CASE WatchdogStep
  <2>1. CASE PassBegin
    BY <2>1 DEF PassBegin, Unreaped
  <2>2. CASE PassEnd
    BY <2>2 DEF PassEnd, Return
  <2>3. CASE BurySave(Watchdog)
    BY <2>3 DEF BurySave
  <2>4. CASE BuryCrashed
    BY <2>4 DEF BuryCrashed, Bury, Told
  <2>5. ASSUME NEW c \in Chats, PassSkip(c) PROVE CrashInv'
    BY <2>5 DEF PassSkip
  <2>6. ASSUME NEW c \in Chats, PassFound(c) PROVE CrashInv'
    BY <2>6 DEF PassFound, StillRecorded
  <2> QED
    BY <1>7, <2>1, <2>2, <2>3, <2>4, <2>5, <2>6 DEF WatchdogStep
<1>8. ASSUME NEW p \in Pids, CallbackServe(p) PROVE CrashInv'
  <2>1. CASE CallbackTell(p)
    BY <2>1 DEF CallbackTell, CallbackGoto, Told
  <2>2. CASE CallbackDrop(p)
    BY <2>2 DEF CallbackDrop, CallbackGoto, SessionResetIf
  <2>3. CASE CallbackForget(p)
    BY <2>3 DEF CallbackForget, CallbackGoto, SessionResetIf
  <2> QED
    BY <1>8, <2>1, <2>2, <2>3 DEF CallbackServe
<1>9. ASSUME NEW p \in Pids, ChildStep(p) PROVE CrashInv'
  <2>1. ASSUME NEW what \in {"booked", "failed"}, ChildCalls(p, what) PROVE CrashInv'
    BY <2>1 DEF ChildCalls, Returned
  <2>2. CASE ChildAnswered(p)
    BY <2>2 DEF ChildAnswered
  <2>3. CASE PaymentWatchEnds(p)
    BY <2>3 DEF PaymentWatchEnds
  <2>4. CASE ChildCrashes(p)
    BY <2>4 DEF ChildCrashes, Returned
  <2> QED
    BY <1>9, <2>1, <2>2, <2>3, <2>4 DEF ChildStep
<1>10. CASE UNCHANGED vars
  BY <1>10 DEF vars
<1> HIDE DEF CrashInv
<1> QED
  BY <1>1, <1>2, <1>3, <1>4, <1>5, <1>6, <1>7, <1>8, <1>9, <1>10 DEF Next, UserStep

-----------------------------------------------------------------------------
LEMMA CalledInit == Init => CalledInv
<1> SUFFICES ASSUME Init PROVE CalledInv
  OBVIOUS
<1> QED
  BY LifecycleAssumption DEF Init, CalledInv, Threads

LEMMA RecordsInit == Init => LoginInv /\ SessionInv /\ CrashInv
<1> SUFFICES ASSUME Init PROVE LoginInv /\ SessionInv /\ CrashInv
  OBVIOUS
<1>1. /\ running = NoRecords /\ session = [c \in Chats |-> "IDLE"]
      /\ proc = [p \in Pids |-> "unborn"] /\ told = [p \in Pids |-> {}]
      /\ pc = [t \in Threads |-> "idle"]
  BY DEF Init
<1>2. LoginInv /\ SessionInv
  BY <1>1 DEF LoginInv, SessionInv, NoRecords, Threads
<1>3. CrashInv
  BY <1>1, LifecycleAssumption DEF CrashInv, TruthfulCrash, NoRecords, Threads, Exited, Exits
<1> QED
  BY <1>2, <1>3

\* Once the callback of a search is served nothing names the search any more, for any
\* number of request threads and every other schedule.
THEOREM FinishedLeavesNoRecord == ASSUME Outlasts PROVE Spec => []FinishedNotRecorded
<1>1. CalledInv => FinishedNotRecorded
  BY DEF CalledInv, FinishedNotRecorded
<1>2. TypeInv /\ CoreInv /\ CalledInv /\ [Next]_vars => CalledInv'
  BY Outlasts, CalledNext
<1> QED
  BY <1>1, <1>2, CalledInit, CoreCorrect, PTL DEF Spec

\* While a search is recorded the login a restart would resume it with is there.
THEOREM RecordHasLogin == ASSUME Serial, Outlasts PROVE Spec => []RecordedKeepsLogin
<1>1. TypeInv /\ CoreInv /\ LoginInv => RecordedKeepsLogin
  BY DEF TypeInv, TypeOK, LoginInv, RecordedKeepsLogin, AtRest, Threads
<1>2. TypeInv /\ CoreInv /\ CalledInv /\ [Next]_vars => CalledInv'
  BY Outlasts, CalledNext
<1>3. TypeInv /\ CoreInv /\ SerialInv /\ CalledInv /\ LoginInv /\ [Next]_vars => LoginInv'
  BY Serial, Outlasts, LoginNext
<1> QED
  BY <1>1, <1>2, <1>3, CalledInit, RecordsInit, SerialCorrect, CoreCorrect, Serial, PTL DEF Spec

\* A session that turns bookings away because a search runs is backed by its record.
THEOREM SessionIsBacked == ASSUME Serial, Outlasts PROVE Spec => []SessionAgrees
<1>1. TypeInv /\ CoreInv /\ SessionInv => SessionAgrees
  BY DEF SessionInv, SessionAgrees, AtRest, Threads, Served
<1>2. TypeInv /\ CoreInv /\ CalledInv /\ [Next]_vars => CalledInv'
  BY Outlasts, CalledNext
<1>3. TypeInv /\ CoreInv /\ SerialInv /\ CalledInv /\ SessionInv /\ [Next]_vars => SessionInv'
  BY Serial, Outlasts, SessionNext
<1> QED
  BY <1>1, <1>2, <1>3, CalledInit, RecordsInit, SerialCorrect, CoreCorrect, Serial, PTL DEF Spec

\* detect_dead_searches: what is reported as a crash was one.
THEOREM CrashesAreTrue == ASSUME Undisturbed PROVE Spec => []TruthfulCrash
<1>1. CrashInv => TruthfulCrash
  BY DEF CrashInv
<1>2. Serial /\ Outlasts
  BY Undisturbed DEF Undisturbed, Outlasts
<1>3. TypeInv /\ CoreInv /\ CalledInv /\ [Next]_vars => CalledInv'
  BY <1>2, CalledNext
<1>4. TypeInv /\ CoreInv /\ SerialInv /\ CalledInv /\ CrashInv /\ [Next]_vars => CrashInv'
  BY Undisturbed, CrashNext
<1> QED
  BY <1>1, <1>2, <1>3, <1>4, CalledInit, RecordsInit, SerialCorrect, CoreCorrect, PTL DEF Spec

=============================================================================
