------------------------ MODULE SearchSerialProofs ------------------------
(***************************************************************************)
(* One request thread, and no start of a chat's next search while a        *)
(* watchdog pass or a callback about its last one is under way: no search  *)
(* goes on unrecorded and no chat has two.  start_race and                 *)
(* callback_overlap show what each of the two assumptions is needed for.   *)
(***************************************************************************)
EXTENDS SearchLifecycleProofs

Serial == Users = {Poller} /\ Scenarios \intersect {"late_pass", "late_callback"} = {}

\* Where the watchdog stands when it has found a dead search of the chat.
Burying(c) == pc[Watchdog] \in {"bury_save", "bury_delete"} /\ chat[Watchdog] = c

\* A process that has called back no longer searches.
CallInv == \A p \in Pids : callback[p] # "none" => proc[p] \notin {"unborn", "searching"}

\* Every handler about to touch a chat's record has seen the record that is there, if any is.
RecordInv ==
  /\ \A t \in Threads, c \in Chats : seen[t][c] # NoPid => running[c] \in {NoPid, seen[t][c]}
  /\ \A t \in Threads : pc[t] \in OwnSteps \ {"cancel_clean"} => running[chat[t]] \in {NoPid, pid[t]}
  /\ \A p \in Pids : ~Served(p) => running[owner[p]] \in {NoPid, p}
  /\ \A t \in Users : pc[t] \in {"confirm", "bury_save", "bury_delete", "cancel_kill"}
                        => running[chat[t]] = NoPid

\* A search is being started: nothing else is left of the chat.
StartInv ==
  \A t \in Users : pc[t] = "confirm" =>
    /\ seen[Watchdog][chat[t]] = NoPid
    /\ ~Burying(chat[t])
    /\ \A p \in Pids : owner[p] = chat[t] /\ ~Served(p) => p = pid[t]

\* A dead search on record excludes a running one, except in the middle of an operation.
DeadInv ==
  \A c \in Chats : dead[c] # "none" =>
    \/ running[c] = NoPid
    \/ \E t \in Users : pc[t] = "settle" /\ chat[t] = c
    \/ pc[Watchdog] = "bury_delete" /\ chat[Watchdog] = c

\* While a thread has a process in hand it is the only search of the chat.
HandInv ==
  \A t \in Users : pc[t] \in {"confirm", "cancel_delete", "cancel_kill"} =>
    \A p \in Pids : Searching(p) /\ owner[p] = chat[t] => p = pid[t]

SerialInv == CallInv /\ RecordInv /\ StartInv /\ DeadInv /\ HandInv /\ NoOrphan

\* A callback is made by a searching process, which thereby stops searching.
LEMMA CallNext == TypeInv /\ CoreInv /\ Serial /\ SerialInv /\ [Next]_vars => CallInv'
<1> SUFFICES ASSUME TypeInv /\ CoreInv /\ Serial /\ SerialInv, [Next]_vars PROVE CallInv'
  OBVIOUS
<1> USE LifecycleAssumption
<1> USE DEF TypeInv, TypeOK, OutcomeInv, Threads, Goto, ProcState, Exits, store, system,
            service, locals,
            CoreInv, NamesInv, LocalsInv, NoRecords, OwnSteps, GoneSteps, Exited,
            OwnsProcess, Alive, Searching, Served, Serial, CallInv, SerialInv
<1>1. ASSUME NEW t \in Users, StartStep(t) PROVE CallInv'
  <2>1. CASE BookStart(t)
    BY <2>1 DEF BookStart, Spawn, LoginKept, Unreaped
  <2>2. CASE BookRefused(t)
    BY <2>2 DEF BookRefused, Unreaped
  <2>3. CASE Confirm(t)
    BY <2>3 DEF Confirm
  <2>4. CASE StartFailed(t)
    BY <2>4 DEF StartFailed
  <2>5. CASE Settle(t)
    <3>1. CASE mode[t] = "booking"
      BY <2>5, <3>1 DEF Settle
    <3>2. CASE mode[t] # "booking"
      <4>1. /\ Return(t, "settle")
            /\ dead' = [dead EXCEPT ![chat[t]] = "none"]
            /\ UNCHANGED <<running, creds, session, system, service, chat, seen, told>>
        BY <2>5, <3>2 DEF Settle
      <4> QED
        BY <4>1 DEF Return
    <3> QED
      BY <3>1, <3>2
  <2>6. CASE Stamp(t)
    BY <2>6 DEF Stamp, Return
  <2>7. CASE Unbook(t)
    BY <2>7 DEF Unbook, Return
  <2>8. CASE BurySave(t)
    BY <2>8 DEF BurySave
  <2>9. CASE BuryFailedStart(t)
    <3> USE <2>9 DEF Bury, Told
    <3>1. CASE mode[t] = "booking"
      <4>1. Goto(t, "bury_delete", "unbook") /\ Bury(t, "start_failed") /\ UNCHANGED <<mode,
            pid>>
        BY <3>1 DEF BuryFailedStart
      <4> QED
        BY <4>1
    <3>2. CASE mode[t] # "booking"
      <4>1. Return(t, "bury_delete") /\ Bury(t, "start_failed")
        BY <3>2 DEF BuryFailedStart
      <4> QED
        BY <4>1 DEF Return
    <3> QED
      BY <3>1, <3>2
  <2> QED
    BY <1>1, <2>1, <2>2, <2>3, <2>4, <2>5, <2>6, <2>7, <2>8, <2>9 DEF StartStep
<1>2. ASSUME NEW t \in Users, CancelStep(t) PROVE CallInv'
  <2>1. CASE CancelDelete(t)
    BY <2>1 DEF CancelDelete
  <2>2. CASE CancelKill(t)
    BY <2>2 DEF CancelKill, Terminated
  <2>3. CASE CancelClean(t)
    BY <2>3 DEF CancelClean, Return, Told
  <2> QED
    BY <1>2, <2>1, <2>2, <2>3 DEF CancelStep
<1>3. ASSUME NEW t \in Users, SweepStep(t) PROVE CallInv'
  <2>1. CASE SweepDelete(t)
    BY <2>1 DEF SweepDelete, Told
  <2>2. CASE SweepEnd(t)
    BY <2>2 DEF SweepEnd, Return
  <2>3. ASSUME NEW c \in Chats, SweepKill(t, c) PROVE CallInv'
    BY <2>3 DEF SweepKill, Terminated
  <2> QED
    BY <1>3, <2>1, <2>2, <2>3 DEF SweepStep
<1>4. ASSUME NEW t \in Users, Request(t) PROVE CallInv'
  <2>1. ASSUME NEW c \in Chats, BookBegin(t, c) PROVE CallInv'
    BY <2>1 DEF BookBegin
  <2>2. ASSUME NEW c \in Chats, CancelBegin(t, c) PROVE CallInv'
    BY <2>2 DEF CancelBegin
  <2> QED
    BY <1>4, <2>1, <2>2 DEF Request
<1>5. CASE ChatRequest
  <2>1. CASE SweepBegin(Poller)
    BY <2>1 DEF SweepBegin
  <2>2. ASSUME NEW c \in Chats, Resume(Poller, c) PROVE CallInv'
    BY <2>2 DEF Resume, Spawn, LoginKept, Unreaped
  <2>3. ASSUME NEW c \in Chats, ResumeWithoutLogin(Poller, c) PROVE CallInv'
    BY <2>3 DEF ResumeWithoutLogin
  <2>4. ASSUME NEW c \in Chats, Discard(Poller, c) PROVE CallInv'
    BY <2>4 DEF Discard
  <2>5. ASSUME NEW c \in Chats, CancelNothing(Poller, c) PROVE CallInv'
    BY <2>5 DEF CancelNothing
  <2> QED
    BY <1>5, <2>1, <2>2, <2>3, <2>4, <2>5 DEF ChatRequest
<1>6. ASSUME NEW c \in Chats, SessionExpires(c) PROVE CallInv'
  BY <1>6 DEF SessionExpires
<1>7. CASE WatchdogStep
  <2>1. CASE PassBegin
    BY <2>1 DEF PassBegin, Unreaped
  <2>2. CASE PassEnd
    BY <2>2 DEF PassEnd, Return
  <2>3. CASE BurySave(Watchdog)
    BY <2>3 DEF BurySave
  <2>4. CASE BuryCrashed
    BY <2>4 DEF BuryCrashed, Bury, Told
  <2>5. ASSUME NEW c \in Chats, PassSkip(c) PROVE CallInv'
    BY <2>5 DEF PassSkip
  <2>6. ASSUME NEW c \in Chats, PassFound(c) PROVE CallInv'
    BY <2>6 DEF PassFound
  <2> QED
    BY <1>7, <2>1, <2>2, <2>3, <2>4, <2>5, <2>6 DEF WatchdogStep
<1>8. ASSUME NEW p \in Pids, CallbackServe(p) PROVE CallInv'
  <2>1. CASE CallbackTell(p)
    BY <2>1 DEF CallbackTell, CallbackGoto, Told
  <2>2. CASE CallbackDrop(p)
    BY <2>2 DEF CallbackDrop, CallbackGoto, SessionResetIf
  <2>3. CASE CallbackForget(p)
    BY <2>3 DEF CallbackForget, CallbackGoto, SessionResetIf
  <2> QED
    BY <1>8, <2>1, <2>2, <2>3 DEF CallbackServe
<1>9. ASSUME NEW p \in Pids, ChildStep(p) PROVE CallInv'
  <2>1. ASSUME NEW what \in {"booked", "failed"}, ChildCalls(p, what) PROVE CallInv'
    BY <2>1 DEF ChildCalls
  <2>2. CASE ChildAnswered(p)
    BY <2>2 DEF ChildAnswered
  <2>3. CASE PaymentWatchEnds(p)
    BY <2>3 DEF PaymentWatchEnds
  <2>4. CASE ChildCrashes(p)
    BY <2>4 DEF ChildCrashes
  <2> QED
    BY <1>9, <2>1, <2>2, <2>3, <2>4 DEF ChildStep
<1>10. CASE UNCHANGED vars
  BY <1>10 DEF vars
<1> HIDE DEF CallInv
<1> QED
  BY <1>1, <1>2, <1>3, <1>4, <1>5, <1>6, <1>7, <1>8, <1>9, <1>10 DEF Next, UserStep


\* Confirm is the only step that writes a record, and StartInv says nobody is looking at the
\* chat when it does; a callback begun by ChildCalls finds its own record (NoOrphan).
LEMMA RecordNext == TypeInv /\ CoreInv /\ Serial /\ SerialInv /\ [Next]_vars => RecordInv'
<1> SUFFICES ASSUME TypeInv /\ CoreInv /\ Serial /\ SerialInv, [Next]_vars PROVE RecordInv'
  OBVIOUS
<1> USE LifecycleAssumption
<1> USE DEF TypeInv, TypeOK, OutcomeInv, Threads, Goto, ProcState, Exits, store, system,
            service, locals,
            CoreInv, NamesInv, LocalsInv, NoRecords, OwnSteps, GoneSteps, Exited,
            OwnsProcess, Alive, Searching, Served, Serial, CallInv, SerialInv, RecordInv,
            StartInv, NoOrphan, InHand, MayStart, DeadInv, Quiet, Burying
<1>1. ASSUME NEW t \in Users, StartStep(t) PROVE RecordInv'
  <2>1. CASE BookStart(t)
    BY <2>1 DEF BookStart, Spawn, LoginKept, Unreaped
  <2>2. CASE BookRefused(t)
    BY <2>2 DEF BookRefused, Unreaped
  <2>3. CASE Confirm(t)
    BY <2>3 DEF Confirm
  <2>4. CASE StartFailed(t)
    BY <2>4 DEF StartFailed
  <2>5. CASE Settle(t)
    <3>1. CASE mode[t] = "booking"
      BY <2>5, <3>1 DEF Settle
    <3>2. CASE mode[t] # "booking"
      <4>1. /\ Return(t, "settle")
            /\ dead' = [dead EXCEPT ![chat[t]] = "none"]
            /\ UNCHANGED <<running, creds, session, system, service, chat, seen, told>>
        BY <2>5, <3>2 DEF Settle
      <4> QED
        BY <4>1 DEF Return
    <3> QED
      BY <3>1, <3>2
  <2>6. CASE Stamp(t)
    BY <2>6 DEF Stamp, Return
  <2>7. CASE Unbook(t)
    BY <2>7 DEF Unbook, Return
  <2>8. CASE BurySave(t)
    BY <2>8 DEF BurySave
  <2>9. CASE BuryFailedStart(t)
    <3> USE <2>9 DEF Bury, Told
    <3>1. CASE mode[t] = "booking"
      <4>1. Goto(t, "bury_delete", "unbook") /\ Bury(t, "start_failed") /\ UNCHANGED <<mode,
            pid>>
        BY <3>1 DEF BuryFailedStart
      <4> QED
        BY <4>1
    <3>2. CASE mode[t] # "booking"
      <4>1. Return(t, "bury_delete") /\ Bury(t, "start_failed")
        BY <3>2 DEF BuryFailedStart
      <4> QED
        BY <4>1 DEF Return
    <3> QED
      BY <3>1, <3>2
  <2> QED
    BY <1>1, <2>1, <2>2, <2>3, <2>4, <2>5, <2>6, <2>7, <2>8, <2>9 DEF StartStep
<1>2. ASSUME NEW t \in Users, CancelStep(t) PROVE RecordInv'
  <2>1. CASE CancelDelete(t)
    BY <2>1 DEF CancelDelete
  <2>2. CASE CancelKill(t)
    BY <2>2 DEF CancelKill, Terminated
  <2>3. CASE CancelClean(t)
    BY <2>3 DEF CancelClean, Return, Told
  <2> QED
    BY <1>2, <2>1, <2>2, <2>3 DEF CancelStep
<1>3. ASSUME NEW t \in Users, SweepStep(t) PROVE RecordInv'
  <2>1. CASE SweepDelete(t)
    BY <2>1 DEF SweepDelete, Told
  <2>2. CASE SweepEnd(t)
    BY <2>2 DEF SweepEnd, Return
  <2>3. ASSUME NEW c \in Chats, SweepKill(t, c) PROVE RecordInv'
    BY <2>3 DEF SweepKill, Terminated
  <2> QED
    BY <1>3, <2>1, <2>2, <2>3 DEF SweepStep
<1>4. ASSUME NEW t \in Users, Request(t) PROVE RecordInv'
  <2>1. ASSUME NEW c \in Chats, BookBegin(t, c) PROVE RecordInv'
    BY <2>1 DEF BookBegin
  <2>2. ASSUME NEW c \in Chats, CancelBegin(t, c) PROVE RecordInv'
    BY <2>2 DEF CancelBegin
  <2> QED
    BY <1>4, <2>1, <2>2 DEF Request
<1>5. CASE ChatRequest
  <2>1. CASE SweepBegin(Poller)
    BY <2>1 DEF SweepBegin
  <2>2. ASSUME NEW c \in Chats, Resume(Poller, c) PROVE RecordInv'
    BY <2>2 DEF Resume, Spawn, LoginKept, Unreaped
  <2>3. ASSUME NEW c \in Chats, ResumeWithoutLogin(Poller, c) PROVE RecordInv'
    BY <2>3 DEF ResumeWithoutLogin
  <2>4. ASSUME NEW c \in Chats, Discard(Poller, c) PROVE RecordInv'
    BY <2>4 DEF Discard
  <2>5. ASSUME NEW c \in Chats, CancelNothing(Poller, c) PROVE RecordInv'
    BY <2>5 DEF CancelNothing
  <2> QED
    BY <1>5, <2>1, <2>2, <2>3, <2>4, <2>5 DEF ChatRequest
<1>6. ASSUME NEW c \in Chats, SessionExpires(c) PROVE RecordInv'
  BY <1>6 DEF SessionExpires
<1>7. CASE WatchdogStep
  <2>1. CASE PassBegin
    BY <2>1 DEF PassBegin, Unreaped
  <2>2. CASE PassEnd
    BY <2>2 DEF PassEnd, Return
  <2>3. CASE BurySave(Watchdog)
    BY <2>3 DEF BurySave
  <2>4. CASE BuryCrashed
    BY <2>4 DEF BuryCrashed, Bury, Told
  <2>5. ASSUME NEW c \in Chats, PassSkip(c) PROVE RecordInv'
    BY <2>5 DEF PassSkip
  <2>6. ASSUME NEW c \in Chats, PassFound(c) PROVE RecordInv'
    BY <2>6 DEF PassFound
  <2> QED
    BY <1>7, <2>1, <2>2, <2>3, <2>4, <2>5, <2>6 DEF WatchdogStep
<1>8. ASSUME NEW p \in Pids, CallbackServe(p) PROVE RecordInv'
  <2>1. CASE CallbackTell(p)
    BY <2>1 DEF CallbackTell, CallbackGoto, Told
  <2>2. CASE CallbackDrop(p)
    BY <2>2 DEF CallbackDrop, CallbackGoto, SessionResetIf
  <2>3. CASE CallbackForget(p)
    BY <2>3 DEF CallbackForget, CallbackGoto, SessionResetIf
  <2> QED
    BY <1>8, <2>1, <2>2, <2>3 DEF CallbackServe
<1>9. ASSUME NEW p \in Pids, ChildStep(p) PROVE RecordInv'
  <2>1. ASSUME NEW what \in {"booked", "failed"}, ChildCalls(p, what) PROVE RecordInv'
    BY <2>1 DEF ChildCalls
  <2>2. CASE ChildAnswered(p)
    BY <2>2 DEF ChildAnswered
  <2>3. CASE PaymentWatchEnds(p)
    BY <2>3 DEF PaymentWatchEnds
  <2>4. CASE ChildCrashes(p)
    BY <2>4 DEF ChildCrashes
  <2> QED
    BY <1>9, <2>1, <2>2, <2>3, <2>4 DEF ChildStep
<1>10. CASE UNCHANGED vars
  BY <1>10 DEF vars
<1> HIDE DEF RecordInv
<1> QED
  BY <1>1, <1>2, <1>3, <1>4, <1>5, <1>6, <1>7, <1>8, <1>9, <1>10 DEF Next, UserStep


\* Quiet holds when a start begins; while it lasts there is no record for a pass to find, and
\* no searching process of the chat but the new one (HandInv) to call back.
LEMMA StartNext == TypeInv /\ CoreInv /\ Serial /\ SerialInv /\ [Next]_vars => StartInv'
<1> SUFFICES ASSUME TypeInv /\ CoreInv /\ Serial /\ SerialInv, [Next]_vars PROVE StartInv'
  OBVIOUS
<1> USE LifecycleAssumption
<1> USE DEF TypeInv, TypeOK, OutcomeInv, Threads, Goto, ProcState, Exits, store, system,
            service, locals,
            CoreInv, NamesInv, LocalsInv, NoRecords, OwnSteps, GoneSteps, Exited,
            OwnsProcess, Alive, Searching, Served, Serial, CallInv, SerialInv, RecordInv,
            StartInv, HandInv, Quiet, Burying
<1>1. ASSUME NEW t \in Users, StartStep(t) PROVE StartInv'
  <2>1. CASE BookStart(t)
    BY <2>1 DEF BookStart, Spawn, LoginKept, Unreaped
  <2>2. CASE BookRefused(t)
    BY <2>2 DEF BookRefused, Unreaped
  <2>3. CASE Confirm(t)
    BY <2>3 DEF Confirm
  <2>4. CASE StartFailed(t)
    BY <2>4 DEF StartFailed
  <2>5. CASE Settle(t)
    <3>1. CASE mode[t] = "booking"
      BY <2>5, <3>1 DEF Settle
    <3>2. CASE mode[t] # "booking"
      <4>1. /\ Return(t, "settle")
            /\ dead' = [dead EXCEPT ![chat[t]] = "none"]
            /\ UNCHANGED <<running, creds, session, system, service, chat, seen, told>>
        BY <2>5, <3>2 DEF Settle
      <4> QED
        BY <4>1 DEF Return
    <3> QED
      BY <3>1, <3>2
  <2>6. CASE Stamp(t)
    BY <2>6 DEF Stamp, Return
  <2>7. CASE Unbook(t)
    BY <2>7 DEF Unbook, Return
  <2>8. CASE BurySave(t)
    BY <2>8 DEF BurySave
  <2>9. CASE BuryFailedStart(t)
    <3> USE <2>9 DEF Bury, Told
    <3>1. CASE mode[t] = "booking"
      <4>1. Goto(t, "bury_delete", "unbook") /\ Bury(t, "start_failed") /\ UNCHANGED <<mode,
            pid>>
        BY <3>1 DEF BuryFailedStart
      <4> QED
        BY <4>1
    <3>2. CASE mode[t] # "booking"
      <4>1. Return(t, "bury_delete") /\ Bury(t, "start_failed")
        BY <3>2 DEF BuryFailedStart
      <4> QED
        BY <4>1 DEF Return
    <3> QED
      BY <3>1, <3>2
  <2> QED
    BY <1>1, <2>1, <2>2, <2>3, <2>4, <2>5, <2>6, <2>7, <2>8, <2>9 DEF StartStep
<1>2. ASSUME NEW t \in Users, CancelStep(t) PROVE StartInv'
  <2>1. CASE CancelDelete(t)
    BY <2>1 DEF CancelDelete
  <2>2. CASE CancelKill(t)
    BY <2>2 DEF CancelKill, Terminated
  <2>3. CASE CancelClean(t)
    BY <2>3 DEF CancelClean, Return, Told
  <2> QED
    BY <1>2, <2>1, <2>2, <2>3 DEF CancelStep
<1>3. ASSUME NEW t \in Users, SweepStep(t) PROVE StartInv'
  <2>1. CASE SweepDelete(t)
    BY <2>1 DEF SweepDelete, Told
  <2>2. CASE SweepEnd(t)
    BY <2>2 DEF SweepEnd, Return
  <2>3. ASSUME NEW c \in Chats, SweepKill(t, c) PROVE StartInv'
    BY <2>3 DEF SweepKill, Terminated
  <2> QED
    BY <1>3, <2>1, <2>2, <2>3 DEF SweepStep
<1>4. ASSUME NEW t \in Users, Request(t) PROVE StartInv'
  <2>1. ASSUME NEW c \in Chats, BookBegin(t, c) PROVE StartInv'
    BY <2>1 DEF BookBegin
  <2>2. ASSUME NEW c \in Chats, CancelBegin(t, c) PROVE StartInv'
    BY <2>2 DEF CancelBegin
  <2> QED
    BY <1>4, <2>1, <2>2 DEF Request
<1>5. CASE ChatRequest
  <2>1. CASE SweepBegin(Poller)
    BY <2>1 DEF SweepBegin
  <2>2. ASSUME NEW c \in Chats, Resume(Poller, c) PROVE StartInv'
    BY <2>2 DEF Resume, Spawn, LoginKept, Unreaped
  <2>3. ASSUME NEW c \in Chats, ResumeWithoutLogin(Poller, c) PROVE StartInv'
    BY <2>3 DEF ResumeWithoutLogin
  <2>4. ASSUME NEW c \in Chats, Discard(Poller, c) PROVE StartInv'
    BY <2>4 DEF Discard
  <2>5. ASSUME NEW c \in Chats, CancelNothing(Poller, c) PROVE StartInv'
    BY <2>5 DEF CancelNothing
  <2> QED
    BY <1>5, <2>1, <2>2, <2>3, <2>4, <2>5 DEF ChatRequest
<1>6. ASSUME NEW c \in Chats, SessionExpires(c) PROVE StartInv'
  BY <1>6 DEF SessionExpires
<1>7. CASE WatchdogStep
  <2>1. CASE PassBegin
    BY <2>1 DEF PassBegin, Unreaped
  <2>2. CASE PassEnd
    BY <2>2 DEF PassEnd, Return
  <2>3. CASE BurySave(Watchdog)
    BY <2>3 DEF BurySave
  <2>4. CASE BuryCrashed
    BY <2>4 DEF BuryCrashed, Bury, Told
  <2>5. ASSUME NEW c \in Chats, PassSkip(c) PROVE StartInv'
    BY <2>5 DEF PassSkip
  <2>6. ASSUME NEW c \in Chats, PassFound(c) PROVE StartInv'
    BY <2>6 DEF PassFound
  <2> QED
    BY <1>7, <2>1, <2>2, <2>3, <2>4, <2>5, <2>6 DEF WatchdogStep
<1>8. ASSUME NEW p \in Pids, CallbackServe(p) PROVE StartInv'
  <2>1. CASE CallbackTell(p)
    BY <2>1 DEF CallbackTell, CallbackGoto, Told
  <2>2. CASE CallbackDrop(p)
    BY <2>2 DEF CallbackDrop, CallbackGoto, SessionResetIf
  <2>3. CASE CallbackForget(p)
    BY <2>3 DEF CallbackForget, CallbackGoto, SessionResetIf
  <2> QED
    BY <1>8, <2>1, <2>2, <2>3 DEF CallbackServe
<1>9. ASSUME NEW p \in Pids, ChildStep(p) PROVE StartInv'
  <2>1. ASSUME NEW what \in {"booked", "failed"}, ChildCalls(p, what) PROVE StartInv'
    BY <2>1 DEF ChildCalls
  <2>2. CASE ChildAnswered(p)
    BY <2>2 DEF ChildAnswered
  <2>3. CASE PaymentWatchEnds(p)
    BY <2>3 DEF PaymentWatchEnds
  <2>4. CASE ChildCrashes(p)
    BY <2>4 DEF ChildCrashes
  <2> QED
    BY <1>9, <2>1, <2>2, <2>3, <2>4 DEF ChildStep
<1>10. CASE UNCHANGED vars
  BY <1>10 DEF vars
<1> HIDE DEF StartInv
<1> QED
  BY <1>1, <1>2, <1>3, <1>4, <1>5, <1>6, <1>7, <1>8, <1>9, <1>10 DEF Next, UserStep


\* A dead record is written on the way to deleting the running one, and Settle clears it
\* after Confirm; Resume finds the dead record, hence no running one.
LEMMA DeadNext == TypeInv /\ CoreInv /\ Serial /\ SerialInv /\ [Next]_vars => DeadInv'
<1> SUFFICES ASSUME TypeInv /\ CoreInv /\ Serial /\ SerialInv, [Next]_vars PROVE DeadInv'
  OBVIOUS
<1> USE LifecycleAssumption
<1> USE DEF TypeInv, TypeOK, OutcomeInv, Threads, Goto, ProcState, Exits, store, system,
            service, locals,
            CoreInv, NamesInv, LocalsInv, NoRecords, OwnSteps, GoneSteps, Exited,
            OwnsProcess, Alive, Searching, Served, Serial, CallInv, SerialInv, RecordInv,
            StartInv, DeadInv, Burying, Dead
<1>1. ASSUME NEW t \in Users, StartStep(t) PROVE DeadInv'
  <2>1. CASE BookStart(t)
    BY <2>1 DEF BookStart, Spawn, LoginKept, Unreaped
  <2>2. CASE BookRefused(t)
    BY <2>2 DEF BookRefused, Unreaped
  <2>3. CASE Confirm(t)
    BY <2>3 DEF Confirm
  <2>4. CASE StartFailed(t)
    BY <2>4 DEF StartFailed
  <2>5. CASE Settle(t)
    <3>1. CASE mode[t] = "booking"
      BY <2>5, <3>1 DEF Settle
    <3>2. CASE mode[t] # "booking"
      <4>1. /\ Return(t, "settle")
            /\ dead' = [dead EXCEPT ![chat[t]] = "none"]
            /\ UNCHANGED <<running, creds, session, system, service, chat, seen, told>>
        BY <2>5, <3>2 DEF Settle
      <4> QED
        BY <4>1 DEF Return
    <3> QED
      BY <3>1, <3>2
  <2>6. CASE Stamp(t)
    BY <2>6 DEF Stamp, Return
  <2>7. CASE Unbook(t)
    BY <2>7 DEF Unbook, Return
  <2>8. CASE BurySave(t)
    BY <2>8 DEF BurySave
  <2>9. CASE BuryFailedStart(t)
    <3> USE <2>9 DEF Bury, Told
    <3>1. CASE mode[t] = "booking"
      <4>1. Goto(t, "bury_delete", "unbook") /\ Bury(t, "start_failed") /\ UNCHANGED <<mode,
            pid>>
        BY <3>1 DEF BuryFailedStart
      <4> QED
        BY <4>1
    <3>2. CASE mode[t] # "booking"
      <4>1. Return(t, "bury_delete") /\ Bury(t, "start_failed")
        BY <3>2 DEF BuryFailedStart
      <4> QED
        BY <4>1 DEF Return
    <3> QED
      BY <3>1, <3>2
  <2> QED
    BY <1>1, <2>1, <2>2, <2>3, <2>4, <2>5, <2>6, <2>7, <2>8, <2>9 DEF StartStep
<1>2. ASSUME NEW t \in Users, CancelStep(t) PROVE DeadInv'
  <2>1. CASE CancelDelete(t)
    BY <2>1 DEF CancelDelete
  <2>2. CASE CancelKill(t)
    BY <2>2 DEF CancelKill, Terminated
  <2>3. CASE CancelClean(t)
    BY <2>3 DEF CancelClean, Return, Told
  <2> QED
    BY <1>2, <2>1, <2>2, <2>3 DEF CancelStep
<1>3. ASSUME NEW t \in Users, SweepStep(t) PROVE DeadInv'
  <2>1. CASE SweepDelete(t)
    BY <2>1 DEF SweepDelete, Told
  <2>2. CASE SweepEnd(t)
    BY <2>2 DEF SweepEnd, Return
  <2>3. ASSUME NEW c \in Chats, SweepKill(t, c) PROVE DeadInv'
    BY <2>3 DEF SweepKill, Terminated
  <2> QED
    BY <1>3, <2>1, <2>2, <2>3 DEF SweepStep
<1>4. ASSUME NEW t \in Users, Request(t) PROVE DeadInv'
  <2>1. ASSUME NEW c \in Chats, BookBegin(t, c) PROVE DeadInv'
    BY <2>1 DEF BookBegin
  <2>2. ASSUME NEW c \in Chats, CancelBegin(t, c) PROVE DeadInv'
    BY <2>2 DEF CancelBegin
  <2> QED
    BY <1>4, <2>1, <2>2 DEF Request
<1>5. CASE ChatRequest
  <2>1. CASE SweepBegin(Poller)
    BY <2>1 DEF SweepBegin
  <2>2. ASSUME NEW c \in Chats, Resume(Poller, c) PROVE DeadInv'
    BY <2>2 DEF Resume, Spawn, LoginKept, Unreaped
  <2>3. ASSUME NEW c \in Chats, ResumeWithoutLogin(Poller, c) PROVE DeadInv'
    BY <2>3 DEF ResumeWithoutLogin
  <2>4. ASSUME NEW c \in Chats, Discard(Poller, c) PROVE DeadInv'
    BY <2>4 DEF Discard
  <2>5. ASSUME NEW c \in Chats, CancelNothing(Poller, c) PROVE DeadInv'
    BY <2>5 DEF CancelNothing
  <2> QED
    BY <1>5, <2>1, <2>2, <2>3, <2>4, <2>5 DEF ChatRequest
<1>6. ASSUME NEW c \in Chats, SessionExpires(c) PROVE DeadInv'
  BY <1>6 DEF SessionExpires
<1>7. CASE WatchdogStep
  <2>1. CASE PassBegin
    BY <2>1 DEF PassBegin, Unreaped
  <2>2. CASE PassEnd
    BY <2>2 DEF PassEnd, Return
  <2>3. CASE BurySave(Watchdog)
    BY <2>3 DEF BurySave
  <2>4. CASE BuryCrashed
    BY <2>4 DEF BuryCrashed, Bury, Told
  <2>5. ASSUME NEW c \in Chats, PassSkip(c) PROVE DeadInv'
    BY <2>5 DEF PassSkip
  <2>6. ASSUME NEW c \in Chats, PassFound(c) PROVE DeadInv'
    BY <2>6 DEF PassFound
  <2> QED
    BY <1>7, <2>1, <2>2, <2>3, <2>4, <2>5, <2>6 DEF WatchdogStep
<1>8. ASSUME NEW p \in Pids, CallbackServe(p) PROVE DeadInv'
  <2>1. CASE CallbackTell(p)
    BY <2>1 DEF CallbackTell, CallbackGoto, Told
  <2>2. CASE CallbackDrop(p)
    BY <2>2 DEF CallbackDrop, CallbackGoto, SessionResetIf
  <2>3. CASE CallbackForget(p)
    BY <2>3 DEF CallbackForget, CallbackGoto, SessionResetIf
  <2> QED
    BY <1>8, <2>1, <2>2, <2>3 DEF CallbackServe
<1>9. ASSUME NEW p \in Pids, ChildStep(p) PROVE DeadInv'
  <2>1. ASSUME NEW what \in {"booked", "failed"}, ChildCalls(p, what) PROVE DeadInv'
    BY <2>1 DEF ChildCalls
  <2>2. CASE ChildAnswered(p)
    BY <2>2 DEF ChildAnswered
  <2>3. CASE PaymentWatchEnds(p)
    BY <2>3 DEF PaymentWatchEnds
  <2>4. CASE ChildCrashes(p)
    BY <2>4 DEF ChildCrashes
  <2> QED
    BY <1>9, <2>1, <2>2, <2>3, <2>4 DEF ChildStep
<1>10. CASE UNCHANGED vars
  BY <1>10 DEF vars
<1> HIDE DEF DeadInv
<1> QED
  BY <1>1, <1>2, <1>3, <1>4, <1>5, <1>6, <1>7, <1>8, <1>9, <1>10 DEF Next, UserStep


\* BookStart and Resume find no record, hence by NoOrphan no search; CancelBegin finds one,
\* hence by NoOrphan no other.
LEMMA HandNext == TypeInv /\ CoreInv /\ Serial /\ SerialInv /\ [Next]_vars => HandInv'
<1> SUFFICES ASSUME TypeInv /\ CoreInv /\ Serial /\ SerialInv, [Next]_vars PROVE HandInv'
  OBVIOUS
<1> USE LifecycleAssumption
<1> USE DEF TypeInv, TypeOK, OutcomeInv, Threads, Goto, ProcState, Exits, store, system,
            service, locals,
            CoreInv, NamesInv, LocalsInv, NoRecords, OwnSteps, GoneSteps, Exited,
            OwnsProcess, Alive, Searching, Served, Serial, CallInv, SerialInv, RecordInv,
            HandInv, NoOrphan, InHand, MayStart, DeadInv, Quiet, Burying, StartInv
<1>1. ASSUME NEW t \in Users, StartStep(t) PROVE HandInv'
  <2>1. CASE BookStart(t)
    BY <2>1 DEF BookStart, Spawn, LoginKept, Unreaped
  <2>2. CASE BookRefused(t)
    BY <2>2 DEF BookRefused, Unreaped
  <2>3. CASE Confirm(t)
    BY <2>3 DEF Confirm
  <2>4. CASE StartFailed(t)
    BY <2>4 DEF StartFailed
  <2>5. CASE Settle(t)
    <3>1. CASE mode[t] = "booking"
      BY <2>5, <3>1 DEF Settle
    <3>2. CASE mode[t] # "booking"
      <4>1. /\ Return(t, "settle")
            /\ dead' = [dead EXCEPT ![chat[t]] = "none"]
            /\ UNCHANGED <<running, creds, session, system, service, chat, seen, told>>
        BY <2>5, <3>2 DEF Settle
      <4> QED
        BY <4>1 DEF Return
    <3> QED
      BY <3>1, <3>2
  <2>6. CASE Stamp(t)
    BY <2>6 DEF Stamp, Return
  <2>7. CASE Unbook(t)
    BY <2>7 DEF Unbook, Return
  <2>8. CASE BurySave(t)
    BY <2>8 DEF BurySave
  <2>9. CASE BuryFailedStart(t)
    <3> USE <2>9 DEF Bury, Told
    <3>1. CASE mode[t] = "booking"
      <4>1. Goto(t, "bury_delete", "unbook") /\ Bury(t, "start_failed") /\ UNCHANGED <<mode,
            pid>>
        BY <3>1 DEF BuryFailedStart
      <4> QED
        BY <4>1
    <3>2. CASE mode[t] # "booking"
      <4>1. Return(t, "bury_delete") /\ Bury(t, "start_failed")
        BY <3>2 DEF BuryFailedStart
      <4> QED
        BY <4>1 DEF Return
    <3> QED
      BY <3>1, <3>2
  <2> QED
    BY <1>1, <2>1, <2>2, <2>3, <2>4, <2>5, <2>6, <2>7, <2>8, <2>9 DEF StartStep
<1>2. ASSUME NEW t \in Users, CancelStep(t) PROVE HandInv'
  <2>1. CASE CancelDelete(t)
    BY <2>1 DEF CancelDelete
  <2>2. CASE CancelKill(t)
    BY <2>2 DEF CancelKill, Terminated
  <2>3. CASE CancelClean(t)
    BY <2>3 DEF CancelClean, Return, Told
  <2> QED
    BY <1>2, <2>1, <2>2, <2>3 DEF CancelStep
<1>3. ASSUME NEW t \in Users, SweepStep(t) PROVE HandInv'
  <2>1. CASE SweepDelete(t)
    BY <2>1 DEF SweepDelete, Told
  <2>2. CASE SweepEnd(t)
    BY <2>2 DEF SweepEnd, Return
  <2>3. ASSUME NEW c \in Chats, SweepKill(t, c) PROVE HandInv'
    BY <2>3 DEF SweepKill, Terminated
  <2> QED
    BY <1>3, <2>1, <2>2, <2>3 DEF SweepStep
<1>4. ASSUME NEW t \in Users, Request(t) PROVE HandInv'
  <2>1. ASSUME NEW c \in Chats, BookBegin(t, c) PROVE HandInv'
    BY <2>1 DEF BookBegin
  <2>2. ASSUME NEW c \in Chats, CancelBegin(t, c) PROVE HandInv'
    BY <2>2 DEF CancelBegin
  <2> QED
    BY <1>4, <2>1, <2>2 DEF Request
<1>5. CASE ChatRequest
  <2>1. CASE SweepBegin(Poller)
    BY <2>1 DEF SweepBegin
  <2>2. ASSUME NEW c \in Chats, Resume(Poller, c) PROVE HandInv'
    BY <2>2 DEF Resume, Spawn, LoginKept, Unreaped
  <2>3. ASSUME NEW c \in Chats, ResumeWithoutLogin(Poller, c) PROVE HandInv'
    BY <2>3 DEF ResumeWithoutLogin
  <2>4. ASSUME NEW c \in Chats, Discard(Poller, c) PROVE HandInv'
    BY <2>4 DEF Discard
  <2>5. ASSUME NEW c \in Chats, CancelNothing(Poller, c) PROVE HandInv'
    BY <2>5 DEF CancelNothing
  <2> QED
    BY <1>5, <2>1, <2>2, <2>3, <2>4, <2>5 DEF ChatRequest
<1>6. ASSUME NEW c \in Chats, SessionExpires(c) PROVE HandInv'
  BY <1>6 DEF SessionExpires
<1>7. CASE WatchdogStep
  <2>1. CASE PassBegin
    BY <2>1 DEF PassBegin, Unreaped
  <2>2. CASE PassEnd
    BY <2>2 DEF PassEnd, Return
  <2>3. CASE BurySave(Watchdog)
    BY <2>3 DEF BurySave
  <2>4. CASE BuryCrashed
    BY <2>4 DEF BuryCrashed, Bury, Told
  <2>5. ASSUME NEW c \in Chats, PassSkip(c) PROVE HandInv'
    BY <2>5 DEF PassSkip
  <2>6. ASSUME NEW c \in Chats, PassFound(c) PROVE HandInv'
    BY <2>6 DEF PassFound
  <2> QED
    BY <1>7, <2>1, <2>2, <2>3, <2>4, <2>5, <2>6 DEF WatchdogStep
<1>8. ASSUME NEW p \in Pids, CallbackServe(p) PROVE HandInv'
  <2>1. CASE CallbackTell(p)
    BY <2>1 DEF CallbackTell, CallbackGoto, Told
  <2>2. CASE CallbackDrop(p)
    BY <2>2 DEF CallbackDrop, CallbackGoto, SessionResetIf
  <2>3. CASE CallbackForget(p)
    BY <2>3 DEF CallbackForget, CallbackGoto, SessionResetIf
  <2> QED
    BY <1>8, <2>1, <2>2, <2>3 DEF CallbackServe
<1>9. ASSUME NEW p \in Pids, ChildStep(p) PROVE HandInv'
  <2>1. ASSUME NEW what \in {"booked", "failed"}, ChildCalls(p, what) PROVE HandInv'
    BY <2>1 DEF ChildCalls
  <2>2. CASE ChildAnswered(p)
    BY <2>2 DEF ChildAnswered
  <2>3. CASE PaymentWatchEnds(p)
    BY <2>3 DEF PaymentWatchEnds
  <2>4. CASE ChildCrashes(p)
    BY <2>4 DEF ChildCrashes
  <2> QED
    BY <1>9, <2>1, <2>2, <2>3, <2>4 DEF ChildStep
<1>10. CASE UNCHANGED vars
  BY <1>10 DEF vars
<1> HIDE DEF HandInv
<1> QED
  BY <1>1, <1>2, <1>3, <1>4, <1>5, <1>6, <1>7, <1>8, <1>9, <1>10 DEF Next, UserStep


\* Whoever deletes a record has the process it names, which is gone (RecordInv, LocalsInv),
\* except CancelDelete, which has it in hand.
LEMMA OrphanNext == TypeInv /\ CoreInv /\ Serial /\ SerialInv /\ [Next]_vars => NoOrphan'
<1> SUFFICES ASSUME TypeInv /\ CoreInv /\ Serial /\ SerialInv, [Next]_vars PROVE NoOrphan'
  OBVIOUS
<1> USE LifecycleAssumption
<1> USE DEF TypeInv, TypeOK, OutcomeInv, Threads, Goto, ProcState, Exits, store, system,
            service, locals,
            CoreInv, NamesInv, LocalsInv, NoRecords, OwnSteps, GoneSteps, Exited,
            OwnsProcess, Alive, Searching, Served, Serial, CallInv, SerialInv, RecordInv,
            HandInv, NoOrphan, InHand, StartInv
<1>1. ASSUME NEW t \in Users, StartStep(t) PROVE NoOrphan'
  <2>1. CASE BookStart(t)
    BY <2>1 DEF BookStart, Spawn, LoginKept, Unreaped
  <2>2. CASE BookRefused(t)
    BY <2>2 DEF BookRefused, Unreaped
  <2>3. CASE Confirm(t)
    BY <2>3 DEF Confirm
  <2>4. CASE StartFailed(t)
    BY <2>4 DEF StartFailed
  <2>5. CASE Settle(t)
    <3>1. CASE mode[t] = "booking"
      BY <2>5, <3>1 DEF Settle
    <3>2. CASE mode[t] # "booking"
      <4>1. /\ Return(t, "settle")
            /\ dead' = [dead EXCEPT ![chat[t]] = "none"]
            /\ UNCHANGED <<running, creds, session, system, service, chat, seen, told>>
        BY <2>5, <3>2 DEF Settle
      <4> QED
        BY <4>1 DEF Return
    <3> QED
      BY <3>1, <3>2
  <2>6. CASE Stamp(t)
    BY <2>6 DEF Stamp, Return
  <2>7. CASE Unbook(t)
    BY <2>7 DEF Unbook, Return
  <2>8. CASE BurySave(t)
    BY <2>8 DEF BurySave
  <2>9. CASE BuryFailedStart(t)
    <3> USE <2>9 DEF Bury, Told
    <3>1. CASE mode[t] = "booking"
      <4>1. Goto(t, "bury_delete", "unbook") /\ Bury(t, "start_failed") /\ UNCHANGED <<mode,
            pid>>
        BY <3>1 DEF BuryFailedStart
      <4> QED
        BY <4>1
    <3>2. CASE mode[t] # "booking"
      <4>1. Return(t, "bury_delete") /\ Bury(t, "start_failed")
        BY <3>2 DEF BuryFailedStart
      <4> QED
        BY <4>1 DEF Return
    <3> QED
      BY <3>1, <3>2
  <2> QED
    BY <1>1, <2>1, <2>2, <2>3, <2>4, <2>5, <2>6, <2>7, <2>8, <2>9 DEF StartStep
<1>2. ASSUME NEW t \in Users, CancelStep(t) PROVE NoOrphan'
  <2>1. CASE CancelDelete(t)
    BY <2>1 DEF CancelDelete
  <2>2. CASE CancelKill(t)
    BY <2>2 DEF CancelKill, Terminated
  <2>3. CASE CancelClean(t)
    BY <2>3 DEF CancelClean, Return, Told
  <2> QED
    BY <1>2, <2>1, <2>2, <2>3 DEF CancelStep
<1>3. ASSUME NEW t \in Users, SweepStep(t) PROVE NoOrphan'
  <2>1. CASE SweepDelete(t)
    BY <2>1 DEF SweepDelete, Told
  <2>2. CASE SweepEnd(t)
    BY <2>2 DEF SweepEnd, Return
  <2>3. ASSUME NEW c \in Chats, SweepKill(t, c) PROVE NoOrphan'
    BY <2>3 DEF SweepKill, Terminated
  <2> QED
    BY <1>3, <2>1, <2>2, <2>3 DEF SweepStep
<1>4. ASSUME NEW t \in Users, Request(t) PROVE NoOrphan'
  <2>1. ASSUME NEW c \in Chats, BookBegin(t, c) PROVE NoOrphan'
    BY <2>1 DEF BookBegin
  <2>2. ASSUME NEW c \in Chats, CancelBegin(t, c) PROVE NoOrphan'
    BY <2>2 DEF CancelBegin
  <2> QED
    BY <1>4, <2>1, <2>2 DEF Request
<1>5. CASE ChatRequest
  <2>1. CASE SweepBegin(Poller)
    BY <2>1 DEF SweepBegin
  <2>2. ASSUME NEW c \in Chats, Resume(Poller, c) PROVE NoOrphan'
    BY <2>2 DEF Resume, Spawn, LoginKept, Unreaped
  <2>3. ASSUME NEW c \in Chats, ResumeWithoutLogin(Poller, c) PROVE NoOrphan'
    BY <2>3 DEF ResumeWithoutLogin
  <2>4. ASSUME NEW c \in Chats, Discard(Poller, c) PROVE NoOrphan'
    BY <2>4 DEF Discard
  <2>5. ASSUME NEW c \in Chats, CancelNothing(Poller, c) PROVE NoOrphan'
    BY <2>5 DEF CancelNothing
  <2> QED
    BY <1>5, <2>1, <2>2, <2>3, <2>4, <2>5 DEF ChatRequest
<1>6. ASSUME NEW c \in Chats, SessionExpires(c) PROVE NoOrphan'
  BY <1>6 DEF SessionExpires
<1>7. CASE WatchdogStep
  <2>1. CASE PassBegin
    BY <2>1 DEF PassBegin, Unreaped
  <2>2. CASE PassEnd
    BY <2>2 DEF PassEnd, Return
  <2>3. CASE BurySave(Watchdog)
    BY <2>3 DEF BurySave
  <2>4. CASE BuryCrashed
    BY <2>4 DEF BuryCrashed, Bury, Told
  <2>5. ASSUME NEW c \in Chats, PassSkip(c) PROVE NoOrphan'
    BY <2>5 DEF PassSkip
  <2>6. ASSUME NEW c \in Chats, PassFound(c) PROVE NoOrphan'
    BY <2>6 DEF PassFound
  <2> QED
    BY <1>7, <2>1, <2>2, <2>3, <2>4, <2>5, <2>6 DEF WatchdogStep
<1>8. ASSUME NEW p \in Pids, CallbackServe(p) PROVE NoOrphan'
  <2>1. CASE CallbackTell(p)
    BY <2>1 DEF CallbackTell, CallbackGoto, Told
  <2>2. CASE CallbackDrop(p)
    BY <2>2 DEF CallbackDrop, CallbackGoto, SessionResetIf
  <2>3. CASE CallbackForget(p)
    BY <2>3 DEF CallbackForget, CallbackGoto, SessionResetIf
  <2> QED
    BY <1>8, <2>1, <2>2, <2>3 DEF CallbackServe
<1>9. ASSUME NEW p \in Pids, ChildStep(p) PROVE NoOrphan'
  <2>1. ASSUME NEW what \in {"booked", "failed"}, ChildCalls(p, what) PROVE NoOrphan'
    BY <2>1 DEF ChildCalls
  <2>2. CASE ChildAnswered(p)
    BY <2>2 DEF ChildAnswered
  <2>3. CASE PaymentWatchEnds(p)
    BY <2>3 DEF PaymentWatchEnds
  <2>4. CASE ChildCrashes(p)
    BY <2>4 DEF ChildCrashes
  <2> QED
    BY <1>9, <2>1, <2>2, <2>3, <2>4 DEF ChildStep
<1>10. CASE UNCHANGED vars
  BY <1>10 DEF vars
<1> HIDE DEF NoOrphan
<1> QED
  BY <1>1, <1>2, <1>3, <1>4, <1>5, <1>6, <1>7, <1>8, <1>9, <1>10 DEF Next, UserStep


LEMMA SerialInit == Init => SerialInv
<1> SUFFICES ASSUME Init PROVE SerialInv
  OBVIOUS
<1> USE LifecycleAssumption
<1>1. /\ running = NoRecords /\ dead = [c \in Chats |-> "none"]
      /\ proc = [p \in Pids |-> "unborn"] /\ callback = [p \in Pids |-> "none"]
      /\ pc = [t \in Threads |-> "idle"] /\ seen = [t \in Threads |-> NoRecords]
  BY DEF Init
<1>2. CallInv /\ DeadInv
  BY <1>1 DEF CallInv, DeadInv
<1>3. RecordInv
  BY <1>1 DEF RecordInv, OwnSteps, NoRecords, Served, Threads
<1>4. StartInv /\ HandInv
  BY <1>1 DEF StartInv, HandInv, Threads
<1>5. NoOrphan
  BY <1>1 DEF NoOrphan, Searching
<1> QED
  BY <1>2, <1>3, <1>4, <1>5 DEF SerialInv

LEMMA SerialNext ==
  TypeInv /\ CoreInv /\ Serial /\ SerialInv /\ [Next]_vars => SerialInv'
  BY CallNext, RecordNext, StartNext, DeadNext, HandNext, OrphanNext DEF SerialInv

\* The inductive invariant of the serial deployment.
THEOREM SerialCorrect == ASSUME Serial PROVE Spec => []SerialInv
<1>1. TypeInv /\ CoreInv /\ SerialInv /\ [Next]_vars => SerialInv'
  BY Serial, SerialNext
<1> QED
  BY SerialInit, <1>1, CoreCorrect, PTL DEF Spec

\* _may_start's promise: no search runs with nothing tracking it.
THEOREM NothingOrphaned == ASSUME Serial PROVE Spec => []NoOrphan
<1>1. SerialInv => NoOrphan
  BY DEF SerialInv
<1> QED
  BY <1>1, SerialCorrect, Serial, PTL

\* A chat never has two searches: each would be recorded or in hand, and neither a record
\* nor a hand holds two.
THEOREM OneSearch == ASSUME Serial PROVE Spec => []OneSearchPerChat
<1>1. TypeInv /\ CoreInv /\ SerialInv => OneSearchPerChat
  <2> SUFFICES ASSUME TypeInv, CoreInv, SerialInv, NEW p \in Pids, NEW q \in Pids,
                      Searching(p), Searching(q), owner[p] = owner[q]
               PROVE  p = q
    BY DEF OneSearchPerChat
  <2>1. ASSUME NEW r \in Pids, NEW s \in Pids, Searching(s), owner[r] = owner[s], InHand(r)
        PROVE  r = s
    <3>1. PICK t \in Users : pid[t] = r /\ pc[t] \in {"confirm", "cancel_delete", "cancel_kill"}
      BY <2>1 DEF InHand
    <3>2. owner[r] = chat[t]
      BY <3>1, LifecycleAssumption DEF CoreInv, NamesInv, Threads
    <3> QED
      BY <2>1, <3>1, <3>2 DEF SerialInv, HandInv
  <2>2. CASE InHand(p) \/ InHand(q)
    BY <2>1, <2>2
  <2>3. CASE ~InHand(p) /\ ~InHand(q)
    BY <2>3 DEF SerialInv, NoOrphan
  <2> QED
    BY <2>2, <2>3
<1> QED
  BY <1>1, SerialCorrect, CoreCorrect, Serial, PTL

=============================================================================
