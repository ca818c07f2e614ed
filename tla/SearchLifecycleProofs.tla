---------------------- MODULE SearchLifecycleProofs ----------------------
(***************************************************************************)
(* Proofs that hold for any set of request threads and for every schedule: *)
(* type correctness and the three promises SearchProperties makes          *)
(* "however the threads interleave".  They need the process names, the     *)
(* locals and the history at once, which is what CoreInv strengthens them  *)
(* with; TLC checks it with the promises before tlapm proves it inductive. *)
(***************************************************************************)
EXTENDS SearchProperties, TLAPS

\* Steps at which a thread works on a process of its own, and those reached only once it is gone.
OwnSteps  == {"confirm", "settle", "stamp", "bury_save", "bury_delete",
              "cancel_delete", "cancel_kill", "cancel_clean", "sweep_delete"}
GoneSteps == {"bury_save", "bury_delete", "cancel_clean", "sweep_delete"}

\* What names a process names one that was born, and born for that chat.
NamesInv ==
  /\ \A c \in Chats : running[c] # NoPid =>
       proc[running[c]] # "unborn" /\ owner[running[c]] = c
  /\ \A t \in Threads : pid[t] # NoPid =>
       proc[pid[t]] # "unborn" /\ owner[pid[t]] = chat[t]
  /\ \A t \in Threads, c \in Chats : seen[t][c] # NoPid =>
       proc[seen[t][c]] # "unborn" /\ owner[seen[t][c]] = c

\* What a thread holds at each step.
LocalsInv ==
  /\ pc[Watchdog] \in {"idle", "pass", "bury_save", "bury_delete"}
  /\ \A t \in Users : pc[t] # "pass"
  /\ \A t \in Threads : pc[t] = "idle" => pid[t] = NoPid
  /\ \A t \in Threads : pc[t] \in OwnSteps => pid[t] \in Pids
  /\ \A t \in Threads : pc[t] \in GoneSteps => Exited(pid[t])
  /\ \A t \in Users : pc[t] \notin {"sweep", "sweep_delete"} => seen[t] = NoRecords

\* Until a start is confirmed only the thread that makes it knows the process ...
FreshInv ==
  \A t \in Threads : pc[t] = "confirm" =>
    /\ \A c \in Chats : running[c] # pid[t]
    /\ \A u \in Threads, c \in Chats : seen[u][c] # pid[t]
    /\ \A u \in Threads \ {t} : pid[u] # pid[t]
    /\ "cancelled" \notin told[pid[t]]

\* ... so that a record deleted by /cancel does not come back.
CancelInv ==
  \A t \in Threads : pc[t] \in {"cancel_kill", "cancel_clean"} => running[chat[t]] # pid[t]

RecordOnceInv == FreshInv /\ CancelInv
ToldInv       == CancelledStaysGone /\ NoLiveSearchReportedDead

CoreInv == NamesInv /\ LocalsInv /\ RecordOnceInv /\ EveryChildHasHandle /\ ToldInv

-----------------------------------------------------------------------------
(* Type correctness, for any threads and any schedule *)

\* A callback under way carries an outcome; what CallbackTell tells is one.
OutcomeInv == \A p \in Pids : callback[p] # "none" => outcome[p] # "none"

TypeInv == TypeOK /\ OutcomeInv

LEMMA TypeInit == Init => TypeInv
<1> SUFFICES ASSUME Init PROVE TypeInv
  OBVIOUS
<1> USE LifecycleAssumption DEF Init, Dead, ProcState, CbState, PC, Reports, Threads,
            NoRecords
<1>1. PICK c \in Chats : /\ owner = [p \in Pids |-> c]
                        /\ chat  = [t \in Threads |-> c]
  OBVIOUS
<1>2. owner \in [Pids -> Chats] /\ chat \in [Threads -> Chats]
  BY <1>1
<1>3. seen \in [Threads -> [Chats -> Pids \union {NoPid}]]
  OBVIOUS
<1>4. pc \in [Threads -> PC] /\ pid \in [Threads -> Pids \union {NoPid}]
  OBVIOUS
<1>5. told \in [Pids -> SUBSET Reports]
  OBVIOUS
<1>6. TypeOK
  BY <1>2, <1>3, <1>4, <1>5 DEF TypeOK
<1> QED
  BY <1>6 DEF TypeInv, OutcomeInv

LEMMA TypeNext == TypeInv /\ [Next]_vars => TypeInv'
<1> SUFFICES ASSUME TypeInv, [Next]_vars PROVE TypeInv'
  OBVIOUS
<1> USE LifecycleAssumption
<1> USE DEF TypeInv, TypeOK, OutcomeInv, Threads, Goto,
            Dead, ProcState, Exits, Reports, CbState, PC, store, system, service, locals
<1>1. ASSUME NEW t \in Users, StartStep(t) PROVE TypeInv'
  <2>1. CASE BookStart(t)
    BY <2>1 DEF BookStart, Spawn, LoginKept, Unreaped
  <2>2. CASE BookRefused(t)
    BY <2>2 DEF BookRefused, Unreaped
  <2>3. CASE Confirm(t)
    BY <2>3 DEF Confirm
  <2>4. CASE StartFailed(t)
    BY <2>4 DEF StartFailed
  <2>5. CASE Settle(t)
    <3>1. /\ dead' \in [Chats -> Dead]
          /\ UNCHANGED <<running, creds, session, system, service, chat, seen, told>>
      BY <2>5 DEF Settle
    <3>2. /\ pc' \in [Threads -> PC]
          /\ mode' \in [Threads -> {"booking", "resume"}]
          /\ pid' \in [Threads -> Pids \union {NoPid}]
      <4>1. CASE mode[t] = "booking"
        BY <2>5, <4>1 DEF Settle
      <4>2. CASE mode[t] # "booking"
        <5>1. /\ pc' = [pc EXCEPT ![t] = "idle"]
              /\ mode' = [mode EXCEPT ![t] = "booking"]
              /\ pid' = [pid EXCEPT ![t] = NoPid]
          BY <2>5, <4>2 DEF Settle, Return, Goto
        <5> QED
          BY <5>1
      <4> QED
        BY <4>1, <4>2
    <3> QED
      BY <3>1, <3>2
  <2>6. CASE Stamp(t)
    BY <2>6 DEF Stamp, Return
  <2>7. CASE Unbook(t)
    BY <2>7 DEF Unbook, Return
  <2>8. CASE BurySave(t)
    BY <2>8 DEF BurySave
  <2>9. CASE BuryFailedStart(t)
    <3>1. told' \in [Pids -> SUBSET Reports]
      BY <2>9 DEF BuryFailedStart, Bury, Told
    <3>2. /\ pc' \in [Threads -> PC]
          /\ mode' \in [Threads -> {"booking", "resume"}]
          /\ pid' \in [Threads -> Pids \union {NoPid}]
      <4>1. CASE mode[t] = "booking"
        BY <2>9, <4>1 DEF BuryFailedStart
      <4>2. CASE mode[t] # "booking"
        BY <2>9, <4>2 DEF BuryFailedStart, Return
      <4> QED
        BY <4>1, <4>2
    <3> QED
      BY <2>9, <3>1, <3>2 DEF BuryFailedStart, Bury
  <2> QED
    BY <1>1, <2>1, <2>2, <2>3, <2>4, <2>5, <2>6, <2>7, <2>8, <2>9 DEF StartStep
<1>2. ASSUME NEW t \in Users, CancelStep(t) PROVE TypeInv'
  <2>1. CASE CancelDelete(t)
    BY <2>1 DEF CancelDelete
  <2>2. CASE CancelKill(t)
    BY <2>2 DEF CancelKill, Terminated
  <2>3. CASE CancelClean(t)
    BY <2>3 DEF CancelClean, Return, Told
  <2> QED
    BY <1>2, <2>1, <2>2, <2>3 DEF CancelStep
<1>3. ASSUME NEW t \in Users, SweepStep(t) PROVE TypeInv'
  <2>1. CASE SweepDelete(t)
    BY <2>1 DEF SweepDelete, Told
  <2>2. CASE SweepEnd(t)
    BY <2>2 DEF SweepEnd, Return
  <2>3. ASSUME NEW c \in Chats, SweepKill(t, c) PROVE TypeInv'
    BY <2>3 DEF SweepKill, Terminated
  <2> QED
    BY <1>3, <2>1, <2>2, <2>3 DEF SweepStep
<1>4. ASSUME NEW t \in Users, Request(t) PROVE TypeInv'
  <2>1. ASSUME NEW c \in Chats, BookBegin(t, c) PROVE TypeInv'
    BY <2>1 DEF BookBegin
  <2>2. ASSUME NEW c \in Chats, CancelBegin(t, c) PROVE TypeInv'
    BY <2>2 DEF CancelBegin
  <2> QED
    BY <1>4, <2>1, <2>2 DEF Request
<1>5. CASE ChatRequest
  <2>1. CASE SweepBegin(Poller)
    BY <2>1 DEF SweepBegin
  <2>2. ASSUME NEW c \in Chats, Resume(Poller, c) PROVE TypeInv'
    BY <2>2 DEF Resume, Spawn, LoginKept, Unreaped
  <2>3. ASSUME NEW c \in Chats, ResumeWithoutLogin(Poller, c) PROVE TypeInv'
    BY <2>3 DEF ResumeWithoutLogin
  <2>4. ASSUME NEW c \in Chats, Discard(Poller, c) PROVE TypeInv'
    BY <2>4 DEF Discard
  <2>5. ASSUME NEW c \in Chats, CancelNothing(Poller, c) PROVE TypeInv'
    BY <2>5 DEF CancelNothing
  <2> QED
    BY <1>5, <2>1, <2>2, <2>3, <2>4, <2>5 DEF ChatRequest
<1>6. CASE WatchdogStep
  <2>1. CASE PassBegin
    BY <2>1 DEF PassBegin, Unreaped
  <2>2. CASE PassEnd
    BY <2>2 DEF PassEnd, Return
  <2>3. CASE BurySave(Watchdog)
    BY <2>3 DEF BurySave
  <2>4. CASE BuryCrashed
    BY <2>4 DEF BuryCrashed, Bury, Told
  <2>5. ASSUME NEW c \in Chats, PassSkip(c) PROVE TypeInv'
    BY <2>5 DEF PassSkip
  <2>6. ASSUME NEW c \in Chats, PassFound(c) PROVE TypeInv'
    BY <2>6 DEF PassFound
  <2> QED
    BY <1>6, <2>1, <2>2, <2>3, <2>4, <2>5, <2>6 DEF WatchdogStep
<1>7. ASSUME NEW p \in Pids, CallbackServe(p) PROVE TypeInv'
  <2>1. CASE CallbackTell(p)
    BY <2>1 DEF CallbackTell, CallbackGoto, Told
  <2>2. CASE CallbackDrop(p)
    BY <2>2 DEF CallbackDrop, CallbackGoto, SessionResetIf
  <2>3. CASE CallbackForget(p)
    BY <2>3 DEF CallbackForget, CallbackGoto, SessionResetIf
  <2> QED
    BY <1>7, <2>1, <2>2, <2>3 DEF CallbackServe
<1>8. ASSUME NEW p \in Pids, ChildStep(p) PROVE TypeInv'
  <2>1. ASSUME NEW what \in {"booked", "failed"}, ChildCalls(p, what) PROVE TypeInv'
    BY <2>1 DEF ChildCalls
  <2>2. CASE ChildAnswered(p)
    BY <2>2 DEF ChildAnswered
  <2>3. CASE PaymentWatchEnds(p)
    BY <2>3 DEF PaymentWatchEnds
  <2>4. CASE ChildCrashes(p)
    BY <2>4 DEF ChildCrashes
  <2> QED
    BY <1>8, <2>1, <2>2, <2>3, <2>4 DEF ChildStep
<1>9. ASSUME NEW c \in Chats, SessionExpires(c) PROVE TypeInv'
  BY <1>9 DEF SessionExpires
<1>10. CASE UNCHANGED vars
  BY <1>10 DEF vars
<1> HIDE DEF TypeInv
<1> QED
  BY <1>1, <1>2, <1>3, <1>4, <1>5, <1>6, <1>7, <1>8, <1>9, <1>10 DEF Next, UserStep

THEOREM TypeCorrect == Spec => []TypeOK
<1>1. TypeInv => TypeOK
  BY DEF TypeInv
<1> QED
  BY TypeInit, TypeNext, <1>1, PTL DEF Spec

\* A process is born when it gets its name: Spawn picks one nobody names yet.
LEMMA NamesNext == TypeInv /\ NamesInv /\ LocalsInv /\ [Next]_vars => NamesInv'
<1> SUFFICES ASSUME TypeInv /\ NamesInv /\ LocalsInv, [Next]_vars PROVE NamesInv'
  OBVIOUS
<1> USE LifecycleAssumption
<1> USE DEF TypeInv, TypeOK, OutcomeInv, Threads, Goto, ProcState, Exits, store, system,
            service, locals,
            NamesInv, LocalsInv, NoRecords, Exited, OwnsProcess, Alive, Searching
<1>1. ASSUME NEW t \in Users, StartStep(t) PROVE NamesInv'
  <2>1. CASE BookStart(t)
    BY <2>1 DEF BookStart, Spawn, LoginKept, Unreaped
  <2>2. CASE BookRefused(t)
    BY <2>2 DEF BookRefused, Unreaped
  <2>3. CASE Confirm(t)
    BY <2>3 DEF Confirm
  <2>4. CASE StartFailed(t)
    BY <2>4 DEF StartFailed
  <2>5. CASE Settle(t)
    <3>1. CASE mode[t] = "booking"
      BY <2>5, <3>1 DEF Settle
    <3>2. CASE mode[t] # "booking"
      <4>1. /\ Return(t, "settle")
            /\ dead' = [dead EXCEPT ![chat[t]] = "none"]
            /\ UNCHANGED <<running, creds, session, system, service, chat, seen, told>>
        BY <2>5, <3>2 DEF Settle
      <4> QED
        BY <4>1 DEF Return
    <3> QED
      BY <3>1, <3>2
  <2>6. CASE Stamp(t)
    BY <2>6 DEF Stamp, Return
  <2>7. CASE Unbook(t)
    BY <2>7 DEF Unbook, Return
  <2>8. CASE BurySave(t)
    BY <2>8 DEF BurySave
  <2>9. CASE BuryFailedStart(t)
    <3> USE <2>9 DEF Bury, Told
    <3>1. CASE mode[t] = "booking"
      <4>1. Goto(t, "bury_delete", "unbook") /\ Bury(t, "start_failed") /\ UNCHANGED <<mode,
            pid>>
        BY <3>1 DEF BuryFailedStart
      <4> QED
        BY <4>1
    <3>2. CASE mode[t] # "booking"
      <4>1. Return(t, "bury_delete") /\ Bury(t, "start_failed")
        BY <3>2 DEF BuryFailedStart
      <4> QED
        BY <4>1 DEF Return
    <3> QED
      BY <3>1, <3>2
  <2> QED
    BY <1>1, <2>1, <2>2, <2>3, <2>4, <2>5, <2>6, <2>7, <2>8, <2>9 DEF StartStep
<1>2. ASSUME NEW t \in Users, CancelStep(t) PROVE NamesInv'
  <2>1. CASE CancelDelete(t)
    BY <2>1 DEF CancelDelete
  <2>2. CASE CancelKill(t)
    BY <2>2 DEF CancelKill, Terminated
  <2>3. CASE CancelClean(t)
    BY <2>3 DEF CancelClean, Return, Told
  <2> QED
    BY <1>2, <2>1, <2>2, <2>3 DEF CancelStep
<1>3. ASSUME NEW t \in Users, SweepStep(t) PROVE NamesInv'
  <2>1. CASE SweepDelete(t)
    BY <2>1 DEF SweepDelete, Told
  <2>2. CASE SweepEnd(t)
    BY <2>2 DEF SweepEnd, Return
  <2>3. ASSUME NEW c \in Chats, SweepKill(t, c) PROVE NamesInv'
    BY <2>3 DEF SweepKill, Terminated
  <2> QED
    BY <1>3, <2>1, <2>2, <2>3 DEF SweepStep
<1>4. ASSUME NEW t \in Users, Request(t) PROVE NamesInv'
  <2>1. ASSUME NEW c \in Chats, BookBegin(t, c) PROVE NamesInv'
    BY <2>1 DEF BookBegin
  <2>2. ASSUME NEW c \in Chats, CancelBegin(t, c) PROVE NamesInv'
    BY <2>2 DEF CancelBegin
  <2> QED
    BY <1>4, <2>1, <2>2 DEF Request
<1>5. CASE ChatRequest
  <2>1. CASE SweepBegin(Poller)
    BY <2>1 DEF SweepBegin
  <2>2. ASSUME NEW c \in Chats, Resume(Poller, c) PROVE NamesInv'
    BY <2>2 DEF Resume, Spawn, LoginKept, Unreaped
  <2>3. ASSUME NEW c \in Chats, ResumeWithoutLogin(Poller, c) PROVE NamesInv'
    BY <2>3 DEF ResumeWithoutLogin
  <2>4. ASSUME NEW c \in Chats, Discard(Poller, c) PROVE NamesInv'
    BY <2>4 DEF Discard
  <2>5. ASSUME NEW c \in Chats, CancelNothing(Poller, c) PROVE NamesInv'
    BY <2>5 DEF CancelNothing
  <2> QED
    BY <1>5, <2>1, <2>2, <2>3, <2>4, <2>5 DEF ChatRequest
<1>6. ASSUME NEW c \in Chats, SessionExpires(c) PROVE NamesInv'
  BY <1>6 DEF SessionExpires
<1>7. CASE WatchdogStep
  <2>1. CASE PassBegin
    BY <2>1 DEF PassBegin, Unreaped
  <2>2. CASE PassEnd
    BY <2>2 DEF PassEnd, Return
  <2>3. CASE BurySave(Watchdog)
    BY <2>3 DEF BurySave
  <2>4. CASE BuryCrashed
    BY <2>4 DEF BuryCrashed, Bury, Told
  <2>5. ASSUME NEW c \in Chats, PassSkip(c) PROVE NamesInv'
    BY <2>5 DEF PassSkip
  <2>6. ASSUME NEW c \in Chats, PassFound(c) PROVE NamesInv'
    BY <2>6 DEF PassFound
  <2> QED
    BY <1>7, <2>1, <2>2, <2>3, <2>4, <2>5, <2>6 DEF WatchdogStep
<1>8. ASSUME NEW p \in Pids, CallbackServe(p) PROVE NamesInv'
  <2>1. CASE CallbackTell(p)
    BY <2>1 DEF CallbackTell, CallbackGoto, Told
  <2>2. CASE CallbackDrop(p)
    BY <2>2 DEF CallbackDrop, CallbackGoto, SessionResetIf
  <2>3. CASE CallbackForget(p)
    BY <2>3 DEF CallbackForget, CallbackGoto, SessionResetIf
  <2> QED
    BY <1>8, <2>1, <2>2, <2>3 DEF CallbackServe
<1>9. ASSUME NEW p \in Pids, ChildStep(p) PROVE NamesInv'
  <2>1. ASSUME NEW what \in {"booked", "failed"}, ChildCalls(p, what) PROVE NamesInv'
    BY <2>1 DEF ChildCalls
  <2>2. CASE ChildAnswered(p)
    BY <2>2 DEF ChildAnswered
  <2>3. CASE PaymentWatchEnds(p)
    BY <2>3 DEF PaymentWatchEnds
  <2>4. CASE ChildCrashes(p)
    BY <2>4 DEF ChildCrashes
  <2> QED
    BY <1>9, <2>1, <2>2, <2>3, <2>4 DEF ChildStep
<1>10. CASE UNCHANGED vars
  BY <1>10 DEF vars
<1> HIDE DEF NamesInv
<1> QED
  BY <1>1, <1>2, <1>3, <1>4, <1>5, <1>6, <1>7, <1>8, <1>9, <1>10 DEF Next, UserStep


\* A thread holds the process it works on until its operation is over; the steps that report
\* a death or a cancellation come after the process is gone, and no process comes back.
LEMMA LocalsNext == TypeInv /\ NamesInv /\ LocalsInv /\ [Next]_vars => LocalsInv'
<1> SUFFICES ASSUME TypeInv /\ NamesInv /\ LocalsInv, [Next]_vars PROVE LocalsInv'
  OBVIOUS
<1> USE LifecycleAssumption
<1> USE DEF TypeInv, TypeOK, OutcomeInv, Threads, Goto, ProcState, Exits, store, system,
            service, locals,
            NamesInv, LocalsInv, NoRecords, OwnSteps, GoneSteps, Exited, OwnsProcess, Alive,
            Searching
<1>1. ASSUME NEW t \in Users, StartStep(t) PROVE LocalsInv'
  <2>1. CASE BookStart(t)
    BY <2>1 DEF BookStart, Spawn, LoginKept, Unreaped
  <2>2. CASE BookRefused(t)
    BY <2>2 DEF BookRefused, Unreaped
  <2>3. CASE Confirm(t)
    BY <2>3 DEF Confirm
  <2>4. CASE StartFailed(t)
    BY <2>4 DEF StartFailed
  <2>5. CASE Settle(t)
    <3>1. CASE mode[t] = "booking"
      BY <2>5, <3>1 DEF Settle
    <3>2. CASE mode[t] # "booking"
      <4>1. /\ Return(t, "settle")
            /\ dead' = [dead EXCEPT ![chat[t]] = "none"]
            /\ UNCHANGED <<running, creds, session, system, service, chat, seen, told>>
        BY <2>5, <3>2 DEF Settle
      <4> QED
        BY <4>1 DEF Return
    <3> QED
      BY <3>1, <3>2
  <2>6. CASE Stamp(t)
    BY <2>6 DEF Stamp, Return
  <2>7. CASE Unbook(t)
    BY <2>7 DEF Unbook, Return
  <2>8. CASE BurySave(t)
    BY <2>8 DEF BurySave
  <2>9. CASE BuryFailedStart(t)
    <3> USE <2>9 DEF Bury, Told
    <3>1. CASE mode[t] = "booking"
      <4>1. Goto(t, "bury_delete", "unbook") /\ Bury(t, "start_failed") /\ UNCHANGED <<mode,
            pid>>
        BY <3>1 DEF BuryFailedStart
      <4> QED
        BY <4>1
    <3>2. CASE mode[t] # "booking"
      <4>1. Return(t, "bury_delete") /\ Bury(t, "start_failed")
        BY <3>2 DEF BuryFailedStart
      <4> QED
        BY <4>1 DEF Return
    <3> QED
      BY <3>1, <3>2
  <2> QED
    BY <1>1, <2>1, <2>2, <2>3, <2>4, <2>5, <2>6, <2>7, <2>8, <2>9 DEF StartStep
<1>2. ASSUME NEW t \in Users, CancelStep(t) PROVE LocalsInv'
  <2>1. CASE CancelDelete(t)
    BY <2>1 DEF CancelDelete
  <2>2. CASE CancelKill(t)
    BY <2>2 DEF CancelKill, Terminated
  <2>3. CASE CancelClean(t)
    BY <2>3 DEF CancelClean, Return, Told
  <2> QED
    BY <1>2, <2>1, <2>2, <2>3 DEF CancelStep
<1>3. ASSUME NEW t \in Users, SweepStep(t) PROVE LocalsInv'
  <2>1. CASE SweepDelete(t)
    BY <2>1 DEF SweepDelete, Told
  <2>2. CASE SweepEnd(t)
    BY <2>2 DEF SweepEnd, Return
  <2>3. ASSUME NEW c \in Chats, SweepKill(t, c) PROVE LocalsInv'
    BY <2>3 DEF SweepKill, Terminated
  <2> QED
    BY <1>3, <2>1, <2>2, <2>3 DEF SweepStep
<1>4. ASSUME NEW t \in Users, Request(t) PROVE LocalsInv'
  <2>1. ASSUME NEW c \in Chats, BookBegin(t, c) PROVE LocalsInv'
    BY <2>1 DEF BookBegin
  <2>2. ASSUME NEW c \in Chats, CancelBegin(t, c) PROVE LocalsInv'
    BY <2>2 DEF CancelBegin
  <2> QED
    BY <1>4, <2>1, <2>2 DEF Request
<1>5. CASE ChatRequest
  <2>1. CASE SweepBegin(Poller)
    BY <2>1 DEF SweepBegin
  <2>2. ASSUME NEW c \in Chats, Resume(Poller, c) PROVE LocalsInv'
    BY <2>2 DEF Resume, Spawn, LoginKept, Unreaped
  <2>3. ASSUME NEW c \in Chats, ResumeWithoutLogin(Poller, c) PROVE LocalsInv'
    BY <2>3 DEF ResumeWithoutLogin
  <2>4. ASSUME NEW c \in Chats, Discard(Poller, c) PROVE LocalsInv'
    BY <2>4 DEF Discard
  <2>5. ASSUME NEW c \in Chats, CancelNothing(Poller, c) PROVE LocalsInv'
    BY <2>5 DEF CancelNothing
  <2> QED
    BY <1>5, <2>1, <2>2, <2>3, <2>4, <2>5 DEF ChatRequest
<1>6. ASSUME NEW c \in Chats, SessionExpires(c) PROVE LocalsInv'
  BY <1>6 DEF SessionExpires
<1>7. CASE WatchdogStep
  <2>1. CASE PassBegin
    BY <2>1 DEF PassBegin, Unreaped
  <2>2. CASE PassEnd
    BY <2>2 DEF PassEnd, Return
  <2>3. CASE BurySave(Watchdog)
    BY <2>3 DEF BurySave
  <2>4. CASE BuryCrashed
    BY <2>4 DEF BuryCrashed, Bury, Told
  <2>5. ASSUME NEW c \in Chats, PassSkip(c) PROVE LocalsInv'
    BY <2>5 DEF PassSkip
  <2>6. ASSUME NEW c \in Chats, PassFound(c) PROVE LocalsInv'
    BY <2>6 DEF PassFound
  <2> QED
    BY <1>7, <2>1, <2>2, <2>3, <2>4, <2>5, <2>6 DEF WatchdogStep
<1>8. ASSUME NEW p \in Pids, CallbackServe(p) PROVE LocalsInv'
  <2>1. CASE CallbackTell(p)
    BY <2>1 DEF CallbackTell, CallbackGoto, Told
  <2>2. CASE CallbackDrop(p)
    BY <2>2 DEF CallbackDrop, CallbackGoto, SessionResetIf
  <2>3. CASE CallbackForget(p)
    BY <2>3 DEF CallbackForget, CallbackGoto, SessionResetIf
  <2> QED
    BY <1>8, <2>1, <2>2, <2>3 DEF CallbackServe
<1>9. ASSUME NEW p \in Pids, ChildStep(p) PROVE LocalsInv'
  <2>1. ASSUME NEW what \in {"booked", "failed"}, ChildCalls(p, what) PROVE LocalsInv'
    BY <2>1 DEF ChildCalls
  <2>2. CASE ChildAnswered(p)
    BY <2>2 DEF ChildAnswered
  <2>3. CASE PaymentWatchEnds(p)
    BY <2>3 DEF PaymentWatchEnds
  <2>4. CASE ChildCrashes(p)
    BY <2>4 DEF ChildCrashes
  <2> QED
    BY <1>9, <2>1, <2>2, <2>3, <2>4 DEF ChildStep
<1>10. CASE UNCHANGED vars
  BY <1>10 DEF vars
<1> HIDE DEF LocalsInv
<1> QED
  BY <1>1, <1>2, <1>3, <1>4, <1>5, <1>6, <1>7, <1>8, <1>9, <1>10 DEF Next, UserStep


\* Only Confirm records a process, only its starter knows it until then, and CancelBegin reads
\* it from a record: a cancelled process is therefore never recorded again.
\* Nothing names a process that was not born, and nothing was told about it.
LEMMA BornKnown ==
  ASSUME TypeInv, NamesInv, ToldInv, NEW p \in Pids, proc[p] = "unborn"
  PROVE  /\ \A c \in Chats : running[c] # p
         /\ \A u \in Threads, c \in Chats : seen[u][c] # p
         /\ \A u \in Threads : pid[u] # p
         /\ "cancelled" \notin told[p]
<1> USE LifecycleAssumption
<1>1. p # NoPid
  OBVIOUS
<1>2. /\ \A c \in Chats : running[c] # p
      /\ \A u \in Threads, c \in Chats : seen[u][c] # p
      /\ \A u \in Threads : pid[u] # p
  BY <1>1 DEF NamesInv
<1>3. "cancelled" \notin told[p]
  BY DEF ToldInv, CancelledStaysGone, Exited, Exits
<1> QED
  BY <1>2, <1>3

LEMMA RecordOnceNext ==
  /\ TypeInv /\ NamesInv /\ LocalsInv /\ RecordOnceInv /\ ToldInv /\ [Next]_vars
  => RecordOnceInv'
<1> SUFFICES ASSUME TypeInv, NamesInv, LocalsInv, RecordOnceInv, ToldInv, [Next]_vars
             PROVE RecordOnceInv'
  OBVIOUS
<1> USE LifecycleAssumption
<1> USE DEF TypeInv, TypeOK, OutcomeInv, Threads, Goto, ProcState, Exits, store, system,
            service, locals,
            NamesInv, LocalsInv, RecordOnceInv, FreshInv, CancelInv, ToldInv,
            CancelledStaysGone, NoRecords, OwnSteps, GoneSteps, Exited, OwnsProcess, Alive,
            Searching, Reports
<1>1. ASSUME NEW t \in Users, StartStep(t) PROVE RecordOnceInv'
  <2>1. CASE BookStart(t)
    <3>1. PICK p \in Pids :
            /\ proc[p] = "unborn"
            /\ proc' = [proc EXCEPT ![p] = "searching"]
            /\ owner' = [owner EXCEPT ![p] = chat[t]]
            /\ pid' = [pid EXCEPT ![t] = p]
      BY <2>1 DEF BookStart, Spawn
    <3>2. /\ \A c1 \in Chats : running[c1] # p
          /\ \A u \in Threads, c1 \in Chats : seen[u][c1] # p
          /\ \A u \in Threads : pid[u] # p
          /\ "cancelled" \notin told[p]
      BY <3>1, BornKnown
    <3> QED
      BY <2>1, <3>1, <3>2 DEF BookStart, Spawn
  <2>2. CASE BookRefused(t)
    BY <2>2 DEF BookRefused, Unreaped
  <2>3. CASE Confirm(t)
    BY <2>3 DEF Confirm
  <2>4. CASE StartFailed(t)
    BY <2>4 DEF StartFailed
  <2>5. CASE Settle(t)
    <3>1. CASE mode[t] = "booking"
      BY <2>5, <3>1 DEF Settle
    <3>2. CASE mode[t] # "booking"
      <4>1. /\ Return(t, "settle")
            /\ dead' = [dead EXCEPT ![chat[t]] = "none"]
            /\ UNCHANGED <<running, creds, session, system, service, chat, seen, told>>
        BY <2>5, <3>2 DEF Settle
      <4> QED
        BY <4>1 DEF Return
    <3> QED
      BY <3>1, <3>2
  <2>6. CASE Stamp(t)
    BY <2>6 DEF Stamp, Return
  <2>7. CASE Unbook(t)
    BY <2>7 DEF Unbook, Return
  <2>8. CASE BurySave(t)
    BY <2>8 DEF BurySave
  <2>9. CASE BuryFailedStart(t)
    <3> USE <2>9 DEF Bury, Told
    <3>1. CASE mode[t] = "booking"
      <4>1. Goto(t, "bury_delete", "unbook") /\ Bury(t, "start_failed") /\ UNCHANGED <<mode,
            pid>>
        BY <3>1 DEF BuryFailedStart
      <4> QED
        BY <4>1
    <3>2. CASE mode[t] # "booking"
      <4>1. Return(t, "bury_delete") /\ Bury(t, "start_failed")
        BY <3>2 DEF BuryFailedStart
      <4> QED
        BY <4>1 DEF Return
    <3> QED
      BY <3>1, <3>2
  <2> QED
    BY <1>1, <2>1, <2>2, <2>3, <2>4, <2>5, <2>6, <2>7, <2>8, <2>9 DEF StartStep
<1>2. ASSUME NEW t \in Users, CancelStep(t) PROVE RecordOnceInv'
  <2>1. CASE CancelDelete(t)
    BY <2>1 DEF CancelDelete
  <2>2. CASE CancelKill(t)
    BY <2>2 DEF CancelKill, Terminated
  <2>3. CASE CancelClean(t)
    BY <2>3 DEF CancelClean, Return, Told
  <2> QED
    BY <1>2, <2>1, <2>2, <2>3 DEF CancelStep
<1>3. ASSUME NEW t \in Users, SweepStep(t) PROVE RecordOnceInv'
  <2>1. CASE SweepDelete(t)
    BY <2>1 DEF SweepDelete, Told
  <2>2. CASE SweepEnd(t)
    BY <2>2 DEF SweepEnd, Return
  <2>3. ASSUME NEW c \in Chats, SweepKill(t, c) PROVE RecordOnceInv'
    BY <2>3 DEF SweepKill, Terminated
  <2> QED
    BY <1>3, <2>1, <2>2, <2>3 DEF SweepStep
<1>4. ASSUME NEW t \in Users, Request(t) PROVE RecordOnceInv'
  <2>1. ASSUME NEW c \in Chats, BookBegin(t, c) PROVE RecordOnceInv'
    BY <2>1 DEF BookBegin
  <2>2. ASSUME NEW c \in Chats, CancelBegin(t, c) PROVE RecordOnceInv'
    BY <2>2 DEF CancelBegin
  <2> QED
    BY <1>4, <2>1, <2>2 DEF Request
<1>5. CASE ChatRequest
  <2>1. CASE SweepBegin(Poller)
    BY <2>1 DEF SweepBegin
  <2>2. ASSUME NEW c \in Chats, Resume(Poller, c) PROVE RecordOnceInv'
    <3>1. PICK p \in Pids :
            /\ proc[p] = "unborn"
            /\ proc' = [proc EXCEPT ![p] = "searching"]
            /\ owner' = [owner EXCEPT ![p] = c]
            /\ pid' = [pid EXCEPT ![Poller] = p]
      BY <2>2 DEF Resume, Spawn
    <3>2. /\ \A c1 \in Chats : running[c1] # p
          /\ \A u \in Threads, c1 \in Chats : seen[u][c1] # p
          /\ \A u \in Threads : pid[u] # p
          /\ "cancelled" \notin told[p]
      BY <3>1, BornKnown
    <3> QED
      BY <2>2, <3>1, <3>2 DEF Resume, Spawn
  <2>3. ASSUME NEW c \in Chats, ResumeWithoutLogin(Poller, c) PROVE RecordOnceInv'
    BY <2>3 DEF ResumeWithoutLogin
  <2>4. ASSUME NEW c \in Chats, Discard(Poller, c) PROVE RecordOnceInv'
    BY <2>4 DEF Discard
  <2>5. ASSUME NEW c \in Chats, CancelNothing(Poller, c) PROVE RecordOnceInv'
    BY <2>5 DEF CancelNothing
  <2> QED
    BY <1>5, <2>1, <2>2, <2>3, <2>4, <2>5 DEF ChatRequest
<1>6. ASSUME NEW c \in Chats, SessionExpires(c) PROVE RecordOnceInv'
  BY <1>6 DEF SessionExpires
<1>7. CASE WatchdogStep
  <2>1. CASE PassBegin
    BY <2>1 DEF PassBegin, Unreaped
  <2>2. CASE PassEnd
    BY <2>2 DEF PassEnd, Return
  <2>3. CASE BurySave(Watchdog)
    BY <2>3 DEF BurySave
  <2>4. CASE BuryCrashed
    BY <2>4 DEF BuryCrashed, Bury, Told
  <2>5. ASSUME NEW c \in Chats, PassSkip(c) PROVE RecordOnceInv'
    BY <2>5 DEF PassSkip
  <2>6. ASSUME NEW c \in Chats, PassFound(c) PROVE RecordOnceInv'
    BY <2>6 DEF PassFound
  <2> QED
    BY <1>7, <2>1, <2>2, <2>3, <2>4, <2>5, <2>6 DEF WatchdogStep
<1>8. ASSUME NEW p \in Pids, CallbackServe(p) PROVE RecordOnceInv'
  <2>1. CASE CallbackTell(p)
    BY <2>1 DEF CallbackTell, CallbackGoto, Told
  <2>2. CASE CallbackDrop(p)
    BY <2>2 DEF CallbackDrop, CallbackGoto, SessionResetIf
  <2>3. CASE CallbackForget(p)
    BY <2>3 DEF CallbackForget, CallbackGoto, SessionResetIf
  <2> QED
    BY <1>8, <2>1, <2>2, <2>3 DEF CallbackServe
<1>9. ASSUME NEW p \in Pids, ChildStep(p) PROVE RecordOnceInv'
  <2>1. ASSUME NEW what \in {"booked", "failed"}, ChildCalls(p, what) PROVE RecordOnceInv'
    BY <2>1 DEF ChildCalls
  <2>2. CASE ChildAnswered(p)
    BY <2>2 DEF ChildAnswered
  <2>3. CASE PaymentWatchEnds(p)
    BY <2>3 DEF PaymentWatchEnds
  <2>4. CASE ChildCrashes(p)
    BY <2>4 DEF ChildCrashes
  <2> QED
    BY <1>9, <2>1, <2>2, <2>3, <2>4 DEF ChildStep
<1>10. CASE UNCHANGED vars
  BY <1>10 DEF vars
<1> HIDE DEF RecordOnceInv
<1> QED
  BY <1>1, <1>2, <1>3, <1>4, <1>5, <1>6, <1>7, <1>8, <1>9, <1>10 DEF Next, UserStep


\* Every step that drops a handle has seen its process gone, or has just killed it.
LEMMA HandleNext ==
  /\ TypeInv /\ NamesInv /\ LocalsInv /\ EveryChildHasHandle /\ [Next]_vars
  => EveryChildHasHandle'
<1> SUFFICES ASSUME TypeInv, NamesInv, LocalsInv, EveryChildHasHandle, [Next]_vars
             PROVE EveryChildHasHandle'
  OBVIOUS
<1> USE LifecycleAssumption
<1> USE DEF TypeInv, TypeOK, OutcomeInv, Threads, Goto, ProcState, Exits, store, system,
            service, locals,
            NamesInv, LocalsInv, EveryChildHasHandle, NoRecords, OwnSteps, GoneSteps,
            Exited, OwnsProcess, Alive, Searching
<1>1. ASSUME NEW t \in Users, StartStep(t) PROVE EveryChildHasHandle'
  <2>1. CASE BookStart(t)
    BY <2>1 DEF BookStart, Spawn, LoginKept, Unreaped
  <2>2. CASE BookRefused(t)
    BY <2>2 DEF BookRefused, Unreaped
  <2>3. CASE Confirm(t)
    BY <2>3 DEF Confirm
  <2>4. CASE StartFailed(t)
    BY <2>4 DEF StartFailed
  <2>5. CASE Settle(t)
    <3>1. CASE mode[t] = "booking"
      BY <2>5, <3>1 DEF Settle
    <3>2. CASE mode[t] # "booking"
      <4>1. /\ Return(t, "settle")
            /\ dead' = [dead EXCEPT ![chat[t]] = "none"]
            /\ UNCHANGED <<running, creds, session, system, service, chat, seen, told>>
        BY <2>5, <3>2 DEF Settle
      <4> QED
        BY <4>1 DEF Return
    <3> QED
      BY <3>1, <3>2
  <2>6. CASE Stamp(t)
    BY <2>6 DEF Stamp, Return
  <2>7. CASE Unbook(t)
    BY <2>7 DEF Unbook, Return
  <2>8. CASE BurySave(t)
    BY <2>8 DEF BurySave
  <2>9. CASE BuryFailedStart(t)
    <3> USE <2>9 DEF Bury, Told
    <3>1. CASE mode[t] = "booking"
      <4>1. Goto(t, "bury_delete", "unbook") /\ Bury(t, "start_failed") /\ UNCHANGED <<mode,
            pid>>
        BY <3>1 DEF BuryFailedStart
      <4> QED
        BY <4>1
    <3>2. CASE mode[t] # "booking"
      <4>1. Return(t, "bury_delete") /\ Bury(t, "start_failed")
        BY <3>2 DEF BuryFailedStart
      <4> QED
        BY <4>1 DEF Return
    <3> QED
      BY <3>1, <3>2
  <2> QED
    BY <1>1, <2>1, <2>2, <2>3, <2>4, <2>5, <2>6, <2>7, <2>8, <2>9 DEF StartStep
<1>2. ASSUME NEW t \in Users, CancelStep(t) PROVE EveryChildHasHandle'
  <2>1. CASE CancelDelete(t)
    BY <2>1 DEF CancelDelete
  <2>2. CASE CancelKill(t)
    BY <2>2 DEF CancelKill, Terminated
  <2>3. CASE CancelClean(t)
    BY <2>3 DEF CancelClean, Return, Told
  <2> QED
    BY <1>2, <2>1, <2>2, <2>3 DEF CancelStep
<1>3. ASSUME NEW t \in Users, SweepStep(t) PROVE EveryChildHasHandle'
  <2>1. CASE SweepDelete(t)
    BY <2>1 DEF SweepDelete, Told
  <2>2. CASE SweepEnd(t)
    BY <2>2 DEF SweepEnd, Return
  <2>3. ASSUME NEW c \in Chats, SweepKill(t, c) PROVE EveryChildHasHandle'
    BY <2>3 DEF SweepKill, Terminated
  <2> QED
    BY <1>3, <2>1, <2>2, <2>3 DEF SweepStep
<1>4. ASSUME NEW t \in Users, Request(t) PROVE EveryChildHasHandle'
  <2>1. ASSUME NEW c \in Chats, BookBegin(t, c) PROVE EveryChildHasHandle'
    BY <2>1 DEF BookBegin
  <2>2. ASSUME NEW c \in Chats, CancelBegin(t, c) PROVE EveryChildHasHandle'
    BY <2>2 DEF CancelBegin
  <2> QED
    BY <1>4, <2>1, <2>2 DEF Request
<1>5. CASE ChatRequest
  <2>1. CASE SweepBegin(Poller)
    BY <2>1 DEF SweepBegin
  <2>2. ASSUME NEW c \in Chats, Resume(Poller, c) PROVE EveryChildHasHandle'
    BY <2>2 DEF Resume, Spawn, LoginKept, Unreaped
  <2>3. ASSUME NEW c \in Chats, ResumeWithoutLogin(Poller, c) PROVE EveryChildHasHandle'
    BY <2>3 DEF ResumeWithoutLogin
  <2>4. ASSUME NEW c \in Chats, Discard(Poller, c) PROVE EveryChildHasHandle'
    BY <2>4 DEF Discard
  <2>5. ASSUME NEW c \in Chats, CancelNothing(Poller, c) PROVE EveryChildHasHandle'
    BY <2>5 DEF CancelNothing
  <2> QED
    BY <1>5, <2>1, <2>2, <2>3, <2>4, <2>5 DEF ChatRequest
<1>6. ASSUME NEW c \in Chats, SessionExpires(c) PROVE EveryChildHasHandle'
  BY <1>6 DEF SessionExpires
<1>7. CASE WatchdogStep
  <2>1. CASE PassBegin
    BY <2>1 DEF PassBegin, Unreaped
  <2>2. CASE PassEnd
    BY <2>2 DEF PassEnd, Return
  <2>3. CASE BurySave(Watchdog)
    BY <2>3 DEF BurySave
  <2>4. CASE BuryCrashed
    BY <2>4 DEF BuryCrashed, Bury, Told
  <2>5. ASSUME NEW c \in Chats, PassSkip(c) PROVE EveryChildHasHandle'
    BY <2>5 DEF PassSkip
  <2>6. ASSUME NEW c \in Chats, PassFound(c) PROVE EveryChildHasHandle'
    BY <2>6 DEF PassFound
  <2> QED
    BY <1>7, <2>1, <2>2, <2>3, <2>4, <2>5, <2>6 DEF WatchdogStep
<1>8. ASSUME NEW p \in Pids, CallbackServe(p) PROVE EveryChildHasHandle'
  <2>1. CASE CallbackTell(p)
    BY <2>1 DEF CallbackTell, CallbackGoto, Told
  <2>2. CASE CallbackDrop(p)
    BY <2>2 DEF CallbackDrop, CallbackGoto, SessionResetIf
  <2>3. CASE CallbackForget(p)
    BY <2>3 DEF CallbackForget, CallbackGoto, SessionResetIf
  <2> QED
    BY <1>8, <2>1, <2>2, <2>3 DEF CallbackServe
<1>9. ASSUME NEW p \in Pids, ChildStep(p) PROVE EveryChildHasHandle'
  <2>1. ASSUME NEW what \in {"booked", "failed"}, ChildCalls(p, what) PROVE EveryChildHasHandle'
    BY <2>1 DEF ChildCalls
  <2>2. CASE ChildAnswered(p)
    BY <2>2 DEF ChildAnswered
  <2>3. CASE PaymentWatchEnds(p)
    BY <2>3 DEF PaymentWatchEnds
  <2>4. CASE ChildCrashes(p)
    BY <2>4 DEF ChildCrashes
  <2> QED
    BY <1>9, <2>1, <2>2, <2>3, <2>4 DEF ChildStep
<1>10. CASE UNCHANGED vars
  BY <1>10 DEF vars
<1> HIDE DEF EveryChildHasHandle
<1> QED
  BY <1>1, <1>2, <1>3, <1>4, <1>5, <1>6, <1>7, <1>8, <1>9, <1>10 DEF Next, UserStep


\* The two reports of a death come from GoneSteps, and so do the two of a cancellation.
LEMMA ToldNext ==
  /\ TypeInv /\ NamesInv /\ LocalsInv /\ RecordOnceInv /\ ToldInv /\ [Next]_vars
  => ToldInv'
<1> SUFFICES ASSUME TypeInv, NamesInv, LocalsInv, RecordOnceInv, ToldInv, [Next]_vars
             PROVE ToldInv'
  OBVIOUS
<1> USE LifecycleAssumption
<1> USE DEF TypeInv, TypeOK, OutcomeInv, Threads, Goto, ProcState, Exits, store, system,
            service, locals,
            NamesInv, LocalsInv, RecordOnceInv, FreshInv, CancelInv, ToldInv,
            CancelledStaysGone, NoLiveSearchReportedDead, NoRecords, OwnSteps, GoneSteps,
            Exited, OwnsProcess, Alive, Searching, Reports
<1>1. ASSUME NEW t \in Users, StartStep(t) PROVE ToldInv'
  <2>1. CASE BookStart(t)
    BY <2>1 DEF BookStart, Spawn, LoginKept, Unreaped
  <2>2. CASE BookRefused(t)
    BY <2>2 DEF BookRefused, Unreaped
  <2>3. CASE Confirm(t)
    BY <2>3 DEF Confirm
  <2>4. CASE StartFailed(t)
    BY <2>4 DEF StartFailed
  <2>5. CASE Settle(t)
    <3>1. CASE mode[t] = "booking"
      BY <2>5, <3>1 DEF Settle
    <3>2. CASE mode[t] # "booking"
      <4>1. /\ Return(t, "settle")
            /\ dead' = [dead EXCEPT ![chat[t]] = "none"]
            /\ UNCHANGED <<running, creds, session, system, service, chat, seen, told>>
        BY <2>5, <3>2 DEF Settle
      <4> QED
        BY <4>1 DEF Return
    <3> QED
      BY <3>1, <3>2
  <2>6. CASE Stamp(t)
    BY <2>6 DEF Stamp, Return
  <2>7. CASE Unbook(t)
    BY <2>7 DEF Unbook, Return
  <2>8. CASE BurySave(t)
    BY <2>8 DEF BurySave
  <2>9. CASE BuryFailedStart(t)
    <3> USE <2>9 DEF Bury, Told
    <3>1. CASE mode[t] = "booking"
      <4>1. Goto(t, "bury_delete", "unbook") /\ Bury(t, "start_failed") /\ UNCHANGED <<mode,
            pid>>
        BY <3>1 DEF BuryFailedStart
      <4> QED
        BY <4>1
    <3>2. CASE mode[t] # "booking"
      <4>1. Return(t, "bury_delete") /\ Bury(t, "start_failed")
        BY <3>2 DEF BuryFailedStart
      <4> QED
        BY <4>1 DEF Return
    <3> QED
      BY <3>1, <3>2
  <2> QED
    BY <1>1, <2>1, <2>2, <2>3, <2>4, <2>5, <2>6, <2>7, <2>8, <2>9 DEF StartStep
<1>2. ASSUME NEW t \in Users, CancelStep(t) PROVE ToldInv'
  <2>1. CASE CancelDelete(t)
    BY <2>1 DEF CancelDelete
  <2>2. CASE CancelKill(t)
    BY <2>2 DEF CancelKill, Terminated
  <2>3. CASE CancelClean(t)
    BY <2>3 DEF CancelClean, Return, Told
  <2> QED
    BY <1>2, <2>1, <2>2, <2>3 DEF CancelStep
<1>3. ASSUME NEW t \in Users, SweepStep(t) PROVE ToldInv'
  <2>1. CASE SweepDelete(t)
    BY <2>1 DEF SweepDelete, Told
  <2>2. CASE SweepEnd(t)
    BY <2>2 DEF SweepEnd, Return
  <2>3. ASSUME NEW c \in Chats, SweepKill(t, c) PROVE ToldInv'
    BY <2>3 DEF SweepKill, Terminated
  <2> QED
    BY <1>3, <2>1, <2>2, <2>3 DEF SweepStep
<1>4. ASSUME NEW t \in Users, Request(t) PROVE ToldInv'
  <2>1. ASSUME NEW c \in Chats, BookBegin(t, c) PROVE ToldInv'
    BY <2>1 DEF BookBegin
  <2>2. ASSUME NEW c \in Chats, CancelBegin(t, c) PROVE ToldInv'
    BY <2>2 DEF CancelBegin
  <2> QED
    BY <1>4, <2>1, <2>2 DEF Request
<1>5. CASE ChatRequest
  <2>1. CASE SweepBegin(Poller)
    BY <2>1 DEF SweepBegin
  <2>2. ASSUME NEW c \in Chats, Resume(Poller, c) PROVE ToldInv'
    BY <2>2 DEF Resume, Spawn, LoginKept, Unreaped
  <2>3. ASSUME NEW c \in Chats, ResumeWithoutLogin(Poller, c) PROVE ToldInv'
    BY <2>3 DEF ResumeWithoutLogin
  <2>4. ASSUME NEW c \in Chats, Discard(Poller, c) PROVE ToldInv'
    BY <2>4 DEF Discard
  <2>5. ASSUME NEW c \in Chats, CancelNothing(Poller, c) PROVE ToldInv'
    BY <2>5 DEF CancelNothing
  <2> QED
    BY <1>5, <2>1, <2>2, <2>3, <2>4, <2>5 DEF ChatRequest
<1>6. ASSUME NEW c \in Chats, SessionExpires(c) PROVE ToldInv'
  BY <1>6 DEF SessionExpires
<1>7. CASE WatchdogStep
  <2>1. CASE PassBegin
    BY <2>1 DEF PassBegin, Unreaped
  <2>2. CASE PassEnd
    BY <2>2 DEF PassEnd, Return
  <2>3. CASE BurySave(Watchdog)
    BY <2>3 DEF BurySave
  <2>4. CASE BuryCrashed
    BY <2>4 DEF BuryCrashed, Bury, Told
  <2>5. ASSUME NEW c \in Chats, PassSkip(c) PROVE ToldInv'
    BY <2>5 DEF PassSkip
  <2>6. ASSUME NEW c \in Chats, PassFound(c) PROVE ToldInv'
    BY <2>6 DEF PassFound
  <2> QED
    BY <1>7, <2>1, <2>2, <2>3, <2>4, <2>5, <2>6 DEF WatchdogStep
<1>8. ASSUME NEW p \in Pids, CallbackServe(p) PROVE ToldInv'
  <2>1. CASE CallbackTell(p)
    BY <2>1 DEF CallbackTell, CallbackGoto, Told
  <2>2. CASE CallbackDrop(p)
    BY <2>2 DEF CallbackDrop, CallbackGoto, SessionResetIf
  <2>3. CASE CallbackForget(p)
    BY <2>3 DEF CallbackForget, CallbackGoto, SessionResetIf
  <2> QED
    BY <1>8, <2>1, <2>2, <2>3 DEF CallbackServe
<1>9. ASSUME NEW p \in Pids, ChildStep(p) PROVE ToldInv'
  <2>1. ASSUME NEW what \in {"booked", "failed"}, ChildCalls(p, what) PROVE ToldInv'
    BY <2>1 DEF ChildCalls
  <2>2. CASE ChildAnswered(p)
    BY <2>2 DEF ChildAnswered
  <2>3. CASE PaymentWatchEnds(p)
    BY <2>3 DEF PaymentWatchEnds
  <2>4. CASE ChildCrashes(p)
    BY <2>4 DEF ChildCrashes
  <2> QED
    BY <1>9, <2>1, <2>2, <2>3, <2>4 DEF ChildStep
<1>10. CASE UNCHANGED vars
  BY <1>10 DEF vars
<1> HIDE DEF ToldInv
<1> QED
  BY <1>1, <1>2, <1>3, <1>4, <1>5, <1>6, <1>7, <1>8, <1>9, <1>10 DEF Next, UserStep


-----------------------------------------------------------------------------
(* What holds however the threads interleave *)

LEMMA CoreInit == Init => CoreInv
<1> SUFFICES ASSUME Init PROVE CoreInv
  OBVIOUS
<1> USE LifecycleAssumption
<1>1. /\ running = NoRecords /\ proc = [p \in Pids |-> "unborn"] /\ told = [p \in Pids |-> {}]
      /\ pc = [t \in Threads |-> "idle"] /\ pid = [t \in Threads |-> NoPid]
      /\ seen = [t \in Threads |-> NoRecords]
  BY DEF Init
<1>2. NamesInv
  BY <1>1 DEF NamesInv, NoRecords
<1>3. LocalsInv
  BY <1>1 DEF LocalsInv, OwnSteps, GoneSteps, Threads
<1>4. RecordOnceInv
  BY <1>1 DEF RecordOnceInv, FreshInv, CancelInv
<1>5. EveryChildHasHandle
  BY <1>1 DEF EveryChildHasHandle, Alive
<1>6. ToldInv
  BY <1>1 DEF ToldInv, CancelledStaysGone, NoLiveSearchReportedDead
<1> QED
  BY <1>2, <1>3, <1>4, <1>5, <1>6 DEF CoreInv

LEMMA CoreNext == TypeInv /\ CoreInv /\ [Next]_vars => CoreInv'
  BY NamesNext, LocalsNext, RecordOnceNext, HandleNext, ToldNext DEF CoreInv

\* The inductive invariant.
THEOREM CoreCorrect == Spec => [](TypeInv /\ CoreInv)
  BY TypeInit, TypeNext, CoreInit, CoreNext, PTL DEF Spec

\* However the threads interleave, shutdown finds every search of this run by its handle.
THEOREM HandleKept == Spec => []EveryChildHasHandle
<1>1. CoreInv => EveryChildHasHandle
  BY DEF CoreInv, ToldInv
<1> QED
  BY CoreCorrect, <1>1, PTL

\* A cancelled search is gone and its record does not come back.
THEOREM CancelledIsGone == Spec => []CancelledStaysGone
<1>1. CoreInv => CancelledStaysGone
  BY DEF CoreInv, ToldInv
<1> QED
  BY CoreCorrect, <1>1, PTL

\* Nobody is told that a search died while it lives.
THEOREM ReportedDeadIsDead == Spec => []NoLiveSearchReportedDead
<1>1. CoreInv => NoLiveSearchReportedDead
  BY DEF CoreInv, ToldInv
<1> QED
  BY CoreCorrect, <1>1, PTL

=============================================================================
