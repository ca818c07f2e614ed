--------------------------- MODULE PaymentProofs ---------------------------
(***************************************************************************)
(* Proofs about PaymentWatch for any number of bookings and stops, and for *)
(* every schedule its Scenarios name: that a booking's end is announced at *)
(* most once, by either of the two watchers, whatever is killed, lost or   *)
(* cancelled meanwhile; that nobody who paid is told the seat expired      *)
(* unpaid, where the railway answers in time; that nobody is told a seat   *)
(* still awaiting payment is paid for; and that where the threads are      *)
(* punctual a booking is on record while it is watched, and is announced   *)
(* as paid only if it was, as long as no watched seat can leave the        *)
(* railway's list unpaid.                                                  *)
(***************************************************************************)
EXTENDS PaymentProperties, TLAPS

\* What the watchdog and the chat's thread hold on to names a booking.
LocalsInv ==
  /\ app \in {"ask", "heed", "tell"} => copy.kept /\ copy.rsv \in Bookings
  /\ user \in {"release", "note"} => picked \in Bookings

TypeInv == TypeOK /\ LocalsInv

\* Only a record that exists can say that reminders run.
RemindersInv == ReminderBacked /\ (record.active => record.kept)

-----------------------------------------------------------------------------
(* Type correctness *)

LEMMA TypeInit == Init => TypeInv
  BY WatchAssumption
  DEF Init, TypeInv, TypeOK, LocalsInv, Watchers, Seat, Answer, Verdicts, Callback, ChildState,
      AppState, UserState, NoRecord, Record

LEMMA NoRecordType == NoRecord \in Record
  BY DEF NoRecord, Record

\* What the operations make of a record is one.
LEMMA RecordTypes ==
  ASSUME NEW r \in Record
  PROVE  /\ Closed(r) \in Record /\ Deactivated(r) \in Record
         /\ r.kept \in BOOLEAN /\ r.rsv \in Bookings \union {NoBooking}
         /\ \A b \in Bookings \union {NoBooking} : [r EXCEPT !.kept = TRUE, !.rsv = b] \in Record
         /\ [r EXCEPT !.active = FALSE] \in Record
         /\ [r EXCEPT !.active = TRUE] \in Record
         /\ [r EXCEPT !.kept = TRUE, !.active = TRUE] \in Record
         /\ [r EXCEPT !.cancelled = TRUE, !.completed = TRUE, !.active = FALSE] \in Record
  BY DEF Record, Closed, Deactivated

LEMMA KilledType ==
  ASSUME child \in [Bookings -> ChildState], NEW bs PROVE Killed(bs) \in [Bookings -> ChildState]
  BY DEF Killed, ChildState

LEMMA StopType == ASSUME TypeInv, NEW killed, StopKilling(killed) PROVE TypeInv'
<1> USE DEF TypeInv, TypeOK, LocalsInv, StopKilling, railway, history
<1>1. child' \in [Bookings -> ChildState]
  BY KilledType
<1>2. callback' \in [Bookings -> Callback]
  BY DEF Callback
<1>3. reminder' \in [Bookings -> BOOLEAN]
  OBVIOUS
<1>4. answer' \in [Watchers -> Answer]
  BY DEF Answer
<1>5. record' \in Record /\ copy' \in Record
  BY NoRecordType
<1>6. /\ lease' \in Watchers \union {Nobody}
      /\ ours' \in SUBSET Bookings
      /\ stops' \in 0..MaxStops
  BY WatchAssumption
<1> QED
  BY <1>1, <1>2, <1>3, <1>4, <1>5, <1>6 DEF AppState, UserState

LEMMA TypeNext == TypeInv /\ [Next]_vars => TypeInv'
<1> SUFFICES ASSUME TypeInv, [Next]_vars PROVE TypeInv'
  OBVIOUS
<1> USE WatchAssumption
<1> USE DEF TypeInv, TypeOK, LocalsInv, Watchers, Seat, Answer, Verdicts, Callback, ChildState,
            AppState, UserState, railway, redis, process, flask, watchdog, request, life,
            history
<1>1. ASSUME NEW b \in Bookings,
             \/ Pay(b) \/ Deadline(b) \/ Drop(b) \/ CancelElsewhere(b)
             \/ Book(b) \/ ChildStep(b) \/ CallbackStep(b) \/ ReminderEnds(b)
      PROVE  TypeInv'
  <2>1. CASE Pay(b)
    BY <2>1 DEF Pay
  <2>2. CASE Deadline(b)
    BY <2>2 DEF Deadline
  <2>3. CASE Drop(b) \/ CancelElsewhere(b)
    BY <2>3 DEF Drop, CancelElsewhere
  <2>4. CASE Book(b)
    BY <2>4 DEF Book, ChildGoto
  <2>5. CASE ReminderEnds(b)
    BY <2>5, RecordTypes DEF ReminderEnds
  <2>6. CASE ChildStep(b)
    <3>1. CASE ChildAnswered(b)
      BY <3>1 DEF ChildAnswered, ChildGoto
    <3>2. CASE ChildClaim(b)
      BY <3>2 DEF ChildClaim, ChildGoto, Claim
    <3>3. CASE ChildRecord(b)
      BY <3>3, RecordTypes DEF ChildRecord, ChildGoto, Pending
    <3>4. CASE ChildWake(b)
      BY <3>4 DEF ChildWake, ChildGoto, Claim
    <3>5. CASE ChildAsk(b)
      BY <3>5 DEF ChildAsk, ChildGoto, Answers
    <3>6. CASE ChildHeed(b)
      BY <3>6 DEF ChildHeed, ChildGoto, Forget
    <3>7. CASE ChildSettle(b)
      BY <3>7, RecordTypes DEF ChildSettle, ChildGoto
    <3>8. CASE ChildTell(b)
      BY <3>8 DEF ChildTell, ChildGoto, Tell, Forget
    <3> QED
      BY <2>6, <3>1, <3>2, <3>3, <3>4, <3>5, <3>6, <3>7, <3>8 DEF ChildStep
  <2>7. CASE CallbackStep(b)
    <3>1. CASE CallbackTell(b)
      BY <3>1 DEF CallbackTell, CallbackGoto
    <3>2. CASE CallbackRemind(b)
      <4>1. UNCHANGED <<railway, lease, process, watchdog, request, life, history>>
        BY <3>2 DEF CallbackRemind, CallbackGoto
      <4>2. callback' \in [Bookings -> Callback]
        BY <3>2 DEF CallbackRemind, CallbackGoto
      <4>3. reminder' \in [Bookings -> BOOLEAN]
        BY <3>2 DEF CallbackRemind
      <4>4. record' \in Record
        <5>1. [NoRecord EXCEPT !.kept = TRUE, !.active = TRUE] \in Record
          BY RecordTypes, NoRecordType
        <5> QED
          BY <3>2, <5>1 DEF CallbackRemind
      <4> QED
        BY <4>1, <4>2, <4>3, <4>4
    <3>3. CASE CallbackDrop(b)
      BY <3>3 DEF CallbackDrop, CallbackGoto
    <3> QED
      BY <2>7, <3>1, <3>2, <3>3 DEF CallbackStep
  <2> QED
    BY <1>1, <2>1, <2>2, <2>3, <2>4, <2>5, <2>6, <2>7
<1>2. CASE LeaseLapses
  BY <1>2 DEF LeaseLapses
<1>3. CASE AppStep
  <2>1. CASE AppClaim
    BY <2>1 DEF AppClaim, AppGoto, ClaimedBy
  <2>2. CASE AppRead
    BY <2>2, RecordTypes DEF AppRead, AppGoto, Unsettled
  <2>3. CASE AppAsk
    BY <2>3 DEF AppAsk, AppGoto, Answers
  <2>4. CASE AppHeed
    BY <2>4, RecordTypes DEF AppHeed, AppGoto
  <2>5. CASE AppTell
    BY <2>5 DEF AppTell, AppGoto, Tell
  <2>6. CASE AppLeave
    BY <2>6, NoRecordType DEF AppLeave, AppGoto, Forget
  <2> QED
    BY <1>3, <2>1, <2>2, <2>3, <2>4, <2>5, <2>6 DEF AppStep
<1>4. CASE AppNoClient
  BY <1>4 DEF AppNoClient, AppGoto
<1>5. CASE Request
  <2>1. CASE Silence
    BY <2>1, RecordTypes DEF Silence, UserGoto
  <2>2. CASE CancelBegin
    BY <2>2, KilledType DEF CancelBegin, UserGoto
  <2>3. CASE GiveBackBegin
    BY <2>3, RecordTypes DEF GiveBackBegin, UserGoto, Unsettled
  <2> QED
    BY <1>5, <2>1, <2>2, <2>3 DEF Request
<1>6. CASE UserStep
  <2>1. CASE CancelClose
    BY <2>1, RecordTypes DEF CancelClose, UserGoto
  <2>2. CASE GiveBackReleased
    BY <2>2 DEF GiveBackReleased
  <2>3. CASE GiveBackRefused
    BY <2>3 DEF GiveBackRefused, UserGoto
  <2>4. CASE GiveBackNote
    BY <2>4, RecordTypes DEF GiveBackNote, UserGoto
  <2> QED
    BY <1>6, <2>1, <2>2, <2>3, <2>4 DEF UserStep
<1>7. CASE Stop
  BY <1>7, StopType DEF Stop
<1>8. CASE Crash
  BY <1>8, StopType DEF Crash
<1>9. CASE Start
  BY <1>9, KilledType DEF Start
<1>10. CASE UNCHANGED vars
  BY <1>10 DEF vars, history
<1> QED
  BY <1>1, <1>2, <1>3, <1>4, <1>5, <1>6, <1>7, <1>8, <1>9, <1>10 DEF Next

\* PaymentStatus, the lease and the states of every thread and process are what the code
\* declares, for any number of bookings.
THEOREM TypeCorrect == Spec => []TypeOK
<1>1. TypeInv => TypeOK
  BY DEF TypeInv
<1> QED
  BY TypeInit, TypeNext, <1>1, PTL DEF Spec

-----------------------------------------------------------------------------
(* Reminders *)

LEMMA RemindersNext == TypeInv /\ RemindersInv /\ [Next]_vars => RemindersInv'
<1> SUFFICES ASSUME TypeInv, RemindersInv, [Next]_vars PROVE RemindersInv'
  OBVIOUS
<1> USE WatchAssumption
<1> USE DEF TypeInv, TypeOK, LocalsInv, RemindersInv, ReminderBacked, Record, railway, redis,
            process, flask, watchdog, request, life, history
<1>1. ASSUME NEW b \in Bookings,
             \/ Pay(b) \/ Deadline(b) \/ Drop(b) \/ CancelElsewhere(b)
             \/ Book(b) \/ ChildStep(b) \/ CallbackStep(b) \/ ReminderEnds(b)
      PROVE  RemindersInv'
  <2>1. CASE Pay(b)
    BY <2>1 DEF Pay
  <2>2. CASE Deadline(b)
    BY <2>2 DEF Deadline
  <2>3. CASE Drop(b) \/ CancelElsewhere(b)
    BY <2>3 DEF Drop, CancelElsewhere
  <2>4. CASE Book(b)
    BY <2>4 DEF Book, ChildGoto
  <2>5. CASE ReminderEnds(b)
    BY <2>5 DEF ReminderEnds, Deactivated
  <2>6. CASE ChildStep(b)
    <3>1. CASE ChildAnswered(b)
      BY <3>1 DEF ChildAnswered, ChildGoto
    <3>2. CASE ChildClaim(b)
      BY <3>2 DEF ChildClaim, ChildGoto, Claim
    <3>3. CASE ChildRecord(b)
      BY <3>3 DEF ChildRecord, ChildGoto, Pending
    <3>4. CASE ChildWake(b)
      BY <3>4 DEF ChildWake, ChildGoto, Claim
    <3>5. CASE ChildAsk(b)
      BY <3>5 DEF ChildAsk, ChildGoto, Answers
    <3>6. CASE ChildHeed(b)
      BY <3>6 DEF ChildHeed, ChildGoto, Forget
    <3>7. CASE ChildSettle(b)
      BY <3>7 DEF ChildSettle, ChildGoto, Closed
    <3>8. CASE ChildTell(b)
      BY <3>8 DEF ChildTell, ChildGoto, Tell, Forget
    <3> QED
      BY <2>6, <3>1, <3>2, <3>3, <3>4, <3>5, <3>6, <3>7, <3>8 DEF ChildStep
  <2>7. CASE CallbackStep(b)
    <3>1. CASE CallbackTell(b)
      BY <3>1 DEF CallbackTell, CallbackGoto
    <3>2. CASE CallbackRemind(b)
      BY <3>2 DEF CallbackRemind, CallbackGoto, NoRecord
    <3>3. CASE CallbackDrop(b)
      BY <3>3 DEF CallbackDrop, CallbackGoto
    <3> QED
      BY <2>7, <3>1, <3>2, <3>3 DEF CallbackStep
  <2> QED
    BY <1>1, <2>1, <2>2, <2>3, <2>4, <2>5, <2>6, <2>7
<1>2. CASE LeaseLapses
  BY <1>2 DEF LeaseLapses
<1>3. CASE AppStep
  <2>1. CASE AppClaim
    BY <2>1 DEF AppClaim, AppGoto, ClaimedBy
  <2>2. CASE AppRead
    BY <2>2 DEF AppRead, AppGoto, Unsettled
  <2>3. CASE AppAsk
    BY <2>3 DEF AppAsk, AppGoto, Answers
  <2>4. CASE AppHeed
    BY <2>4 DEF AppHeed, AppGoto, Closed
  <2>5. CASE AppTell
    BY <2>5 DEF AppTell, AppGoto, Tell
  <2>6. CASE AppLeave
    BY <2>6 DEF AppLeave, AppGoto, NoRecord, Forget
  <2> QED
    BY <1>3, <2>1, <2>2, <2>3, <2>4, <2>5, <2>6 DEF AppStep
<1>4. CASE AppNoClient
  BY <1>4 DEF AppNoClient, AppGoto
<1>5. CASE Request
  <2>1. CASE Silence
    BY <2>1 DEF Silence, UserGoto
  <2>2. CASE CancelBegin
    BY <2>2 DEF CancelBegin, UserGoto, Killed
  <2>3. CASE GiveBackBegin
    BY <2>3 DEF GiveBackBegin, UserGoto, Unsettled
  <2> QED
    BY <1>5, <2>1, <2>2, <2>3 DEF Request
<1>6. CASE UserStep
  <2>1. CASE CancelClose
    BY <2>1 DEF CancelClose, UserGoto, Closed
  <2>2. CASE GiveBackReleased
    BY <2>2 DEF GiveBackReleased
  <2>3. CASE GiveBackRefused
    BY <2>3 DEF GiveBackRefused, UserGoto
  <2>4. CASE GiveBackNote
    BY <2>4 DEF GiveBackNote, UserGoto
  <2> QED
    BY <1>6, <2>1, <2>2, <2>3, <2>4 DEF UserStep
<1>7. CASE Stop
  BY <1>7 DEF Stop, StopKilling, Killed, NoRecord
<1>8. CASE Crash
  BY <1>8 DEF Crash, StopKilling, Killed, NoRecord
<1>9. CASE Start
  BY <1>9 DEF Start, Killed
<1>10. CASE UNCHANGED vars
  BY <1>10 DEF vars, history
<1> QED
  BY <1>1, <1>2, <1>3, <1>4, <1>5, <1>6, <1>7, <1>8, <1>9, <1>10 DEF Next

\* A record that says reminders run has a reminder loop behind it, until the application
\* first stops: start_reminders, which trusts the record, skips no booking before that.
THEOREM RemindersBacked == Spec => []ReminderBacked
<1>1. Init => RemindersInv
  BY DEF Init, RemindersInv, ReminderBacked, NoRecord
<1>2. RemindersInv => ReminderBacked
  BY DEF RemindersInv
<1> QED
  BY TypeInit, TypeNext, RemindersNext, <1>1, <1>2, PTL DEF Spec

-----------------------------------------------------------------------------
(* Expired is unpaid *)

\* The railway answers at the deadline, and before the seat changes hands.  Second bookings,
\* slow callbacks, early drops, cancellations elsewhere and slow give-backs are admitted.
RailwayAnswers == Scenarios \intersect {"slow_railway", "railway_silent"} = {}

\* Nobody can pay for it any more.
Unpaid(b) == due[b] /\ seat[b] # "paid"

\* A booking is young until its watch begins: its deadline lies ahead.
YoungInv ==
  \A b \in Bookings :
    /\ child[b] = "none" => seat[b] = "none"
    /\ seat[b] = "none" => ~due[b]
    /\ child[b] \in {"calling", "claim", "record"} => ~due[b]

\* What a watcher has been answered is still so when it acts on it, and a verdict other
\* than paid is one that nothing can change.
AnswerInv ==
  /\ \A b \in Bookings :
       /\ child[b] = "heed" /\ answer[b] = "listed" => seat[b] # "paid"
       /\ child[b] = "heed" /\ answer[b] \notin {"listed", "gone"} => ~due[b]
       /\ child[b] \in {"settle", "tell"} /\ answer[b] # "gone" => Unpaid(b)
  /\ app = "heed" /\ answer[App] = "listed" => seat[copy.rsv] # "paid"
  /\ app = "tell" /\ answer[App] # "gone" => Unpaid(copy.rsv)

ExpiryInv == YoungInv /\ AnswerInv /\ ExpiredIsUnpaid

LEMMA ExpiryInit == Init => ExpiryInv
  BY DEF Init, ExpiryInv, YoungInv, AnswerInv, ExpiredIsUnpaid, Verdicts

\* Processes may be stopped anywhere.
LEMMA KillKeeps ==
  ASSUME TypeInv, ExpiryInv, NEW bs, child' = Killed(bs), UNCHANGED <<seat, due, told>>,
         \/ UNCHANGED <<answer, app, copy>>
         \/ /\ app' = "idle"
            /\ answer' = [w \in Watchers |-> IF w = App \/ w \in bs THEN "none" ELSE answer[w]]
  PROVE  ExpiryInv'
<1>1. \A b \in Bookings : \/ child'[b] = child[b] /\ b \notin bs
                          \/ child'[b] = child[b] /\ ~ChildAlive(b)
                          \/ child'[b] = "gone" /\ child[b] # "none"
  BY DEF Killed, TypeInv, TypeOK, ChildAlive
<1>2. YoungInv' /\ ExpiredIsUnpaid'
  BY <1>1 DEF ExpiryInv, YoungInv, ExpiredIsUnpaid, TypeInv, TypeOK
<1>3. CASE UNCHANGED <<answer, app, copy>>
  BY <1>1, <1>2, <1>3 DEF ExpiryInv, AnswerInv, Unpaid, ChildAlive
<1>4. CASE /\ app' = "idle"
           /\ answer' = [w \in Watchers |-> IF w = App \/ w \in bs THEN "none" ELSE answer[w]]
  <2>1. \A b \in Bookings \ bs : answer'[b] = answer[b]
    BY <1>4, WatchAssumption DEF Watchers
  <2> QED
    BY <1>1, <1>2, <1>4, <2>1 DEF ExpiryInv, AnswerInv, Unpaid, ChildAlive
<1> QED
  BY <1>2, <1>3, <1>4

LEMMA ExpiryNext ==
  ASSUME RailwayAnswers PROVE TypeInv /\ ExpiryInv /\ [Next]_vars => ExpiryInv'
<1> SUFFICES ASSUME TypeInv, ExpiryInv, [Next]_vars PROVE ExpiryInv'
  OBVIOUS
<1> USE WatchAssumption, RailwayAnswers
<1> USE DEF TypeInv, TypeOK, LocalsInv, ExpiryInv, YoungInv, AnswerInv, ExpiredIsUnpaid, Unpaid,
            RailwayAnswers, Watchers, Verdicts, ChildState, AppState, railway, redis, process,
            flask, watchdog, request, life, history, Admits
<1>0. UNCHANGED <<seat, due, child, answer, app, copy, told>> => ExpiryInv'
  OBVIOUS
<1>1. ASSUME NEW b \in Bookings,
             \/ Pay(b) \/ Deadline(b) \/ Drop(b) \/ CancelElsewhere(b)
             \/ Book(b) \/ CallbackStep(b) \/ ReminderEnds(b)
      PROVE  ExpiryInv'
  <2>1. CASE Pay(b)
    BY <2>1 DEF Pay, Heeded
  <2>2. CASE Deadline(b)
    BY <2>2 DEF Deadline, Heeded
  <2>3. CASE Drop(b) \/ CancelElsewhere(b)
    BY <2>3 DEF Drop, CancelElsewhere
  <2>4. CASE Book(b)
    BY <2>4 DEF Book, ChildGoto
  <2>5. CASE CallbackStep(b) \/ ReminderEnds(b)
    BY <1>0, <2>5 DEF CallbackStep, CallbackTell, CallbackRemind, CallbackDrop, CallbackGoto,
                      ReminderEnds
  <2> QED
    BY <1>1, <2>1, <2>2, <2>3, <2>4, <2>5
<1>2. ASSUME NEW b \in Bookings, ChildStep(b)
      PROVE  ExpiryInv'
  <2>1. CASE ChildAnswered(b) \/ ChildClaim(b) \/ ChildWake(b)
    BY <2>1 DEF ChildAnswered, ChildClaim, ChildWake, ChildGoto
  <2>2. CASE ChildRecord(b)
    BY <2>2 DEF ChildRecord, ChildGoto
  <2>3. CASE ChildAsk(b)
    BY <2>3 DEF ChildAsk, ChildGoto, Answers
  <2>4. CASE ChildHeed(b)
    BY <2>4 DEF ChildHeed, ChildGoto, Over, Forget
  <2>5. CASE ChildSettle(b)
    BY <2>5 DEF ChildSettle, ChildGoto
  <2>6. CASE ChildTell(b)
    BY <2>6 DEF ChildTell, ChildGoto, Tell, Forget
  <2> QED
    BY <1>2, <2>1, <2>2, <2>3, <2>4, <2>5, <2>6 DEF ChildStep
<1>3. CASE AppStep \/ AppNoClient
  <2>1. CASE AppClaim \/ AppRead \/ AppNoClient
    BY <2>1 DEF AppClaim, AppRead, AppNoClient, AppGoto
  <2>2. CASE AppAsk
    BY <2>2 DEF AppAsk, AppGoto, Answers
  <2>3. CASE AppHeed
    BY <2>3 DEF AppHeed, AppGoto, AppVerdict
  <2>4. CASE AppTell
    BY <2>4 DEF AppTell, AppGoto, Tell
  <2>5. CASE AppLeave
    BY <2>5 DEF AppLeave, AppGoto, Forget
  <2> QED
    BY <1>3, <2>1, <2>2, <2>3, <2>4, <2>5 DEF AppStep
<1>4. CASE LeaseLapses \/ Silence \/ CancelClose \/ GiveBackBegin \/ GiveBackRefused \/ GiveBackNote
  BY <1>0, <1>4 DEF LeaseLapses, Silence, CancelClose, GiveBackBegin, GiveBackRefused,
                    GiveBackNote, UserGoto
<1>5. CASE GiveBackReleased
  BY <1>5 DEF GiveBackReleased
<1>6. CASE CancelBegin
  BY <1>6, KillKeeps DEF CancelBegin, UserGoto
<1>7. CASE Stop \/ Crash
  BY <1>7, KillKeeps DEF Stop, Crash, StopKilling
<1>8. CASE Start
  BY <1>8, KillKeeps DEF Start
<1>9. CASE UNCHANGED vars
  BY <1>0, <1>9 DEF vars
<1> QED
  BY <1>1, <1>2, <1>3, <1>4, <1>5, <1>6, <1>7, <1>8, <1>9 DEF Next, Request, UserStep

\* _watch_payment, _settle_single: "expired unpaid" is told only of a seat that nobody paid
\* for and nobody can pay for any more, whichever watcher says it and whatever was stopped,
\* booked, cancelled or given back meanwhile.
THEOREM ExpiredWasUnpaid == ASSUME RailwayAnswers PROVE Spec => []ExpiredIsUnpaid
<1>1. ExpiryInv => ExpiredIsUnpaid
  BY DEF ExpiryInv
<1> QED
  BY TypeInit, TypeNext, ExpiryInit, ExpiryNext, <1>1, PTL DEF Spec

-----------------------------------------------------------------------------
(* The verdict *)

\* One booking at a time, and no railway request longer than the lease.  A slow callback, a
\* silent railway, an early drop, a cancellation elsewhere and a slow give-back are admitted.
Unhurried == Scenarios \intersect {"second_booking", "slow_railway"} = {}

\* States of a child that has claimed the watch and not settled the booking yet.
Watching == {"record", "rest", "ask", "heed", "settle"}

Untold(b) == told[b]["paid"] = 0 /\ told[b]["expired"] = 0

\* The record and the watchdog's copy name a booking that was made.
NamesInv ==
  /\ record.rsv \in Bookings => child[record.rsv] # "none"
  /\ app \in {"ask", "heed", "tell"} => child[copy.rsv] # "none"

\* One watcher at a time: while a search process lives there is no other, and no pass.
AloneInv ==
  \A b \in Bookings : ChildAlive(b) =>
    app = "idle" /\ \A o \in Bookings \ {b} : ~ChildAlive(o)

\* ... because the lease is held by whoever watches.
LeaseInv ==
  /\ \A b \in Bookings : child[b] \in Watching => lease = b
  /\ \A b \in Bookings : child[b] \in {"calling", "claim"} => lease = Nobody
  /\ app # "idle" => lease = App

\* There is nothing for the application to claim before a booking is on record, or once a
\* verdict is on its way.
ClosedInv ==
  /\ \A b \in Bookings :
       child[b] \in {"calling", "claim", "record", "tell"} => ~Unsettled(record)
  /\ app = "tell" => ~Unsettled(record)

\* What may still be announced has not been.
UntoldInv ==
  /\ \A b \in Bookings : child[b] # "gone" => Untold(b)
  /\ Unsettled(record) => Untold(record.rsv)
  /\ app \in {"ask", "heed", "tell"} => Untold(copy.rsv)

VerdictInv == NamesInv /\ AloneInv /\ LeaseInv /\ ClosedInv /\ UntoldInv /\ VerdictOnce

\* What the writers of the record do to its number and to whether it is unsettled.
LEMMA RecordFacts ==
  ASSUME NEW r \in Record
  PROVE  /\ ~Unsettled(Closed(r)) /\ Closed(r).rsv = r.rsv
         /\ (Unsettled(Deactivated(r)) <=> Unsettled(r)) /\ Deactivated(r).rsv = r.rsv
         /\ LET s == [r EXCEPT !.active = FALSE]
            IN (Unsettled(s) <=> Unsettled(r)) /\ s.rsv = r.rsv
         /\ LET s == [r EXCEPT !.cancelled = TRUE, !.completed = TRUE, !.active = FALSE]
            IN ~Unsettled(s) /\ s.rsv = r.rsv
         /\ \A b \in Bookings : [r EXCEPT !.kept = TRUE, !.rsv = b].rsv = b
         /\ Unsettled(r) => r.rsv \in Bookings
  BY DEF Record, Closed, Deactivated, Unsettled

\* A kill takes processes away, and creates none.
LEMMA KilledFacts ==
  ASSUME TypeOK, NEW bs, NEW b \in Bookings
  PROVE  /\ Killed(bs)[b] = child[b] \/ (Killed(bs)[b] = "gone" /\ ChildAlive(b))
  BY DEF Killed, TypeOK

LEMMA VerdictInit == Init => VerdictInv
<1> SUFFICES ASSUME Init PROVE VerdictInv
  OBVIOUS
<1>1. record = NoRecord /\ record.rsv = NoBooking /\ ~Unsettled(record)
  BY DEF Init, NoRecord, Unsettled
<1>2. \A b \in Bookings : child[b] = "none" /\ Untold(b)
  BY DEF Init, Untold, Verdicts
<1>3. app = "idle"
  BY DEF Init
<1> QED
  BY <1>1, <1>2, <1>3, WatchAssumption
  DEF VerdictInv, NamesInv, AloneInv, LeaseInv, ClosedInv, UntoldInv, VerdictOnce, Watching,
      Untold, ChildAlive

LEMMA VerdictNext ==
  ASSUME Unhurried PROVE TypeInv /\ VerdictInv /\ [Next]_vars => VerdictInv'
<1> SUFFICES ASSUME TypeInv, VerdictInv, [Next]_vars PROVE VerdictInv'
  OBVIOUS
<1> USE WatchAssumption, Unhurried
<1> USE DEF TypeInv, TypeOK, LocalsInv, VerdictInv, NamesInv, AloneInv, LeaseInv, ClosedInv,
            UntoldInv, VerdictOnce, Watching, Untold, ChildAlive, Unhurried, Watchers,
            Verdicts, ChildState, AppState, railway, redis, process, flask, watchdog, request,
            life, history
<1>0. UNCHANGED <<record, lease, child, app, copy, told>> => VerdictInv'
  BY DEF Unsettled
<1>1. ASSUME NEW b \in Bookings,
             \/ Pay(b) \/ Deadline(b) \/ Drop(b) \/ CancelElsewhere(b)
             \/ Book(b) \/ ChildStep(b) \/ CallbackStep(b) \/ ReminderEnds(b)
      PROVE  VerdictInv'
  <2>1. CASE Pay(b)
    BY <1>0, <2>1 DEF Pay
  <2>2. CASE Deadline(b)
    BY <1>0, <2>2 DEF Deadline
  <2>3. CASE Drop(b) \/ CancelElsewhere(b)
    BY <1>0, <2>3 DEF Drop, CancelElsewhere
  <2>4. CASE Book(b)
    BY <2>4 DEF Book, ChildGoto, Settled, Admits
  <2>5. CASE ReminderEnds(b)
    BY <2>5, RecordFacts DEF ReminderEnds
  <2>6. CASE ChildStep(b)
    <3>1. CASE ChildAnswered(b)
      BY <3>1 DEF ChildAnswered, ChildGoto
    <3>2. CASE ChildClaim(b)
      BY <3>2 DEF ChildClaim, ChildGoto, Claim
    <3>3. CASE ChildRecord(b)
      <4>1. record'.rsv = b
        BY <3>3, RecordFacts DEF ChildRecord, Pending
      <4>2. child' = [child EXCEPT ![b] = child'[b]]
        BY <3>3 DEF ChildRecord, ChildGoto
      <4>3. child'[b] \in {"settle", "rest"} /\ child[b] = "record"
        BY <3>3 DEF ChildRecord, ChildGoto
      <4>4. UNCHANGED <<lease, app, copy, told>>
        BY <3>3 DEF ChildRecord
      <4> QED
        BY <4>1, <4>2, <4>3, <4>4
    <3>4. CASE ChildWake(b)
      BY <3>4 DEF ChildWake, ChildGoto, Claim
    <3>5. CASE ChildAsk(b)
      BY <3>5 DEF ChildAsk, ChildGoto, Answers
    <3>6. CASE ChildHeed(b)
      BY <3>6 DEF ChildHeed, ChildGoto, Forget
    <3>7. CASE ChildSettle(b)
      <4>1. ~Unsettled(record') /\ record'.rsv = record.rsv
        BY <3>7, RecordFacts DEF ChildSettle
      <4>2. child' = [child EXCEPT ![b] = child'[b]]
        BY <3>7 DEF ChildSettle, ChildGoto
      <4>3. child'[b] \in {"tell", "gone"} /\ child[b] = "settle"
        BY <3>7 DEF ChildSettle, ChildGoto
      <4>4. UNCHANGED <<lease, app, copy, told>>
        BY <3>7 DEF ChildSettle
      <4> QED
        BY <4>1, <4>2, <4>3, <4>4
    <3>8. CASE ChildTell(b)
      BY <3>8 DEF ChildTell, ChildGoto, Tell, Forget
    <3> QED
      BY <2>6, <3>1, <3>2, <3>3, <3>4, <3>5, <3>6, <3>7, <3>8 DEF ChildStep
  <2>7. CASE CallbackStep(b)
    <3>1. CASE CallbackTell(b)
      BY <1>0, <3>1 DEF CallbackTell, CallbackGoto
    <3>2. CASE CallbackRemind(b)
      <4>1. UNCHANGED <<lease, child, app, copy, told>>
        BY <3>2 DEF CallbackRemind, CallbackGoto
      <4>2. CASE record.active
        BY <1>0, <3>2, <4>1, <4>2 DEF CallbackRemind
      <4>3. CASE ~record.active
        <5>1. record'.rsv = NoBooking /\ ~Unsettled(record')
          BY <3>2, <4>3 DEF CallbackRemind, NoRecord, Unsettled
        <5> QED
          BY <4>1, <5>1
      <4> QED
        BY <4>2, <4>3
    <3>3. CASE CallbackDrop(b)
      BY <1>0, <3>3 DEF CallbackDrop, CallbackGoto
    <3> QED
      BY <2>7, <3>1, <3>2, <3>3 DEF CallbackStep
  <2> QED
    BY <1>1, <2>1, <2>2, <2>3, <2>4, <2>5, <2>6, <2>7
<1>2. CASE LeaseLapses
  BY <1>2 DEF LeaseLapses, Renews, Admits
<1>3. CASE AppStep
  <2>1. CASE AppClaim
    BY <2>1 DEF AppClaim, AppGoto, ClaimedBy
  <2>2. CASE AppRead
    BY <2>2, RecordFacts DEF AppRead, AppGoto
  <2>3. CASE AppAsk
    BY <2>3 DEF AppAsk, AppGoto, Answers
  <2>4. CASE AppHeed
    BY <2>4, RecordFacts DEF AppHeed, AppGoto
  <2>5. CASE AppTell
    BY <2>5 DEF AppTell, AppGoto, Tell
  <2>6. CASE AppLeave
    BY <2>6 DEF AppLeave, AppGoto, Forget
  <2> QED
    BY <1>3, <2>1, <2>2, <2>3, <2>4, <2>5, <2>6 DEF AppStep
<1>4. CASE AppNoClient
  BY <1>4 DEF AppNoClient, AppGoto, ClaimedBy
<1>5. CASE Request
  <2>1. CASE Silence
    BY <2>1, RecordFacts DEF Silence, UserGoto
  <2>2. CASE CancelBegin
    BY <2>2, KilledFacts DEF CancelBegin, UserGoto
  <2>3. CASE GiveBackBegin
    BY <1>0, <2>3 DEF GiveBackBegin, UserGoto
  <2> QED
    BY <1>5, <2>1, <2>2, <2>3 DEF Request
<1>6. CASE UserStep
  <2>1. CASE CancelClose
    BY <2>1, RecordFacts DEF CancelClose, UserGoto
  <2>2. CASE GiveBackReleased
    BY <1>0, <2>2 DEF GiveBackReleased
  <2>3. CASE GiveBackRefused
    BY <1>0, <2>3 DEF GiveBackRefused, UserGoto
  <2>4. CASE GiveBackNote
    BY <2>4, RecordFacts DEF GiveBackNote, UserGoto
  <2> QED
    BY <1>6, <2>1, <2>2, <2>3, <2>4 DEF UserStep
<1>7. CASE Stop
  BY <1>7, KilledFacts DEF Stop, StopKilling
<1>8. CASE Crash
  BY <1>8, KilledFacts DEF Crash, StopKilling
<1>9. CASE Start
  BY <1>9, KilledFacts DEF Start
<1>10. CASE UNCHANGED vars
  BY <1>0, <1>10 DEF vars
<1> QED
  BY <1>1, <1>2, <1>3, <1>4, <1>5, <1>6, <1>7, <1>8, <1>9, <1>10 DEF Next

\* claim_payment_watch: the end of a booking is announced at most once, although the search
\* process and the application both watch, either can be stopped at any moment, and a slow
\* callback, /cancel and the give-back button write to the same record.
THEOREM OneVerdict == ASSUME Unhurried PROVE Spec => []VerdictOnce
<1>1. VerdictInv => VerdictOnce
  BY DEF VerdictInv
<1>2. TypeInv /\ VerdictInv /\ [Next]_vars => VerdictInv'
  BY VerdictNext
<1> QED
  BY TypeInit, TypeNext, VerdictInit, <1>1, <1>2, PTL DEF Spec

-----------------------------------------------------------------------------
(* Watched is on record, paid is paid, settled is told *)

\* One booking at a time, callbacks within the child's ten seconds, and no railway request
\* longer than the lease.  Whatever may become of the seat is admitted.
Orderly == Scenarios \intersect {"second_booking", "slow_callback", "slow_railway"} = {}

\* A seat somebody still has to report on leaves the railway's list by being paid for only:
\* it is kept on it until its end has been looked at, nobody cancels it on the railway's own
\* site, and nobody asks between the bot's release and the record's.
SeatsStay == Scenarios \intersect {"prompt_drop", "cancelled_elsewhere", "slow_give_back"} = {}

\* States of a child that has written its booking down and is watching it.
Recorded == {"rest", "ask", "heed", "settle"}
Young    == {"none", "calling", "claim", "record"}

Held(b)      == seat[b] \in {"held", "paid"}
Returning(b) == user = "note" /\ picked = b
Confirmed    == record.kept /\ record.completed

\* What names a booking names one that has been written down by its process.
WrittenInv ==
  /\ \A b \in Bookings : child[b] \in Young =>
       /\ record.rsv # b
       /\ user \in {"release", "note"} => picked # b
       /\ app \in {"ask", "heed", "tell"} => copy.rsv # b
  /\ \A b \in Bookings : child[b] = "none" <=> seat[b] = "none"

\* A search process watches once its callback, the last one there is, has been served.
ServedInv ==
  \A b \in Bookings :
    /\ ChildAlive(b) => \A o \in Bookings \ {b} : ~OnRecord(o)
    /\ ChildAlive(b) /\ child[b] # "calling" => ~OnRecord(b)

\* A seat on a watcher's hands is held or paid for, or the record says it is settled.
SeatInv ==
  /\ \A b \in Bookings : child[b] \in Young \ {"none"} => Held(b)
  /\ \A b \in Bookings : child[b] \in {"rest", "ask", "heed"} =>
       Held(b) \/ Confirmed \/ Returning(b)
  /\ \A b \in Bookings : Open(b) => Held(b) \/ Returning(b)
  /\ app = "ask" => Held(copy.rsv)

\* Gone from the list means paid, or settled already.
GoneInv ==
  /\ \A b \in Bookings : child[b] \in Young => answer[b] = "none"
  /\ \A b \in Bookings : child[b] \in {"heed", "settle"} /\ answer[b] = "gone" =>
       seat[b] = "paid" \/ Confirmed
  /\ \A b \in Bookings : child[b] = "tell" /\ answer[b] = "gone" => seat[b] = "paid"
  /\ app \in {"heed", "tell"} /\ answer[App] = "gone" => seat[copy.rsv] = "paid"

ListInv == SeatInv /\ GoneInv /\ PaidIsPaid

RecordInv == WrittenInv /\ ServedInv /\ RecordKept /\ (SeatsStay => ListInv)

WatchInv == TypeInv /\ VerdictInv /\ RecordInv

-----------------------------------------------------------------------------
LEMMA RecordInit == Init => RecordInv
<1> SUFFICES ASSUME Init PROVE RecordInv
  OBVIOUS
<1>1. record.rsv = NoBooking /\ ~record.kept
  BY DEF Init, NoRecord
<1> QED
  BY <1>1, WatchAssumption
  DEF Init, RecordInv, WrittenInv, ServedInv, RecordKept, ListInv, SeatInv, GoneInv, PaidIsPaid,
      Open, OnRecord, ChildAlive, Young, Verdicts, Watchers

\* What the writers of the record do to whether it is confirmed.
LEMMA ConfirmedFacts ==
  ASSUME NEW r \in Record
  PROVE  /\ Closed(r).kept = r.kept /\ (r.kept => Closed(r).completed) /\ Closed(r).rsv = r.rsv
         /\ Deactivated(r).kept = r.kept /\ Deactivated(r).completed = r.completed
         /\ Deactivated(r).rsv = r.rsv /\ Deactivated(r).cancelled = r.cancelled
         /\ LET s == [r EXCEPT !.active = FALSE]
            IN s.kept = r.kept /\ s.completed = r.completed /\ s.rsv = r.rsv /\ s.cancelled = r.cancelled
         /\ LET s == [r EXCEPT !.cancelled = TRUE, !.completed = TRUE, !.active = FALSE]
            IN s.kept = r.kept /\ s.completed /\ s.rsv = r.rsv
         /\ \A b \in Bookings : LET s == [r EXCEPT !.kept = TRUE, !.rsv = b]
                                IN s.kept /\ s.completed = r.completed /\ s.rsv = b
  BY DEF Record, Closed, Deactivated

\* Processes may be stopped anywhere, and the application's threads but for a release.
LEMMA KillKeepsRecord ==
  ASSUME WatchInv, NEW bs, child' = Killed(bs), UNCHANGED <<seat, record, told>>,
         \A b \in Bookings : OnRecord(b)' => OnRecord(b),
         \/ UNCHANGED <<answer, app, copy, user, picked>>
         \/ UNCHANGED <<answer, app, copy, picked>> /\ user = "idle" /\ user' = "close"
         \/ /\ SeatsStay => user # "note"
            /\ user' = "idle" /\ app' = "idle"
            /\ answer' = [w \in Watchers |-> IF w = App \/ w \in bs THEN "none" ELSE answer[w]]
  PROVE  RecordInv'
<1>1. \A b \in Bookings : \/ child'[b] = child[b] /\ b \notin bs
                          \/ child'[b] = child[b] /\ ~ChildAlive(b)
                          \/ child'[b] = "gone" /\ child[b] # "none"
  BY DEF Killed, WatchInv, TypeInv, TypeOK, ChildAlive
<1>2. \A b \in Bookings : answer'[b] = answer[b] \/ (~ChildAlive(b)' /\ answer'[b] = "none")
  BY <1>1, WatchAssumption DEF Watchers, ChildAlive
<1>3. WrittenInv' /\ ServedInv' /\ RecordKept'
  BY <1>1 DEF WatchInv, RecordInv, WrittenInv, ServedInv, RecordKept, ChildAlive, Young
<1>4. ASSUME SeatsStay PROVE ListInv'
  <2>1. ListInv /\ (user # "note" \/ user' = user)
    BY <1>4 DEF WatchInv, RecordInv
  <2>2. SeatInv'
    BY <1>1, <1>4, <2>1 DEF ListInv, SeatInv, Young, Held, Open, Confirmed, Returning
  <2>3. GoneInv'
    BY <1>1, <1>2, <2>1 DEF ListInv, GoneInv, Confirmed, ChildAlive, Young
  <2> QED
    BY <2>1, <2>2, <2>3 DEF ListInv, PaidIsPaid
<1> QED
  BY <1>3, <1>4 DEF RecordInv

LEMMA RecordNext == ASSUME Orderly PROVE WatchInv /\ [Next]_vars => RecordInv'
<1> SUFFICES ASSUME WatchInv, [Next]_vars PROVE RecordInv'
  OBVIOUS
<1> USE WatchAssumption, Orderly
<1> USE DEF TypeInv, TypeOK, LocalsInv, RecordInv, WrittenInv, ServedInv, RecordKept, ListInv,
            SeatInv, GoneInv, PaidIsPaid, Young, Held, Returning, Confirmed, Open, OnRecord,
            ChildAlive, Watchers, Verdicts, ChildState, AppState, railway, redis, process, flask,
            watchdog, request, life, history
<1>c. /\ ~Admits("second_booking") /\ ~Admits("slow_callback")
      /\ SeatsStay => /\ ~Admits("prompt_drop") /\ ~Admits("cancelled_elsewhere")
                      /\ ~Admits("slow_give_back")
  BY DEF Orderly, SeatsStay, Admits
<1>a. TypeInv /\ RecordInv
  BY DEF WatchInv
<1>b. \A b \in Bookings : ChildAlive(b) =>
        app = "idle" /\ \A o \in Bookings \ {b} : ~ChildAlive(o)
  BY DEF WatchInv, VerdictInv, AloneInv
<1> HIDE DEF WatchInv
<1>1. ASSUME NEW b \in Bookings,
             Pay(b) \/ Deadline(b) \/ Drop(b) \/ CancelElsewhere(b) \/ Book(b) \/ ReminderEnds(b)
      PROVE  RecordInv'
  <2>1. CASE Pay(b)
    BY <1>a, <2>1 DEF Pay
  <2>2. CASE Deadline(b)
    BY <1>a, <2>2 DEF Deadline
  <2>3. CASE Drop(b) \/ CancelElsewhere(b)
    BY <1>a, <1>c, <2>3 DEF Drop, CancelElsewhere, Unwatched
  <2>4. CASE Book(b)
    BY <1>a, <1>c, <2>4 DEF Book, ChildGoto, Settled
  <2>5. CASE ReminderEnds(b)
    BY <1>a, <2>5, ConfirmedFacts DEF ReminderEnds
  <2> QED
    BY <1>1, <2>1, <2>2, <2>3, <2>4, <2>5
<1>2. ASSUME NEW b \in Bookings, ChildStep(b)
      PROVE  RecordInv'
  <2>1. CASE ChildAnswered(b)
    BY <1>a, <1>c, <2>1 DEF ChildAnswered, ChildGoto
  <2>2. CASE ChildClaim(b) \/ ChildWake(b)
    BY <1>a, <2>2 DEF ChildClaim, ChildWake, ChildGoto
  <2>3. CASE ChildRecord(b)
    <3>1. /\ child[b] = "record" /\ child'[b] \in {"settle", "rest"}
          /\ child' = [child EXCEPT ![b] = child'[b]]
          /\ record'.kept /\ record'.rsv = b
          /\ UNCHANGED <<seat, callback, answer, app, copy, user, picked, told>>
      BY <1>a, <2>3, ConfirmedFacts DEF ChildRecord, ChildGoto, Pending
    <3>2. \A o \in Bookings : o # b => child'[o] = child[o] /\ ~ChildAlive(o)
      BY <1>a, <1>b, <3>1
    <3>3. WrittenInv' /\ ServedInv' /\ RecordKept'
      BY <1>a, <3>1, <3>2
    <3>4. SeatsStay => SeatInv'
      BY <1>a, <3>1, <3>2
    <3>5. SeatsStay => GoneInv' /\ PaidIsPaid'
      BY <1>a, <3>1, <3>2
    <3> QED
      BY <3>3, <3>4, <3>5 DEF RecordInv, ListInv
  <2>4. CASE ChildAsk(b)
    BY <1>a, <1>c, <2>4 DEF ChildAsk, ChildGoto, Answers, NotGivingBack
  <2>5. CASE ChildHeed(b)
    BY <1>a, <2>5 DEF ChildHeed, ChildGoto, Over, Forget
  <2>6. CASE ChildSettle(b)
    BY <1>a, <1>b, <2>6, ConfirmedFacts DEF ChildSettle, ChildGoto, AlreadyConfirmed
  <2>7. CASE ChildTell(b)
    BY <1>a, <2>7 DEF ChildTell, ChildGoto, Tell, Forget
  <2> QED
    BY <1>2, <2>1, <2>2, <2>3, <2>4, <2>5, <2>6, <2>7 DEF ChildStep
<1>3. ASSUME NEW b \in Bookings, CallbackStep(b)
      PROVE  RecordInv'
  <2>1. CASE CallbackTell(b) \/ CallbackDrop(b)
    BY <1>a, <2>1 DEF CallbackTell, CallbackDrop, CallbackGoto
  <2>2. CASE CallbackRemind(b)
    <3>1. /\ OnRecord(b) /\ callback' = [callback EXCEPT ![b] = "drop"]
          /\ UNCHANGED <<seat, child, answer, app, copy, user, picked, told>>
      BY <2>2 DEF CallbackRemind, CallbackGoto
    <3>2. CASE record.active
      <4>1. UNCHANGED record
        BY <2>2, <3>2 DEF CallbackRemind
      <4> QED
        BY <1>a, <3>1, <4>1
    <3>3. CASE ~record.active
      <4>1. record'.rsv = NoBooking
        BY <2>2, <3>3 DEF CallbackRemind, NoRecord
      <4>2. \A o \in Bookings : child[o] \notin Recorded
        BY <1>a, <3>1 DEF Recorded
      <4> QED
        BY <1>a, <3>1, <4>1, <4>2 DEF Recorded
    <3> QED
      BY <3>2, <3>3
  <2> QED
    BY <1>3, <2>1, <2>2 DEF CallbackStep
<1>4. CASE AppStep \/ AppNoClient
  <2>1. CASE AppClaim \/ AppNoClient
    BY <1>a, <2>1 DEF AppClaim, AppNoClient, AppGoto
  <2>2. CASE AppRead
    <3>1. /\ app' \in {"ask", "leave"} /\ copy' = record
          /\ UNCHANGED <<seat, child, callback, record, answer, user, picked, told>>
      BY <2>2 DEF AppRead, AppGoto
    <3>2. app' = "ask" => record.rsv \in Bookings /\ Open(record.rsv)
                          /\ (SeatsStay => ~Returning(record.rsv))
      BY <1>a, <1>c, <2>2 DEF AppRead, AppGoto, NotGivingBack, Unsettled, Record
    <3> QED
      BY <1>a, <3>1, <3>2
  <2>3. CASE AppAsk
    BY <1>a, <1>c, <2>3 DEF AppAsk, AppGoto, Answers
  <2>4. CASE AppHeed
    BY <1>a, <1>b, <2>4, ConfirmedFacts DEF AppHeed, AppGoto
  <2>5. CASE AppTell
    BY <1>a, <2>5 DEF AppTell, AppGoto, Tell
  <2>6. CASE AppLeave
    BY <1>a, <2>6 DEF AppLeave, AppGoto, Forget
  <2> QED
    BY <1>4, <2>1, <2>2, <2>3, <2>4, <2>5, <2>6 DEF AppStep
<1>5. CASE Request
  <2>1. CASE Silence
    BY <1>a, <2>1, ConfirmedFacts DEF Silence, UserGoto
  <2>2. CASE CancelBegin
    BY <2>2, KillKeepsRecord DEF CancelBegin, UserGoto
  <2>3. CASE GiveBackBegin
    BY <1>a, <2>3 DEF GiveBackBegin, UserGoto, Unsettled
  <2> QED
    BY <1>5, <2>1, <2>2, <2>3 DEF Request
<1>6. CASE UserStep
  <2>1. CASE CancelClose
    BY <1>a, <2>1, ConfirmedFacts DEF CancelClose, UserGoto
  <2>2. CASE GiveBackReleased
    BY <1>a, <1>c, <2>2 DEF GiveBackReleased, Heeded
  <2>3. CASE GiveBackRefused
    BY <1>a, <2>3 DEF GiveBackRefused, UserGoto
  <2>4. CASE GiveBackNote
    BY <1>a, <2>4, ConfirmedFacts DEF GiveBackNote, UserGoto
  <2> QED
    BY <1>6, <2>1, <2>2, <2>3, <2>4 DEF UserStep
<1>7. CASE Stop \/ Crash
  BY <1>7, <1>c, KillKeepsRecord DEF Stop, Crash, StopKilling
<1>8. CASE Start
  BY <1>8, KillKeepsRecord DEF Start
<1>9. CASE LeaseLapses \/ UNCHANGED vars
  BY <1>a, <1>9 DEF LeaseLapses, vars
<1> QED
  BY <1>1, <1>2, <1>3, <1>4, <1>5, <1>6, <1>7, <1>8, <1>9 DEF Next

LEMMA WatchHolds == ASSUME Orderly PROVE Spec => []WatchInv
<1>1. Init => WatchInv
  BY TypeInit, VerdictInit, RecordInit DEF WatchInv
<1>2. Unhurried
  BY DEF Orderly, Unhurried
<1>3. WatchInv /\ [Next]_vars => WatchInv'
  BY <1>2, TypeNext, VerdictNext, RecordNext DEF WatchInv
<1> QED
  BY <1>1, <1>3, PTL DEF Spec

\* _record_pending_payment: while a search process watches its booking, the record /status,
\* the give-back button and the application's watch go by names that booking.
THEOREM WatchedIsRecorded == ASSUME Orderly PROVE Spec => []RecordKept
<1>1. WatchInv => RecordKept
  BY DEF WatchInv, RecordInv
<1> QED
  BY WatchHolds, <1>1, PTL

\* _watch_payment, _settle_single: a payment is announced only for a seat that was paid for,
\* although all a watcher sees is that the reservation is off the railway's list: as long as
\* no seat that is still watched can leave the list unpaid (SeatsStay).
THEOREM PaidWasPaid == ASSUME Orderly, SeatsStay PROVE Spec => []PaidIsPaid
<1>1. WatchInv => PaidIsPaid
  BY DEF WatchInv, RecordInv, ListInv
<1> QED
  BY WatchHolds, <1>1, PTL

-----------------------------------------------------------------------------
(* Paid is gone *)

\* Off the railway's list for good.
Off(b) == seat[b] \in {"paid", "released", "withdrawn"} \/ (seat[b] = "dropped" /\ due[b])

\* What is left of PaidIsPaid under every schedule: "paid" is told of no seat that still awaits
\* payment.  One that was not paid for ran out, or the user gave it up, here or on the
\* railway's own site.
PaidIsGone == \A b \in Bookings : told[b]["paid"] > 0 => Off(b)

\* A watched booking is one that was made.
BookedInv ==
  /\ \A b \in Bookings : child[b] = "none" <=> seat[b] = "none"
  /\ record.rsv \in Bookings => seat[record.rsv] # "none"
  /\ copy.rsv \in Bookings => seat[copy.rsv] # "none"

\* An answer is kept for as long as it is acted on.
OffInv ==
  /\ \A b \in Bookings : seat[b] = "dropped" => due[b]
  /\ \A b \in Bookings : child[b] = "none" => answer[b] = "none"
  /\ \A b \in Bookings : answer[b] = "gone" => Off(b)
  /\ app \in {"heed", "tell"} /\ answer[App] = "gone" => Off(copy.rsv)

PaidGoneInv == BookedInv /\ OffInv /\ PaidIsGone

LEMMA PaidGoneInit == Init => PaidGoneInv
  BY WatchAssumption
  DEF Init, PaidGoneInv, BookedInv, OffInv, PaidIsGone, NoRecord, Watchers, Verdicts

\* Stopping processes and threads takes answers away, and makes none.
LEMMA KillKeepsGone ==
  ASSUME TypeInv, PaidGoneInv, NEW bs, child' = Killed(bs), UNCHANGED <<seat, due, record, told>>,
         \/ UNCHANGED <<answer, app, copy>>
         \/ /\ app' = "idle" /\ copy' = NoRecord
            /\ answer' = [w \in Watchers |-> IF w = App \/ w \in bs THEN "none" ELSE answer[w]]
  PROVE  PaidGoneInv'
<1>1. \A b \in Bookings : child'[b] = "none" <=> child[b] = "none"
  BY DEF Killed, TypeInv, TypeOK, ChildAlive
<1>2. \A b \in Bookings : answer'[b] \in {answer[b], "none"}
  BY WatchAssumption DEF Watchers
<1> QED
  BY <1>1, <1>2, WatchAssumption DEF PaidGoneInv, BookedInv, OffInv, PaidIsGone, Off, NoRecord

LEMMA PaidGoneNext == TypeInv /\ PaidGoneInv /\ [Next]_vars => PaidGoneInv'
<1> SUFFICES ASSUME TypeInv, PaidGoneInv, [Next]_vars PROVE PaidGoneInv'
  OBVIOUS
<1> USE WatchAssumption
<1> USE DEF TypeInv, TypeOK, LocalsInv, PaidGoneInv, BookedInv, OffInv, Off, PaidIsGone, Watchers,
            Verdicts, ChildState, AppState, railway, redis, process, flask, watchdog, request,
            life, history
<1>0. UNCHANGED <<seat, due, child, answer, app, copy, told>> /\ record'.rsv \in {record.rsv, NoBooking}
      => PaidGoneInv'
  OBVIOUS
<1>1. ASSUME NEW b \in Bookings,
             \/ Pay(b) \/ Deadline(b) \/ Drop(b) \/ CancelElsewhere(b)
             \/ Book(b) \/ CallbackStep(b) \/ ReminderEnds(b)
      PROVE  PaidGoneInv'
  <2>1. CASE Pay(b)
    BY <2>1 DEF Pay
  <2>2. CASE Deadline(b)
    BY <2>2 DEF Deadline
  <2>3. CASE Drop(b)
    BY <2>3 DEF Drop
  <2>4. CASE CancelElsewhere(b)
    BY <2>4 DEF CancelElsewhere
  <2>5. CASE Book(b)
    BY <2>5 DEF Book, ChildGoto
  <2>6. CASE CallbackStep(b)
    <3>1. UNCHANGED <<seat, due, child, answer, app, copy, told>>
      BY <2>6 DEF CallbackStep, CallbackTell, CallbackRemind, CallbackDrop, CallbackGoto
    <3>2. record'.rsv \in {record.rsv, NoBooking}
      BY <2>6 DEF CallbackStep, CallbackTell, CallbackRemind, CallbackDrop, CallbackGoto, NoRecord
    <3> QED
      BY <1>0, <3>1, <3>2
  <2>7. CASE ReminderEnds(b)
    BY <1>0, <2>7, ConfirmedFacts DEF ReminderEnds
  <2> QED
    BY <1>1, <2>1, <2>2, <2>3, <2>4, <2>5, <2>6, <2>7
<1>2. ASSUME NEW b \in Bookings, ChildStep(b)
      PROVE  PaidGoneInv'
  <2>1. CASE ChildAnswered(b) \/ ChildClaim(b) \/ ChildWake(b)
    BY <2>1 DEF ChildAnswered, ChildClaim, ChildWake, ChildGoto
  <2>2. CASE ChildRecord(b)
    BY <2>2, ConfirmedFacts DEF ChildRecord, ChildGoto, Pending
  <2>3. CASE ChildAsk(b)
    BY <2>3 DEF ChildAsk, ChildGoto, Answers, Seat
  <2>4. CASE ChildHeed(b)
    BY <2>4 DEF ChildHeed, ChildGoto, Over, Forget
  <2>5. CASE ChildSettle(b)
    BY <2>5, ConfirmedFacts DEF ChildSettle, ChildGoto
  <2>6. CASE ChildTell(b)
    BY <2>6 DEF ChildTell, ChildGoto, Tell, Forget
  <2> QED
    BY <1>2, <2>1, <2>2, <2>3, <2>4, <2>5, <2>6 DEF ChildStep
<1>3. CASE AppStep \/ AppNoClient
  <2>1. CASE AppClaim \/ AppNoClient
    BY <2>1 DEF AppClaim, AppNoClient, AppGoto
  <2>2. CASE AppRead
    BY <2>2 DEF AppRead, AppGoto
  <2>3. CASE AppAsk
    BY <2>3 DEF AppAsk, AppGoto, Answers, Seat
  <2>4. CASE AppHeed
    BY <2>4, ConfirmedFacts DEF AppHeed, AppGoto
  <2>5. CASE AppTell
    BY <2>5 DEF AppTell, AppGoto, Tell
  <2>6. CASE AppLeave
    BY <2>6 DEF AppLeave, AppGoto, Forget, NoRecord
  <2> QED
    BY <1>3, <2>1, <2>2, <2>3, <2>4, <2>5, <2>6 DEF AppStep
<1>4. CASE LeaseLapses \/ GiveBackBegin \/ GiveBackRefused
  BY <1>0, <1>4 DEF LeaseLapses, GiveBackBegin, GiveBackRefused, UserGoto
<1>5. CASE Silence \/ CancelClose \/ GiveBackNote
  <2>1. CASE Silence
    BY <1>0, <2>1, ConfirmedFacts DEF Silence, UserGoto
  <2>2. CASE CancelClose
    BY <1>0, <2>2, ConfirmedFacts DEF CancelClose, UserGoto
  <2>3. CASE GiveBackNote
    BY <1>0, <2>3, ConfirmedFacts DEF GiveBackNote, UserGoto
  <2> QED
    BY <1>5, <2>1, <2>2, <2>3
<1>6. CASE GiveBackReleased
  BY <1>6 DEF GiveBackReleased
<1>7. CASE CancelBegin
  BY <1>7, KillKeepsGone DEF CancelBegin, UserGoto
<1>8. CASE Stop \/ Crash
  BY <1>8, KillKeepsGone DEF Stop, Crash, StopKilling
<1>9. CASE Start
  BY <1>9, KillKeepsGone DEF Start
<1>10. CASE UNCHANGED vars
  BY <1>0, <1>10 DEF vars
<1> QED
  BY <1>1, <1>2, <1>3, <1>4, <1>5, <1>6, <1>7, <1>8, <1>9, <1>10 DEF Next, Request, UserStep

\* _watch_payment, _settle_single: whatever the schedule, no seat still awaiting payment is
\* announced as paid; where the announcement is wrong the deadline was over or the user had
\* given the seat up himself.
THEOREM PaidWasGone == Spec => []PaidIsGone
<1>1. PaidGoneInv => PaidIsGone
  BY DEF PaidGoneInv
<1> QED
  BY TypeInit, TypeNext, PaidGoneInit, PaidGoneNext, <1>1, PTL DEF Spec

-----------------------------------------------------------------------------
(* A settled booking is a told one *)

\* Before a stop loses anything: a callback still to start reminders finds none running, and
\* the record it leaves for its process is a new one, closed by nobody but /cancel.
FreshInv ==
  stops = 0 =>
    /\ \A b \in Bookings : callback[b] # "lost" /\ (child[b] # "none" => callback[b] # "none")
    /\ \A b, o \in Bookings : OnRecord(b) /\ OnRecord(o) => b = o
    /\ \A b \in Bookings : callback[b] \in {"tell", "remind"} => ~record.active
    /\ \A b \in Bookings :
         child[b] \in Young \ {"none"} /\ callback[b] \in {"drop", "done"} =>
           record.rsv = NoBooking /\ (record.completed => b \in dismissed \/ user = "close")

ToldInv == FreshInv /\ SettledIsTold

LEMMA ToldInit == Init => ToldInv
<1> SUFFICES ASSUME Init PROVE ToldInv
  OBVIOUS
<1>1. ~record.completed
  BY DEF Init, NoRecord
<1> QED
  BY <1>1 DEF Init, ToldInv, FreshInv, SettledIsTold, OnRecord, Young

\* What the writers of the record do to whether it says that reminders are running.
LEMMA ActiveFacts ==
  ASSUME NEW r \in Record
  PROVE  /\ r.kept => ~Closed(r).active
         /\ Closed(r).active => r.active
         /\ Deactivated(r).active => r.active
         /\ ~[r EXCEPT !.active = FALSE].active
         /\ ~[r EXCEPT !.cancelled = TRUE, !.completed = TRUE, !.active = FALSE].active
         /\ \A b \in Bookings : [r EXCEPT !.kept = TRUE, !.rsv = b].active = r.active
  BY DEF Record, Closed, Deactivated

LEMMA ToldNext ==
  ASSUME Orderly PROVE WatchInv /\ RemindersInv /\ ToldInv /\ [Next]_vars => ToldInv'
<1> SUFFICES ASSUME WatchInv, RemindersInv, ToldInv, [Next]_vars PROVE ToldInv'
  OBVIOUS
<1> USE WatchAssumption, Orderly
<1> USE DEF ToldInv, FreshInv, SettledIsTold, Young, OnRecord, Verdicts, Watchers, ChildState,
            AppState, railway, redis, process, flask, watchdog, request, life, history, Admits,
            Orderly
<1>a. TypeOK /\ LocalsInv /\ WrittenInv /\ ServedInv /\ RecordKept
  BY DEF WatchInv, TypeInv, RecordInv
<1>b. \A b \in Bookings : ChildAlive(b) =>
        app = "idle" /\ \A o \in Bookings \ {b} : ~ChildAlive(o)
  BY DEF WatchInv, VerdictInv, AloneInv
<1>c. stops = 0 /\ record.active => \E b \in Bookings : reminder[b]
  BY DEF RemindersInv, ReminderBacked
<1> USE <1>a DEF TypeOK, LocalsInv, WrittenInv, ServedInv, RecordKept, ChildAlive
<1>0. UNCHANGED <<record, child, callback, app, copy, user, stops, told, dismissed>> => ToldInv'
  OBVIOUS
<1>1. ASSUME NEW b \in Bookings,
             Pay(b) \/ Deadline(b) \/ Drop(b) \/ CancelElsewhere(b) \/ Book(b) \/ ReminderEnds(b)
      PROVE  ToldInv'
  <2>1. CASE Pay(b) \/ Deadline(b) \/ Drop(b) \/ CancelElsewhere(b)
    BY <1>0, <2>1 DEF Pay, Deadline, Drop, CancelElsewhere
  <2>2. CASE Book(b)
    <3>1. ~(stops = 0 /\ record.active)
      BY <1>c, <2>2 DEF Book, Settled, Orderly
    <3> QED
      BY <2>2, <3>1 DEF Book, ChildGoto, Settled, Orderly
  <2>3. CASE ReminderEnds(b)
    BY <2>3, ConfirmedFacts, ActiveFacts DEF ReminderEnds
  <2> QED
    BY <1>1, <2>1, <2>2, <2>3
<1>2. ASSUME NEW b \in Bookings, ChildStep(b)
      PROVE  ToldInv'
  <2>1. CASE ChildAnswered(b) \/ ChildClaim(b)
    BY <2>1 DEF ChildAnswered, ChildClaim, ChildGoto, Orderly
  <2>2. CASE ChildWake(b) \/ ChildAsk(b) \/ ChildHeed(b)
    BY <2>2 DEF ChildWake, ChildAsk, ChildHeed, ChildGoto
  <2>3. CASE ChildRecord(b)
    <3>1. /\ child[b] = "record" /\ child'[b] \in {"settle", "rest"}
          /\ child' = [child EXCEPT ![b] = child'[b]]
          /\ record'.kept /\ record'.rsv = b /\ record'.completed = record.completed
          /\ record'.active = record.active
          /\ UNCHANGED <<callback, app, copy, user, stops, told, dismissed>>
      BY <2>3, ConfirmedFacts, ActiveFacts DEF ChildRecord, ChildGoto, Pending
    <3>2. \A o \in Bookings : o # b => child'[o] = child[o] /\ ~ChildAlive(o)
      BY <1>b, <3>1
    <3>3. FreshInv'
      BY <3>1, <3>2
    <3>4. stops = 0 => callback[b] = "done"
      BY <3>1 DEF Callback
    <3>5. stops = 0 /\ record.completed => b \in dismissed \/ user = "close"
      BY <3>1, <3>4
    <3>6. SettledIsTold'
      <4> SUFFICES ASSUME stops = 0, record.completed
                   PROVE  b \in dismissed' \/ user' = "close"
        BY <3>1 DEF SettledIsTold
      <4> QED
        BY <3>1, <3>5
    <3> QED
      BY <3>3, <3>6
  <2>4. CASE ChildSettle(b)
    <3>1. /\ child[b] = "settle" /\ record.rsv = b /\ record.kept
          /\ child' = [child EXCEPT ![b] = child'[b]]
          /\ child'[b] = "tell" \/ (child'[b] = "gone" /\ record.completed)
          /\ record'.rsv = b /\ ~record'.active
          /\ UNCHANGED <<callback, app, copy, user, stops, told, dismissed>>
      BY <2>4, ConfirmedFacts, ActiveFacts DEF ChildSettle, ChildGoto, AlreadyConfirmed
    <3> QED
      BY <1>b, <3>1
  <2>5. CASE ChildTell(b)
    BY <2>5 DEF ChildTell, ChildGoto, Tell
  <2> QED
    BY <1>2, <2>1, <2>2, <2>3, <2>4, <2>5 DEF ChildStep
<1>3. ASSUME NEW b \in Bookings, CallbackStep(b)
      PROVE  ToldInv'
  <2>1. CASE CallbackTell(b) \/ CallbackDrop(b)
    <3>1. /\ callback[b] \in {"tell", "drop"}
          /\ callback' = [callback EXCEPT ![b] = IF callback[b] = "tell" THEN "remind" ELSE "done"]
          /\ UNCHANGED <<record, child, app, copy, user, stops, told, dismissed>>
      BY <2>1 DEF CallbackTell, CallbackDrop, CallbackGoto
    <3>2. SettledIsTold'
      BY <3>1
    <3>3. FreshInv'
      BY <3>1
    <3> QED
      BY <3>2, <3>3
  <2>2. CASE CallbackRemind(b)
    <3>1. stops = 0 => /\ callback' = [callback EXCEPT ![b] = "drop"] /\ callback[b] = "remind"
                       /\ record'.rsv = NoBooking /\ ~record'.completed
                       /\ UNCHANGED <<child, app, copy, user, stops, told, dismissed>>
      BY <2>2 DEF CallbackRemind, CallbackGoto, NoRecord
    <3>2. UNCHANGED stops
      BY <2>2 DEF CallbackRemind, CallbackGoto
    <3>3. SettledIsTold'
      BY <3>1, <3>2
    <3>4. stops = 0 => \A o \in Bookings : /\ ~(callback'[o] \in {"tell", "remind"})
                                           /\ OnRecord(o)' => OnRecord(o) /\ o = b
                                           /\ callback'[o] # "lost"
                                           /\ child[o] # "none" => callback'[o] # "none"
      BY <3>1
    <3>5. FreshInv'
      BY <3>1, <3>2, <3>4
    <3> QED
      BY <3>3, <3>5
  <2> QED
    BY <1>3, <2>1, <2>2 DEF CallbackStep
<1>4. CASE AppStep \/ AppNoClient
  <2>1. CASE AppClaim \/ AppNoClient \/ AppRead \/ AppAsk \/ AppLeave
    BY <2>1 DEF AppClaim, AppNoClient, AppRead, AppAsk, AppLeave, AppGoto
  <2>2. CASE AppHeed
    <3>1. /\ \A b \in Bookings : ~ChildAlive(b)
          /\ app = "heed" /\ copy.kept
          /\ UNCHANGED <<child, callback, copy, user, stops, told, dismissed>>
      BY <1>b, <2>2 DEF AppHeed, AppGoto
    <3>2. \/ record' = record
          \/ app' = "tell" /\ record'.rsv = copy.rsv /\ ~record'.active
      BY <2>2, ConfirmedFacts, ActiveFacts DEF AppHeed, AppGoto
    <3> QED
      BY <3>1, <3>2
  <2>3. CASE AppTell
    BY <2>3 DEF AppTell, AppGoto, Tell
  <2> QED
    BY <1>4, <2>1, <2>2, <2>3 DEF AppStep
<1>5. CASE Request
  <2>1. CASE Silence
    BY <2>1, ConfirmedFacts, ActiveFacts DEF Silence, UserGoto
  <2>2. CASE CancelBegin
    BY <2>2, KilledFacts DEF CancelBegin, UserGoto
  <2>3. CASE GiveBackBegin
    BY <2>3 DEF GiveBackBegin, UserGoto
  <2> QED
    BY <1>5, <2>1, <2>2, <2>3 DEF Request
<1>6. CASE UserStep
  <2>1. CASE CancelClose
    BY <2>1, ConfirmedFacts, ActiveFacts DEF CancelClose, UserGoto
  <2>2. CASE GiveBackReleased
    BY <2>2 DEF GiveBackReleased
  <2>3. CASE GiveBackRefused
    BY <2>3 DEF GiveBackRefused, UserGoto
  <2>4. CASE GiveBackNote
    BY <2>4, ConfirmedFacts, ActiveFacts DEF GiveBackNote, UserGoto
  <2> QED
    BY <1>6, <2>1, <2>2, <2>3, <2>4 DEF UserStep
<1>7. CASE Stop \/ Crash
  <2>1. stops' # 0
    BY <1>7 DEF Stop, Crash, StopKilling
  <2> QED
    BY <2>1
<1>8. CASE Start
  <2>1. stops = 0 => \A b \in Bookings : child'[b] = child[b]
    BY <1>8 DEF Start, Killed
  <2> QED
    BY <1>8, <2>1 DEF Start
<1>9. CASE LeaseLapses \/ UNCHANGED vars
  BY <1>0, <1>9 DEF LeaseLapses, vars
<1> QED
  BY <1>1, <1>2, <1>3, <1>4, <1>5, <1>6, <1>7, <1>8, <1>9 DEF Next

\* _settle_payment, _settle_single, handle_cancel, _record_cancelled: a booking is marked
\* settled only with a message that was sent or is about to be, or by the user.
THEOREM SettledWasTold == ASSUME Orderly PROVE Spec => []SettledIsTold
<1>1. Init => RemindersInv
  BY DEF Init, RemindersInv, ReminderBacked, NoRecord
<1>2. WatchInv /\ RemindersInv /\ ToldInv /\ [Next]_vars => RemindersInv' /\ ToldInv'
  BY RemindersNext, ToldNext DEF WatchInv
<1>3. ToldInv => SettledIsTold
  BY DEF ToldInv
<1> QED
  BY WatchHolds, ToldInit, <1>1, <1>2, <1>3, PTL DEF Spec

=============================================================================
