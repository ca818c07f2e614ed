-------------------------- MODULE PaymentWatch --------------------------
(***************************************************************************)
(* From a booked seat to the verdict its chat is told: paid, or expired.   *)
(*                                                                         *)
(* Two watchers can ask the railway about a seat: the search process that  *)
(* booked it (child) and, when that one is gone, the application's         *)
(* PaymentWatchdogService (app).  A lease in Redis keeps them apart, and   *)
(* one PaymentStatus per chat says what is still open.  The callback, the  *)
(* reminder threads, /cancel, /notify_off and the button that gives a seat *)
(* back write to the same record; each reads it, changes it and saves it   *)
(* whole.  One chat, booking after booking.                                *)
(***************************************************************************)
EXTENDS Naturals, FiniteSets

CONSTANTS
  Bookings,    \* reservation numbers; a search process books one and watches it
  NoBooking,   \* a record without a reservation number
  App,         \* the application's watchdog, as an owner of the lease
  Nobody,      \* the lease is free
  MaxStops,    \* bound: how often the application stops or crashes
  Scenarios    \* which unlikely schedules the instance admits, see below

(***************************************************************************)
(* "second_booking": the chat books another seat while one is unsettled    *)
(* "slow_callback":  the child's ten-second timeout on its callback expires *)
(* "slow_railway":   a request takes so long that the lease lapses, or the *)
(*                   seat changes hands before its answer is acted on      *)
(* "railway_silent": the railway cannot be asked at the deadline           *)
(* "prompt_drop":    an expired seat leaves the list before the next look  *)
(* "cancelled_elsewhere": the user cancels the seat on the railway's own    *)
(*                   site while a watcher has yet to report its end        *)
(* "slow_give_back": a watcher asks, or the application stops, while a     *)
(*                   seat is being given back                              *)
(***************************************************************************)
AllScenarios == {"second_booking", "slow_callback", "slow_railway", "railway_silent",
                 "prompt_drop", "cancelled_elsewhere", "slow_give_back"}

ASSUME WatchAssumption ==
  /\ NoBooking \notin Bookings
  /\ App \notin Bookings /\ Nobody \notin Bookings /\ App # Nobody
  /\ MaxStops \in Nat
  /\ Scenarios \subseteq AllScenarios

VARIABLES
  seat,      \* the railway's view of each reservation
  due,       \* has its deadline passed
  record,    \* PaymentStatus of the chat
  lease,     \* payment_watch: who holds it
  child,     \* per booking: where its search process is
  callback,  \* per booking: where the Flask thread serving its callback is
  ours,      \* children the present run of the application started
  reminder,  \* per booking: is the reminder thread its callback started alive
  answer,    \* per watcher: what the railway answered it last
  app,       \* where the application's watchdog is in its pass
  copy,      \* the record _settle_single holds on to across its request
  user,      \* where the thread serving the chat is
  picked,    \* the reservation it is giving back
  up,        \* is the application running
  stops,     \* how often it stopped
  told,      \* history: the verdicts the chat was told, per booking
  dismissed  \* history: bookings the user has done with, by /cancel or by giving back

railway  == <<seat, due>>
redis    == <<record, lease>>
process  == <<child, ours, answer>>
flask    == <<callback, reminder>>
watchdog == <<app, copy>>
request  == <<user, picked>>
life     == <<up, stops>>
history  == <<told, dismissed>>
vars     == <<railway, redis, process, flask, watchdog, request, life, history>>

Watchers   == Bookings \union {App}
Seat       == {"none", "held", "paid", "released", "dropped", "withdrawn"}
Answer     == {"none", "listed", "gone", "unknown"}
Verdicts   == {"paid", "expired"}
Callback   == {"none", "tell", "remind", "drop", "done", "lost"}
ChildState == {"none", "calling", "claim", "record", "rest", "ask", "heed", "settle", "tell",
               "gone"}
AppState   == {"idle", "read", "ask", "heed", "tell", "leave"}
UserState  == {"idle", "close", "release", "note"}

NoRecord == [kept |-> FALSE, rsv |-> NoBooking, completed |-> FALSE, active |-> FALSE,
             cancelled |-> FALSE]
Record   == [kept : BOOLEAN, rsv : Bookings \union {NoBooking}, completed : BOOLEAN,
             active : BOOLEAN, cancelled : BOOLEAN]

\* _unsettled_single
UnsettledAndActive(r) == r.kept /\ r.rsv # NoBooking /\ ~r.completed /\ ~r.cancelled /\ r.active
Unsettled(r) == r.kept /\ r.rsv # NoBooking /\ ~r.completed /\ ~r.cancelled

ChildAlive(b) == child[b] \notin {"none", "gone"}

\* The chat's RunningReservation, which the callback deletes last, still names its process.
OnRecord(b) == callback[b] \in {"tell", "remind", "drop"}

\* _terminate_search_process
Killed(bs) == [b \in Bookings |-> IF b \in bs /\ ChildAlive(b) THEN "gone" ELSE child[b]]

\* The chat is owed a verdict on b.
Open(b) == record.kept /\ record.rsv = b /\ ~record.completed /\ ~record.cancelled

-----------------------------------------------------------------------------
(* Schedules an instance leaves out *)

Admits(s) == s \in Scenarios

\* Nothing of an earlier booking is left when the next seat is booked.
Settled ==
  /\ \A b \in Bookings : ~ChildAlive(b) /\ ~reminder[b]
  /\ ~Unsettled(record) /\ app = "idle" /\ lease = Nobody /\ user = "idle"

\* No watcher has an answer about the seat that it has not acted on yet.
Heeded(b) == child[b] # "heed" /\ ~(app = "heed" /\ copy.rsv = b)

\* No watcher is about to ask for the seat and tell.
Unwatched(b) == ~Open(b) /\ child[b] \in {"none", "gone", "tell"}
                /\ ~(app \in {"ask", "heed"} /\ copy.rsv = b)

\* The seat is not between the railway's release and the record's.
NotGivingBack(b) == Admits("slow_give_back") \/ ~(user = "note" /\ picked = b)

-----------------------------------------------------------------------------
Init ==
  /\ seat      = [b \in Bookings |-> "none"]
  /\ due       = [b \in Bookings |-> FALSE]
  /\ record    = NoRecord
  /\ lease     = Nobody
  /\ child     = [b \in Bookings |-> "none"]
  /\ callback  = [b \in Bookings |-> "none"]
  /\ ours      = {}
  /\ reminder  = [b \in Bookings |-> FALSE]
  /\ answer    = [w \in Watchers |-> "none"]
  /\ app       = "idle"
  /\ copy      = NoRecord
  /\ user      = "idle"
  /\ picked    = NoBooking
  /\ up        = TRUE
  /\ stops     = 0
  /\ told      = [b \in Bookings |-> [v \in Verdicts |-> 0]]
  /\ dismissed = {}

\* send_message(PAYMENT_VERIFIED or PAYMENT_EXPIRED_VERIFIED); told twice is told too often
Tell(b, v) == told' = [told EXCEPT ![b][v] = IF @ < 2 THEN @ + 1 ELSE @]

\* claim_payment_watch: whoever asks first; asking again renews
ClaimOfNoOwner(w) == lease' = IF lease = Nobody THEN NoBooking ELSE lease
Claim(w) == lease' = IF lease = Nobody THEN w ELSE lease

\* ... and whether that leaves the claim with w
ClaimedByAnyone(w) == TRUE
ClaimedBy(w) == lease \in {Nobody, w}

\* is_reservation_outstanding: gone is paid, cancelled or expired; unknown is no answer
AnswersOrGone(b) ==
  {IF seat[b] = "held" THEN "listed" ELSE "gone", "gone"}
Answers(b) ==
  {IF seat[b] = "held" THEN "listed" ELSE "gone"}
    \union (IF due[b] /\ ~Admits("railway_silent") THEN {} ELSE {"unknown"})

\* An answer that has been acted on is gone with the call that made it.
Forget(w) == answer' = [answer EXCEPT ![w] = "none"]

-----------------------------------------------------------------------------
(* The railway, and time *)

Pay(b) ==
  /\ seat[b] = "held" /\ ~due[b]
  /\ Heeded(b) \/ Admits("slow_railway")
  /\ seat' = [seat EXCEPT ![b] = "paid"]
  /\ UNCHANGED <<due, redis, process, flask, watchdog, request, life, history>>

\* The window is minutes long, the child's first steps are not.
Deadline(b) ==
  /\ seat[b] # "none" /\ ~due[b]
  /\ child[b] \notin {"calling", "claim", "record"}
  /\ Heeded(b) \/ Admits("slow_railway")
  /\ due' = [due EXCEPT ![b] = TRUE]
  /\ UNCHANGED <<seat, redis, process, flask, watchdog, request, life, history>>

Drop(b) ==
  /\ seat[b] = "held" /\ due[b]
  /\ Unwatched(b) \/ Admits("prompt_drop")
  /\ seat' = [seat EXCEPT ![b] = "dropped"]
  /\ UNCHANGED <<due, redis, process, flask, watchdog, request, life, history>>

\* On the railway's site, which a refused give-back sends the chat to (PAYMENT_CANCEL_FAILED);
\* the bot is not told.
CancelElsewhere(b) ==
  /\ seat[b] = "held" /\ ~due[b]
  /\ Unwatched(b) \/ Admits("cancelled_elsewhere")
  /\ seat' = [seat EXCEPT ![b] = "withdrawn"]
  /\ UNCHANGED <<due, redis, process, flask, watchdog, request, life, history>>

\* A lease expires under an owner that has stopped renewing it.
Renews(w) == IF w = App THEN app # "idle"
                        ELSE child[w] \in {"record", "rest", "ask", "heed", "settle"}

LeaseLapses ==
  /\ lease # Nobody
  /\ ~Renews(lease) \/ Admits("slow_railway")
  /\ lease' = Nobody
  /\ UNCHANGED <<railway, record, process, flask, watchdog, request, life, history>>

-----------------------------------------------------------------------------
(* The search process: run, once it has a seat, and _watch_payment *)

ChildGoto(b, from, to) ==
  /\ child[b] = from
  /\ child' = [child EXCEPT ![b] = to]

\* The chat has one search at a time: the last callback is over, or was lost.
Book(b) ==
  /\ up
  /\ \A o \in Bookings : callback[o] \in {"none", "done", "lost"}
  /\ Settled \/ Admits("second_booking")
  /\ ChildGoto(b, "none", "calling")
  /\ seat'     = [seat EXCEPT ![b] = "held"]
  /\ callback' = [callback EXCEPT ![b] = "tell"]
  /\ ours'     = ours \union {b}
  /\ UNCHANGED <<due, redis, answer, reminder, watchdog, request, life, history>>

\* _send_callback returns, whatever came of it.
ChildAnswered(b) ==
  /\ ChildGoto(b, "calling", "claim")
  /\ callback[b] \in {"done", "lost"} \/ Admits("slow_callback")
  /\ UNCHANGED <<railway, redis, ours, answer, flask, watchdog, request, life, history>>

\* Claimed before the details are written down; the answer to the claim is not looked at.
ChildClaim(b) ==
  /\ ChildGoto(b, "claim", "record")
  /\ Claim(b)
  /\ UNCHANGED <<railway, record, ours, answer, flask, watchdog, request, life, history>>

\* _record_pending_payment
PendingIfNew(b) == IF record.kept THEN record ELSE [NoRecord EXCEPT !.kept = TRUE, !.rsv = b]
Pending(b) == [record EXCEPT !.kept = TRUE, !.rsv = b]

ChildRecord(b) ==
  /\ ChildGoto(b, "record", IF due[b] THEN "settle" ELSE "rest")
  /\ record' = Pending(b)
  /\ UNCHANGED <<railway, lease, ours, answer, flask, watchdog, request, life, history>>

\* The sleep, and the claim renewed
ChildWake(b) ==
  /\ ChildGoto(b, "rest", "ask")
  /\ Claim(b)
  /\ UNCHANGED <<railway, record, ours, answer, flask, watchdog, request, life, history>>

ChildAsk(b) ==
  /\ NotGivingBack(b)
  /\ ChildGoto(b, "ask", "heed")
  /\ \E a \in Answers(b) : answer' = [answer EXCEPT ![b] = a]
  /\ UNCHANGED <<railway, redis, ours, flask, watchdog, request, life, history>>

\* What the loop makes of the answer: anything but "gone" goes on until the deadline.
GoneOrDue(b) == answer[b] # "listed" \/ due[b]
Over(b) == answer[b] = "gone" \/ due[b]

ChildHeed(b) ==
  /\ ChildGoto(b, "heed", IF Over(b) THEN "settle" ELSE "rest")
  /\ IF Over(b) THEN UNCHANGED answer ELSE Forget(b)
  /\ UNCHANGED <<railway, redis, ours, flask, watchdog, request, life, history>>

\* _settle_payment: a payment that is no news is not told.
ConfirmedOnceSaved == record.kept
AlreadyConfirmed == record.kept /\ record.completed

\* What settling and /cancel make of the record, when there is one
Closed(r) == IF r.kept THEN [r EXCEPT !.completed = TRUE, !.active = FALSE] ELSE r

ChildSettle(b) ==
  /\ ChildGoto(b, "settle", IF answer[b] = "gone" /\ AlreadyConfirmed THEN "gone" ELSE "tell")
  /\ record' = Closed(record)
  /\ UNCHANGED <<railway, lease, ours, answer, flask, watchdog, request, life, history>>

ChildTell(b) ==
  /\ ChildGoto(b, "tell", "gone")
  /\ Tell(b, IF answer[b] = "gone" THEN "paid" ELSE "expired")
  /\ Forget(b)
  /\ UNCHANGED <<railway, redis, ours, flask, watchdog, request, life, dismissed>>

-----------------------------------------------------------------------------
(* ReservationCallbackAPI.get for a booked seat, and PaymentReminderService *)

CallbackGoto(b, from, to) ==
  /\ up
  /\ callback[b] = from
  /\ callback' = [callback EXCEPT ![b] = to]
  /\ UNCHANGED <<railway, lease, process, watchdog, request, life, history>>

CallbackTell(b) ==
  /\ CallbackGoto(b, "tell", "remind")
  /\ UNCHANGED <<record, reminder>>

\* start_reminders: one loop at a time; otherwise a fresh record, and a thread
CallbackRemind(b) ==
  /\ CallbackGoto(b, "remind", "drop")
  /\ IF record.active
       THEN UNCHANGED <<record, reminder>>
       ELSE /\ record' = [NoRecord EXCEPT !.kept = TRUE, !.active = TRUE]
            /\ reminder' = [reminder EXCEPT ![b] = TRUE]

CallbackDrop(b) ==
  /\ CallbackGoto(b, "drop", "done")
  /\ UNCHANGED <<record, reminder>>

\* deactivate_reminders
LeftActive(r) == r
Deactivated(r) == IF r.kept THEN [r EXCEPT !.active = FALSE] ELSE r

\* The loop ends when the payment is settled, when it was silenced, or with its window.
\* A reminder on the way changes nothing.
ReminderEnds(b) ==
  /\ reminder[b]
  /\ reminder' = [reminder EXCEPT ![b] = FALSE]
  /\ record' = IF record.kept /\ ~record.completed /\ ~record.active
                 THEN record ELSE Deactivated(record)
  /\ UNCHANGED <<railway, lease, process, callback, watchdog, request, life, history>>

-----------------------------------------------------------------------------
(* PaymentWatchdogService: one pass over the chat *)

AppGoto(from, to) ==
  /\ up
  /\ app = from
  /\ app' = to
  /\ UNCHANGED <<railway, child, ours, flask, request, life, dismissed>>

\* The scan, the claim and a client that is logged in
AppClaim ==
  /\ AppGoto("idle", "read")
  /\ Unsettled(record)
  /\ ClaimedBy(App)
  /\ lease' = App
  /\ UNCHANGED <<record, answer, copy, told>>

\* The claim, and no login to ask with
AppNoClient ==
  /\ AppGoto("idle", "idle")
  /\ Unsettled(record)
  /\ ClaimedBy(App)
  /\ lease' = App
  /\ UNCHANGED <<record, answer, copy, told>>

AppRead ==
  /\ NotGivingBack(record.rsv)
  /\ AppGoto("read", IF Unsettled(record) THEN "ask" ELSE "leave")
  /\ copy' = record
  /\ UNCHANGED <<redis, answer, told>>

AppAsk ==
  /\ NotGivingBack(copy.rsv)
  /\ AppGoto("ask", "heed")
  /\ \E a \in Answers(copy.rsv) : answer' = [answer EXCEPT ![App] = a]
  /\ UNCHANGED <<redis, copy, told>>

\* Written before the message is sent, from the copy read before the request
AppVerdict == answer[App] = "gone" \/ (answer[App] = "listed" /\ due[copy.rsv])

AppHeed ==
  /\ AppGoto("heed", IF AppVerdict THEN "tell" ELSE "leave")
  /\ record' = IF AppVerdict THEN Closed(copy) ELSE record
  /\ UNCHANGED <<lease, answer, copy, told>>

AppTell ==
  /\ AppGoto("tell", "leave")
  /\ Tell(copy.rsv, IF answer[App] = "gone" THEN "paid" ELSE "expired")
  /\ UNCHANGED <<redis, answer, copy>>

\* _still_watching, or _let_go
AppLeave ==
  /\ AppGoto("leave", "idle")
  /\ lease' = IF lease = App /\ ~Unsettled(record) THEN Nobody ELSE lease
  /\ copy'  = NoRecord
  /\ Forget(App)
  /\ UNCHANGED <<record, told>>

-----------------------------------------------------------------------------
(* The chat *)

UserGoto(from, to) ==
  /\ up
  /\ user = from
  /\ user' = to
  /\ UNCHANGED <<railway, lease, ours, answer, flask, watchdog, life, told>>

\* /notify_off
Silence ==
  /\ UserGoto("idle", "idle")
  /\ record.active
  /\ record' = [record EXCEPT !.active = FALSE]
  /\ UNCHANGED <<child, picked, dismissed>>

\* /cancel: the process of a search still on record is stopped ...
CancelBegin ==
  /\ UserGoto("idle", "close")
  /\ child' = Killed({b \in Bookings : OnRecord(b)})
  /\ UNCHANGED <<record, picked, dismissed>>

\* ... and whatever is open counts as settled: deactivate_reminders(completed=True).
CancelClose ==
  /\ UserGoto("close", "idle")
  /\ record' = Closed(record)
  /\ dismissed' = {b \in Bookings : seat[b] # "none"}
  /\ UNCHANGED <<child, picked>>

\* PendingPaymentService.cancel: the seat awaiting payment, the railway, the record
GiveBackBegin ==
  /\ UserGoto("idle", "release")
  /\ Unsettled(record) /\ ~due[record.rsv]
  /\ picked' = record.rsv
  /\ UNCHANGED <<child, record, dismissed>>

GiveBackReleased ==
  /\ up
  /\ user = "release"
  /\ seat[picked] = "held"
  /\ Admits("slow_give_back") \/ (Heeded(picked) /\ app \notin {"ask", "heed"})
  /\ seat' = [seat EXCEPT ![picked] = "released"]
  /\ user' = "note"
  /\ UNCHANGED <<due, redis, process, flask, watchdog, picked, life, history>>

GiveBackRefused ==
  /\ UserGoto("release", "idle")
  /\ picked' = NoBooking
  /\ UNCHANGED <<child, record, dismissed>>

\* _record_cancelled
GiveBackNote ==
  /\ UserGoto("note", "idle")
  /\ record' = IF record.kept /\ record.rsv = picked
                 THEN [record EXCEPT !.cancelled = TRUE, !.completed = TRUE, !.active = FALSE]
                 ELSE record
  /\ picked' = NoBooking
  /\ dismissed' = dismissed \union {picked}
  /\ UNCHANGED child

-----------------------------------------------------------------------------
(* The application stops and starts *)

\* Every thread of the application is gone with it; `killed` are the processes it takes along.
StopKilling(killed) ==
  /\ up /\ stops < MaxStops
  /\ user # "note" \/ Admits("slow_give_back")
  /\ up'       = FALSE
  /\ stops'    = stops + 1
  /\ ours'     = {}
  /\ child'    = Killed(killed)
  /\ callback' = [b \in Bookings |-> IF OnRecord(b) THEN "lost" ELSE callback[b]]
  /\ reminder' = [b \in Bookings |-> FALSE]
  /\ app'      = "idle"
  /\ copy'     = NoRecord
  /\ lease'    = IF lease = App THEN Nobody ELSE lease   \* the next run asks under another name
  /\ user'     = "idle"
  /\ picked'   = NoBooking
  /\ answer'   = [w \in Watchers |-> IF w = App \/ w \in killed THEN "none" ELSE answer[w]]
  /\ UNCHANGED <<railway, record, history>>

Stop  == StopKilling(ours)   \* shutdown
Crash == StopKilling({})

\* reconcile_after_restart ends a search that is still on record.
Start ==
  /\ ~up
  /\ up' = TRUE
  /\ child' = Killed({b \in Bookings : callback[b] = "lost"})
  /\ UNCHANGED <<railway, redis, ours, answer, flask, watchdog, request, stops, history>>

-----------------------------------------------------------------------------
ChildStep(b)    == \/ ChildAnswered(b) \/ ChildClaim(b) \/ ChildRecord(b) \/ ChildWake(b)
                   \/ ChildAsk(b) \/ ChildHeed(b) \/ ChildSettle(b) \/ ChildTell(b)
CallbackStep(b) == CallbackTell(b) \/ CallbackRemind(b) \/ CallbackDrop(b)
AppStep         == AppClaim \/ AppRead \/ AppAsk \/ AppHeed \/ AppTell \/ AppLeave
UserStep        == CancelClose \/ GiveBackReleased \/ GiveBackRefused \/ GiveBackNote
Request         == Silence \/ CancelBegin \/ GiveBackBegin

Next ==
  \/ \E b \in Bookings : \/ Pay(b) \/ Deadline(b) \/ Drop(b) \/ CancelElsewhere(b)
                         \/ Book(b) \/ ChildStep(b) \/ CallbackStep(b) \/ ReminderEnds(b)
  \/ LeaseLapses
  \/ AppStep \/ AppNoClient
  \/ Request \/ UserStep
  \/ Stop \/ Crash \/ Start

Spec == Init /\ [][Next]_vars

\* Threads and processes go on, deadlines pass, dead owners' leases expire, the
\* application comes back and can log in.  Nobody has to pay, ask or press a button.
Fairness ==
  /\ \A b \in Bookings : /\ WF_vars(ChildStep(b)) /\ WF_vars(CallbackStep(b))
                         /\ WF_vars(ReminderEnds(b)) /\ SF_vars(Deadline(b))
  /\ WF_vars(LeaseLapses) /\ WF_vars(AppStep) /\ WF_vars(UserStep) /\ WF_vars(Start)

FairSpec == Spec /\ Fairness
=============================================================================
