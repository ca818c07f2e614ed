--------------------------- MODULE RandomSeating ---------------------------
(***************************************************************************)
(* Seats taken one at a time for a group (the search process's             *)
(* _run_random_reservation), one chat of it.                               *)
(*                                                                         *)
(* The run holds a seat, writes it down, tells the chat and waits: for the *)
(* payment, for the chat to say carry on, or for ten minutes to pass.      *)
(* What it writes down is read, changed and saved whole by others too: the *)
(* application's payment watchdog, the reminder thread, /notify_off and    *)
(* the button that gives seats back.  Only the watchdog has requests to a  *)
(* railway between its read and its save; the others save what they have   *)
(* just read, and are one step.  Seats are numbered from 1, as the chat    *)
(* sees them: current_seat_index and payment_ready count one less.         *)
(***************************************************************************)
EXTENDS Naturals, FiniteSets

CONSTANTS
  Reservations,   \* bound: the reservations the railway can give, numbered from 1
  MaxOrders,      \* bound: how often the chat asks for seats
  MaxStops,       \* bound: how often the application or a run is cut short
  Worlds          \* the chats of the instance: [seats : passengers, uses : what may happen]

(***************************************************************************)
(* What a chat of the instance does beside paying:                         *)
(*   carry_on, notify_off, cancel, give_back, order_again                  *)
(*   restart          the application stops, its runs with it              *)
(*   dies, fails      the run does, at any of its steps, at its search     *)
(* and what may go wrong around it:                                        *)
(*   during_pass      somebody saves the record while the watchdog asks    *)
(*   late_payment     the deadline passes before a payment is asked about  *)
(*   prompt_drop      an expired seat leaves the railway's list before it  *)
(*                    is asked about                                       *)
(*   cancelled_elsewhere  the user cancels a seat that is still to be paid *)
(*                    for on the railway's own site                        *)
(*   other_window     PAYMENT_TIMEOUT_MINUTES is not the ten minutes a run *)
(*                    waits for a payment                                  *)
(*   cut_short        ... between the railway's answer and writing it down *)
(*   partials_lapsed  two hours from one seat to the restart               *)
(*   resumed_by_hand  the chat resumes a run that died holding seats       *)
(*   unpaid_reorder   seats are asked for while others are unpaid          *)
(*   after_the_run    what a run that is gone left in current_seat_index   *)
(*                    is what the chat carries on with, or its flag is     *)
(*                    still there, and the record not, for the next run    *)
(***************************************************************************)
Habits    == {"carry_on", "notify_off", "cancel", "give_back", "order_again", "restart",
              "dies", "fails"}
Accidents == {"during_pass", "late_payment", "prompt_drop", "cancelled_elsewhere",
              "other_window", "cut_short", "partials_lapsed", "resumed_by_hand", "unpaid_reorder",
              "after_the_run"}

ASSUME SeatingAssumption ==
  /\ Reservations \subseteq Nat \ {0}
  /\ MaxOrders \in Nat /\ MaxStops \in Nat
  /\ \A w \in Worlds : w.seats \in Nat \ {0, 1} /\ w.uses \subseteq Habits \union Accidents

NoSeat == 0

VARIABLES
  world,     \* the chat this is; never changes
  rail,      \* the railway's view of each reservation
  due,       \* the reservations whose time to pay is over
  run,       \* the search process: where it is, for which seat, with which reservation
  search,    \* what Redis says of it: a running_reservation, a dead_search, or none
  partial,   \* partial_reservations: the reservation written down for each seat
  multi,     \* multi_reservation_status
  current,   \* current_seat_index
  ready,     \* payment_ready
  watch,     \* the watchdog: where it is in its pass, and the record it holds
  reminder,  \* is the reminder thread alive
  user,      \* the poller, at something the chat asked of it
  up,        \* is the application running
  stops,     \* how often something was cut short
  orders,    \* how often the chat asked for seats
  taken,     \* history: the order each reservation was made for
  waved,     \* history: the reservations the chat was told are passed over
  noted,     \* history: the reservations on the record, until the chat cancels
  told       \* history: the verdicts the chat was told

redis   == <<search, partial, multi, current, ready>>
app     == <<watch, reminder, user, up, stops>>
history == <<orders, taken, waved, noted, told>>
vars    == <<world, rail, due, run, redis, app, history>>

Uses(habit) == habit \in world.uses

Seats == 1..world.seats

Gone == [at |-> "gone", seat |-> 1, rsv |-> 0]

Searching(seat) == [at |-> "search", seat |-> seat, rsv |-> 0]

\* MultiReservationStatus: a row for each seat taken so far
NoRecord == [kept |-> FALSE, rows |-> <<>>, stopped |-> FALSE]
Fresh    == [kept |-> TRUE, rows |-> <<>>, stopped |-> FALSE]

WithRowCountedFromZero(record, seat, rsv) ==
  [record EXCEPT !.rows = [s \in DOMAIN @ \union {seat - 1} |->
                            IF s = seat - 1 THEN [rsv |-> rsv, status |-> "pending"] ELSE @[s]]]
WithRow(record, seat, rsv) ==
  [record EXCEPT !.rows = [s \in DOMAIN @ \union {seat} |->
                            IF s = seat THEN [rsv |-> rsv, status |-> "pending"] ELSE @[s]]]

RowsAt(record, status) == {s \in DOMAIN record.rows : record.rows[s].status = status}

\* get_pending_count, and all that go by it: pending, and there is time to pay
Pending(record) == {s \in RowsAt(record, "pending") : record.rows[s].rsv \notin due}

Marked(record, seats, status) ==
  [record EXCEPT !.rows = [s \in DOMAIN @ |-> IF s \in seats THEN [@[s] EXCEPT !.status = status]
                                                             ELSE @[s]]]

Unsettled(r) == \E s \in RowsAt(multi, "pending") : multi.rows[s].rsv = r

AtRest == [at |-> "rest", record |-> NoRecord, left |-> {}, settled |-> {}, mark |-> NoSeat]

Idle == [at |-> "idle", picked |-> {}]

Init ==
  /\ world    \in Worlds
  /\ rail     = [r \in Reservations |-> "free"]
  /\ due      = {}
  /\ run      = Gone
  /\ search   = "none"
  /\ partial  = <<>>
  /\ multi    = NoRecord
  /\ current  = NoSeat
  /\ ready    = {}
  /\ watch    = AtRest
  /\ reminder = FALSE
  /\ user     = Idle
  /\ up       = TRUE
  /\ stops    = 0
  /\ orders   = 0
  /\ taken    = [r \in Reservations |-> 0]
  /\ waved    = {}
  /\ noted    = {}
  /\ told     = [r \in Reservations |-> {}]

\* The schedules in which nobody saves between the watchdog's read and its last word.
NotInAPass == watch.at = "rest" \/ Uses("during_pass")

Alive == run.at # "gone"

First(seats) == CHOOSE s \in seats : \A t \in seats : s <= t

-----------------------------------------------------------------------------
(* The railway *)

Pay(r) ==
  /\ rail[r] = "held" /\ r \notin due
  /\ rail' = [rail EXCEPT ![r] = "paid"]
  /\ UNCHANGED <<world, due, run, redis, app, history>>

\* A seat written down and told of is held for minutes; the watchdog asks every few seconds.
DeadlinePasses(r) ==
  /\ rail[r] \in {"held", "paid"} /\ r \notin due
  /\ \A q \in Reservations : q < r => q \in due \/ rail[q] # "held"
  /\ run.rsv = r => run.at \in {"wait", "clear", "finish"}
  /\ rail[r] = "paid" => Uses("late_payment") \/ (r \in noted /\ ~Unsettled(r))
  /\ due' = due \union {r}
  /\ UNCHANGED <<world, rail, run, redis, app, history>>

Lapse(r) ==
  /\ rail[r] = "held" /\ r \in due
  /\ Uses("prompt_drop") \/ (~Unsettled(r) /\ NotInAPass)
  /\ rail' = [rail EXCEPT ![r] = "lapsed"]
  /\ UNCHANGED <<world, due, run, redis, app, history>>

\* On the railway's site: the bot is not told, and no list says why a seat is off it.
CancelElsewhere(r) ==
  /\ rail[r] = "held" /\ r \notin due
  /\ Uses("cancelled_elsewhere") \/ (run.rsv # r /\ ~Unsettled(r) /\ NotInAPass)
  /\ rail' = [rail EXCEPT ![r] = "withdrawn"]
  /\ UNCHANGED <<world, due, run, redis, app, history>>

-----------------------------------------------------------------------------
(* The run *)

\* _reserve_single_seat_random: searches, and logs in again, until it holds one
TakesSeat ==
  /\ run.at = "search"
  /\ \E r \in Reservations :
       /\ rail[r] = "free" /\ \A q \in Reservations : q < r => rail[q] # "free"
       /\ rail'  = [rail EXCEPT ![r] = "held"]
       /\ run'   = [run EXCEPT !.at = "save", !.rsv = r]
       /\ taken' = [taken EXCEPT ![r] = orders]
  /\ UNCHANGED <<world, due, redis, app, orders, waved, noted, told>>

\* save_partial_reservation: what an earlier run wrote for later seats stays
SavesPartial ==
  /\ run.at = "save"
  /\ partial' = [s \in DOMAIN partial \union {run.seat} |->
                  IF s = run.seat THEN run.rsv ELSE partial[s]]
  /\ run'     = [run EXCEPT !.at = "note"]
  /\ UNCHANGED <<world, rail, due, search, multi, current, ready, app, history>>

\* _update_multi_reservation_status: the first seat starts a new record
RecordForAnySeat == IF multi.kept THEN multi ELSE Fresh
RecordForFresh   == Fresh
RecordFor == IF run.seat = 1 \/ ~multi.kept THEN Fresh ELSE multi

NotesSeat ==
  /\ run.at = "note"
  /\ NotInAPass
  /\ multi' = WithRow(RecordFor, run.seat, run.rsv)
  /\ IF run.seat = 1 /\ multi.kept THEN current' = NoSeat /\ ready' = {}
                                   ELSE UNCHANGED <<current, ready>>
  /\ noted' = noted \union {run.rsv}
  /\ run'   = [run EXCEPT !.at = "index"]
  /\ UNCHANGED <<world, rail, due, search, partial, app, orders, taken, waved, told>>

SetsIndex ==
  /\ run.at = "index"
  /\ current' = run.seat
  /\ run'     = [run EXCEPT !.at = "tell"]
  /\ UNCHANGED <<world, rail, due, search, partial, multi, ready, app, history>>

\* The callback with status 2, whichever of the run's messages it carries
CallsBack == reminder' = (reminder \/ multi.kept)

TellsOfSeat ==
  /\ run.at = "tell"
  /\ run' = [run EXCEPT !.at = IF run.seat < world.seats THEN "wait" ELSE "clear"]
  /\ CallsBack
  /\ UNCHANGED <<world, rail, due, redis, watch, user, up, stops, history>>

\* wait_for_payment: the flag is taken; or ten minutes, which is when the seat is due by the
\* default window
WaitIsOver ==
  /\ run.at = "wait"
  /\ \/ run.seat \in ready  /\ ready' = ready \ {run.seat}
     \/ (run.rsv \in due \/ Uses("other_window")) /\ ready' = ready
  /\ run' = Searching(run.seat + 1)
  /\ CallsBack
  /\ UNCHANGED <<world, rail, due, search, partial, multi, current, watch, user, up, stops, history>>

ClearsIndex ==
  /\ run.at = "clear"
  /\ current' = NoSeat
  /\ run'     = [run EXCEPT !.at = "finish"]
  /\ UNCHANGED <<world, rail, due, search, partial, multi, ready, app, history>>

\* The callback with status 0
Finishes ==
  /\ run.at = "finish"
  /\ run'    = Gone
  /\ search' = "none"
  /\ UNCHANGED <<world, rail, due, partial, multi, current, ready, app, history>>

\* The callback with status 1: current_seat_index stays
Fails ==
  /\ Uses("fails")
  /\ run.at = "search"
  /\ run'    = Gone
  /\ search' = "none"
  /\ UNCHANGED <<world, rail, due, partial, multi, current, ready, app, history>>

Dies ==
  /\ Uses("dies")
  /\ Alive /\ stops < MaxStops
  /\ run.at = "save" => Uses("cut_short")
  /\ run'   = Gone
  /\ stops' = stops + 1
  /\ UNCHANGED <<world, rail, due, redis, watch, reminder, user, up, history>>

\* The flag lives for a minute; a run that waits for it looks every second.
FlagExpires ==
  /\ \E s \in ready : /\ ~(run.seat = s /\ run.at \in {"tell", "wait"})
                      /\ ready' = ready \ {s}
  /\ UNCHANGED <<world, rail, due, run, search, partial, multi, current, app, history>>

\* The record outlives the last save by five minutes more than a seat is held; a flag is
\* gone in one.
RecordExpires ==
  /\ multi.kept /\ NotInAPass /\ ready = {}
  /\ \A s \in DOMAIN multi.rows : multi.rows[s].rsv \in due
  /\ multi' = NoRecord
  /\ UNCHANGED <<world, rail, due, run, search, partial, current, ready, app, history>>

\* What is written down for the seats lives for two hours.
PartialsExpire ==
  /\ partial # <<>>
  /\ Uses("partials_lapsed") \/ search = "none"
  /\ \A s \in DOMAIN partial : partial[s] \in due
  /\ partial' = <<>>
  /\ UNCHANGED <<world, rail, due, run, search, multi, current, ready, app, history>>

Run == TakesSeat \/ SavesPartial \/ NotesSeat \/ SetsIndex \/ TellsOfSeat \/ WaitIsOver
         \/ ClearsIndex \/ Finishes \/ Fails \/ Dies

-----------------------------------------------------------------------------
(* The watchdog's pass over this chat (_settle_seats) *)

WatchLooks ==
  /\ up /\ watch.at = "rest"
  /\ user.at = "idle" \/ Uses("during_pass")
  /\ RowsAt(multi, "pending") # {}
  /\ watch' = [AtRest EXCEPT !.at = "ask", !.record = multi, !.left = RowsAt(multi, "pending")]
  /\ UNCHANGED <<world, rail, due, run, redis, reminder, user, up, stops, history>>

\* is_reservation_outstanding: no longer among the reservations that wait for a payment
OffOrSilent(r) == TRUE
OffTheList(r)  == rail[r] # "held"

\* Silent, or still outstanding with time left: nothing.  Gone from the list: paid for.
WatchAsks ==
  /\ watch.at = "ask" /\ watch.left # {}
  /\ LET s == First(watch.left)
         r == watch.record.rows[s].rsv
         settles(status) == watch' = [watch EXCEPT !.left = @ \ {s}, !.settled = @ \union {s},
                                                   !.record = Marked(@, {s}, status)]
     IN \/ watch' = [watch EXCEPT !.left = @ \ {s}]
        \/ ~OffTheList(r) /\ r \in due /\ settles("expired")
        \/ OffTheList(r) /\ settles("paid")
  /\ UNCHANGED <<world, rail, due, run, redis, reminder, user, up, stops, history>>

WatchSaves ==
  /\ watch.at = "ask" /\ watch.left = {}
  /\ IF watch.settled = {}
     THEN watch' = AtRest /\ UNCHANGED multi
     ELSE /\ multi' = watch.record
          /\ watch' = [watch EXCEPT !.at = "tell"]
  /\ UNCHANGED <<world, rail, due, run, search, partial, current, ready, reminder, user, up, stops,
                 history>>

\* _release_the_next_seat: only the seat the run is waiting on
ReleasesWhatever(seat) == current
Releases(seat) == IF current = seat THEN current ELSE NoSeat

Verdict(s) == watch.record.rows[s].status

Tells(s) ==
  /\ told'  = [told EXCEPT ![watch.record.rows[s].rsv] = @ \union {Verdict(s)}]
  /\ watch' = IF watch.settled = {s} THEN AtRest
              ELSE [watch EXCEPT !.at = "tell", !.settled = @ \ {s}, !.mark = NoSeat]

WatchTells ==
  /\ watch.at = "tell"
  /\ LET s == First(watch.settled) IN
     IF Verdict(s) = "paid" /\ Releases(s) # NoSeat
     THEN watch' = [watch EXCEPT !.at = "mark", !.mark = Releases(s)] /\ UNCHANGED told
     ELSE Tells(s)
  /\ UNCHANGED <<world, rail, due, run, redis, reminder, user, up, stops, orders, taken, waved, noted>>

WatchMarks ==
  /\ watch.at = "mark"
  /\ ready' = ready \union {watch.mark}
  /\ Tells(First(watch.settled))
  /\ UNCHANGED <<world, rail, due, run, search, partial, multi, current, reminder, user, up, stops,
                 orders, taken, waved, noted>>

Watch == WatchLooks \/ WatchAsks \/ WatchSaves \/ WatchTells \/ WatchMarks

\* _reminder_loop, where a pass of it changes anything
ReminderEnds ==
  /\ reminder
  /\ ~multi.kept \/ multi.stopped \/ Pending(multi) = {}
  /\ reminder' = FALSE
  /\ UNCHANGED <<world, rail, due, run, redis, watch, user, up, stops, history>>

ReminderExpires ==
  /\ reminder
  /\ ~multi.stopped /\ Pending(multi) # {}
  /\ RowsAt(multi, "pending") # Pending(multi)
  /\ NotInAPass
  /\ multi' = Marked(multi, RowsAt(multi, "pending") \ Pending(multi), "expired")
  /\ UNCHANGED <<world, rail, due, run, search, partial, current, ready, app, history>>

-----------------------------------------------------------------------------
(* The chat *)

Serves(habit) == up /\ user.at = "idle" /\ Uses(habit)

\* start_reservation_process: a run that died does not stand in the way of a new one
Order ==
  /\ up /\ user.at = "idle"
  /\ search # "running"
  /\ orders < IF Uses("order_again") THEN MaxOrders ELSE 1
  /\ Uses("unpaid_reorder") \/ \A r \in noted : rail[r] = "held" => r \in due
  /\ Uses("after_the_run") \/ multi.kept \/ ready = {}
  /\ orders' = orders + 1
  /\ search' = "running"
  /\ run'    = Searching(1)
  /\ UNCHANGED <<world, rail, due, partial, multi, current, ready, app, taken, waved, noted, told>>

\* The run that is alive has set current_seat_index itself.
OwnSeat == run.seat # 1 \/ run.at \in {"tell", "wait"}

\* process: what is typed while current_seat_index stands, whatever the run is doing
CarryOn ==
  /\ Serves("carry_on")
  /\ current # NoSeat
  /\ OwnSeat \/ Uses("after_the_run")
  /\ ready' = ready \union {current}
  /\ waved' = waved \union {partial[s] : s \in {current} \intersect DOMAIN partial}
  /\ UNCHANGED <<world, rail, due, run, search, partial, multi, current, app, orders, taken, noted, told>>

\* handle_notify_off
NotifyOff ==
  /\ Serves("notify_off")
  /\ ~multi.stopped /\ Pending(multi) # {}
  /\ NotInAPass
  /\ multi' = [multi EXCEPT !.stopped = TRUE]
  /\ UNCHANGED <<world, rail, due, run, search, partial, current, ready, app, history>>

\* handle_cancel: cancel_reservation takes seconds, then delete_multi_reservation_status
CancelStops ==
  /\ Serves("cancel")
  /\ search' = "none"
  /\ run'    = Gone
  /\ user'   = [Idle EXCEPT !.at = "cancel"]
  /\ UNCHANGED <<world, rail, due, partial, multi, current, ready, watch, reminder, up, stops, history>>

CancelClears ==
  /\ user.at = "cancel"
  /\ NotInAPass
  /\ multi'   = NoRecord
  /\ current' = NoSeat
  /\ ready'   = {}
  /\ noted'   = {}
  /\ user'    = Idle
  /\ UNCHANGED <<world, rail, due, run, search, partial, watch, reminder, up, stops, orders, taken, waved,
                 told>>

\* PendingPaymentService.cancel: not while a run is between its seats
GiveBackReads ==
  /\ Serves("give_back")
  /\ Pending(multi) # {} /\ current = NoSeat
  /\ NotInAPass
  /\ user' = [at |-> "sign_in", picked |-> {multi.rows[s].rsv : s \in Pending(multi)}]
  /\ UNCHANGED <<world, rail, due, run, redis, watch, reminder, up, stops, history>>

\* The railway takes back what is still held, or refuses.
GiveBackAsks ==
  /\ user.at = "sign_in"
  /\ \E returned \in SUBSET {r \in user.picked : rail[r] = "held"} :
       /\ rail' = [r \in Reservations |-> IF r \in returned THEN "returned" ELSE rail[r]]
       /\ user' = IF returned = {} THEN Idle ELSE [at |-> "record", picked |-> returned]
  /\ UNCHANGED <<world, due, run, redis, watch, reminder, up, stops, history>>

\* _record_cancelled: by their numbers, on the record as it is now
GiveBackRecords ==
  /\ user.at = "record"
  /\ multi' = IF ~multi.kept THEN multi ELSE
              [Marked(multi, {s \in DOMAIN multi.rows : multi.rows[s].rsv \in user.picked}, "cancelled")
                 EXCEPT !.stopped = TRUE]
  /\ user' = Idle
  /\ UNCHANGED <<world, rail, due, run, search, partial, current, ready, watch, reminder, up, stops,
                 history>>

User == Order \/ CarryOn \/ NotifyOff \/ CancelStops \/ CancelClears \/ GiveBackReads \/ GiveBackAsks
          \/ GiveBackRecords

-----------------------------------------------------------------------------
(* A run that is gone, and the application stopping *)

\* detect_dead_searches
Buries ==
  /\ up /\ search = "running" /\ ~Alive
  /\ search' = "dead"
  /\ UNCHANGED <<world, rail, due, run, partial, multi, current, ready, app, history>>

\* resume_dead_search: from the first seat, whatever the last run took
ResumesDead ==
  /\ up /\ user.at = "idle"
  /\ search = "dead"
  /\ DOMAIN partial = {} \/ Uses("resumed_by_hand")
  /\ search' = "running"
  /\ run'    = Searching(1)
  /\ UNCHANGED <<world, rail, due, partial, multi, current, ready, app, history>>

\* shutdown: the runs are killed, the threads end with the process
Stops ==
  /\ Uses("restart")
  /\ up /\ stops < MaxStops
  /\ run.at = "save" \/ user.at = "record" => Uses("cut_short")
  /\ up'       = FALSE
  /\ stops'    = stops + 1
  /\ run'      = Gone
  /\ watch'    = AtRest
  /\ reminder' = FALSE
  /\ user'     = Idle
  /\ UNCHANGED <<world, rail, due, redis, history>>

\* reconcile_after_restart: a run that took seats is not resumed, nor is current_seat_index cleared
ResumesAnything == TRUE
Resumes == DOMAIN partial = {}

Restarts ==
  /\ ~up
  /\ up' = TRUE
  /\ IF search = "running" /\ Resumes
     THEN run' = Searching(1) /\ UNCHANGED search
     ELSE search' = (IF search = "running" THEN "none" ELSE search) /\ UNCHANGED run
  /\ UNCHANGED <<world, rail, due, partial, multi, current, ready, watch, reminder, user, stops, history>>

Lifecycle == Buries \/ ResumesDead \/ Stops \/ Restarts

-----------------------------------------------------------------------------

Next ==
  \/ \E r \in Reservations : Pay(r) \/ DeadlinePasses(r) \/ Lapse(r) \/ CancelElsewhere(r)
  \/ Run \/ FlagExpires \/ RecordExpires \/ PartialsExpire
  \/ Watch \/ ReminderEnds \/ ReminderExpires
  \/ User \/ Lifecycle

Spec == Init /\ [][Next]_vars
=============================================================================
