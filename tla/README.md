# korail_bot: models, checks and proofs

The bot watches sold-out KTX and SRT trains for its users and books a seat the
moment one is returned. A search runs for hours in a process of its own; a user
starts, cancels and resumes it from a Telegram chat or from the Mini App; what
the system knows about it is a handful of Redis records that several threads and
the search process read and write without a lock. What can go wrong is rarely
inside one function: it is in the order in which those readers and writers come.
That is what these modules model.

Paths below are relative to `src/src/korail_bot/`.

## The system

| Component | Where | State it keeps | Operations | Must be true of it |
|---|---|---|---|---|
| Search lifecycle | `services/reservation_service.py`, `models/reservation.py` | per chat: running record, dead record, kept login, session; per run: handles of child processes | start, resume, discard, cancel, cancel all, bury a death, shutdown, reconcile at start-up | one search per chat; no search without a record; no record without a search, for long; what the chat is told is what happened |
| Search watchdog | `services/search_watchdog_service.py` | none of its own | one pass over all records, every few seconds | reports crashes, all of them, and nothing else |
| Search process | `telegramBot/telebotBackProcess.py` | its railway session, the seat it got | log in, search and reserve, call back, watch the payment | ends with a callback; watches the seat it booked |
| Callback endpoint | `api/reservation_callback.py` | none | tell the chat, delete the records, start reminders | cleans up after the search that called, not after another |
| Payment watch | `telebotBackProcess.py`, `services/payment_watchdog_service.py`, `storage/redis.py` | payment record, lease | claim, ask the railway, settle, tell | one verdict per booking, a true one, for every booking |
| Payment reminders | `services/payment_reminder_service.py`, `services/multi_reservation_reminder_service.py` | `reminder_active` in the payment record, a thread | start, remind, silence, stop | run while there is something to pay and not after |
| Giving a seat back | `services/pending_payment_service.py` | payment record | ask, release at the railway, record | recorded as cancelled only if released, and not announced as paid |
| Random seating | `telebotBackProcess.py`, `handlers/update_processor.py` | seat index, payment-ready keys, multi record | one seat at a time, each released by the payment of the last | no seat taken before the last is paid |
| Scheduled searches | `services/scheduled_search_service.py` | schedule per chat, the kept login | schedule, cancel, fire | fires once, not after cancel, not long after its time |
| Access gate | `services/access_service.py` | trial counts, requests, approvals | evaluate, consume, approve, reject | no more trial searches than the limit |
| Chat front end | `handlers/conversation_handler.py`, `handlers/command_handler.py`, `handlers/update_processor.py` | session | one handler per question, command or button | every answer lands on the question it was given to |
| Mini App | `services/mini_app_gateway.py`, `services/mini_app_service.py`, `api/mini_app*.py` | none | book, schedule, cancel, read | the same rules as the chat |
| Telegram poller | `services/telegram_poller.py` | offset | fetch, acknowledge, process | no update processed twice |
| Railway loop | `services/rail_service.py`, `korail_service.py`, `srt_service.py` | failure streak, login | search, reserve, back off | backs off, recovers, alerts once |
| Release announcer | `services/release_announcer.py` | announced version | announce | a version announced at most once |
| Administrator login | `api/auth.py`, `handlers/command_handler.py` | failures, lockout | check the password | locked out after the limit |
| Storage | `storage/redis.py`, `storage/base.py` | all of the above | get, save, delete, expire | a record read is a record written |
| Messages, keyboards, validators, station codes, crypto, logging, web front end | `telegramBot/messages.py`, `utils/`, `webapp/` | none | pure functions, layout | not modelled |

How they meet. The **poller** thread handles Telegram updates one at a time. The
**Mini App** serves HTTP requests on threads of its own and calls the same
services. The **scheduler**, the **search watchdog** and the **payment watchdog**
are one thread each. **Flask** serves each callback of a search process on a
thread of its own. The **search processes** write to Redis directly for payments
and talk to the application only through the callback. No operation takes a
lock, and Redis transactions are not used, so every Redis command is a step.

What is hard: a start takes a second and more between its check and its record;
callbacks, deaths and cancellations send Telegram messages in the middle; the
watchdog works through a snapshot; records are keyed by chat while processes,
callbacks and watchers belong to one search; and any of it can be cut by a
restart. The hazards, each at its line, are in `PROJECT.json`.

## The modules

| Module | What it is |
|---|---|
| `SearchLifecycle` | state and steps of a search's life, in all threads |
| `SearchProperties` | what it promises |
| `MCSearchLifecycle` | the instance TLC checks: symmetry of processes |
| `SearchLifecycleProofs` | theorems for any number of request threads and every schedule |
| `SearchSerialProofs` | theorems for one request thread without overlaps |
| `SearchRecordProofs` | what the record, the login and the session say of a search, and what is told of a crash |
| `PaymentWatch` | from a booked seat to the verdict its chat is told |
| `PaymentProperties` | what it promises |
| `MCPaymentWatch` | the instance TLC checks |
| `PaymentProofs` | theorems about payments: for every schedule; expired is unpaid, where the railway answers before the seat changes hands; one verdict per booking, for one booking at a time; with punctual threads, a watched booking is on record, settled is told, and, where nothing else takes a seat off the list, paid is paid; paid is never told of a seat that awaits payment |
| `SearchRecovery` | `SearchLifecycle` under an application that stops, crashes and comes back |
| `RecoveryProperties` | what a restart keeps, and what it promises of its own |
| `MCSearchRecovery` | the instance TLC checks |
| `SearchRecoveryProofs` | theorems for any number of stops, crashes and restarts |
| `ChatSession` | what a session holds and how one answer changes it: pure operators |
| `AccessGate` | trial counts, requests, approvals |
| `ScheduledSearches` | an appointment, the login slot it shares, the scheduler's pass |
| `Conversation` | every question of the chat, the login before it, `start_booking` after it; composes the three above |
| `ChatFront` | `Conversation` with the commands, the Mini App's endpoints, the scheduler and the search's end |
| `Appointments` | abstract: an appointment is booked and comes to one end |
| `ChatFrontProperties` | what a chat may rely on; the refinement of `Appointments` |
| `MCChatFront` | the instance TLC checks: two days, and eight kinds of chat |
| `ConversationProofs` | what a session keeps from question to question, for any kinds of chat: complete answers, stations of the railway, trains of the day |
| `ChatFrontProofs` | the refinement, the allowance, the logins and the types, for any kinds of chat |
| `RandomSeating` | a group's seats, taken one at a time |
| `SeatingProperties` | what the group may rely on |
| `MCRandomSeating` | the instance TLC checks: four groups |
| `SeatingProofs` | theorems for groups of any size: no seat too many or missing, true verdicts, nobody passed over |

There are four models, and each takes in one step what another opens up.
`SearchLifecycle` follows a booked search's process up to `PaymentWatchEnds`;
`PaymentWatch` opens that state, and keeps of the lifecycle whether the process
lives and whether it is on record (`OnRecord`), which is what /cancel and a
restart go by. `RandomSeating` does the same for a run of several seats.
`SearchRecovery` is `SearchLifecycle` itself, every one of its actions guarded
by the application's phase. `ChatFront` has the start of a search in one step
(`StartSearch`), with the outcomes `SearchLifecycle` can give it.

### SearchLifecycle

| Variable | Code |
|---|---|
| `running[c]` | `running_reservation:<chat>`, by the process it names |
| `dead[c]` | `dead_search:<chat>`: absent, resumable, or with no login |
| `creds[c]` | `resume_credentials:<chat>` exists |
| `session[c]` | `UserSession.last_action`, FINDING_TICKET or anything else |
| `proc[p]`, `owner[p]`, `outcome[p]` | the search process: unborn, searching, calling back, watching the payment, and three ways to be gone; the chat it was started for; what it reported |
| `callback[p]` | the Flask thread serving its callback: message sent, record deleted, login deleted, answered |
| `children` | `ReservationService._children` |
| `earlier`, `stopping` | processes of earlier runs (`run_id`), `_shutting_down`; constant here, moved by `SearchRecovery` |
| `pc[t]`, `mode[t]`, `chat[t]`, `pid[t]`, `seen[t]` | where a thread is in its operation, and its locals |
| `told[p]` | history: what the chat was told about the search |

Each operation is cut into steps at the places where another thread can come in
between and matter: between two Redis commands that concern different readers,
around the process calls (`Popen`, `wait`, `kill`), and around Telegram messages.
`start_reservation_process` is `BookBegin`, `BookStart` or `BookRefused`,
`Confirm` or `StartFailed`, `Settle`, and `start_booking`'s own ends, `Stamp` and
`Unbook`. `Confirm` is the end of the grace together with the record's save, with
nothing slow in between. `_record_death` is `BurySave` and `Bury`, shared by a
failed start and by the watchdog as in the code. `cancel_reservation` is
`CancelBegin`, `CancelDelete`, `CancelKill`, `CancelClean`;
`cancel_all_reservations` is the `Sweep*` actions; `detect_dead_searches` is the
`Pass*` actions and the two of `_record_death`. The callback is `CallbackTell`,
`CallbackDrop`, `CallbackForget`. The child is `ChildCalls`, `ChildAnswered`,
`PaymentWatchEnds` and, at any time, `ChildCrashes`.

Abstracted: what is searched for, the account, the wording of messages; the
concurrency limit counts all searches rather than those of one railway;
`_terminate_search_process` is one step (it waits for the process to be gone
before it returns); a process id is never reused, and `_owns_process` finds it in
`/proc` (its answers where there is no `/proc`, or where it cannot be read, are left
out). Redis fails in `SearchRecovery`,
at the one place where the code answers it with more than giving up.

#### Scenarios

Some schedules take an unlikely coincidence, and several promises do not survive
them. `Scenarios` names them, and an instance admits the ones it is about:

| Scenario | The coincidence | What it breaks |
|---|---|---|
| `late_pass` | a chat books again while the watchdog is still in a pass whose snapshot holds its last search (a pass sends a message per death) | `NoOrphan`: `StillRecorded` finds the new record and buries it; with it `OneSearchPerChat`, `TruthfulCrash`, `SessionAgrees` |
| `late_callback` | a chat books again while the callback of its last search is being served | `NoOrphan`, run `callback_overlap`; `RecordedKeepsLogin`, `SessionAgrees` |
| `early_exit` | a search ends, with its callback, inside the start's grace or before the start has finished its bookkeeping | `FinishedNotRecorded`, and with it `TruthfulCrash`; `RecordedKeepsLogin`, `SessionAgrees` |
| `slow_callback` | the callback takes longer than the child's ten seconds | `TruthfulCrash` |
| `cancel_all` | the administrator cancels everything | `TruthfulCrash`, run `sweep_false_crash` |

A second request thread (`Users = {poller, miniapp}`) breaks `OneSearchPerChat`
by itself, run `start_race`. The promises listed first below need none of these
exclusions.

### SearchRecovery

It adds four variables: `phase` (up, stopping, down, or how far
`reconcile_after_restart` is: `reconciling`, `deciding` about one record,
`resuming` a search), `doomed` (the handles `shutdown` found and has still to
stop), `stale` (the records `reconcile_after_restart` read, as far as they are
of an earlier run and not yet settled) and `stops` (the bound). Every action of `SearchLifecycle` is taken as it
is while the application serves. `GoesDown` ends its threads with their locals
and makes what they started a process of an earlier run (`earlier`); Redis stays,
and after a `Crash` the search processes stay too. `ShutdownBegin`,
`ShutdownKill` and `ShutdownEnd` are `shutdown`; `StartUp`, `ReconcileStop`,
`ResumeStale`, `AbandonStale`, `Reconciled`, `ReconcileEnd` are
`reconcile_after_restart`. It calls the same start and the same `_record_death`
as a chat's resume, so those actions are reused, with the poller's locals, which
are free: the poller has not begun yet. `RecordFails` is Redis failing as a search just started is to be
recorded. A process whose callback meets no application, `ChildCallsNobody`,
tries once.

| Accident | What it is | What it breaks |
|---|---|---|
| `cut_request` | the application goes away in the middle of a request, a burial or a resume | `ShutdownStopsAll`, `NoOrphanAcrossRuns`, `NoSilentEnd`, `NothingLeftOver`, `OfferHasLogin` |
| `late_start` | a start while the application shuts down | `ShutdownStopsAll` |
| `late_death` | a watchdog pass under way when the shutdown begins | `TruthfulCrash`, `OfferHasLogin` |
| `lost_callback` | a search ends while nobody serves its callback | `TruthfulResume`, `TruthfulCrash`, `OfferHasLogin` |
| `resume_dies`, `cancel_dying`, `dies_calling` | a death within the grace of a resume at start-up, a cancellation of a search being buried, a crash while the callback is served | `OfferHasLogin` |
| `redis_fails` | Redis fails at the record of a search that has started | `ShutdownStopsAll`, `NoOrphanAcrossRuns`, `NoSilentEnd`, `NothingLeftOver`, `OfferHasLogin` |

Each row was found by admitting that accident alone, as with the scenarios. Of
the scenarios, `late_pass`, `late_callback` and a second request thread break
what they break in `SearchLifecycle` and, with it, the promises that need every
search to be tracked; `early_exit` breaks `TruthfulResume`; and `OfferHasLogin`
survives none of them.

### ChatFront

| Variable | Code |
|---|---|
| `session` | `user_session:<chat>`: `in_progress`, `last_action`, `credentials`, and `train_info` as the dictionary it is |
| `account[r]` | `onboarded:<chat>:<railway>`, the number registered |
| `favourites` | the `train_info` each of them fills in |
| `booking[t]` | the poller's or a Mini App thread's call: at the railway's login, or between the gate and the charge, with its own copy of the session |
| `trial`, `approved`, `requests` | `AccessService` |
| `search`, `schedule`, `slot` | `running_reservation`, `scheduled_search`, `resume_credentials` of the chat |
| `scheduler` | the scheduler thread: at rest, or with the record it has read |
| `fate[a]` | history: what became of each appointment |
| `world` | which chat of the instance this is: its habits, the railways with a fixed account, the forms it sends |

The questions are the members of `UserProgress`, and each `_handle_*` of
`conversation_handler.py` is an action guarded by `Asked`. An answer is the value
later steps tell apart: a station is shared by both railways or Korail's alone, a
date decides which trains run, a time is "given". A wrong answer changes nothing
and is left out. A session read back without its key has a blank password
(`KeyRotated`). A login asked of a railway may be refused, and every refusal has
the consequence the code gives it: the registration is deleted.
`start_booking` is `ConfirmBooking` or `AppStarts`, then `StartBooking`, with
everything another thread can do in between. The gate has all its outcomes: fixed
approvals (`Preapproved`), approvals by the administrator, a trial, and a trial
without a limit (a negative `TrialLimit`). The Mini App's endpoints are
`AppCalls` and one of `AppLists`, `AppStarts`, `AppSchedules`, `AppRefused`, with
the railway's login in between; they work on the same session. That the trains sent
along are of the list shown (`AppChosen`) is the page's doing: `webapp/app.js` drops
the others when a list arrives and books the conditions that list was asked for. The
gateway checks only that they are numbers. The scheduler's
`Tick` reads; `Fire`, `FireReadsLogin` and `FireStarts` work through what was read.

`Appointments` is what scheduled searches promise: an appointment is unmade,
booked, and comes to one end (started, missed, turned away, cancelled, replaced,
lapsed) and never to another. `AppointmentsKept` says that `ChatFront` implements
it, with `fate` for the abstract state.

| Accident | What it is | What it breaks |
|---|---|---|
| `back_to_chat` | trains are listed in the Mini App and the booking goes on in the chat | `WatchedTrainsRun`: a tick on trains of another day |
| `changes_railway` | back to the railway while a form's answers wait | `ConditionsFitRailway` |
| `search_meanwhile` | an appointment made or kept beside another search, whose end deletes the login they share | `AppointmentHasLogin` |
| `during_pass` | cancelled or booked anew while the scheduler goes by what it has read | `AppointmentsKept`: a cancelled appointment starts |
| `key_rotated_midway` | the key of the stored logins changes between two questions | `LoginFits` |
| `both_at_once` | chat and Mini App used in the same seconds | the allowance, by one search for each further thread: `AllowanceKept` says by no more |
| `key_rotated` | the same while a draft waits | nothing: `_draft_login` looks |
| `app_was_down` | no scheduler while an appointment falls due | nothing: the record's lifetime ends it unheard (`lapsed`) |

### RandomSeating

| Variable | Code |
|---|---|
| `rail[r]`, `due` | the railway's side of each reservation, and those whose time to pay is over |
| `run` | the search process in `_run_random_reservation`: its step, its seat, its reservation |
| `search` | running record, dead record or neither |
| `partial` | `partial_reservations:<chat>`, the seats written down |
| `multi` | `multi_reservation_status:<chat>`: a row per seat, and `manually_stopped` |
| `current`, `ready` | `current_seat_index`, `payment_ready:<chat>:<seat>` |
| `watch` | the payment watchdog in `_settle_multi`, with the record it read |
| `reminder`, `user`, `up` | the reminder thread; the poller at a request of the chat; the application |
| `stops`, `orders` | bounds |
| `taken`, `waved`, `noted`, `told` | history: the order a seat was taken for; reservations the chat was told are passed over; reservations on the record; verdicts |

A seat is `TakesSeat`, `SavesPartial`, `NotesSeat`, `SetsIndex`, `TellsOfSeat`,
`WaitIsOver`, `ClearsIndex`, one Redis or Telegram call each, and the run is over
with `Finishes`, `Fails` or `Dies`. The watchdog's pass reads the whole record
(`WatchLooks`), asks of one seat after another, saves the whole record and then
tells (`WatchTells`, which releases the run from its wait). The record is saved
whole by four others (the run, the reminder thread, /notify_off, giving back);
only the watchdog has a request between its read and its save.

| Accident | What it is | What it breaks |
|---|---|---|
| `during_pass` | somebody saves the record while the watchdog asks | `SeatsOnRecord`, `VerdictsTrue` (a seat given back is announced as paid), `TurnsTaken` |
| `cancelled_elsewhere` | a passenger cancels a seat that is still to be paid for on the railway's own site | `VerdictsTrue` (the row is marked PAID and told so), `TurnsTaken` (the next seat is released) |
| `other_window` | `PAYMENT_TIMEOUT_MINUTES` is not the ten minutes a run waits for a payment | `TurnsTaken` |
| `late_payment`, `prompt_drop` | the deadline, or the railway's list, is ahead of the watchdog's question | `VerdictsTrue` |
| `cut_short` | a run or a request ends between the railway's answer and writing it down | `SeatsAsAsked`: a resumed run takes the seat again; giving back: `VerdictsTrue` |
| `partials_lapsed` | two hours from one seat to the restart: the key is gone | `SeatsAsAsked`, `TurnsTaken` |
| `resumed_by_hand` | the chat resumes a run that died holding seats; only a restart looks at `partial_reservations` | `SeatsAsAsked`, `SeatsOnRecord`, `TurnsTaken` |
| `unpaid_reorder` | seats are asked for while others are unpaid: one record for both | `SeatsOnRecord` |
| `after_the_run` | the chat writes "carry on" with the seat of a run that is gone still in `current_seat_index`, or before its own run has set it; or a flag of such a run is still there, and no record, when the next run begins | `TurnsTaken` |

### PaymentWatch

| Variable | Code |
|---|---|
| `seat[b]`, `due[b]` | the railway's side: held, paid, given back, withdrawn (cancelled on the railway's own site) or dropped; whether the payment window is over |
| `record` | `payment_status:<chat>`, a `PaymentStatus`: reservation number, `completed`, `reminder_active`, `cancelled`; `kept` is its existence |
| `lease` | `payment_watch:<chat>`, the owner or nobody |
| `child[b]`, `answer[b]` | where the search process that booked `b` is in `_watch_payment`, and the answer it holds |
| `callback[b]` | the Flask thread serving its callback; `lost` when the application went away under it |
| `ours` | the children `shutdown` would kill |
| `reminder[b]` | the thread `start_reminders` started for `b` |
| `app`, `copy`, `answer[App]` | the application's watchdog in `_check` and `_settle_single`, the record it read and the answer it got |
| `user`, `picked` | the thread serving the chat, in /cancel or in `PendingPaymentService.cancel` |
| `up`, `stops` | the application, and how often it stopped |
| `told[b]`, `dismissed` | history: verdicts announced per booking (counted to two), and bookings the user closed |

The child: `ChildAnswered` ends its callback; `ChildClaim` and `ChildRecord` are
`_claim_the_watch` and `_record_pending_payment`; `ChildWake`, `ChildAsk` and
`ChildHeed` are one turn of the loop; `ChildSettle` and `ChildTell` are
`_settle_payment`. The application's pass: `AppClaim` (or `AppNoClient`, when it
has no login), `AppRead`, `AppAsk`, `AppHeed` (which writes the verdict, from the
copy read before the request), `AppTell`, `AppLeave`. The callback is
`CallbackTell`, `CallbackRemind` (`start_reminders`), `CallbackDrop`; the reminder
loop's end is `ReminderEnds`. The chat: `Silence` (/notify_off), `CancelBegin` and
`CancelClose` (/cancel), `GiveBackBegin`, `GiveBackReleased`, `GiveBackRefused`,
`GiveBackNote`. After `GiveBackRefused` the chat is sent to the railway's own site;
what the user does there, then or at any other time, is `Pay` or `CancelElsewhere`.
`Stop` kills the children on record with this run, `Crash` leaves
them running; `Start` is `reconcile_after_restart`, which ends searches still on
record. Every request to a railway is a step between reading and writing; a
read, change and save with nothing slow in between is one step, and so is the
renewal of the lease.

Abstracted: the seats of a random run (in `RandomSeating`); what becomes of a search that is resumed
at start-up (its process is a new one); the expiry of the payment record, which
comes five minutes after the payment window; a failing Redis command.

| Scenario | The coincidence | What it breaks |
|---|---|---|
| `prompt_drop` | an expired seat leaves the railway's list before the watcher's next look | `PaidIsPaid`, run `expired_as_paid` |
| `cancelled_elsewhere` | the user cancels a seat still to be paid for on the railway's own site, while somebody watches it | `PaidIsPaid` |
| `railway_silent` | the railway cannot be asked at the deadline | `ExpiredIsUnpaid`, run `unanswered_as_expired` |
| `slow_railway` | a request outlasts the lease, or the seat changes hands before its answer is acted on | `VerdictOnce`, `ExpiredIsUnpaid` |
| `slow_callback` | the callback takes longer than the child's ten seconds, so `start_reminders` replaces the record the child filled in | `RecordKept`, and with the number gone `PaidIsPaid` and `SettledIsTold` |
| `second_booking` | the chat books a second seat while the first is unsettled: one record for both | `RecordKept`, `SettledIsTold`, `PaidIsPaid`, `VerdictOnce` |
| `slow_give_back` | a watcher asks, or the application stops, between the railway's release and the record's | `PaidIsPaid` |

Each row was found by admitting that scenario alone. Without it the schedule is
assumed away by a guard named after what it relies on: `Settled`, `Heeded`,
`Unwatched`, `NotGivingBack`.

### What is promised

However the threads interleave:

- `EveryChildHasHandle`: a live search of this run is in `_children`, so shutdown reaches it even when its record is lost;
- `CancelledStaysGone`: a search whose cancellation was announced has no process, and its record does not come back;
- `NoLiveSearchReportedDead`: a search reported dead is dead;
- `DeadRecordCleared`: the record of a process that is gone does not stay.

With one request thread and none of the scenarios:

- `OneSearchPerChat`, `NoOrphan`: never two searches for a chat, never one that is neither recorded nor in the hands of a thread about to record or stop it;
- `TruthfulCrash`: a crash reported is a crash, neither a normal end nor a cancellation;
- `RecordedKeepsLogin`, `SessionAgrees`, `FinishedNotRecorded`: records, login and session agree whenever the chat is at rest.

Of payments, in `PaymentProperties`, without any of its scenarios:

- `PaidIsPaid`, `ExpiredIsUnpaid`: what the chat is told of a seat is what became of it;
- `VerdictOnce`: one verdict per booking, although two watchers and a hand-over between them are at work;
- `RecordKept`: while a booking is watched, the chat's record names it;
- `SettledIsTold`: a booking is not marked settled behind the user's back;
- `OpenSettles`: an open booking is settled in the end, by whichever watcher is left.

Across stops and crashes, in `RecoveryProperties`, without any of its accidents:

- `ShutdownStopsAll`, `NothingLeftOver`, `NoOrphanAcrossRuns`: no search outlives a shutdown, none of an earlier run outlives the next start, and none goes untracked;
- `NoSilentEnd`, `TruthfulResume`: every search of an earlier run is accounted for to its chat, and none is resumed that had booked;
- `OfferHasLogin`: a resume button has a login behind it;
- `StaleRecordSettled`: the record of an earlier run is dealt with in the end.

Of a chat, in `ChatFrontProperties`:

- `AnswersComplete`: by whichever route a chat comes to a question, the answers before it are there; `_build_search_params` reads them without asking;
- `LoginFits`, `ConditionsFitRailway`, `WatchedTrainsRun`: the login, the stations and the trains of a summary go together;
- `AllowanceKept`: no more trials than allowed, for each thread that may book;
- `AppointmentHasLogin`, `AppointmentsKept`: an appointment can be started, and comes to one end.

Of a group, in `SeatingProperties`:

- `SeatsAsAsked`: never more seats than passengers for one order, however often it is resumed;
- `SeatsOnRecord`: a seat held is on the record everything else goes by, whoever saved it last;
- `TurnsTaken`: no next seat before this one is paid, waived or over;
- `VerdictsTrue`: paid is paid and expired is unpaid, on the record and in what is told.

And under every scenario, until the application first stops, `ReminderBacked`: a
record that says reminders are running has a thread running them.

## The runs

| Run | Bounds | Shows |
|---|---|---|
| `lifecycle_serial` | 1 chat, 3 processes, 1 request thread, no scenario | the second group, and types |
| `lifecycle_schedules` | 1 chat, 2 processes, every scenario | the safety part of the first group |
| `lifecycle_fair` | 1 chat, 2 processes, 1 stop, `late_pass`, `late_callback`, `resume_dies`, `lost_callback`, `cancel_dying`, fairness | `DeadRecordCleared`, `StaleRecordSettled` |
| `search_recovery` | 1 chat, 3 processes, 2 stops or crashes, no accident | the promises across restarts, and `TruthfulCrash` there |
| `chat_front` | 1 number, 2 days with a train each, 2 appointments, 1 trial, 8 kinds of chat | the promises to a chat, and types |
| `random_seating` | groups of 2 and 3, 4 reservations, 2 orders, 1 stop, 4 kinds of group | the promises to a group, and types |
| `payment_watch` | 2 bookings, 1 stop or crash, no scenario, fairness | the promises about payments, and types |
| `start_race` | 2 request threads | violates `OneSearchPerChat` |
| `callback_overlap` | `late_callback` | violates `NoOrphan` |
| `sweep_false_crash` | `cancel_all` | violates `TruthfulCrash` |
| `expired_as_paid` | 1 booking, no stop, `prompt_drop` | violates `PaidIsPaid` |
| `unanswered_as_expired` | 1 booking, no stop, `railway_silent` | violates `ExpiredIsUnpaid` |

One chat is enough because every record, every callback and every process
belongs to one chat; chats meet only in `UnderLimit` and in the order in which a
pass or a sweep visits them, which is free. Two processes give every overlap of
one search with the next; the third in `lifecycle_serial` lets a stale trace of
the first meet the search after next. The proofs do not have these bounds.
For payments, two bookings give everything a second one can do to the traces of
the first (its record, its lease, its reminder); one stop, at any step, gives
every hand-over from child to application, and the application's own restart in
the middle of a pass.
In `search_recovery` two stops let a resumed search be stopped and resumed again.
In `chat_front`, one number and one trial reach the limit at once (nobody is
approved in advance there and the trial has a limit; the theorems cover both); two days are
what it takes for an answer to be of another day; the eight chats between them
have every habit, each with the ones it meets; of the accidents `app_was_down`,
`both_at_once` and `key_rotated` are admitted. In `random_seating` three seats
are needed for a turn to be passed twice and four reservations for one too many
of a group of three; the other groups are of two.
Deadlock is checked in `chat_front` only: elsewhere the supply of processes, bookings or
reservations is bounded, so an instance does come to an end.

Fairness (`FairSpec`): a request thread goes on with the operation it began, the
watchdog goes on with its passes and begins new ones (its loop catches every
exception), a callback is served to its end. Nothing is assumed of users, of the
search processes or of the kernel: a search may run forever or crash at any time.

In `SearchRecovery`, `FairRecovery` adds that a stopped application is started
again (its supervisor) and that shutdown and start-up go on with what they began.

In `PaymentWatch`, child, callback, reminder, watchdog and request threads go on;
a lease nobody renews lapses (its expiry); a stopped application starts again
(its supervisor). A deadline comes by the clock, whatever the threads do: strong
fairness, because the model holds it back while an answer is on its way. A pass
without a login, `AppNoClient`, may happen but not forever, so `OpenSettles` is
for chats whose account still works.

### What the violations show

- `start_race`. The poller and the Mini App pass `_may_start` for the same chat
  before either has saved its record. Both searches run; the second record hides
  the first, which `/cancel` cannot reach and which goes on asking the railway.
- `callback_overlap`. A search calls back; the chat cancels it while the
  endpoint is still sending the message, starts another, and the callback's next
  step deletes the new search's record. The search goes on untracked.
- `sweep_false_crash`. `cancel_all_reservations` stops the process first and
  deletes the record last, the order `cancel_reservation` was changed away from:
  the watchdog tells the chat of a crash that was a cancellation.
- `expired_as_paid`. The watch sleeps until the deadline and asks once more; an
  unpaid seat that the railway has already taken off its list is `gone`, and gone
  is announced as paid. Both watchers do this.
- `unanswered_as_expired`. The seat is paid for while the railway cannot be asked;
  at the deadline the child's loop ends and announces that it expired unpaid.
  The application's watch, for the same answer, says nothing.

### What else the modelling met

These need an accident, or concern behaviour no promise is about, and are not runs of their own:

- `save_scheduled_search` gives the record a lifetime that ends with the grace
  (`storage/redis.py:182–194`), so the branch of `_fire` that tells the chat its
  appointment was missed (`scheduled_search_service.py:227–251`) is all but
  unreachable: after a longer outage the record is gone and nobody hears of it.
- A scheduled search is started past the gate and charged to no allowance.
- A railway that cannot be reached at login counts as a refusal, and deletes the registration.
- The end of a search resets the session, whatever the chat is answering by then.
- Some flows take the next text whatever it answers: a pending rename, the
  notification setting, the administrator's password.
- The Mini App keeps favourites without the chat's `MAX_FAVOURITES`; its
  `cancel_search` leaves the login slot; `request_access` asks by the Korail
  account even where SRT's number was refused.
- A seat cancelled on the railway's own site before its deadline is announced as
  paid. The list does not say why a seat is off it (`korail_service.py:382–384`: paid
  for, cancelled or expired), and both watchers take it for a payment
  (`telebotBackProcess.py:648–650`, against its docstring at 607–608;
  `payment_watchdog_service.py:232–234`); of a group the row is marked PAID and the
  next seat released (267–268, 279–280). A refused give-back sends the user there
  (`PAYMENT_CANCEL_FAILED`). This is `cancelled_elsewhere`.
- `delete_partial_reservations` has no caller. A later search of the chat within
  two hours is therefore not resumed at start-up, and is told its seats are
  already reserved.
- `current_seat_index` stays after a run has failed: the chat's next text is taken for "carry on".
- Reminders for several seats are not restarted after the application is.
- Between `delete` and `kill`, /cancel holds a search that no record names; a
  crash there leaves it running (`cut_request`).

## The proofs

`SearchLifecycleProofs` assumes nothing but `LifecycleAssumption`: any chats, any
processes, any request threads, any subset of the scenarios. The promises of the
first group are not inductive. That a cancelled record stays gone, for instance,
needs that the process a start is about to record is known to no other thread.
`CoreInv` adds what it takes:

- `NamesInv`: whatever names a process names one that was born, for that chat;
- `LocalsInv`: what each thread holds at each step of its operation;
- `RecordOnceInv`: until a start is confirmed only its thread knows the process (`FreshInv`), and a record deleted by `/cancel` is not there any more (`CancelInv`).

`TypeCorrect`, `HandleKept`, `CancelledIsGone` and `ReportedDeadIsDead` follow,
each step by step of `Next`.

`SearchSerialProofs` assumes `Serial`: one request thread, no `late_pass` and no
`late_callback`. `SerialInv` says that a chat's live search, the start under way,
the record, the dead record and the callbacks under way exclude each other in
the right way. `NothingOrphaned` and `OneSearch` are its consequences. That a
dead and a running record never coexist is part of it, and is what makes it safe
for `resume_dead_search` not to look for a running search.

`SearchRecordProofs` goes on from there to what Redis says of a search.

- `FinishedLeavesNoRecord` assumes only `Outlasts`, no `early_exit`: `CalledInv` says that a callback begins when the start that spawned its process has returned, so the record it drops is one that was written.
- `RecordHasLogin` and `SessionIsBacked` assume `Serial` besides. Both properties speak of a chat at rest; `LoginInv` and `SessionInv` say of every other moment who is about to restore what is missing: the watchdog between its two deletes, a cancellation, a callback that has yet to reset the session.
- `CrashesAreTrue` assumes `Undisturbed`: `Serial` and no scenario. `CrashInv` says that a crash is the only end that leaves a record behind.

`SearchRecoveryProofs` uses all of that again: while the application serves, its
steps are those of `SearchLifecycle` (`StepKinds`), and `NextKeeps` says once what
no such step takes back. `BaseInv` holds whatever happens, with any threads,
scenarios and accidents: the lifecycle's `CoreInv`, and `BootInv`, that while the
application does not serve there is nobody at work but start-up, and that what
start-up has to settle is of an earlier run. Everything else needs some of the
accidents left out:

| Assumption | Leaves out | Theorems |
|---|---|---|
| `Tracked` | `Serial`'s three, `cut_request`, `redis_fails` | `EarlierRunsAreOver`, `NothingOrphanedByRestarts`, `NoneEndsSilently`; with `NoLateStart`, `ShutdownIsComplete` |
| `Outlasts`, `Delivered` | `early_exit`, `lost_callback` | `ResumesAreTrue`, for any threads |
| `Tracked`, `Undisturbed`, `NoLateDeath`, `Delivered` | every scenario, and `cut_request`, `redis_fails`, `late_death`, `lost_callback` | `CrashesStayTrue` |
| `Untroubled` | every scenario, and every accident but `late_start` | `OffersAreGood` |

The argument is that a restart finds what the last run left in order. `TrackInv`
is `SerialInv`, except while start-up resumes a search: then the record of the
search it replaces is still there (`ResumeInv`), which `SerialInv` forbids, and
which the confirmation overwrites. `LeftInv` follows from it: since no search goes
untracked, whatever is left of earlier runs is on start-up's list until it is
settled. `HeardInv` says of every search that somebody still has to tell its chat
unless it has been told; `ShutInv` that the handles are all the searches there are
once no start can slip in; `ResumedInv` that what start-up resumes had not called
back. `StopInv` is `CrashInv` with two ends that are no crash, the shutdown's and
start-up's. `OfferInv` says why nobody is about to delete the login of a search
that is offered for a resume.

`PaymentProofs` assumes nothing but `WatchAssumption` for `TypeCorrect`, and for
`RemindersBacked`, to which `RemindersInv` adds that only a record that exists can
say that reminders run. Its `ExpiredWasUnpaid` assumes only `RailwayAnswers`,
neither `slow_railway` nor `railway_silent`; overlapping bookings, late callbacks,
early drops and slow give-backs are all admitted. `YoungInv` says that a deadline
lies ahead until its watch begins, and `AnswerInv` that a watcher's answer is
still so when it acts on it. A verdict other than paid is then one that no payment
can overtake.

Its second part, the verdict, assumes `Unhurried`: neither `second_booking` nor
`slow_railway`. The other four scenarios are admitted, and so is any number of
bookings and stops, which is more than the run `payment_watch` covers.
`VerdictOnce` says nothing of who may still speak, so `VerdictInv` adds it:

- `LeaseInv`, `AloneInv`: whoever watches holds the lease, and while a search process lives there is no pass of the application;
- `ClosedInv`: from a verdict's writing to its sending, the record has nothing to claim;
- `UntoldInv`: what may still be announced has not been;
- `NamesInv`: the record names a booking that was made.

`OneVerdict` follows. With `slow_railway` it is false: the lease lapses under a
child whose answer is on its way, and both watchers announce it.

The next part assumes `Orderly`: beside `railway_silent`, it admits `prompt_drop`,
`cancelled_elsewhere` and `slow_give_back`, the three by which a seat is off the list
unpaid. It rests on `VerdictInv`, which says that a child and a pass of the application
never watch at once, and adds `RecordInv`:

- `WrittenInv`: whatever names a booking names one its process has written down;
- `ServedInv`: a process watches only once its callback has been served, so nothing keeps the record of an earlier booking or of its own search;
- `FreshInv`: a record just written is not completed, which is why a process may watch before it claims.

`RecordKept` is part of it and `SettledIsTold` follows. For `PaidWasPaid`, the three
have to go as well, `SeatsStay`: then

- `SeatInv`: a seat in a watcher's hands is held or paid for, or the record says it is settled;
- `GoneInv`: a booking missing from the railway's list was paid for or settled.

That is the theorem's limit. The list does not say why a seat is off it, so "paid is
paid" holds only where nothing but a payment, or the bot itself, takes it off before
somebody looks. What holds under every schedule, those three and the others included,
is `PaidWasGone`: paid is told of no seat that still awaits payment. The seat was
paid for, has run out, or was given up by its user, here or on the railway's site.

`SeatingProofs` has seven theorems, for groups of any size and any number of
reservations, orders, deaths and restarts. Each leaves out the accidents its
property's row above names, and no others:

- `TypeCorrect`, without exception. `ShapeInv` is `TypeOK` with what the run and
  the watchdog hold at each step: only a seat of the record is asked about, and a
  mark is of a seat found paid.
- `NoSeatTooMany` assumes `NothingLost`. It counts the reservations of an order,
  which needs the library's theorems on cardinality. `RunInv` says that a run has
  counted by its seat what it has taken, and `OrdersInv` that an order with
  nothing written down has taken nothing, which is what makes it safe for a
  restart to begin with the first seat.
- `VerdictsTellLapses` assumes `Prompt`: nobody saves during a pass, seats are asked
  about in time, and nobody ends between an answer of the railway and writing it
  down. Cancellations on the railway's own site are admitted: a seat called paid was
  paid for or cancelled there, one called expired was not paid for. Under
  `NoneWithdrawn`, no such cancellation, this is `VerdictsAreTrue`.
- `NoSeatMissing` assumes `Orderly`: nobody saves during a pass, and no run
  starts on seats that are still unpaid.
- `NoStrayFlag` assumes `InTurn`, and is about steps, not states: a run leaves a seat
  for the next only where it was paid for, cancelled on the railway's site, over or
  waved on. Under `NoneWithdrawn` this is `NobodyPassedOver`.

The last five rest on two invariants between them. `OnceInv`: a reservation is
taken once, so that what the run has not noted yet is on no record, in nobody's
hand and not over. `PassInv`: during a pass the record in the watchdog's hand is
the one in Redis but for what it has settled, and what it has settled is as the
railway said when it was asked. Then

- `VerdictsInv` says of every row what its status means: a pending seat is held
  or paid, or cancelled on the railway's site, or given back and about to be recorded
  as such; once it is over it is
  not paid any more;
- `RecInv` finds for every seat that can be paid for the row it stands on, which
  a run that is alive is past noting;
- `TurnInv` says that no flag, no row and no index is of a seat to come, and that
  the flag of the seat the run holds is there because it was paid for,
  cancelled, over or waved on. What an earlier run left must be thrown away first: a run that starts
  finds no flag, or a record whose replacement takes the flags with it. This is
  the part that was missing at first. TLC found it on an instance with a second
  order: a flag lives for a minute and the record may be gone before it, so
  that the next run's first seat is passed over. It is the accident
  `after_the_run` now.

`ConversationProofs` has three theorems, for any phone numbers, dates, trains and
kinds of chat, and for any number of appointments and trials. They share one
invariant, `ChatInv`: the session is a `GoodSession`, every session in the hand of
a thread is a `GoodBooking`, and every favourite is complete. `AnswersComplete`
speaks of the last questions only; a `GoodSession` says at every question what the
chat has answered by then (`Complete`), and what makes each way round the questions
safe: that an answer which fills in several at once filled in all of them
(`Sound`), that a stashed draft is as complete as where it was left (`DraftOf`),
that a form's answers wait for the login and nothing else (`StationsOK`). There is
one lemma `...Good` for each answer, command and request, from those before it on
the operators of `ChatSession`.

- `AnswersAreComplete` has no hypothesis: every accident is admitted.
- `ConditionsFit` assumes `RailwayStays`, without `changes_railway`.
- `WatchedTrainsDoRun` assumes `ListsStay`, without `back_to_chat`.

Each hypothesis is needed by its own part of `GoodSession` (`StationsOK`, `TrainsOK`)
and stands before that part only, so that one proof serves all three. The
kinds of chat of the run `chat_front` satisfy both, and are far from all that do.

`ChatFrontProofs` goes on to what a chat is promised beside the questions:

- `AppointmentsAreKept` assumes `PassesUndisturbed` and proves the refinement.
  The abstract steps need to know that what is fired, cancelled or replaced has
  not come to its end, which `StandingInv` says of the record and of the
  scheduler's hand; and that the scheduler, once it has deleted the record, holds the only one.
- `AllowanceIsKept` has no hypothesis. The count is read before a start
  and written after it, so the bound alone is not inductive: `AllowedInv` adds
  that a booking let through as a trial has one left there, and where both threads
  may be in a booking (`both_at_once`), that the last one let through has. `Slack`
  is the one more trial that two at a time can cost.
- `AppointmentsHaveLogin` assumes `UndisturbedSlot`, neither `during_pass` nor
  `search_meanwhile`. `SlotInv` says that the slot is the appointment's from the
  day it is made until the scheduler has read it, because no search runs and none
  starts beside it.
- `LoginsFit` assumes `KeysStay`, without `key_rotated_midway`, and `UndisturbedSlot`.
  A summary's login is part of `ChatInv`, a running search's of `SlotInv`, and the
  session is where the latter has it from.
- `ChatTypes` has no hypothesis. The type of a session follows from `ChatInv`;
  `TypeOK` of the scheduler is inductive only with what `ScheduleTypes` adds, that a
  scheduler at work holds an appointment.

Only model-checked: `DeadRecordCleared`, `StaleRecordSettled` and `OpenSettles`, which
are liveness under fairness and out of the prover's reach. Every invariant and
action property that a passing run checks is stated by a theorem.

## Plan

Every safety property the runs check is proved. What would say more, in this order:

1. Abstract specifications for the other models, as `Appointments` is for
   `ChatFront`: a search's life as its chat is told of it (`told`), and a booking's.
2. Weaker hypotheses: the theorems under `Tracked` and `Untroubled` leave out some
   accidents for the sake of a shared invariant, not because each breaks each of them.
3. The reading side of storage and the railway's login, in as far as a property
   relates them to what is modelled.

## Not modelled

- Administrator login (`api/auth.py`): a counter of failures and a lockout
  window, changed on one thread and related to nothing else.
- Telegram poller: one thread; its offset is acknowledged by Telegram itself. It
  is the thread the chat's requests run on in every model.
- The search for a seat inside the search process (`rail_service.py`,
  `korail_service.py`, `srt_service.py`): failure streak, wait and repeated login
  on one thread. In the models it holds a seat, fails, or goes on.
- Release announcer: one thread, one marker, written before the notices.
- The Mini App's reads, `cancel_pending` and the signature check; settings and
  notification commands, /status and /help, which read or change what no property is about.
- Serialization of records, encryption beyond a login that cannot be read back,
  wording, keyboards, parsing of dates, stations and phone numbers, logging, the
  web front end.

The railways, Telegram and the kernel are external: a search may find a seat,
fail or never end, a message may take as long as it likes, and a process may die
at any step.
