------------------------- MODULE ScheduledSearches -------------------------
(***************************************************************************)
(* A search booked for later (ScheduledSearchService), one chat of it.     *)
(*                                                                         *)
(* The record of the appointment holds the conditions and the time; the    *)
(* login waits in the chat's one slot of resume credentials, the slot a    *)
(* running search keeps its own login in.  The scheduler is a thread: it   *)
(* reads all records, then fires the due ones from what it read.           *)
(***************************************************************************)
EXTENDS ChatSession

CONSTANTS
  Appointment,   \* bound: the appointments of the run, numbered
  Worlds         \* the chats of the instance: [uses : what may happen to it, see ChatFront,
                 \*   fixed : the railways whose account is the environment's,
                 \*   forms : what its Mini App is filled in with]

ASSUME AppointmentAssumption == Appointment \subseteq Nat

NoRecord == [operator |-> "none"]
Appointed == [operator : Railways, appointment : Appointment, start_at : {"later", "due"}]
Running   == [operator : Railways, login : Credentials]

VARIABLES
  search,      \* the chat's search process, or none
  schedule,    \* scheduled_search:<chat>
  slot,        \* resume_credentials:<chat>
  scheduler,   \* the scheduler thread: where it is, and the record it goes by
  fate,        \* history: what became of each appointment
  world        \* the chat this is; never changes

Uses(habit) == habit \in world.uses

schedules == <<search, schedule, slot, scheduler, fate>>

AtRest == [at |-> "waiting", job |-> NoRecord, late |-> FALSE, login |-> NoCredentials]

ScheduleInit ==
  /\ search    = NoRecord
  /\ schedule  = NoRecord
  /\ slot      = NoCredentials
  /\ scheduler = AtRest
  /\ fate      = [a \in Appointment |-> "unmade"]

ScheduleTypeOK ==
  /\ search    \in Running \union {NoRecord}
  /\ schedule  \in Appointed \union {NoRecord}
  /\ slot      \in Credentials
  /\ scheduler \in [at : {"waiting", "fire", "login", "start"},
                    job : Appointed \union {NoRecord}, late : BOOLEAN, login : Credentials]

-----------------------------------------------------------------------------
(* What the chat does to it *)

\* A pass of the scheduler is seconds long with several chats' searches to start.
NotInAPass == scheduler.at = "waiting" \/ Uses("during_pass")

Fated(a, end) == [fate EXCEPT ![a] = end]

\* schedule: the login first, so that no record is without one
ScheduleWithoutLogin(r, login) ==
  \E a \in Appointment :
    /\ fate[a] = "unmade" /\ \A b \in Appointment : b < a => fate[b] # "unmade"
    /\ NotInAPass
    /\ schedule' = [operator |-> r, appointment |-> a, start_at |-> "later"]
    /\ fate'     = Fated(a, "booked")
    /\ UNCHANGED <<search, slot, scheduler>>
Schedule(r, login) ==
  \E a \in Appointment :
    /\ fate[a] = "unmade" /\ \A b \in Appointment : b < a => fate[b] # "unmade"
    /\ NotInAPass
    /\ slot'     = login
    /\ schedule' = [operator |-> r, appointment |-> a, start_at |-> "later"]
    /\ fate'     = [b \in Appointment |-> CASE b = a -> "booked"
                                            [] fate[b] = "booked" -> "replaced"
                                            [] OTHER -> fate[b]]
    /\ UNCHANGED <<search, scheduler>>

\* What cancelling writes to the history; nothing is cancelled that has come to its end.
Withdrawn ==
  IF schedule = NoRecord \/ fate[schedule.appointment] # "booked" THEN fate
  ELSE Fated(schedule.appointment, "cancelled")

-----------------------------------------------------------------------------
(* The search a booking or an appointment starts: SearchLifecycle in one step *)

\* start_reservation_process; dies within the grace: its login stays for the resume offered
StartSearch(r, login, started) ==
  IF search # NoRecord THEN ~started /\ UNCHANGED <<search, slot>>
  ELSE \/ ~started /\ search' = search /\ slot' \in {slot, login}
       \/ started  /\ search' = [operator |-> r, login |-> login] /\ slot' = login

\* The search calls back with an answer, and both are dropped.
SearchOver ==
  /\ search # NoRecord
  /\ search' = NoRecord
  /\ slot'   = NoCredentials
  /\ UNCHANGED <<schedule, scheduler, fate>>

-----------------------------------------------------------------------------
(* The scheduler thread *)

TimePasses ==
  /\ schedule # NoRecord
  /\ schedule' = [schedule EXCEPT !.start_at = "due"]
  /\ UNCHANGED <<search, slot, scheduler, fate>>

\* save_scheduled_search gives the record the time until the grace is over to live:
\* with nobody to fire it by then, it is gone before anybody can find it late.
Lapse ==
  /\ Uses("app_was_down")
  /\ scheduler.at = "waiting"
  /\ schedule # NoRecord
  /\ schedule.start_at = "due"
  /\ schedule' = NoRecord
  /\ fate'     = Fated(schedule.appointment, "lapsed")
  /\ UNCHANGED <<search, slot, scheduler>>

\* tick: what is due is read here and worked through below.  For the same lifetime it
\* is late only where the grace ends between reading the record and reading the clock.
Tick ==
  /\ scheduler.at = "waiting"
  /\ schedule # NoRecord
  /\ schedule.start_at = "due"
  /\ \E late \in BOOLEAN :
       scheduler' = [AtRest EXCEPT !.at = "fire", !.job = schedule, !.late = late]
  /\ UNCHANGED <<search, schedule, slot, fate>>

FireKeepsRecord ==
  /\ scheduler.at = "fire"
  /\ scheduler' = [scheduler EXCEPT !.at = "login"]
  /\ UNCHANGED <<search, schedule, slot, fate>>

\* _fire: the chat's record goes, whichever it is by now
Fire ==
  /\ scheduler.at = "fire"
  /\ schedule' = NoRecord
  /\ IF scheduler.late
     THEN /\ slot' = NoCredentials
          /\ fate' = Fated(scheduler.job.appointment, "missed")
          /\ scheduler' = AtRest
     ELSE /\ scheduler' = [scheduler EXCEPT !.at = "login"]
          /\ UNCHANGED <<slot, fate>>
  /\ UNCHANGED search

FireReadsLogin ==
  /\ scheduler.at = "login"
  /\ IF slot = NoCredentials
     THEN /\ scheduler' = AtRest
          /\ fate' = Fated(scheduler.job.appointment, "turned_away")
     ELSE /\ scheduler' = [scheduler EXCEPT !.at = "start", !.login = slot]
          /\ UNCHANGED fate
  /\ UNCHANGED <<search, schedule, slot>>

\* No gate is asked and no trial is charged; the session is not looked at.
FireStarts ==
  /\ scheduler.at = "start"
  /\ \E started \in BOOLEAN :
       /\ StartSearch(scheduler.job.operator, scheduler.login, started)
       /\ fate' = Fated(scheduler.job.appointment, IF started THEN "started" ELSE "turned_away")
  /\ scheduler' = AtRest
  /\ UNCHANGED schedule

Scheduler == Tick \/ Fire \/ FireReadsLogin \/ FireStarts
=============================================================================
