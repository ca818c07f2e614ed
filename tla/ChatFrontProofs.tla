-------------------------- MODULE ChatFrontProofs --------------------------
(***************************************************************************)
(* What a chat is promised beside the questions, for any number of         *)
(* appointments, phone numbers, dates and kinds of chat: its appointments  *)
(* come to one end, with a login to start them, and it is not charged for  *)
(* more trials than it is allowed.  Each theorem names the accidents that  *)
(* would break it and leaves them out.                                     *)
(***************************************************************************)
EXTENDS ConversationProofs, FiniteSetTheorems

\* The schedules the theorem is about: without the accident during_pass.
PassesUndisturbed == \A w \in Worlds : "during_pass" \notin w.uses

Ends == {"unmade", "booked", "started", "missed", "turned_away", "cancelled", "replaced",
         "lapsed"}

Stands(record) ==
  /\ record = [operator |-> record.operator, appointment |-> record.appointment,
                start_at |-> record.start_at]
  /\ record.appointment \in Appointment
  /\ fate[record.appointment] = "booked"

\* What stands on record, or in the scheduler's hand, has not come to its end; and while
\* the scheduler holds one the chat has no other.
StandingInv ==
  /\ world \in Worlds
  /\ fate \in [Appointment -> Ends]
  /\ schedule # NoRecord => Stands(schedule)
  /\ scheduler = [at |-> scheduler.at, job |-> scheduler.job, late |-> scheduler.late,
                   login |-> scheduler.login]
  /\ scheduler.at \in {"waiting", "fire", "login", "start"}
  /\ scheduler.at # "waiting" => Stands(scheduler.job)
  /\ scheduler.at = "fire" /\ schedule # NoRecord =>
       schedule.appointment = scheduler.job.appointment
  /\ scheduler.at \in {"login", "start"} => schedule = NoRecord

frame == <<world, schedule, scheduler, fate>>

\* Booking an appointment, from the chat or from the Mini App.
Books == \E r, login : Schedule(r, login) /\ world' = world

\* Most answers change the session, the accounts and the favourites, and nothing else.
LEMMA AnswersChatOnly ==
  ASSUME Answer
  PROVE  ChatOnly \/ ScheduleInput \/ ConfirmBooking
<1>1. CASE StartConfirmation \/ PhoneInput \/ DateInput \/ SourceInput
  BY <1>1 DEF StartConfirmation, PhoneInput, DateInput, SourceInput, SessionOnly
<1>2. CASE OperatorInput \/ OnboardingOverwrite
  BY <1>2 DEF OperatorInput, OnboardingOverwrite, Becoming
<1>3. CASE PlainInput \/ MaxDepTimeInput \/ PassengerCountInput
  BY <1>3 DEF PlainInput, MaxDepTimeInput, PassengerCountInput, SessionOnly
<1>4. CASE SeatStrategyInput \/ TrainSelectionInput \/ Back
  BY <1>4 DEF SeatStrategyInput, TrainSelectionInput, Back, SessionOnly
<1>5. CASE PasswordInput \/ ResumeDraft \/ SaveFavourite
  BY <1>5 DEF PasswordInput, ResumeDraft, SaveFavourite
<1>6. CASE Decline \/ AskSchedule
  BY <1>6 DEF Decline, AskSchedule, SessionOnly
<1> QED
  BY <1>1, <1>2, <1>3, <1>4, <1>5, <1>6 DEF Answer

\* So do most commands, and the Mini App's registration and favourites.
LEMMA CommandsChatOnly ==
  ASSUME \/ KeyRotated \/ Start \/ Onboarding \/ Logout \/ Leave \/ StartFromFavourite
         \/ DeleteFavourite \/ SubmitForm \/ AppRegister \/ AppSaveFavourite
  PROVE  ChatOnly
<1>1. CASE KeyRotated \/ Onboarding
  BY <1>1 DEF KeyRotated, Onboarding, SessionOnly
<1>2. CASE Start \/ Logout \/ Leave
  BY <1>2 DEF Start, Logout, Leave
<1>3. CASE StartFromFavourite \/ DeleteFavourite \/ SubmitForm
  BY <1>3 DEF StartFromFavourite, DeleteFavourite, SubmitForm
<1>4. CASE AppRegister \/ AppSaveFavourite
  BY <1>4 DEF AppRegister, AppSaveFavourite
<1> QED
  BY <1>1, <1>2, <1>3, <1>4

-----------------------------------------------------------------------------
(* Appointments *)

\* The steps that are not about appointments leave them alone.
LEMMA StepFrame ==
  ASSUME Next
  PROVE  UNCHANGED frame \/ Books \/ Cancel \/ AppCancels \/ Background
<1>1. CASE ChatOnly
  BY <1>1 DEF ChatOnly, schedules, frame
<1>2. CASE Answer
  <2>1. ScheduleInput => Books
    BY DEF ScheduleInput, Books
  <2>2. ConfirmBooking => UNCHANGED frame
    BY DEF ConfirmBooking, Decided, schedules, frame
  <2> QED
    BY <1>1, <1>2, <2>1, <2>2, AnswersChatOnly
<1>3. ASSUME NEW t \in Threads, StartBooking(t)
      PROVE  UNCHANGED frame
  BY <1>3 DEF StartBooking, frame
<1>4. CASE AppCalls \/ AppRefused \/ AppLists
  BY <1>4 DEF AppCalls, AppRefused, AppLists, schedules, frame
<1>5. CASE AppStarts
  BY <1>5 DEF AppStarts, Decided, schedules, frame
<1>6. CASE AppSchedules
  <2>1. world' = world /\ (UNCHANGED schedules \/ \E r, login : Schedule(r, login))
    BY <1>6 DEF AppSchedules
  <2> QED
    BY <2>1 DEF schedules, frame, Books
<1>7. CASE AskAccess \/ DecideAccess
  <2>1. UNCHANGED <<cvars, schedules>>
    BY <1>7 DEF AskAccess, DecideAccess
  <2> QED
    BY <2>1 DEF cvars, schedules, frame
<1>8. CASE SearchEnds
  BY <1>8 DEF SearchEnds, SearchOver, frame
<1> QED
  BY <1>1, <1>2, <1>3, <1>4, <1>5, <1>6, <1>7, <1>8, CommandsChatOnly DEF Next

\* An appointment takes the place of the one before it, here and in what is promised.
LEMMA BooksKeeps ==
  ASSUME PassesUndisturbed, StandingInv, Books
  PROVE  StandingInv' /\ Promised!Next
<1> USE AppointmentAssumption
<1>1. PICK r, login : Schedule(r, login) /\ world' = world
  BY DEF Books
<1>2. PICK a \in Appointment :
        /\ fate[a] = "unmade"
        /\ scheduler.at = "waiting"
        /\ schedule' = [operator |-> r, appointment |-> a, start_at |-> "later"]
        /\ fate' = [b \in Appointment |-> CASE b = a -> "booked"
                                            [] fate[b] = "booked" -> "replaced"
                                            [] OTHER -> fate[b]]
        /\ scheduler' = scheduler
  <2>1. NotInAPass => scheduler.at = "waiting"
    BY DEF StandingInv, PassesUndisturbed, NotInAPass, Uses
  <2> QED
    BY <1>1, <2>1 DEF Schedule
<1>3. Promised!Next
  BY <1>2 DEF Promised!Next, Promised!Book
<1>4. StandingInv'
  BY <1>1, <1>2 DEF StandingInv, Stands, Ends
<1> QED
  BY <1>3, <1>4

\* A chat takes back the appointment that stands, if one does.
LEMMA WithdrawsKeeps ==
  ASSUME PassesUndisturbed, StandingInv, Cancel \/ AppCancels
  PROVE  StandingInv' /\ [Promised!Next]_fate
<1>1. /\ scheduler.at = "waiting"
      /\ schedule' = NoRecord /\ fate' = Withdrawn
      /\ UNCHANGED <<world, scheduler>>
  <2>1. NotInAPass => scheduler.at = "waiting"
    BY DEF StandingInv, PassesUndisturbed, NotInAPass, Uses
  <2> QED
    BY <2>1 DEF Cancel, AppCancels
<1>2. CASE schedule = NoRecord
  BY <1>1, <1>2 DEF StandingInv, Withdrawn
<1>3. CASE schedule # NoRecord
  <2>1. /\ schedule.appointment \in Appointment
        /\ fate[schedule.appointment] = "booked"
    BY <1>3 DEF StandingInv, Stands
  <2>2. fate' = [fate EXCEPT ![schedule.appointment] = "cancelled"]
    BY <1>1, <1>3, <2>1 DEF Withdrawn, Fated
  <2>3. Promised!Next
    BY <2>1, <2>2 DEF Promised!Next, Promised!Cancel, Promised!Becomes
  <2>4. StandingInv'
    BY <1>1, <2>1, <2>2 DEF StandingInv, Ends
  <2> QED
    BY <2>3, <2>4
<1> QED
  BY <1>2, <1>3

\* The scheduler's pass, the time, and a record nobody fired.
LEMMA BackgroundKeeps ==
  ASSUME StandingInv, Background
  PROVE  StandingInv' /\ [Promised!Next]_fate
<1>0. world' = world
  BY DEF Background, cvars
<1>1. CASE TimePasses
  <2>1. schedule # NoRecord /\ Stands(schedule)
    BY <1>1 DEF TimePasses, StandingInv
  <2>2. /\ schedule' = [operator |-> schedule.operator, appointment |-> schedule.appointment,
                        start_at |-> "due"]
        /\ UNCHANGED <<scheduler, fate>>
    BY <1>1, <2>1 DEF TimePasses, Stands
  <2> QED
    BY <1>0, <2>1, <2>2 DEF StandingInv, Stands
<1>2. CASE Lapse
  <2>1. /\ schedule # NoRecord /\ Stands(schedule) /\ scheduler.at = "waiting"
        /\ schedule' = NoRecord /\ UNCHANGED scheduler
        /\ fate' = [fate EXCEPT ![schedule.appointment] = "lapsed"]
    BY <1>2 DEF Lapse, StandingInv, Fated
  <2>2. Promised!Next
    BY <2>1 DEF Stands, Promised!Next, Promised!Lapse, Promised!Becomes
  <2>3. StandingInv'
    BY <1>0, <2>1 DEF StandingInv, Stands, Ends
  <2> QED
    BY <2>2, <2>3
<1>3. CASE Tick
  <2>1. /\ schedule # NoRecord /\ Stands(schedule)
        /\ UNCHANGED <<schedule, fate>>
    BY <1>3 DEF Tick, StandingInv
  <2>2. PICK late \in BOOLEAN :
          scheduler' = [at |-> "fire", job |-> schedule, late |-> late, login |-> NoCredentials]
    BY <1>3 DEF Tick, AtRest
  <2> QED
    BY <1>0, <2>1, <2>2 DEF StandingInv, Stands
<1>4. CASE Fire
  <2>1. /\ scheduler.at = "fire" /\ Stands(scheduler.job)
        /\ schedule' = NoRecord
    BY <1>4 DEF Fire, StandingInv
  <2>2. CASE scheduler.late
    <3>1. /\ fate' = [fate EXCEPT ![scheduler.job.appointment] = "missed"]
          /\ scheduler' = AtRest
      BY <1>4, <2>2 DEF Fire, Fated
    <3>2. Promised!Next
      BY <2>1, <3>1 DEF Stands, Promised!Next, Promised!Miss, Promised!Becomes
    <3>3. StandingInv'
      BY <1>0, <2>1, <3>1 DEF StandingInv, Stands, Ends, AtRest
    <3> QED
      BY <3>2, <3>3
  <2>3. CASE ~scheduler.late
    <3>1. /\ UNCHANGED fate
          /\ scheduler' = [at |-> "login", job |-> scheduler.job, late |-> scheduler.late,
                            login |-> scheduler.login]
      BY <1>4, <2>3 DEF Fire, StandingInv
    <3> QED
      BY <1>0, <2>1, <3>1 DEF StandingInv, Stands
  <2> QED
    BY <2>2, <2>3
<1>5. CASE FireReadsLogin
  <2>1. /\ scheduler.at = "login" /\ Stands(scheduler.job) /\ schedule = NoRecord
        /\ UNCHANGED schedule
    BY <1>5 DEF FireReadsLogin, StandingInv
  <2>2. CASE slot = NoCredentials
    <3>1. /\ fate' = [fate EXCEPT ![scheduler.job.appointment] = "turned_away"]
          /\ scheduler' = AtRest
      BY <1>5, <2>2 DEF FireReadsLogin, Fated
    <3>2. Promised!Next
      BY <2>1, <3>1 DEF Stands, Promised!Next, Promised!TurnAway, Promised!Becomes
    <3>3. StandingInv'
      BY <1>0, <2>1, <3>1 DEF StandingInv, Stands, Ends, AtRest
    <3> QED
      BY <3>2, <3>3
  <2>3. CASE slot # NoCredentials
    <3>1. /\ UNCHANGED fate
          /\ scheduler' = [at |-> "start", job |-> scheduler.job, late |-> scheduler.late,
                            login |-> slot]
      BY <1>5, <2>3 DEF FireReadsLogin, StandingInv
    <3> QED
      BY <1>0, <2>1, <3>1 DEF StandingInv, Stands
  <2> QED
    BY <2>2, <2>3
<1>6. CASE FireStarts
  <2>1. /\ scheduler.at = "start" /\ Stands(scheduler.job) /\ schedule = NoRecord
        /\ UNCHANGED schedule /\ scheduler' = AtRest
    BY <1>6 DEF FireStarts, StandingInv
  <2>2. PICK started \in BOOLEAN :
          fate' = [fate EXCEPT ![scheduler.job.appointment] =
                     IF started THEN "started" ELSE "turned_away"]
    BY <1>6 DEF FireStarts, Fated
  <2>3. Promised!Next
    BY <2>1, <2>2 DEF Stands, Promised!Next, Promised!Start, Promised!TurnAway, Promised!Becomes
  <2>4. StandingInv'
    BY <1>0, <2>1, <2>2 DEF StandingInv, Stands, Ends, AtRest
  <2> QED
    BY <2>3, <2>4
<1> QED
  BY <1>1, <1>2, <1>3, <1>4, <1>5, <1>6 DEF Background, Scheduler

\* Every step does something to the appointments that was promised, or nothing.
LEMMA StepKeeps ==
  ASSUME PassesUndisturbed, StandingInv, [Next]_fvars
  PROVE  StandingInv' /\ [Promised!Next]_fate
<1>1. CASE UNCHANGED frame
  BY <1>1 DEF frame, StandingInv, Stands
<1>2. CASE UNCHANGED fvars
  BY <1>2, <1>1 DEF fvars, cvars, schedules, frame
<1>3. CASE Next
  BY <1>1, <1>3, StepFrame, BooksKeeps, WithdrawsKeeps, BackgroundKeeps
<1> QED
  BY <1>2, <1>3

\* An appointment comes to one end and stays there: what the chat, the Mini App and the
\* scheduler do (ScheduledSearchService, handle_cancel, cancel_search) implements
\* Appointments, for any number of appointments, as long as no chat cancels or books anew
\* in the middle of a pass.
THEOREM AppointmentsAreKept == ASSUME PassesUndisturbed PROVE Spec => AppointmentsKept
<1>1. Init => StandingInv /\ Promised!Init
  BY DEF Init, ConversationInit, ScheduleInit, AtRest, StandingInv, Ends, Promised!Init
<1>2. StandingInv /\ [Next]_fvars => StandingInv' /\ [Promised!Next]_fate
  BY StepKeeps
<1> QED
  BY <1>1, <1>2, PTL DEF Spec, AppointmentsKept, Promised!Spec

-----------------------------------------------------------------------------
(* The allowance *)

Busy(t) == booking[t].at # "idle"

\* A booking let through as a trial of this number, and not charged yet.
OnTrial(t, n) ==
  booking[t].at = "start" /\ booking[t].level = "trial" /\ booking[t].session.credentials.id = n

Slack == IF Uses("both_at_once") THEN 1 ELSE 0

\* A booking let through has a trial left when it is the last that was; the one before it
\* may find it taken, where two threads can be in a booking at all.
AllowedInv ==
  /\ trial \in [Numbers -> Nat]
  /\ booking = [t \in Threads |-> booking[t]]
  /\ Uses("both_at_once") \/ \A t, u \in Threads : Busy(t) /\ Busy(u) => t = u
  /\ \A n \in Numbers :
       IF NoLimit THEN trial[n] = 0
       ELSE /\ trial[n] <= TrialLimit + Slack
            /\ \A t \in Threads : OnTrial(t, n) => trial[n] < TrialLimit + Slack
            /\ \A t, u \in Threads : t # u /\ OnTrial(t, n) /\ OnTrial(u, n) =>
                 trial[n] < TrialLimit

LEMMA SlackIs == Slack \in {0, 1} /\ Slack \in Nat /\ (Uses("both_at_once") <=> Slack = 1)
  BY DEF Slack

\* A step of one thread, alone in a booking or beside the other.
LEMMA MoveKeeps ==
  ASSUME AllowedInv, NEW t \in Threads, NEW b,
         booking' = [booking EXCEPT ![t] = b], UNCHANGED <<world, trial>>,
         Uses("both_at_once") \/ \A u \in Threads : u # t => ~Busy(u),
         \A n \in Numbers : b.at = "start" /\ b.level = "trial" /\ b.session.credentials.id = n
                            => NoLimit \/ trial[n] < TrialLimit
  PROVE  AllowedInv'
<1>1. booking'[t] = b /\ \A u \in Threads : u # t => booking'[u] = booking[u]
  BY DEF AllowedInv
<1>2. booking' = [u \in Threads |-> booking'[u]]
  BY DEF AllowedInv
<1>3. Uses("both_at_once")' \/ \A u, v \in Threads : Busy(u)' /\ Busy(v)' => u = v
  BY <1>1 DEF AllowedInv, Busy, Uses
<1>4. Slack' = Slack
  BY DEF Slack, Uses
<1>5. ASSUME NEW n \in Numbers, NEW u \in Threads, OnTrial(u, n)'
      PROVE  IF u = t THEN NoLimit \/ trial[n] < TrialLimit ELSE OnTrial(u, n)
  <2>1. CASE u = t
    BY <1>1, <1>5, <2>1 DEF OnTrial
  <2>2. CASE u # t
    BY <1>1, <1>5, <2>2 DEF OnTrial
  <2> QED
    BY <2>1, <2>2
<1>6. ASSUME NEW n \in Numbers, ~NoLimit
      PROVE  /\ trial[n] <= TrialLimit + Slack
             /\ \A u \in Threads : OnTrial(u, n)' => trial[n] < TrialLimit + Slack
             /\ \A u, v \in Threads : u # v /\ OnTrial(u, n)' /\ OnTrial(v, n)' =>
                  trial[n] < TrialLimit
  <2>1. trial[n] \in Nat
    BY DEF AllowedInv
  <2>2. trial[n] < TrialLimit => trial[n] < TrialLimit + Slack
    BY <2>1, SlackIs, GateAssumption
  <2> QED
    BY <1>5, <1>6, <2>2 DEF AllowedInv
<1> QED
  BY <1>2, <1>3, <1>4, <1>6 DEF AllowedInv

\* A booking given up, or ended before it started.
LEMMA IdleKeeps ==
  ASSUME AllowedInv, NEW t \in Threads,
         booking' = [booking EXCEPT ![t] = Idle], UNCHANGED <<world, trial>>,
         Uses("both_at_once") \/ \A u \in Threads : u # t => ~Busy(u)
  PROVE  AllowedInv'
<1>1. Idle.at # "start"
  BY DEF Idle
<1> QED
  BY <1>1, MoveKeeps

\* A booking that the gate has been asked about: let through with a trial left, or not.
LEMMA DecidedKeeps ==
  ASSUME AllowedInv, NEW t \in Threads, NEW s, Decided(t, s),
         Uses("both_at_once") \/ \A u \in Threads : u # t => ~Busy(u)
  PROVE  AllowedInv'
<1> DEFINE searching == At(s, "FINDING_TICKET")
<1> DEFINE level     == Evaluated(searching.credentials.id, IsDeveloper)
<1> DEFINE started   == [Idle EXCEPT !.at = "start", !.level = level, !.session = searching]
<1>1. UNCHANGED <<world, trial>>
  BY DEF Decided, gate
<1>2. /\ started.level = level
      /\ started.session = searching
  <2> HIDE DEF level, searching
  <2> QED
    BY DEF Idle
<1>3. \A n \in Numbers : searching.credentials.id = n /\ level = "trial"
                         => NoLimit \/ trial[n] < TrialLimit
  <2> HIDE DEF searching
  <2> QED
    BY DEF Evaluated
<1>4. \/ booking' = [booking EXCEPT ![t] = Idle]
      \/ booking' = [booking EXCEPT ![t] = started]
  BY DEF Decided
<1>5. CASE booking' = [booking EXCEPT ![t] = Idle]
  BY <1>1, <1>5, IdleKeeps
<1>6. CASE booking' = [booking EXCEPT ![t] = started]
  <2>1. \A n \in Numbers : /\ started.at = "start" /\ started.level = "trial"
                           /\ started.session.credentials.id = n
                           => NoLimit \/ trial[n] < TrialLimit
    <3> HIDE DEF started, level, searching
    <3> QED
      BY <1>2, <1>3
  <2> HIDE DEF started
  <2> QED
    BY <1>1, <1>6, <2>1, MoveKeeps
<1> QED
  BY <1>4, <1>5, <1>6

\* A search that has started: the trial it was let through with is charged.
LEMMA StartKeeps ==
  ASSUME AllowedInv, NEW t \in Threads, StartBooking(t)
  PROVE  AllowedInv'
<1> DEFINE n == booking[t].session.credentials.id
<1> DEFINE level == booking[t].level
<1>1. /\ booking[t].at = "start"
      /\ booking' = [booking EXCEPT ![t] = Idle]
      /\ world' = world
      /\ trial' = trial \/ trial' = Consumed(n, level)
  BY DEF StartBooking
<1>2. Uses("both_at_once") \/ \A u \in Threads : u # t => ~Busy(u)
  BY <1>1 DEF AllowedInv, Busy
<1>3. CASE trial' = trial
  BY <1>1, <1>2, <1>3, IdleKeeps
<1>4. CASE trial' = Consumed(n, level)
  <2>1. level = "trial" => OnTrial(t, n)
    BY <1>1 DEF OnTrial
  <2>2. trial' = [trial EXCEPT ![n] = IF level = "trial" /\ ~NoLimit THEN @ + 1 ELSE @]
    BY <1>4 DEF Consumed, Counts
  <2> HIDE DEF n, level
  <2>3. Idle.at = "idle"
    BY DEF Idle
  <2>4. booking'[t].at = "idle" /\ \A u \in Threads : u # t => booking'[u] = booking[u]
    BY <1>1, <2>3 DEF AllowedInv
  <2>5. \A u \in Threads : \A m \in Numbers : OnTrial(u, m)' => u # t /\ OnTrial(u, m)
    BY <2>4 DEF OnTrial
  <2>6. Slack' = Slack
    BY <1>1 DEF Slack, Uses
  <2>0. ASSUME NEW m \in Numbers, NoLimit
        PROVE  trial'[m] = 0
    BY <2>0, <2>2 DEF AllowedInv
  <2>7. ASSUME NEW m \in Numbers, ~NoLimit
        PROVE  /\ trial'[m] \in Nat
               /\ trial'[m] <= TrialLimit + Slack
               /\ \A u \in Threads : OnTrial(u, m)' => trial'[m] < TrialLimit + Slack
    <3>1. trial[m] \in Nat /\ trial[m] <= TrialLimit + Slack
      BY <2>7 DEF AllowedInv
    <3>2. CASE trial'[m] = trial[m]
      BY <2>5, <2>7, <3>1, <3>2 DEF AllowedInv
    <3>3. CASE trial'[m] # trial[m]
      <4>1. m = n /\ OnTrial(t, m) /\ trial'[m] = trial[m] + 1
        BY <2>1, <2>2, <3>3 DEF AllowedInv
      <4>2. trial[m] < TrialLimit + Slack
        BY <2>7, <4>1 DEF AllowedInv
      <4>3. ASSUME NEW u \in Threads, OnTrial(u, m)'
            PROVE  trial[m] < TrialLimit /\ Slack = 1
        <5>1. u # t /\ OnTrial(u, m)
          BY <2>5, <4>3
        <5>2. Busy(t) /\ Busy(u)
          BY <4>1, <5>1 DEF OnTrial, Busy
        <5> QED
          BY <2>7, <4>1, <5>1, <5>2, SlackIs DEF AllowedInv
      <4> QED
        BY <3>1, <4>1, <4>2, <4>3, SlackIs, GateAssumption
    <3> QED
      BY <3>2, <3>3
  <2>8. \A u, v \in Threads : u # v => u = t \/ v = t
    BY DEF Threads
  <2>9. trial' \in [Numbers -> Nat]
    BY <2>0, <2>2, <2>7 DEF AllowedInv
  <2>10. booking' = [u \in Threads |-> booking'[u]]
    BY <1>1 DEF AllowedInv
  <2>11. Uses("both_at_once")' \/ \A u, v \in Threads : Busy(u)' /\ Busy(v)' => u = v
    BY <1>1, <2>4 DEF AllowedInv, Busy, Uses
  <2> QED
    BY <2>0, <2>5, <2>6, <2>7, <2>8, <2>9, <2>10, <2>11 DEF AllowedInv
<1> QED
  BY <1>1, <1>3, <1>4

LEMMA SameKeeps == ASSUME AllowedInv, UNCHANGED <<booking, world, trial>> PROVE AllowedInv'
  BY DEF AllowedInv, Busy, OnTrial, Slack, Uses

\* The Mini App's calls: from the railway's login to the end of the request.
LEMMA AppKeeps ==
  ASSUME AllowedInv,
         AppCalls \/ AppRefused \/ AppLists \/ AppStarts \/ AppSchedules
  PROVE  AllowedInv'
<1>1. "app" \in Threads
  BY DEF Threads
<1>2. booking["app"].at = "login" =>
        Uses("both_at_once") \/ \A u \in Threads : u # "app" => ~Busy(u)
  BY <1>1 DEF AllowedInv, Busy
<1>3. CASE AppCalls
  <2>1. PICK call, s : /\ booking' = [booking EXCEPT !["app"] =
                             [Idle EXCEPT !.at = "login", !.session = s, !.call = call]]
                       /\ UNCHANGED <<world, trial>>
    BY <1>3 DEF AppCalls, gate
  <2>2. Uses("both_at_once") \/ \A u \in Threads : ~Busy(u)
    BY <1>3 DEF AppCalls, Free, Busy
  <2>3. [Idle EXCEPT !.at = "login", !.session = s, !.call = call].at = "login"
    BY DEF Idle
  <2> QED
    BY <1>1, <2>1, <2>2, <2>3, MoveKeeps
<1>4. CASE AppRefused \/ AppLists \/ AppSchedules
  <2>1. /\ booking["app"].at = "login"
        /\ booking' = [booking EXCEPT !["app"] = Idle]
        /\ UNCHANGED <<world, trial>>
    BY <1>4 DEF AppRefused, AppLists, AppSchedules, AppLogsIn, AppDone, gate
  <2> QED
    BY <1>1, <1>2, <2>1, IdleKeeps
<1>5. CASE AppStarts
  <2>1. booking["app"].at = "login"
    BY <1>5 DEF AppStarts, AppLogsIn
  <2>2. PICK s : Decided("app", s)
    BY <1>5 DEF AppStarts
  <2> QED
    BY <1>1, <1>2, <2>1, <2>2, DecidedKeeps
<1> QED
  BY <1>3, <1>4, <1>5

\* The chat's confirmation: with the gate asked, or back at a question.
LEMMA ConfirmKeeps ==
  ASSUME AllowedInv, ConfirmBooking
  PROVE  AllowedInv'
<1>1. Uses("both_at_once") \/ \A u \in Threads : ~Busy(u)
  BY DEF ConfirmBooking, Asked, Free, Busy
<1>2. UNCHANGED <<booking, world, trial>> \/ \E s : Decided("poller", s)
  BY DEF ConfirmBooking, gate
<1>3. CASE UNCHANGED <<booking, world, trial>>
  BY <1>3, SameKeeps
<1>4. ASSUME NEW s, Decided("poller", s)
      PROVE  AllowedInv'
  BY <1>1, <1>4, DecidedKeeps DEF Threads
<1> QED
  BY <1>2, <1>3, <1>4

\* The other steps neither book nor charge.
LEMMA NothingBooked ==
  ASSUME Next
  PROVE  \/ UNCHANGED <<booking, world, trial>>
         \/ ConfirmBooking \/ \E t \in Threads : StartBooking(t)
         \/ AppCalls \/ AppRefused \/ AppLists \/ AppStarts \/ AppSchedules
<1>1. CASE ChatOnly
  BY <1>1 DEF ChatOnly, gate
<1>2. CASE ScheduleInput \/ Cancel \/ AppCancels \/ SearchEnds
  BY <1>2 DEF ScheduleInput, Cancel, AppCancels, SearchEnds, gate
<1>3. CASE AskAccess
  BY <1>3 DEF AskAccess, RequestAccess, cvars
<1>4. CASE DecideAccess
  <2>1. UNCHANGED <<cvars, schedules>> /\ trial' = trial
    BY <1>4 DEF DecideAccess, Approve, Reject, Revoke
  <2> QED
    BY <2>1 DEF cvars
<1>5. CASE Background
  <2>1. UNCHANGED <<cvars, gate>>
    BY <1>5 DEF Background
  <2> QED
    BY <2>1 DEF cvars, gate
<1> QED
  BY <1>1, <1>2, <1>3, <1>4, <1>5, AnswersChatOnly, CommandsChatOnly DEF Next

LEMMA AllowedKeeps == ASSUME AllowedInv, [Next]_fvars PROVE AllowedInv'
<1>1. CASE UNCHANGED <<booking, world, trial>>
  BY <1>1, SameKeeps
<1>2. CASE UNCHANGED fvars
  BY <1>1, <1>2 DEF fvars, cvars, gate
<1>3. CASE Next
  BY <1>1, <1>3, NothingBooked, ConfirmKeeps, StartKeeps, AppKeeps
<1> QED
  BY <1>2, <1>3

\* A number is not charged for more trials than it is allowed (AccessService.evaluate,
\* consume), although the gate is asked before the search starts and charged after it: for
\* any limit, numbers and kinds of chat, and with one more where chat and Mini App are used
\* in the same seconds.
THEOREM AllowanceIsKept == Spec => []AllowanceKept
<1>1. Init => AllowedInv
  <2>1. Idle.at = "idle"
    BY DEF Idle
  <2> QED
    BY <2>1, SlackIs, GateAssumption
    DEF Init, ConversationInit, GateInit, AllowedInv, Busy, OnTrial, NoLimit
<1>2. AllowedInv /\ [Next]_fvars => AllowedInv'
  BY AllowedKeeps
<1>3. Cardinality(Threads) = 2
  <2>1. /\ IsFiniteSet({"poller"}) /\ Cardinality({"poller"}) = 1
        /\ "app" \notin {"poller"}
    BY FS_Singleton
  <2>2. Cardinality({"poller"} \union {"app"}) = 2
    BY <2>1, FS_AddElement
  <2>3. Threads = {"poller"} \union {"app"}
    BY DEF Threads
  <2> QED
    BY <2>2, <2>3
<1>4. AllowedInv => AllowanceKept
  <2>1. (IF Uses("both_at_once") THEN Cardinality(Threads) - 1 ELSE 0) = Slack
    BY <1>3 DEF Slack
  <2>2. CASE NoLimit
    <3> SUFFICES ASSUME AllowedInv, NEW n \in Numbers PROVE trial[n] <= 0
      BY <2>2 DEF AllowanceKept
    <3> QED
      BY <2>2 DEF AllowedInv
  <2>3. CASE ~NoLimit
    BY <2>1, <2>3 DEF AllowedInv, AllowanceKept
  <2> QED
    BY <2>2, <2>3
<1> QED
  BY <1>1, <1>2, <1>4, PTL DEF Spec

-----------------------------------------------------------------------------
(* The login an appointment waits with *)

\* The chats the theorems are about: without the two accidents that leave another login in
\* the slot.
UndisturbedSlot == \A w \in Worlds : {"during_pass", "search_meanwhile"} \intersect w.uses = {}

SlotFits(r) == slot.id # NoNumber /\ slot.by = r

\* The slot is the appointment's from the day it is made until the scheduler has read it,
\* because no search runs or starts beside an appointment.
SlotInv ==
  /\ schedule # NoRecord => SlotFits(schedule.operator)
  /\ scheduler.at \in {"fire", "login"} => SlotFits(scheduler.job.operator)
  /\ scheduler.at = "start" => scheduler.login.by = scheduler.job.operator
  /\ schedule # NoRecord \/ scheduler.at # "waiting" =>
       search = NoRecord /\ \A t \in Threads : booking[t].at # "start"
  /\ KeysStay /\ search # NoRecord => search.login.by = search.operator

NoneStarts == \A t \in Threads : booking'[t].at = "start" => booking[t].at = "start"

LEMMA SlotQuiet == ASSUME SlotInv, UNCHANGED schedules, NoneStarts PROVE SlotInv'
  BY DEF SlotInv, SlotFits, schedules, NoneStarts

LEMMA NoneStartsIs ==
  ASSUME Bookings, NEW t \in Threads, NEW b, booking' = [booking EXCEPT ![t] = b],
         b.at # "start"
  PROVE  NoneStarts
  BY DEF Bookings, NoneStarts

LEMMA DoneIs == ASSUME Bookings, NEW t \in Threads, booking' = [booking EXCEPT ![t] = Idle]
                PROVE  NoneStarts
<1>1. Idle.at # "start"
  BY DEF Idle
<1> QED
  BY <1>1, NoneStartsIs

\* An appointment made with a login of its railway takes the slot.
LEMMA AppointedKeeps ==
  ASSUME UndisturbedSlot, world \in Worlds, StandingInv, SlotInv, NEW r, NEW login,
         Schedule(r, login), NoSearch, login.id # NoNumber, login.by = r, NoneStarts
  PROVE  SlotInv'
<1>1. ~Uses("during_pass") /\ ~Uses("search_meanwhile")
  BY DEF UndisturbedSlot, Uses
<1>2. /\ search = NoRecord /\ scheduler.at = "waiting"
      /\ \A t \in Threads : booking[t].at # "start"
  BY <1>1 DEF NoSearch, Schedule, NotInAPass
<1>3. /\ slot' = login /\ search' = search /\ scheduler' = scheduler
      /\ schedule'.operator = r
  BY DEF Schedule
<1> QED
  BY <1>2, <1>3 DEF SlotInv, SlotFits, NoneStarts

\* A search may start where no appointment stands.
LEMMA DecidedSlot ==
  ASSUME UndisturbedSlot, world \in Worlds, SlotInv, NEW t, NEW s, Decided(t, s)
  PROVE  SlotInv'
<1>1. ~Uses("search_meanwhile")
  BY DEF UndisturbedSlot, Uses
<1>2. /\ schedule = NoRecord /\ scheduler.at = "waiting"
      /\ UNCHANGED <<search, schedule, slot, scheduler>>
  BY <1>1 DEF Decided, NoAppointment, schedules
<1> QED
  BY <1>2 DEF SlotInv

LEMMA StartBookingSlot ==
  ASSUME Bookings, SlotInv, NEW t \in Threads, StartBooking(t)
  PROVE  SlotInv'
<1> DEFINE s == booking[t].session
<1> DEFINE login == s.credentials
<1>1. booking[t].at = "start" /\ UNCHANGED <<schedule, scheduler>>
  BY DEF StartBooking
<1>2. schedule = NoRecord /\ scheduler.at = "waiting"
  BY <1>1 DEF SlotInv
<1>3. KeysStay => login.by = Operator(s)
  BY <1>1 DEF Bookings, GoodBooking, Fits
<1>4. PICK started \in BOOLEAN : StartSearch(Operator(s), login, started)
  BY DEF StartBooking
<1>5. search' = search \/ search' = [operator |-> Operator(s), login |-> login]
  BY <1>4 DEF StartSearch
<1> HIDE DEF s, login
<1> QED
  BY <1>1, <1>2, <1>3, <1>5 DEF SlotInv

\* The scheduler reads the login it was left.
LEMMA BackgroundSlot ==
  ASSUME Bookings, StandingInv, SlotInv, Background
  PROVE  SlotInv'
<1>0. UNCHANGED booking
  BY DEF Background, cvars
<1>1. CASE TimePasses
  <2>1. /\ schedule # NoRecord /\ schedule'.operator = schedule.operator
        /\ UNCHANGED <<search, slot, scheduler>>
    BY <1>1 DEF TimePasses, StandingInv, Stands
  <2> QED
    BY <1>0, <2>1 DEF SlotInv, SlotFits
<1>2. CASE Lapse
  BY <1>0, <1>2 DEF Lapse, SlotInv, SlotFits
<1>3. CASE Tick
  <2>1. /\ schedule # NoRecord /\ UNCHANGED <<search, schedule, slot>>
        /\ scheduler'.at = "fire" /\ scheduler'.job = schedule
    BY <1>3 DEF Tick, AtRest
  <2> QED
    BY <1>0, <2>1 DEF SlotInv, SlotFits
<1>4. CASE Fire
  <2>1. scheduler.at = "fire" /\ schedule' = NoRecord /\ UNCHANGED search
    BY <1>4 DEF Fire
  <2>2. CASE scheduler.late
    <3>1. scheduler' = AtRest
      BY <1>4, <2>2 DEF Fire
    <3> QED
      BY <1>0, <2>1, <3>1 DEF SlotInv, AtRest
  <2>3. CASE ~scheduler.late
    <3>1. /\ scheduler' = [at |-> "login", job |-> scheduler.job, late |-> scheduler.late,
                            login |-> scheduler.login]
          /\ UNCHANGED slot
      BY <1>4, <2>3 DEF Fire, StandingInv
    <3>2. scheduler'.at = "login" /\ scheduler'.job = scheduler.job
      BY <3>1
    <3> QED
      BY <1>0, <2>1, <3>1, <3>2 DEF SlotInv, SlotFits
  <2> QED
    BY <2>2, <2>3
<1>5. CASE FireReadsLogin
  <2>1. scheduler.at = "login" /\ schedule = NoRecord /\ UNCHANGED <<search, schedule, slot>>
    BY <1>5 DEF FireReadsLogin, StandingInv
  <2>2. CASE slot = NoCredentials
    BY <1>0, <1>5, <2>1, <2>2 DEF FireReadsLogin, SlotInv, AtRest
  <2>3. CASE slot # NoCredentials
    <3>1. scheduler' = [at |-> "start", job |-> scheduler.job, late |-> scheduler.late,
                         login |-> slot]
      BY <1>5, <2>3 DEF FireReadsLogin, StandingInv
    <3>2. scheduler'.at = "start" /\ scheduler'.job = scheduler.job /\ scheduler'.login = slot
      BY <3>1
    <3> QED
      BY <1>0, <2>1, <3>2 DEF SlotInv, SlotFits
  <2> QED
    BY <2>2, <2>3
<1>6. CASE FireStarts
  <2>1. /\ scheduler.at = "start" /\ schedule = NoRecord
        /\ UNCHANGED schedule /\ scheduler' = AtRest
    BY <1>6 DEF FireStarts, StandingInv
  <2> DEFINE login == scheduler.login
  <2> DEFINE r == scheduler.job.operator
  <2>2. PICK started \in BOOLEAN : StartSearch(r, login, started)
    BY <1>6 DEF FireStarts
  <2>3. search' = search \/ search' = [operator |-> r, login |-> login]
    BY <2>2 DEF StartSearch
  <2>4. login.by = r
    BY <2>1 DEF SlotInv
  <2> HIDE DEF login, r
  <2>5. KeysStay /\ search' # NoRecord => search'.login.by = search'.operator
    BY <2>3, <2>4 DEF SlotInv
  <2> QED
    BY <2>1, <2>5 DEF SlotInv, AtRest
<1> QED
  BY <1>1, <1>2, <1>3, <1>4, <1>5, <1>6 DEF Background, Scheduler

LEMMA CancelSlot ==
  ASSUME UndisturbedSlot, world \in Worlds, StandingInv, SlotInv, Cancel \/ AppCancels
  PROVE  SlotInv'
<1>1. ~Uses("during_pass")
  BY DEF UndisturbedSlot, Uses
<1>2. /\ search' = NoRecord /\ schedule' = NoRecord
      /\ scheduler.at = "waiting" /\ UNCHANGED scheduler
  BY <1>1 DEF Cancel, AppCancels, NotInAPass
<1> QED
  BY <1>2 DEF SlotInv

\* The appointments made in the chat and in the Mini App, each with the login in hand.
LEMMA MadeKeeps ==
  ASSUME UndisturbedSlot, ChatInv, StandingInv, SlotInv, ScheduleInput \/ AppSchedules
  PROVE  SlotInv'
<1>0. world \in Worlds /\ account \in Accounts /\ Bookings
  BY DEF ChatInv
<1>1. CASE ScheduleInput
  <2>1. /\ session.last_action = "SCHEDULE_PENDING" /\ NoSearch /\ Usable(session.credentials)
        /\ Schedule(Operator(session), session.credentials)
        /\ UNCHANGED booking
    BY <1>1 DEF ScheduleInput, Asked
  <2>2. Fits(session)
    BY <2>1 DEF ChatInv, GoodSession, ReadySession, LoginOK, DraftStates
  <2>3. NoneStarts
    BY <2>1 DEF NoneStarts
  <2> QED
    BY <1>0, <2>1, <2>2, <2>3, AppointedKeeps DEF Fits, Usable
<1>2. CASE AppSchedules
  <2>1. PICK s \in AppChosen(AppSession) :
          \/ NoSearch /\ Schedule(Operator(s), s.credentials)
          \/ UNCHANGED schedules
    BY <1>2 DEF AppSchedules
  <2>2. AppLogsIn("schedule") /\ AppDone
    BY <1>2 DEF AppSchedules
  <2>3. NoneStarts
    BY <1>0, <2>2, DoneIs DEF AppDone, Threads
  <2>4. /\ ReadySession(s) /\ s.last_action \in DraftStates \union {"PW_INPUT"}
        /\ Usable(s.credentials)
    BY <1>0, <2>2, AppChosenGood
  <2>5. Fits(s)
    BY <2>4 DEF ReadySession, LoginOK
  <2> QED
    BY <1>0, <2>1, <2>3, <2>4, <2>5, AppointedKeeps, SlotQuiet DEF Fits, Usable
<1> QED
  BY <1>1, <1>2

LEMMA SlotKeeps ==
  ASSUME UndisturbedSlot, ChatInv, StandingInv, SlotInv, [Next]_fvars
  PROVE  SlotInv'
<1>0. world \in Worlds /\ account \in Accounts /\ Bookings
  BY DEF ChatInv
<1>1. CASE UNCHANGED <<schedules, booking>>
  BY <1>1, SlotQuiet DEF NoneStarts
<1>2. CASE UNCHANGED fvars
  BY <1>1, <1>2 DEF fvars, cvars
<1>3. CASE ChatOnly
  BY <1>1, <1>3 DEF ChatOnly
<1>4. CASE AskAccess \/ DecideAccess
  <2>1. UNCHANGED <<cvars, schedules>>
    BY <1>4 DEF AskAccess, DecideAccess
  <2> QED
    BY <1>1, <2>1 DEF cvars
<1>5. CASE ConfirmBooking \/ AppStarts
  <2>1. UNCHANGED <<schedules, booking>> \/ \E t, s : Decided(t, s)
    BY <1>5 DEF ConfirmBooking, AppStarts
  <2> QED
    BY <1>0, <1>1, <2>1, DecidedSlot
<1>6. CASE AppCalls
  <2>1. PICK call, s : booking' = [booking EXCEPT !["app"] =
                          [Idle EXCEPT !.at = "login", !.session = s, !.call = call]]
    BY <1>6 DEF AppCalls
  <2>2. [Idle EXCEPT !.at = "login", !.session = s, !.call = call].at # "start"
    BY DEF Idle
  <2>3. NoneStarts
    BY <1>0, <2>1, <2>2, NoneStartsIs DEF Threads
  <2> QED
    BY <1>6, <2>3, SlotQuiet DEF AppCalls
<1>7. CASE AppRefused \/ AppLists
  <2>1. UNCHANGED schedules /\ booking' = [booking EXCEPT !["app"] = Idle]
    BY <1>7 DEF AppRefused, AppLists, AppDone
  <2>2. NoneStarts
    BY <1>0, <2>1, DoneIs DEF Threads
  <2> QED
    BY <2>1, <2>2, SlotQuiet
<1>8. CASE SearchEnds
  <2>1. /\ search # NoRecord /\ search' = NoRecord
        /\ UNCHANGED <<schedule, scheduler, booking>>
    BY <1>8 DEF SearchEnds, SearchOver
  <2> QED
    BY <2>1 DEF SlotInv
<1>9. CASE Next
  <2>1. CASE Answer
    BY <1>0, <1>3, <1>5, <2>1, AnswersChatOnly, MadeKeeps
  <2>2. CASE \E t \in Threads : StartBooking(t)
    BY <1>0, <2>2, StartBookingSlot
  <2>3. CASE Cancel \/ AppCancels
    BY <1>0, <2>3, CancelSlot
  <2>4. CASE AppSchedules
    BY <2>4, MadeKeeps
  <2>5. CASE Background
    BY <1>0, <2>5, BackgroundSlot
  <2> QED
    BY <1>3, <1>4, <1>5, <1>6, <1>7, <1>8, <1>9, <2>1, <2>2, <2>3, <2>4, <2>5, CommandsChatOnly
    DEF Next
<1> QED
  BY <1>2, <1>9

\* What the two theorems below share.
LEMMA LoginsKept ==
  ASSUME UndisturbedSlot
  PROVE  Spec => [](ChatInv /\ StandingInv /\ SlotInv)
<1> DEFINE Inv == ChatInv /\ StandingInv /\ SlotInv
<1>1. Init => Inv
  <2> SUFFICES ASSUME Init PROVE Inv
    OBVIOUS
  <2>1. ChatInv
    BY ChatBegins
  <2>2. StandingInv
    BY DEF Init, ConversationInit, ScheduleInit, AtRest, StandingInv, Ends
  <2>3. SlotInv
    BY DEF Init, ScheduleInit, AtRest, SlotInv
  <2> QED
    BY <2>1, <2>2, <2>3
<1>2. Inv /\ [Next]_fvars => Inv'
  <2>1. PassesUndisturbed
    BY DEF UndisturbedSlot, PassesUndisturbed
  <2> QED
    BY <2>1, ChatKeeps, StepKeeps, SlotKeeps
<1> QED
  BY <1>1, <1>2, PTL DEF Spec

\* At a summary the session holds a login, with its password, that the railway of the booking
\* has accepted, and a search that runs was started with such a login (PasswordInput,
\* resume_with_registered_account, _draft_login, _prepared_session, _fire): for any chat, as
\* long as the key of the stored logins does not change under a question, and no second
\* search or appointment takes the slot of resume credentials.
THEOREM LoginsFit == ASSUME KeysStay, UndisturbedSlot PROVE Spec => []LoginFits
<1>1. ChatInv /\ SlotInv => LoginFits
  <2> SUFFICES ASSUME ChatInv, SlotInv PROVE LoginFits
    OBVIOUS
  <2>1. Confirming => Fits(session) /\ Usable(session.credentials)
    BY DEF ChatInv, GoodSession, ReadySession, LoginOK, Fits, Confirming, DraftStates
  <2> QED
    BY <2>1 DEF LoginFits, SlotInv, Fits
<1> QED
  BY <1>1, LoginsKept, PTL

\* An appointment that stands has the login to start it with, of its own railway
\* (ScheduledSearchService.schedule, _prepared_session): for any chat, keys changed or not, as
\* long as no second search or appointment takes the slot of resume credentials.
THEOREM AppointmentsHaveLogin == ASSUME UndisturbedSlot PROVE Spec => []AppointmentHasLogin
<1>1. SlotInv => AppointmentHasLogin
  BY DEF SlotInv, SlotFits, AppointmentHasLogin
<1> QED
  BY <1>1, LoginsKept, PTL

-----------------------------------------------------------------------------
(* The shape of the state *)

GateTypes == /\ trial \in [Numbers -> Nat]
             /\ approved \subseteq Numbers /\ requests \subseteq Numbers

\* The scheduler that works at something works at an appointment.
ScheduleTypes == ScheduleTypeOK /\ (scheduler.at # "waiting" => scheduler.job \in Appointed)

LEMMA NoCredentialsIs == NoCredentials \in Credentials
  BY DEF NoCredentials, Credentials

LEMMA AppointedTypes ==
  ASSUME ScheduleTypes, NEW r \in Railways, NEW login \in Credentials, Schedule(r, login)
  PROVE  ScheduleTypes'
  BY DEF ScheduleTypes, ScheduleTypeOK, Schedule, Appointed

LEMMA StartSearchTypes ==
  ASSUME ScheduleTypeOK, NEW r \in Railways, NEW login \in Credentials, NEW started \in BOOLEAN,
         StartSearch(r, login, started)
  PROVE  search' \in Running \union {NoRecord} /\ slot' \in Credentials
  BY DEF ScheduleTypeOK, StartSearch, Running

\* What an appointment, a search and a login in somebody's hand are made of.
LEMMA HandsHold ==
  ASSUME NEW s, GoodSession(s)
  PROVE  Operator(s) \in Railways /\ s.credentials \in Credentials /\ Shaped(s)
  BY RailwayIs DEF GoodSession, ReadySession, Shaped

LEMMA BackgroundTypes ==
  ASSUME ScheduleTypes, Background
  PROVE  ScheduleTypes'
<1>1. CASE TimePasses
  <2>1. schedule \in Appointed /\ schedule' = [schedule EXCEPT !.start_at = "due"]
    BY <1>1 DEF TimePasses, ScheduleTypes, ScheduleTypeOK
  <2>2. schedule' \in Appointed
    BY <2>1 DEF Appointed
  <2> QED
    BY <1>1, <2>2 DEF TimePasses, ScheduleTypes, ScheduleTypeOK
<1>2. CASE Lapse
  BY <1>2 DEF Lapse, ScheduleTypes, ScheduleTypeOK
<1>3. CASE Tick
  <2>1. PICK late \in BOOLEAN :
          scheduler' = [at |-> "fire", job |-> schedule, late |-> late, login |-> NoCredentials]
    BY <1>3 DEF Tick, AtRest
  <2> QED
    BY <1>3, <2>1, NoCredentialsIs DEF Tick, ScheduleTypes, ScheduleTypeOK
<1>4. AtRest \in [at : {"waiting", "fire", "login", "start"},
                  job : Appointed \union {NoRecord}, late : BOOLEAN, login : Credentials]
  BY NoCredentialsIs DEF AtRest
<1>5. CASE Fire
  <2>1. scheduler.at = "fire" /\ schedule' = NoRecord /\ UNCHANGED search
    BY <1>5 DEF Fire
  <2>2. CASE scheduler.late
    BY <1>4, <1>5, <2>1, <2>2, NoCredentialsIs DEF Fire, ScheduleTypes, ScheduleTypeOK, AtRest
  <2>3. CASE ~scheduler.late
    BY <1>5, <2>1, <2>3 DEF Fire, ScheduleTypes, ScheduleTypeOK
  <2> QED
    BY <2>2, <2>3
<1>6. CASE FireReadsLogin
  <2>1. scheduler.at = "login" /\ UNCHANGED <<search, schedule, slot>>
    BY <1>6 DEF FireReadsLogin
  <2>2. CASE slot = NoCredentials
    BY <1>4, <1>6, <2>1, <2>2 DEF FireReadsLogin, ScheduleTypes, ScheduleTypeOK, AtRest
  <2>3. CASE slot # NoCredentials
    BY <1>6, <2>1, <2>3 DEF FireReadsLogin, ScheduleTypes, ScheduleTypeOK
  <2> QED
    BY <2>2, <2>3
<1>7. CASE FireStarts
  <2>1. scheduler.at = "start" /\ UNCHANGED schedule /\ scheduler' = AtRest
    BY <1>7 DEF FireStarts
  <2>2. PICK started \in BOOLEAN :
          StartSearch(scheduler.job.operator, scheduler.login, started)
    BY <1>7 DEF FireStarts
  <2>3. scheduler.job.operator \in Railways /\ scheduler.login \in Credentials
    BY <2>1 DEF ScheduleTypes, ScheduleTypeOK, Appointed
  <2>4. search' \in Running \union {NoRecord} /\ slot' \in Credentials
    BY <2>2, <2>3, StartSearchTypes DEF ScheduleTypes
  <2> QED
    BY <1>4, <2>1, <2>4 DEF ScheduleTypes, ScheduleTypeOK, AtRest
<1> QED
  BY <1>1, <1>2, <1>3, <1>5, <1>6, <1>7 DEF Background, Scheduler

LEMMA MadeTypes ==
  ASSUME ChatInv, ScheduleTypes, ScheduleInput \/ AppSchedules
  PROVE  ScheduleTypes'
<1>0. account \in Accounts /\ Bookings /\ GoodSession(session)
  BY DEF ChatInv
<1>1. CASE ScheduleInput
  <2>1. Schedule(Operator(session), session.credentials)
    BY <1>1 DEF ScheduleInput
  <2> QED
    BY <1>0, <2>1, HandsHold, AppointedTypes
<1>2. CASE AppSchedules
  <2>1. PICK s \in AppChosen(AppSession) :
          Schedule(Operator(s), s.credentials) \/ UNCHANGED schedules
    BY <1>2 DEF AppSchedules
  <2>2. GoodSession(s)
    BY <1>0, <1>2, AppChosenGood DEF AppSchedules
  <2>3. CASE Schedule(Operator(s), s.credentials)
    BY <2>2, <2>3, HandsHold, AppointedTypes
  <2>4. CASE UNCHANGED schedules
    BY <2>4 DEF schedules, ScheduleTypes, ScheduleTypeOK
  <2> QED
    BY <2>1, <2>3, <2>4
<1> QED
  BY <1>1, <1>2

\* A search started, and its trial charged to the number it was started with.
LEMMA StartBookingTypes ==
  ASSUME ChatInv, ScheduleTypes, GateTypes, NEW t \in Threads, StartBooking(t)
  PROVE  ScheduleTypes' /\ GateTypes'
<1> DEFINE s == booking[t].session
<1> DEFINE level == booking[t].level
<1>1. GoodSession(s) /\ s.credentials.id # NoNumber
  BY DEF ChatInv, Bookings, GoodBooking, StartBooking
<1>2. /\ Operator(s) \in Railways /\ s.credentials \in Credentials
      /\ s.credentials.id \in Numbers
  BY <1>1, HandsHold DEF Credentials
<1>3. UNCHANGED <<schedule, scheduler, approved, requests>>
  BY DEF StartBooking
<1>4. PICK started \in BOOLEAN :
        /\ StartSearch(Operator(s), s.credentials, started)
        /\ trial' = IF started THEN Consumed(s.credentials.id, level) ELSE trial
  BY DEF StartBooking
<1>5. ScheduleTypes'
  <2>1. search' \in Running \union {NoRecord} /\ slot' \in Credentials
    BY <1>2, <1>4, StartSearchTypes DEF ScheduleTypes
  <2> QED
    BY <1>3, <2>1 DEF ScheduleTypes, ScheduleTypeOK
<1>6. Consumed(s.credentials.id, level) \in [Numbers -> Nat]
  <2> DEFINE n == s.credentials.id
  <2>1. n \in Numbers
    BY <1>2
  <2>2. trial[n] + 1 \in Nat
    BY <2>1 DEF GateTypes
  <2> HIDE DEF n, level
  <2>3. Consumed(n, level) \in [Numbers -> Nat]
    BY <2>1, <2>2 DEF Consumed, GateTypes
  <2> QED
    BY <2>3 DEF n
<1> HIDE DEF s, level
<1> QED
  BY <1>3, <1>4, <1>5, <1>6 DEF GateTypes

LEMMA GateMoves ==
  ASSUME ChatInv, GateTypes, AskAccess \/ DecideAccess
  PROVE  GateTypes' /\ UNCHANGED schedules
<1>1. CASE AskAccess
  <2>1. account["KORAIL"] \in Numbers
    BY <1>1, RegisteredIs DEF AskAccess, ChatInv, Railways
  <2> QED
    BY <1>1, <2>1 DEF AskAccess, RequestAccess, GateTypes
<1>2. CASE DecideAccess
  BY <1>2 DEF DecideAccess, Approve, Reject, Revoke, GateTypes
<1> QED
  BY <1>1, <1>2

LEMMA TypesKeep ==
  ASSUME ChatInv, ScheduleTypes, GateTypes, [Next]_fvars
  PROVE  ScheduleTypes' /\ GateTypes'
<1>1. UNCHANGED schedules => ScheduleTypes'
  BY DEF schedules, ScheduleTypes, ScheduleTypeOK
<1>2. UNCHANGED gate => GateTypes'
  BY DEF gate, GateTypes
<1>3. CASE UNCHANGED fvars \/ ChatOnly
  BY <1>1, <1>2, <1>3 DEF fvars, ChatOnly
<1>4. CASE ScheduleInput \/ AppSchedules
  <2>1. UNCHANGED gate
    BY <1>4 DEF ScheduleInput, AppSchedules
  <2> QED
    BY <1>2, <1>4, <2>1, MadeTypes
<1>5. CASE ConfirmBooking \/ AppStarts
  <2>1. UNCHANGED <<schedules, gate>> \/ \E t, s : Decided(t, s)
    BY <1>5 DEF ConfirmBooking, AppStarts
  <2>2. UNCHANGED <<schedules, gate>>
    BY <2>1 DEF Decided
  <2> QED
    BY <1>1, <1>2, <2>2
<1>6. CASE AppCalls \/ AppRefused \/ AppLists
  <2>1. UNCHANGED <<schedules, gate>>
    BY <1>6 DEF AppCalls, AppRefused, AppLists
  <2> QED
    BY <1>1, <1>2, <2>1
<1>7. CASE Cancel \/ AppCancels \/ SearchEnds
  <2>1. /\ UNCHANGED <<scheduler, gate>>
        /\ search' = NoRecord /\ (schedule' = NoRecord \/ schedule' = schedule)
        /\ slot' = NoCredentials \/ slot' = slot
    BY <1>7 DEF Cancel, AppCancels, SearchEnds, SearchOver
  <2> QED
    BY <1>2, <2>1, NoCredentialsIs DEF ScheduleTypes, ScheduleTypeOK
<1>8. CASE Background
  <2>1. UNCHANGED gate
    BY <1>8 DEF Background
  <2> QED
    BY <1>2, <1>8, <2>1, BackgroundTypes
<1>9. CASE AskAccess \/ DecideAccess
  BY <1>1, <1>9, GateMoves
<1>10. CASE Next
  BY <1>3, <1>4, <1>5, <1>6, <1>7, <1>8, <1>9, <1>10, AnswersChatOnly, CommandsChatOnly,
     StartBookingTypes
  DEF Next
<1> QED
  BY <1>3, <1>10

\* A session is at a question, logins are of known numbers, threads between their steps,
\* and trial counts are numbers, whatever a chat does and whatever goes wrong around it.
THEOREM ChatTypes == Spec => []TypeOK
<1> DEFINE Inv == ChatInv /\ ScheduleTypes /\ GateTypes
<1>1. Init => Inv
  <2> SUFFICES ASSUME Init PROVE Inv
    OBVIOUS
  <2>1. ChatInv
    BY ChatBegins
  <2>2. ScheduleTypes
    BY NoCredentialsIs DEF Init, ScheduleInit, AtRest, ScheduleTypes, ScheduleTypeOK
  <2>3. GateTypes
    BY DEF Init, GateInit, GateTypes
  <2> QED
    BY <2>1, <2>2, <2>3
<1>2. Inv /\ [Next]_fvars => Inv'
  BY ChatKeeps, TypesKeep
<1>3. Inv => TypeOK
  <2> SUFFICES ASSUME Inv PROVE TypeOK
    OBVIOUS
  <2>1. Shaped(session) /\ account \in Accounts
    BY DEF ChatInv, GoodSession, ReadySession
  <2>2. \A t \in Threads : booking[t].at \in {"idle", "login", "start"}
    BY DEF ChatInv, Bookings, GoodBooking
  <2> QED
    BY <2>1, <2>2 DEF TypeOK, Shaped, Accounts, GateTypes, ScheduleTypes
<1> QED
  BY <1>1, <1>2, <1>3, PTL DEF Spec
=============================================================================
