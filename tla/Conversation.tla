---------------------------- MODULE Conversation ----------------------------
(***************************************************************************)
(* A chat answering the questions of a booking (ConversationHandler).      *)
(*                                                                         *)
(* One action per question; an answer the validator refuses changes        *)
(* nothing and is left out.  A railway asked to log in may accept or       *)
(* refuse, and its being out of reach reads as a refusal.  The start of a  *)
(* search takes seconds in which other threads run, so a confirmed booking *)
(* is two steps: what is decided before, and what is saved after.          *)
(***************************************************************************)
EXTENDS ScheduledSearches, AccessGate, FiniteSets

CONSTANTS
  ServerNumber,    \* the login of the accounts from the environment
  MaxFavourites    \* MAX_FAVOURITES

ASSUME ConversationAssumption ==
  /\ ServerNumber \in Numbers
  /\ MaxFavourites \in Nat

VARIABLES
  session,      \* user_session:<chat>
  account,      \* onboarded:<chat>:<railway>, the number registered
  favourites,   \* the train_info each favourite fills in
  booking       \* a thread's call of start_booking, or of the Mini App's endpoints

chat  == <<session, account, favourites>>
cvars == <<session, account, favourites, booking, world>>

Threads == {"poller", "app"}
Calls   == {"list", "start", "schedule"}
Idle    == [at |-> "idle", session |-> NewSession, level |-> "trial", call |-> "start"]

ConversationInit ==
  /\ session    = NewSession
  /\ account    = [r \in Railways |-> NoNumber]
  /\ favourites = {}
  /\ booking    = [t \in Threads |-> Idle]
  /\ world      \in Worlds

\* The poller takes one update at a time; the chat leaves the Mini App alone meanwhile.
Free(t) ==
  /\ booking[t].at = "idle"
  /\ Uses("both_at_once") \/ \A u \in Threads : booking[u].at = "idle"

\* handle_message, reached with a session in progress
Asked(progress) ==
  /\ Free("poller")
  /\ session.in_progress
  /\ session.last_action = progress

\* A chat with an appointment starts no search before it, and makes none during a search.
NoAppointment ==
  \/ Uses("search_meanwhile")
  \/ schedule = NoRecord /\ scheduler.at = "waiting"
NoSearch ==
  \/ Uses("search_meanwhile")
  \/ search = NoRecord /\ \A t \in Threads : booking[t].at # "start"

\* What one answer leaves behind when only the session and the accounts change.
ChatOnly     == UNCHANGED <<booking, world, schedules, gate>>
SessionOnly  == ChatOnly /\ UNCHANGED <<account, favourites>>
Becoming(o)  == session' = o.session /\ account' = o.account /\ UNCHANGED favourites /\ ChatOnly

-----------------------------------------------------------------------------
(* Logging in *)

UsesServerAccount(r) == r \in world.fixed
UsesAnyServerAccount == world.fixed # {}
IsDeveloper          == world.fixed # {}
Registered(r)        == account[r] # NoNumber

Unchanged(s)   == [session |-> s, account |-> account]
Forgotten(r)   == [account EXCEPT ![r] = NoNumber]

\* _login_with_environment_credentials: refused leaves the session alone
ServerLogin(s) == {Unchanged(LoggedIn(s, ServerNumber)), Unchanged(s)}

\* resume_with_registered_account, of a railway registered with
RegisteredLogin(s) ==
  {Unchanged(LoggedIn(s, account[Operator(s)])),
   [session |-> FreshFlow(s), account |-> Forgotten(Operator(s))]}

\* begin_flow
BeginFlow(s) ==
  IF UsesAnyServerAccount \/ ~Registered("KORAIL") THEN {Unchanged(FreshFlow(s))}
                                                   ELSE RegisteredLogin(FreshFlow(s))

\* _draft_login: the session it is resumed with
DraftLoginsUnchecked(s) == {s}
DraftLogins(s) ==
  IF Usable(s.credentials) THEN {s}
  ELSE IF UsesAnyServerAccount
       THEN {LoggedIn(s, ServerNumber) : r \in world.fixed \intersect {Operator(s)}}
  ELSE IF Registered(Operator(s)) THEN {LoggedIn(s, account[Operator(s)])} ELSE {}

\* _draft_login: refused, or nothing to log in with
DraftRefused(s) ==
  IF Usable(s.credentials) THEN {}
  ELSE IF UsesAnyServerAccount THEN {Unchanged(s)}
  ELSE IF Registered(Operator(s))
       THEN RegisteredLogin(s) \ {Unchanged(d) : d \in DraftLogins(s)}
  ELSE BeginFlow(s)

-----------------------------------------------------------------------------
(* Before the conditions: which railway, which account *)

StartConfirmation ==
  /\ Uses("chat")
  /\ Asked("STARTED")
  /\ session' \in {At(session, "OPERATOR_PENDING"), Reset(session)}
  /\ SessionOnly

OperatorInput ==
  /\ Asked("OPERATOR_PENDING")
  /\ \E r \in Railways :
       LET s == Answered(session, "operator", r, "START_ACCEPTED") IN
       \E o \in
         IF Has(s.train_info, "onboarding")
         THEN IF UsesServerAccount(r) THEN {Unchanged(Reset(s))}
              ELSE IF Registered(r) THEN {Unchanged(At(s, "OVERWRITE_PENDING"))}
              ELSE {Unchanged(s)}
         ELSE IF UsesServerAccount(r) THEN ServerLogin(s)
              ELSE IF Registered(r) THEN RegisteredLogin(s) ELSE {Unchanged(s)} :
       Becoming(o)

OnboardingOverwrite ==
  /\ Asked("OVERWRITE_PENDING")
  /\ \E o \in {[session |-> [At(session, "START_ACCEPTED") EXCEPT !.credentials = NoCredentials],
                account |-> Forgotten(Operator(session))],
               Unchanged(Reset(session))} :
       Becoming(o)

PhoneInput ==
  /\ Asked("START_ACCEPTED")
  /\ \E n \in Numbers : session' = [At(session, "ID_INPUT") EXCEPT !.credentials.id = n]
  /\ SessionOnly

\* A refused password stays in the session with the question still open.
PasswordInput ==
  /\ Asked("ID_INPUT")
  /\ LET n == session.credentials.id
         s == LoggedIn(session, n)
     IN \/ /\ session' \in IF Has(s.train_info, "miniAppPending")
                           THEN AfterTrainList(MiniAppFinished(s)) ELSE {s}
           /\ account' = [account EXCEPT ![Operator(s)] = n]
        \/ /\ session' = [session EXCEPT !.credentials = Refused(session.credentials)]
           /\ UNCHANGED account
  /\ UNCHANGED favourites
  /\ ChatOnly

-----------------------------------------------------------------------------
(* The conditions *)

DateInput ==
  /\ Asked("PW_INPUT")
  /\ \E d \in Dates :
       LET s == Answered(session, "depDate", d, "DATE_INPUT") IN
       session' \in IF Has(s.train_info, "fromFavourite")
                    THEN AfterTrainList(At(s, "SEAT_STRATEGY_INPUT")) ELSE {s}
  /\ SessionOnly

\* validate_station_name; one end of the journey stands for both
StationsAnyRailway(s) == {"shared", "korail_only"}
Stations(s) == Serves(Operator(s))

SourceInput ==
  /\ Asked("DATE_INPUT")
  /\ \E name \in Stations(session) : session' = Answered(session, "srcLocate", name, "SRC_INPUT")
  /\ SessionOnly

\* The questions with one answer as far as anything here depends on it.
Plain == [SRC_INPUT          |-> <<"dstLocate", "shared", "DST_INPUT">>,
          DST_INPUT          |-> <<"depTime", "given", "DEP_TIME_INPUT">>,
          MAX_DEP_TIME_INPUT |-> <<"trainType", "ALL", "TRAIN_TYPE_INPUT">>,
          TRAIN_TYPE_INPUT   |-> <<"specialInfo", "given", "SPECIAL_INPUT">>]

PlainInput ==
  \E p \in DOMAIN Plain :
    /\ Asked(p)
    /\ session' = Answered(session, Plain[p][1], Plain[p][2], Plain[p][3])
    /\ SessionOnly

\* SRT has one kind of train, and is not asked which.
MaxDepTimeInput ==
  /\ Asked("DEP_TIME_INPUT")
  /\ LET s == Answered(session, "maxDepTime", "given", "MAX_DEP_TIME_INPUT") IN
     session' = IF OffersTrainTypes(Operator(s)) THEN s
                ELSE Answered(s, "trainType", "SRT", "TRAIN_TYPE_INPUT")
  /\ SessionOnly

\* One passenger is not asked about sitting together.
PassengerCountInput ==
  /\ Asked("SPECIAL_INPUT")
  /\ \E n \in {1, 2} :
       LET s == Answered(session, "passengerCount", n, "PASSENGER_COUNT_INPUT") IN
       session' \in IF n > 1 THEN {s}
                    ELSE AfterTrainList(Answered(s, "seatStrategy", "consecutive",
                                                 "SEAT_STRATEGY_INPUT"))
  /\ SessionOnly

SeatStrategyInput ==
  /\ Asked("PASSENGER_COUNT_INPUT")
  /\ \E kind \in {"consecutive", "random"} :
       session' \in AfterTrainList(Answered(Note(session, "seatStrategyShow", kind),
                                            "seatStrategy", kind, "SEAT_STRATEGY_INPUT"))
  /\ SessionOnly

\* All of the window, the ones ticked, the list anew, or one more tick
TrainSelectionInput ==
  /\ Asked("SEAT_STRATEGY_INPUT")
  /\ LET options == Get(session.train_info, "trainOptions", {}) IN
     \/ session' \in {ListClosed(session, {}), ListClosed(session, Ticked(session))}
     \/ session' \in AfterTrainList(session)
     \/ \E train \in options :
          session' = Note(session, "selectedTrains",
                          (Ticked(session) \ {train}) \union ({train} \ Ticked(session)))
     \/ \E typed \in (SUBSET options) \ {{}} : session' = Note(session, "selectedTrains", typed)
  /\ SessionOnly

-----------------------------------------------------------------------------
(* Back, and the draft *)

Back ==
  /\ Uses("back")
  /\ Free("poller")
  /\ session.in_progress
  /\ session.last_action \in DOMAIN BackTargets
  /\ Uses("changes_railway") \/ ~(session.last_action = "START_ACCEPTED"
                                            /\ Has(session.train_info, "miniAppPending"))
  /\ LET s == At(session, Previous(session)) IN
     session' \in IF s.last_action = "SEAT_STRATEGY_INPUT" THEN AfterTrainList(s) ELSE {s}
  /\ SessionOnly

\* Yes, with a login for it; yes, without one; no.
ResumeDraft ==
  /\ Asked("RESUME_PENDING")
  /\ LET progress == session.train_info.draftProgress IN
     \/ \E s \in DraftLogins(session) :
          LET draft == At([s EXCEPT !.train_info = Drop(@, {"draftProgress"})], progress) IN
          /\ session' \in IF progress = "SEAT_STRATEGY_INPUT" THEN AfterTrainList(draft) ELSE {draft}
          /\ UNCHANGED account
     \/ \E o \in DraftRefused(session) \union BeginFlow(session) :
          session' = o.session /\ account' = o.account
  /\ UNCHANGED favourites
  /\ ChatOnly

-----------------------------------------------------------------------------
(* The summary, and what it leads to *)

\* A login read back after its key was rotated is a number with an empty password.
\* The key changes with a restart; a draft that waits for its chat is what meets it.
KeyRotated ==
  /\ \/ Uses("key_rotated") /\ session.last_action = "RESUME_PENDING"
     \/ Uses("key_rotated_midway")
  /\ Free("poller") /\ Free("app")
  /\ session.credentials.pw = "typed"
  /\ session' = [session EXCEPT !.credentials = Blank(session.credentials)]
  /\ SessionOnly

SaveFavourite ==
  /\ Uses("favourite")
  /\ Asked("TRAIN_SELECT_INPUT")
  /\ Cardinality(favourites) < MaxFavourites
  /\ favourites' = favourites \union {AsFavourite(session.train_info)}
  /\ UNCHANGED <<session, account>>
  /\ ChatOnly

Decline ==
  /\ Asked("TRAIN_SELECT_INPUT")
  /\ session' = Reset(session)
  /\ SessionOnly

AskSchedule ==
  /\ Uses("schedule")
  /\ Asked("TRAIN_SELECT_INPUT")
  /\ session' = At(session, "SCHEDULE_PENDING")
  /\ SessionOnly

ScheduleInput ==
  /\ Asked("SCHEDULE_PENDING")
  /\ Usable(session.credentials)
  /\ NoSearch
  /\ Schedule(Operator(session), session.credentials)
  /\ session' = Reset(session)
  /\ UNCHANGED <<account, favourites, booking, world, gate>>

-----------------------------------------------------------------------------
(* start_booking *)

\* _booking_credentials: what the session holds, usable or not; else the account on file
BookingLogin(s) ==
  IF s.credentials.id # NoNumber THEN {Unchanged(s)}
  ELSE IF Registered(Operator(s)) THEN RegisteredLogin(s) ELSE {Unchanged(Reset(s))}

Proceeds(s) == s.credentials.id # NoNumber /\ s.train_info # Nothing

Decided(t, s) ==
  LET searching == At(s, "FINDING_TICKET")
      level     == Evaluated(searching.credentials.id, IsDeveloper)
  IN
  /\ NoAppointment
  /\ IF level = "exhausted"
     THEN /\ session' = Reset(s)
          /\ booking' = [booking EXCEPT ![t] = Idle]
     ELSE /\ session' = searching
          /\ booking' = [booking EXCEPT ![t] = [Idle EXCEPT !.at = "start", !.level = level,
                                                  !.session = searching]]
  /\ UNCHANGED <<world, schedules, gate>>

ConfirmBooking ==
  /\ Asked("TRAIN_SELECT_INPUT")
  /\ \E o \in BookingLogin(session) :
       /\ account' = o.account
       /\ IF Proceeds(o.session)
          THEN Decided("poller", o.session)
          ELSE session' = o.session /\ UNCHANGED <<booking, world, schedules, gate>>
  /\ UNCHANGED favourites

\* The start itself, then the charge, then the session as this thread holds it.
StartBooking(t) ==
  /\ booking[t].at = "start"
  /\ LET s == booking[t].session IN
     \E started \in BOOLEAN :
       /\ StartSearch(Operator(s), s.credentials, started)
       /\ trial'   = IF started THEN Consumed(s.credentials.id, booking[t].level) ELSE trial
       /\ session' = IF started THEN [s EXCEPT !.credentials = Blank(s.credentials)]
                                ELSE Reset(s)
  /\ booking' = [booking EXCEPT ![t] = Idle]
  /\ UNCHANGED <<account, favourites, world, schedule, scheduler, fate, approved, requests>>

Answer ==
  \/ StartConfirmation \/ OperatorInput \/ OnboardingOverwrite \/ PhoneInput \/ PasswordInput
  \/ DateInput \/ SourceInput \/ PlainInput \/ MaxDepTimeInput \/ PassengerCountInput
  \/ SeatStrategyInput \/ TrainSelectionInput \/ Back \/ ResumeDraft
  \/ SaveFavourite \/ Decline \/ AskSchedule \/ ScheduleInput \/ ConfirmBooking
=============================================================================
