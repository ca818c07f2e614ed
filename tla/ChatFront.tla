------------------------------ MODULE ChatFront ------------------------------
(***************************************************************************)
(* Everything one chat meets: the questions and answers of Conversation,   *)
(* the commands that cut across them, the Mini App that fills the same     *)
(* session from another thread, the scheduler, and the search's end.       *)
(***************************************************************************)
EXTENDS Conversation

(***************************************************************************)
(* What a chat of the instance may do beside answering:                    *)
(*   chat       start a booking by answering the questions                 *)
(*   back       "back" at any question that takes it                       *)
(*   draft      /start again halfway through                               *)
(*   favourite  keep the conditions, and start from them                   *)
(*   onboard, logout, leave, cancel, schedule, gate    the commands        *)
(*   app, form  the Mini App: its endpoints, its form sent to the chat     *)
(* and what may go wrong around it:                                        *)
(*   both_at_once      chat and Mini App used in the same seconds          *)
(*   back_to_chat      trains listed in the app, the list closed in chat   *)
(*   changes_railway   back to the railway, a form's answers waiting       *)
(*   search_meanwhile  an appointment made or kept beside another search   *)
(*   during_pass       cancelled, made anew while the scheduler goes by    *)
(*                     what it has read                                    *)
(*   app_was_down      no scheduler while an appointment falls due         *)
(*   key_rotated       the key of the stored logins changes while a draft  *)
(*                     waits; key_rotated_midway, at any question          *)
(***************************************************************************)
Habits == {"chat", "back", "draft", "favourite", "onboard", "logout", "leave", "cancel",
           "schedule", "gate", "app", "form"}
Accidents == {"both_at_once", "back_to_chat", "changes_railway", "search_meanwhile",
              "during_pass", "app_was_down", "key_rotated", "key_rotated_midway"}

ASSUME ChatFrontAssumption ==
  Worlds \subseteq [uses : SUBSET (Habits \union Accidents), fixed : SUBSET Railways,
                    forms : SUBSET {f \in Submissions : Valid(f)}]

fvars == <<cvars, schedules, gate>>

-----------------------------------------------------------------------------
(* Commands *)

\* handle_start, handle_chat_start: the draft first; the app's offer, or the questions
Start ==
  /\ Free("poller")
  /\ IF HasDraft(session)
     THEN /\ Uses("draft")
          /\ session' = Parked(session)
          /\ UNCHANGED account
     ELSE \E o \in BeginFlow(session) \union {Unchanged(Reset(session)) : h \in world.uses \intersect {"form"}} :
            session' = o.session /\ account' = o.account
  /\ UNCHANGED favourites
  /\ ChatOnly

\* handle_onboarding: the registration's own flow, the login so far still in the session
Onboarding ==
  /\ Uses("onboard")
  /\ Free("poller")
  /\ session' = [At(session, "STARTED") EXCEPT !.in_progress = TRUE,
                                               !.train_info = Put(Nothing, "onboarding", TRUE)]
  /\ SessionOnly

Logout ==
  /\ Uses("logout")
  /\ Free("poller")
  /\ \E r \in Railways : Registered(r)
  /\ account' = [r \in Railways |-> NoNumber]
  /\ session' = NewSession
  /\ UNCHANGED favourites
  /\ ChatOnly

\* process_membership_change: the chat blocked the bot; the session stays
Leave ==
  /\ Uses("leave")
  /\ Free("poller")
  /\ account' = [r \in Railways |-> NoNumber]
  /\ favourites' = {}
  /\ UNCHANGED session
  /\ ChatOnly

\* handle_cancel: the appointment with its login, the search, the conversation
Cancel ==
  /\ Uses("cancel")
  /\ Free("poller")
  /\ NotInAPass
  /\ schedule' = NoRecord
  /\ search'   = NoRecord
  /\ slot'     = IF schedule # NoRecord \/ search # NoRecord THEN NoCredentials ELSE slot
  /\ fate'     = Withdrawn
  /\ session'  = Reset(session)
  /\ UNCHANGED <<account, favourites, booking, world, scheduler, gate>>

\* start_from_favourite: a login, then the conditions, and only the date is asked
StartFromFavourite ==
  /\ Free("poller")
  /\ session.last_action # "FINDING_TICKET"
  /\ \E favourite \in favourites :
       LET r == favourite.operator
           s == Note(FreshFlow(session), "operator", r)
       IN \E o \in IF UsesServerAccount(r) THEN ServerLogin(s)
                   ELSE IF Registered(r) THEN RegisteredLogin(s) ELSE {Unchanged(Reset(s))} :
            /\ account' = o.account
            /\ session' = IF o.session.last_action # "PW_INPUT" THEN o.session
                          ELSE [o.session EXCEPT !.train_info = Put(favourite, "fromFavourite", TRUE)]
  /\ UNCHANGED favourites
  /\ ChatOnly

DeleteFavourite ==
  /\ Free("poller")
  /\ \E favourite \in favourites : favourites' = favourites \ {favourite}
  /\ UNCHANGED <<session, account>>
  /\ ChatOnly

-----------------------------------------------------------------------------
(* The Mini App's form, sent back through the chat *)

\* _apply_mini_app_submission: with no login accepted, the chat asks for one
SubmitForm ==
  /\ Uses("form")
  /\ Free("poller")
  /\ session.last_action # "FINDING_TICKET"
  /\ \E f \in world.forms :
       LET r == f.operator
           s == [Reset(session) EXCEPT !.in_progress = TRUE,
                                       !.train_info = Put(AsTrainInfo(f), "miniAppPending", TRUE)]
           known == IF UsesServerAccount(r) THEN ServerNumber ELSE account[r]
       IN \/ /\ known # NoNumber
             /\ session' \in AfterTrainList(MiniAppFinished(LoggedIn(s, known)))
             /\ UNCHANGED account
          \/ /\ session' = At(s, "START_ACCEPTED")
             /\ account' = IF UsesServerAccount(r) THEN account ELSE Forgotten(r)
  /\ UNCHANGED favourites
  /\ ChatOnly

-----------------------------------------------------------------------------
(* The Mini App's endpoints, on a thread of their own *)

\* register
AppRegister ==
  /\ Uses("app")
  /\ Free("app")
  /\ \E r \in Railways, n \in Numbers : account' = [account EXCEPT ![r] = n]
  /\ UNCHANGED <<session, favourites>>
  /\ ChatOnly

\* save_favourite; nothing counts them here
AppSaveFavourite ==
  /\ Uses("app") /\ Uses("favourite")
  /\ Free("app")
  /\ Cardinality(favourites) < MaxFavourites
  /\ \E f \in world.forms :
       favourites' = favourites \union {AsFavourite(AsTrainInfo(f))}
  /\ UNCHANGED <<session, account>>
  /\ ChatOnly

\* _prepared_session: the session is read, and a login asked of the railway
AppCalls ==
  /\ Uses("app")
  /\ Free("app")
  /\ session.last_action # "FINDING_TICKET"
  /\ \E call \in Calls, f \in world.forms :
       LET r == f.operator
           s == [Reset(session) EXCEPT
                   !.in_progress = TRUE, !.last_action = "SEAT_STRATEGY_INPUT",
                   !.train_info = Put(AsTrainInfo(f), "selectedTrains", Ticked(session))]
       IN /\ UsesServerAccount(r) \/ Registered(r)
          /\ call = "schedule" => Uses("schedule")
          /\ booking' = [booking EXCEPT !["app"] =
               [Idle EXCEPT !.at = "login", !.session = s, !.call = call]]
  /\ UNCHANGED <<session, account, favourites, world, schedules, gate>>

\* The session as the login leaves it: at the date for an account from the environment
AppSession ==
  LET s == booking["app"].session
      r == Operator(s)
  IN IF UsesServerAccount(r) THEN LoggedIn(s, ServerNumber)
     ELSE [s EXCEPT !.credentials = Verified(account[r], r)]

AppLogsIn(call) ==
  /\ booking["app"].at = "login"
  /\ booking["app"].call = call
  /\ UsesServerAccount(Operator(booking["app"].session)) \/ Registered(Operator(booking["app"].session))

AppDone == booking' = [booking EXCEPT !["app"] = Idle]

\* Refused, or the account went while the railway was asked: nothing is saved
AppRefused ==
  /\ booking["app"].at = "login"
  /\ account' = LET r == Operator(booking["app"].session) IN
                IF UsesServerAccount(r) THEN account ELSE Forgotten(r)
  /\ AppDone
  /\ UNCHANGED <<session, favourites, world, schedules, gate>>

\* list_trains: the list replaces the options, and leaves the ticks alone
AppLists ==
  /\ AppLogsIn("list")
  /\ Uses("back_to_chat") \/ Ticked(AppSession) = {}
  /\ session' \in {AppSession, Note(AppSession, "trainOptions", TrainOptions(AppSession))}
  /\ AppDone
  /\ UNCHANGED <<account, favourites, world, schedules, gate>>

\* The trains the page sends along are ones it was shown for these conditions: it drops the
\* others when a new list arrives, and books the conditions of that list.  The gateway itself
\* checks only that they are numbers (_selected_trains).
AppChosen(s) == {Note(s, "selectedTrains", chosen) : chosen \in SUBSET TrainOptions(s)}

AppStarts ==
  /\ AppLogsIn("start")
  /\ \E s \in AppChosen(AppSession) : Decided("app", s)
  /\ UNCHANGED <<account, favourites>>

\* A start time that is refused leaves the session as it was prepared.
AppSchedules ==
  /\ AppLogsIn("schedule")
  /\ \E s \in AppChosen(AppSession) :
       \/ /\ NoSearch
          /\ Schedule(Operator(s), s.credentials)
          /\ session' = Reset(s)
       \/ /\ session' = s
          /\ UNCHANGED schedules
  /\ AppDone
  /\ UNCHANGED <<account, favourites, world, gate>>

\* cancel_search: the record of the appointment goes, the login in the slot stays
AppCancels ==
  /\ Uses("app") /\ Uses("cancel")
  /\ Free("app")
  /\ NotInAPass
  /\ search' = NoRecord
  /\ IF search = NoRecord THEN UNCHANGED <<slot, session>>
     ELSE slot' = NoCredentials /\ session' = Reset(session)
  /\ schedule' = NoRecord
  /\ fate' = Withdrawn
  /\ UNCHANGED <<account, favourites, booking, world, scheduler, gate>>

-----------------------------------------------------------------------------
(* The gate's operators *)

\* request_access: by the Korail account, whichever login was refused
AskAccess ==
  /\ Uses("gate")
  /\ Registered("KORAIL")
  /\ RequestAccess(account["KORAIL"])
  /\ UNCHANGED <<cvars, schedules>>

DecideAccess ==
  /\ Uses("gate")
  /\ \E n \in Numbers : Approve(n) \/ Reject(n) \/ Revoke(n)
  /\ UNCHANGED <<cvars, schedules>>

-----------------------------------------------------------------------------

\* ReservationCallbackAPI: the answer of the search resets the session, wherever it is
SearchEnds ==
  /\ SearchOver
  /\ session' = Reset(session)
  /\ UNCHANGED <<account, favourites, booking, world, gate>>

Background == (Scheduler \/ TimePasses \/ Lapse) /\ UNCHANGED <<cvars, gate>>

Init == ConversationInit /\ ScheduleInit /\ GateInit

Next ==
  \/ Answer
  \/ \E t \in Threads : StartBooking(t)
  \/ KeyRotated
  \/ Start \/ Onboarding \/ Logout \/ Leave \/ Cancel \/ StartFromFavourite \/ DeleteFavourite
  \/ SubmitForm
  \/ AppRegister \/ AppSaveFavourite \/ AppCalls \/ AppRefused \/ AppLists \/ AppStarts
  \/ AppSchedules \/ AppCancels
  \/ AskAccess \/ DecideAccess
  \/ Background \/ SearchEnds

Spec == Init /\ [][Next]_fvars
=============================================================================
