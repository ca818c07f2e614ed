---------------------------- MODULE ChatSession ----------------------------
(***************************************************************************)
(* What a chat's session holds and how one answer changes it.              *)
(*                                                                         *)
(* Pure operators: a session in, a session out.  train_info is what it is  *)
(* in the code, a dictionary whose keys come and go; an answer is the      *)
(* value the later steps tell apart (which railway serves a station, which *)
(* trains run on a date), and a wording or a time of day is "given".       *)
(***************************************************************************)
EXTENDS Naturals

CONSTANTS
  Numbers,    \* phone numbers, the logins of the railways
  NoNumber,   \* no login at all
  Dates,      \* departure dates a chat may answer
  TrainsOn    \* the trains that run on each date

Railways == {"KORAIL", "SRT"}

\* Operator.serves: Korail stops wherever SRT does
Serves(r) == IF r = "KORAIL" THEN {"shared", "korail_only"} ELSE {"shared"}

\* Operator.offers_train_types
OffersTrainTypes(r) == r = "KORAIL"

Trains == UNION {TrainsOn[d] : d \in Dates}

ASSUME SessionAssumption ==
  /\ NoNumber \notin Numbers
  /\ DOMAIN TrainsOn = Dates

-----------------------------------------------------------------------------
(* train_info *)

Has(info, key)          == key \in DOMAIN info
Get(info, key, default) == IF Has(info, key) THEN info[key] ELSE default
Put(info, key, value)   ==
  [k \in {key} \union DOMAIN info |-> IF k = key THEN value ELSE info[k]]
Drop(info, keys)        == [key \in DOMAIN info \ keys |-> info[key]]
Nothing                 == <<>>

\* what _build_search_params reads with info[...]; the two "...Show" keys read there too are
\* written together with "trainType" and "specialInfo", which stand for them.
RequiredKeys == {"depDate", "srcLocate", "dstLocate", "depTime", "maxDepTime",
                 "trainType", "specialInfo"}

-----------------------------------------------------------------------------
(* UserProgress: named for the answer behind it, standing for the question in front *)

Question == [
  STARTED               |-> "begin a booking?",
  OPERATOR_PENDING      |-> "which railway?",
  START_ACCEPTED        |-> "phone number?",
  ID_INPUT              |-> "password?",
  PW_INPUT              |-> "date?",
  DATE_INPUT            |-> "from where?",
  SRC_INPUT             |-> "to where?",
  DST_INPUT             |-> "searching from?",
  DEP_TIME_INPUT        |-> "searching until?",
  MAX_DEP_TIME_INPUT    |-> "which kind of train?",
  TRAIN_TYPE_INPUT      |-> "which seats?",
  SPECIAL_INPUT         |-> "how many passengers?",
  PASSENGER_COUNT_INPUT |-> "seated together?",
  SEAT_STRATEGY_INPUT   |-> "which trains?",
  TRAIN_SELECT_INPUT    |-> "start it?",
  SCHEDULE_PENDING      |-> "start it when?",
  OVERWRITE_PENDING     |-> "replace the account?",
  RESUME_PENDING        |-> "carry on with the draft?"]

Progress == DOMAIN Question \union {"INIT", "FINDING_TICKET"}

\* DRAFT_STATES
DraftStates == {"DATE_INPUT", "SRC_INPUT", "DST_INPUT", "DEP_TIME_INPUT", "MAX_DEP_TIME_INPUT",
                "TRAIN_TYPE_INPUT", "SPECIAL_INPUT", "PASSENGER_COUNT_INPUT",
                "SEAT_STRATEGY_INPUT", "TRAIN_SELECT_INPUT", "SCHEDULE_PENDING"}

\* BACK_TARGETS
BackTargets == [
  START_ACCEPTED        |-> "OPERATOR_PENDING",
  ID_INPUT              |-> "START_ACCEPTED",
  DATE_INPUT            |-> "PW_INPUT",
  SRC_INPUT             |-> "DATE_INPUT",
  DST_INPUT             |-> "SRC_INPUT",
  DEP_TIME_INPUT        |-> "DST_INPUT",
  MAX_DEP_TIME_INPUT    |-> "DEP_TIME_INPUT",
  TRAIN_TYPE_INPUT      |-> "MAX_DEP_TIME_INPUT",
  SPECIAL_INPUT         |-> "TRAIN_TYPE_INPUT",
  PASSENGER_COUNT_INPUT |-> "SPECIAL_INPUT",
  SEAT_STRATEGY_INPUT   |-> "PASSENGER_COUNT_INPUT",
  TRAIN_SELECT_INPUT    |-> "SEAT_STRATEGY_INPUT",
  SCHEDULE_PENDING      |-> "TRAIN_SELECT_INPUT"]

-----------------------------------------------------------------------------
(* UserSession *)

\* `by` is a history of the model: the railway that accepted this number and password last
Credentials   == [id : Numbers \union {NoNumber}, pw : {"blank", "typed"},
                  by : Railways \union {"nobody"}]
NoCredentials == [id |-> NoNumber, pw |-> "blank", by |-> "nobody"]
Verified(n, r) == [id |-> n, pw |-> "typed", by |-> r]
Blank(cred)    == [id |-> cred.id, pw |-> "blank", by |-> "nobody"]
Refused(cred)  == [id |-> cred.id, pw |-> "typed", by |-> "nobody"]
Usable(cred)   == cred.id # NoNumber /\ cred.pw # "blank"

NewSession == [in_progress |-> FALSE, last_action |-> "INIT",
               credentials |-> NoCredentials, train_info |-> Nothing]

\* session_operator: a session that never said is a Korail one
Operator(s) == Get(s.train_info, "operator", "KORAIL")

\* UserSession.reset
Reset(s) == [NewSession EXCEPT !.credentials = Blank(s.credentials)]

At(s, progress)   == [s EXCEPT !.last_action = progress]
Note(s, key, val) == [s EXCEPT !.train_info = Put(@, key, val)]

\* An answer that fills one key and moves on to the next question.
Answered(s, key, val, progress) == At(Note(s, key, val), progress)

\* begin_flow, the first four lines
FreshFlow(s) == At([Reset(s) EXCEPT !.in_progress = TRUE], "STARTED")

LoggedIn(s, n) == At([s EXCEPT !.credentials = Verified(n, Operator(s))], "PW_INPUT")

-----------------------------------------------------------------------------
(* The draft *)

\* offer_draft: the question the draft stopped at, also when /start is pressed twice
DraftOf(s) ==
  IF s.last_action = "RESUME_PENDING" THEN Get(s.train_info, "draftProgress", "INIT")
                                      ELSE s.last_action
HasDraft(s) == DraftOf(s) \in DraftStates /\ Has(s.train_info, "depDate")

Parked(s) == [Answered(s, "draftProgress", DraftOf(s), "RESUME_PENDING")
                EXCEPT !.in_progress = TRUE]

-----------------------------------------------------------------------------
(* The list of trains *)

Ticked(s) == Get(s.train_info, "selectedTrains", {})

\* _finish_train_selection
ListClosed(s, selected) ==
  At([s EXCEPT !.train_info = Drop(Put(@, "selectedTrains", selected), {"trainOptions"})],
     "TRAIN_SELECT_INPUT")

\* _show_train_selection with a list: ticks that still name a train stay
ListShownAsTicked(s, options) ==
  Note(Note(s, "trainOptions", options), "selectedTrains", Ticked(s))
ListShown(s, options) ==
  Note(Note(s, "trainOptions", options), "selectedTrains", Ticked(s) \intersect options)

\* fetch_train_options: what the railway answers, where there is a login to ask it with
TrainOptions(s) ==
  IF Usable(s.credentials) /\ Has(s.train_info, "depDate") THEN TrainsOn[s.train_info.depDate] ELSE {}

\* _show_train_selection: the list, or the whole window when there is none to show
AfterTrainList(s) ==
  {ListClosed(s, {})} \union
  (IF TrainOptions(s) = {} THEN {} ELSE {ListShown(s, TrainOptions(s))})

\* _finish_mini_app_submission
MiniAppFinished(s) ==
  At([s EXCEPT !.train_info = Drop(@, {"miniAppPending"})], "SEAT_STRATEGY_INPUT")

-----------------------------------------------------------------------------
(* Going back *)

Previous(s) ==
  LET target == BackTargets[s.last_action] IN
  CASE target = "PASSENGER_COUNT_INPUT" /\ Get(s.train_info, "passengerCount", 1) <= 1
         -> "SPECIAL_INPUT"
    [] target = "MAX_DEP_TIME_INPUT" /\ ~OffersTrainTypes(Operator(s))
         -> "DEP_TIME_INPUT"
    [] OTHER -> target

-----------------------------------------------------------------------------
(* What a form fills in at once *)

\* FavouriteSearch.as_train_info: everything but the date and the trains
FavouriteKeysWithoutSeats ==
  (RequiredKeys \ {"depDate", "specialInfo"}) \union {"operator", "passengerCount", "seatStrategy"}
FavouriteKeys == (RequiredKeys \ {"depDate"})
                   \union {"operator", "passengerCount", "seatStrategy", "seatStrategyShow"}

\* FavouriteSearch.from_train_info
AsFavourite(info) ==
  [key \in FavouriteKeys |->
     CASE key = "operator"         -> Get(info, key, "KORAIL")
       [] key = "passengerCount"   -> Get(info, key, 1)
       [] key = "seatStrategy"     -> Get(info, key, "consecutive")
       [] OTHER                    -> Get(info, key, "")]

\* MiniAppSubmission.parse: its stations are ones its railway serves
Submissions ==
  [operator : Railways, depDate : Dates, srcLocate : {"shared", "korail_only"},
   passengerCount : {1, 2}]

Valid(f) == f.srcLocate \in Serves(f.operator)

\* MiniAppSubmission.as_train_info
AsTrainInfo(f) ==
  [operator |-> f.operator, depDate |-> f.depDate, srcLocate |-> f.srcLocate,
   dstLocate |-> "shared", depTime |-> "given", maxDepTime |-> "given",
   trainType |-> IF f.operator = "SRT" THEN "SRT" ELSE "ALL", specialInfo |-> "given",
   passengerCount |-> f.passengerCount, seatStrategy |-> "consecutive",
   seatStrategyShow |-> IF f.passengerCount = 1 THEN "one" ELSE "consecutive",
   selectedTrains |-> {}]
=============================================================================
