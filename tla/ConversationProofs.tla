------------------------ MODULE ConversationProofs ------------------------
(***************************************************************************)
(* What a chat may rely on at every question, for any phone numbers, dates *)
(* and trains and any kind of chat: the answers given so far are there,    *)
(* they fit the railway, and the trains ticked run on the day.             *)
(*                                                                         *)
(* GoodSession says it of one session.  Each lemma ...Good shows that one  *)
(* answer, command or request of the Mini App turns a good session into a  *)
(* good one, from those before it on the operators of ChatSession.  A      *)
(* session is proved equal to a record of its four fields first; a field   *)
(* that is TRUE, FALSE or a string has a name of its own where EXCEPT sets *)
(* it, because the provers do not see through the literal.                 *)
(***************************************************************************)
EXTENDS ChatFrontProperties, TLAPS

-----------------------------------------------------------------------------
(* The session *)

\* Three accidents that a theorem may have to leave out.
KeysStay     == \A w \in Worlds : "key_rotated_midway" \notin w.uses
RailwayStays == \A w \in Worlds : "changes_railway" \notin w.uses
ListsStay    == \A w \in Worlds : "back_to_chat" \notin w.uses

Shaped(s) ==
  /\ s = [in_progress |-> s.in_progress, last_action |-> s.last_action,
          credentials |-> s.credentials, train_info |-> s.train_info]
  /\ s.in_progress \in BOOLEAN
  /\ s.last_action \in Progress
  /\ s.credentials \in Credentials

\* What a form and a favourite fill in at once.
FilledIn == {"srcLocate", "dstLocate", "depTime", "maxDepTime", "trainType", "specialInfo",
             "passengerCount", "seatStrategy"}

Sound(info) ==
  /\ Has(info, "operator") => info["operator"] \in Railways
  /\ Has(info, "depDate") => info["depDate"] \in Dates
  /\ Has(info, "draftProgress") => info["draftProgress"] \in DraftStates
  /\ Has(info, "fromFavourite") => FilledIn \subseteq DOMAIN info
  /\ Has(info, "miniAppPending") => FilledIn \union {"depDate"} \subseteq DOMAIN info

\* The answers that are there once the chat has come to this question.
Complete(info, p) ==
  LET Past(questions) == p \in DraftStates \ questions IN
  /\ Past({}) => Has(info, "depDate")
  /\ Past({"DATE_INPUT"}) => Has(info, "srcLocate")
  /\ Past({"DATE_INPUT", "SRC_INPUT"}) => Has(info, "dstLocate")
  /\ Past({"DATE_INPUT", "SRC_INPUT", "DST_INPUT"}) => Has(info, "depTime")
  /\ Past({"DATE_INPUT", "SRC_INPUT", "DST_INPUT", "DEP_TIME_INPUT"}) => Has(info, "maxDepTime")
  /\ Past({"DATE_INPUT", "SRC_INPUT", "DST_INPUT", "DEP_TIME_INPUT", "MAX_DEP_TIME_INPUT"})
       => Has(info, "trainType")
  /\ p \in {"SPECIAL_INPUT", "PASSENGER_COUNT_INPUT", "SEAT_STRATEGY_INPUT",
            "TRAIN_SELECT_INPUT", "SCHEDULE_PENDING"} => Has(info, "specialInfo")
  /\ p \in {"PASSENGER_COUNT_INPUT", "SEAT_STRATEGY_INPUT", "TRAIN_SELECT_INPUT",
            "SCHEDULE_PENDING"} => Has(info, "passengerCount")
  /\ p \in {"SEAT_STRATEGY_INPUT", "TRAIN_SELECT_INPUT", "SCHEDULE_PENDING"}
       => Has(info, "seatStrategy")

\* A login the railway of the booking has accepted, or no login any more.
Fits(s) ==
  /\ KeysStay => Usable(s.credentials)
  /\ Usable(s.credentials) => s.credentials.by = Operator(s)

LoginOK(s) ==
  /\ s.last_action \in DraftStates \union {"PW_INPUT"} => Fits(s)
  /\ s.last_action = "RESUME_PENDING" /\ Usable(s.credentials) => Fits(s)

\* The station goes with the railway, and no question about the railway comes after it.
StationsOK(s) ==
  /\ Has(s.train_info, "srcLocate") => s.train_info["srcLocate"] \in Serves(Operator(s))
  /\ s.last_action \in {"STARTED", "OPERATOR_PENDING", "OVERWRITE_PENDING"} =>
       ~Has(s.train_info, "srcLocate")
  /\ s.last_action \in {"START_ACCEPTED", "ID_INPUT"} /\ Has(s.train_info, "srcLocate") =>
       Has(s.train_info, "miniAppPending")

ListStates == {"SEAT_STRATEGY_INPUT", "TRAIN_SELECT_INPUT", "SCHEDULE_PENDING"}

\* From the list on, what is ticked and what can be runs on the day.
TrainsOK(s) ==
  /\ DraftOf(s) \in ListStates => Ticked(s) \subseteq TrainsOn[s.train_info["depDate"]]
  /\ s.last_action = "SEAT_STRATEGY_INPUT" =>
       Get(s.train_info, "trainOptions", {}) \subseteq TrainsOn[s.train_info["depDate"]]

\* A session at its question, whatever the trains.
ReadySession(s) ==
  /\ Shaped(s)
  /\ Sound(s.train_info)
  /\ Complete(s.train_info, DraftOf(s))
  /\ s.last_action = "RESUME_PENDING" => Has(s.train_info, "draftProgress")
  /\ s.last_action = "ID_INPUT" => s.credentials.id # NoNumber
  /\ LoginOK(s)
  /\ RailwayStays => StationsOK(s)
GoodSession(s) == ReadySession(s) /\ (ListsStay => TrainsOK(s))

GoodFavourite(f) ==
  /\ DOMAIN f = FavouriteKeys
  /\ f["operator"] \in Railways
  /\ RailwayStays => f["srcLocate"] \in Serves(f["operator"])

\* The session the Mini App asks a login for: its form, and a list of trains.
AppForm(s) ==
  \E f \in Submissions :
    /\ Valid(f)
    /\ s = [in_progress |-> TRUE, last_action |-> "SEAT_STRATEGY_INPUT",
            credentials |-> s.credentials,
            train_info |-> Put(AsTrainInfo(f), "selectedTrains", Ticked(s))]

GoodBooking(b) ==
  /\ b = [at |-> b.at, session |-> b.session, level |-> b.level, call |-> b.call]
  /\ b.at \in {"idle", "login", "start"}
  /\ b.at = "login" => AppForm(b.session) /\ b.session.credentials \in Credentials
  /\ b.at = "start" =>
       /\ GoodSession(b.session)
       /\ b.session.last_action = "FINDING_TICKET"
       /\ b.session.credentials.id # NoNumber
       /\ Fits(b.session)

-----------------------------------------------------------------------------
(* What the session's operators do *)

LEMMA NothingIs == DOMAIN Nothing = {} /\ \A k : ~Has(Nothing, k)
  BY DEF Nothing, Has

\* The questions and the two states that have none.
LEMMA ProgressIs ==
  /\ DraftStates \subseteq Progress
  /\ {"STARTED", "OPERATOR_PENDING", "START_ACCEPTED", "ID_INPUT", "PW_INPUT",
      "OVERWRITE_PENDING", "RESUME_PENDING", "INIT", "FINDING_TICKET"} \subseteq Progress
  BY DEF Progress, Question, DraftStates

LEMMA AtIs ==
  ASSUME NEW s, Shaped(s), NEW p \in Progress
  PROVE  /\ At(s, p) = [in_progress |-> s.in_progress, last_action |-> p,
                        credentials |-> s.credentials, train_info |-> s.train_info]
         /\ Shaped(At(s, p))
  BY DEF Shaped, At

LEMMA NoteIs ==
  ASSUME NEW s, Shaped(s), NEW key, NEW value
  PROVE  /\ Note(s, key, value) =
              [in_progress |-> s.in_progress, last_action |-> s.last_action,
               credentials |-> s.credentials, train_info |-> Put(s.train_info, key, value)]
         /\ Shaped(Note(s, key, value))
  BY DEF Shaped, Note

LEMMA ResetIs ==
  ASSUME NEW s, Shaped(s)
  PROVE  /\ Reset(s) = [in_progress |-> FALSE, last_action |-> "INIT",
                        credentials |-> Blank(s.credentials), train_info |-> Nothing]
         /\ Shaped(Reset(s))
<1> DEFINE no == FALSE
<1>1. Reset(s) = [in_progress |-> no, last_action |-> "INIT",
                  credentials |-> Blank(s.credentials), train_info |-> Nothing]
  <2>1. NewSession = [in_progress |-> no, last_action |-> "INIT",
                      credentials |-> NoCredentials, train_info |-> Nothing]
    BY DEF NewSession
  <2> HIDE DEF no
  <2> QED
    BY <2>1 DEF Reset
<1>2. Blank(s.credentials) \in Credentials
  BY DEF Shaped, Credentials, Blank
<1> QED
  BY <1>1, <1>2, ProgressIs DEF Shaped

LEMMA FreshFlowIs ==
  ASSUME NEW s, Shaped(s)
  PROVE  /\ FreshFlow(s) = [in_progress |-> TRUE, last_action |-> "STARTED",
                            credentials |-> Blank(s.credentials), train_info |-> Nothing]
         /\ Shaped(FreshFlow(s))
<1> DEFINE r == Reset(s)
<1>1. /\ r = [in_progress |-> FALSE, last_action |-> "INIT",
              credentials |-> Blank(s.credentials), train_info |-> Nothing]
      /\ Shaped(r)
  BY ResetIs
<1>2. FreshFlow(s) = At([r EXCEPT !.in_progress = TRUE], "STARTED")
  BY DEF FreshFlow
<1> HIDE DEF r
<1> QED
  BY <1>1, <1>2, ProgressIs DEF At, Shaped

LEMMA LoggedInIs ==
  ASSUME NEW s, Shaped(s), NEW n \in Numbers, Operator(s) \in Railways
  PROVE  /\ LoggedIn(s, n) =
              [in_progress |-> s.in_progress, last_action |-> "PW_INPUT",
               credentials |-> [id |-> n, pw |-> "typed", by |-> Operator(s)],
               train_info |-> s.train_info]
         /\ Shaped(LoggedIn(s, n))
<1>1. LoggedIn(s, n) =
        [in_progress |-> s.in_progress, last_action |-> "PW_INPUT",
         credentials |-> [id |-> n, pw |-> "typed", by |-> Operator(s)],
         train_info |-> s.train_info]
  <2> DEFINE c == Verified(n, Operator(s))
  <2>1. c = [id |-> n, pw |-> "typed", by |-> Operator(s)]
    BY DEF Verified
  <2>2. LoggedIn(s, n) = At([s EXCEPT !.credentials = c], "PW_INPUT")
    BY DEF LoggedIn
  <2> HIDE DEF c
  <2> QED
    BY <2>1, <2>2 DEF At, Shaped
<1>2. [id |-> n, pw |-> "typed", by |-> Operator(s)] \in Credentials
  BY DEF Credentials
<1> QED
  BY <1>1, <1>2, ProgressIs DEF Shaped

LEMMA ResetGood == ASSUME NEW s, Shaped(s) PROVE GoodSession(Reset(s))
<1> DEFINE t == Reset(s)
<1>1. /\ t.last_action = "INIT" /\ t.train_info = Nothing /\ Shaped(t)
  BY ResetIs
<1> HIDE DEF t
<1>2. GoodSession(t)
  BY <1>1, NothingIs
  DEF GoodSession, ReadySession, TrainsOK, StationsOK, LoginOK, Complete, Sound, DraftOf,
      DraftStates, ListStates
<1> QED
  BY <1>2 DEF t

LEMMA FreshFlowGood == ASSUME NEW s, Shaped(s) PROVE GoodSession(FreshFlow(s))
<1> DEFINE t == FreshFlow(s)
<1>1. /\ t.last_action = "STARTED" /\ t.train_info = Nothing /\ Shaped(t)
  BY FreshFlowIs
<1> HIDE DEF t
<1>2. GoodSession(t)
  BY <1>1, NothingIs
  DEF GoodSession, ReadySession, TrainsOK, StationsOK, LoginOK, Complete, Sound, DraftOf,
      DraftStates, ListStates
<1> QED
  BY <1>2 DEF t

-----------------------------------------------------------------------------
(* The list of trains *)

\* A session with its train_info changed, where what has been answered stays as it was.
LEMMA OperatorIs ==
  ASSUME NEW s, NEW t, Has(t.train_info, "operator") <=> Has(s.train_info, "operator"),
         Has(s.train_info, "operator") => t.train_info["operator"] = s.train_info["operator"]
  PROVE  Operator(t) = Operator(s)
  BY DEF Operator, Get

LEMMA RailwayIs == ASSUME NEW s, Sound(s.train_info) PROVE Operator(s) \in Railways
  BY DEF Operator, Get, Sound, Railways

\* The list closed with a choice of trains of the day.
LEMMA ClosedGood ==
  ASSUME NEW s, ReadySession(s), s.last_action = "SEAT_STRATEGY_INPUT", NEW selected,
         ListsStay => selected \subseteq TrainsOn[s.train_info["depDate"]]
  PROVE  GoodSession(ListClosed(s, selected))
<1> DEFINE info == Drop(Put(s.train_info, "selectedTrains", selected), {"trainOptions"})
<1> DEFINE t == ListClosed(s, selected)
<1>1. /\ t = [in_progress |-> s.in_progress, last_action |-> "TRAIN_SELECT_INPUT",
              credentials |-> s.credentials, train_info |-> info]
      /\ Shaped(t)
  <2>1. t = At([s EXCEPT !.train_info = info], "TRAIN_SELECT_INPUT")
    BY DEF ListClosed
  <2> HIDE DEF info, t
  <2>2. Shaped(s)
    BY DEF ReadySession
  <2> QED
    BY <2>1, <2>2, ProgressIs DEF At, Shaped, DraftStates
<1>2. /\ \A k : Has(info, k) <=> (Has(s.train_info, k) \/ k = "selectedTrains") /\ k # "trainOptions"
      /\ \A k \in DOMAIN s.train_info : k \notin {"selectedTrains", "trainOptions"} =>
           info[k] = s.train_info[k]
      /\ info["selectedTrains"] = selected
  BY DEF Put, Drop, Has
<1>3. DraftOf(t) = "TRAIN_SELECT_INPUT" /\ DraftOf(s) = "SEAT_STRATEGY_INPUT"
  BY <1>1 DEF DraftOf
<1> HIDE DEF info, t
<1>4. Has(s.train_info, "depDate")
  BY <1>3 DEF ReadySession, Complete, DraftStates
<1>5. Sound(t.train_info) /\ Complete(t.train_info, DraftOf(t))
  <2>1. Sound(info)
    BY <1>2 DEF ReadySession, Sound, FilledIn, Has
  <2>2. Complete(info, "TRAIN_SELECT_INPUT")
    BY <1>2, <1>3 DEF ReadySession, Complete, DraftStates
  <2> QED
    BY <1>1, <1>3, <2>1, <2>2
<1>6. Operator(t) = Operator(s)
  BY <1>1, <1>2, OperatorIs DEF Has
<1>7. LoginOK(t)
  BY <1>1, <1>6 DEF ReadySession, LoginOK, Fits, DraftStates
<1>8. RailwayStays => StationsOK(t)
  BY <1>1, <1>2, <1>6 DEF ReadySession, StationsOK, Has
<1>9. ListsStay => TrainsOK(t)
  BY <1>1, <1>2, <1>3, <1>4 DEF TrainsOK, Ticked, Get, Has
<1>10. GoodSession(t)
  BY <1>1, <1>5, <1>7, <1>8, <1>9 DEF GoodSession, ReadySession
<1> QED
  BY <1>10 DEF t

\* The list shown, with what was ticked as far as it still runs.
LEMMA ShownGood ==
  ASSUME NEW s, ReadySession(s), s.last_action = "SEAT_STRATEGY_INPUT",
         NEW options, ListsStay => options = TrainsOn[s.train_info["depDate"]]
  PROVE  GoodSession(ListShown(s, options))
<1> DEFINE ticked == Ticked(s) \intersect options
<1> DEFINE info == Put(Put(s.train_info, "trainOptions", options), "selectedTrains", ticked)
<1> DEFINE t == ListShown(s, options)
<1>0. Shaped(s)
  BY DEF ReadySession
<1>1. /\ t = [in_progress |-> s.in_progress, last_action |-> "SEAT_STRATEGY_INPUT",
              credentials |-> s.credentials, train_info |-> info]
      /\ Shaped(t)
  <2> DEFINE u == Note(s, "trainOptions", options)
  <2>1. /\ u = [in_progress |-> s.in_progress, last_action |-> s.last_action,
                credentials |-> s.credentials,
                train_info |-> Put(s.train_info, "trainOptions", options)]
        /\ Shaped(u)
    BY <1>0, NoteIs
  <2>2. t = Note(u, "selectedTrains", ticked)
    BY DEF ListShown
  <2> HIDE DEF u, ticked
  <2> QED
    BY <2>1, <2>2, NoteIs
<1>2. /\ \A k : Has(info, k) <=> Has(s.train_info, k) \/ k \in {"selectedTrains", "trainOptions"}
      /\ \A k \in DOMAIN s.train_info : k \notin {"selectedTrains", "trainOptions"} =>
           info[k] = s.train_info[k]
      /\ info["selectedTrains"] = ticked /\ info["trainOptions"] = options
  <2> HIDE DEF ticked
  <2> QED
    BY DEF Put, Has
<1>3. DraftOf(t) = "SEAT_STRATEGY_INPUT" /\ DraftOf(s) = "SEAT_STRATEGY_INPUT"
  BY <1>1 DEF DraftOf
<1>4. ticked \subseteq options
  OBVIOUS
<1> HIDE DEF info, t, ticked
<1>5. Has(s.train_info, "depDate")
  BY <1>3 DEF ReadySession, Complete, DraftStates
<1>6. Sound(info) /\ Complete(info, "SEAT_STRATEGY_INPUT")
  <2>1. Sound(info)
    BY <1>2 DEF ReadySession, Sound, FilledIn, Has
  <2>2. Complete(info, "SEAT_STRATEGY_INPUT")
    BY <1>2, <1>3 DEF ReadySession, Complete, DraftStates
  <2> QED
    BY <2>1, <2>2
<1>7. Operator(t) = Operator(s)
  BY <1>1, <1>2, OperatorIs DEF Has
<1>8. LoginOK(t)
  BY <1>1, <1>7 DEF ReadySession, LoginOK, Fits, DraftStates
<1>9. RailwayStays => StationsOK(t)
  BY <1>1, <1>2, <1>7 DEF ReadySession, StationsOK, Has
<1>10. ListsStay => TrainsOK(t)
  BY <1>1, <1>2, <1>3, <1>4, <1>5 DEF TrainsOK, Ticked, Get, Has
<1>11. GoodSession(t)
  BY <1>1, <1>3, <1>6, <1>8, <1>9, <1>10 DEF GoodSession, ReadySession
<1> QED
  BY <1>11 DEF t

LEMMA ListGood ==
  ASSUME NEW s, ReadySession(s), s.last_action = "SEAT_STRATEGY_INPUT",
         NEW t \in AfterTrainList(s)
  PROVE  GoodSession(t)
<1>1. CASE t = ListClosed(s, {})
  BY <1>1, ClosedGood
<1>2. CASE t # ListClosed(s, {})
  <2>1. t = ListShown(s, TrainOptions(s)) /\ TrainOptions(s) # {}
    BY <1>2 DEF AfterTrainList
  <2>2. TrainOptions(s) = TrainsOn[s.train_info["depDate"]]
    BY <2>1 DEF TrainOptions
  <2> QED
    BY <2>1, <2>2, ShownGood
<1> QED
  BY <1>1, <1>2

-----------------------------------------------------------------------------
(* Answers *)

\* One more answer to a question; the railway and what a form left behind stay.
LEMMA NotedReady ==
  ASSUME NEW s, ReadySession(s), s.last_action \in DraftStates \union {"PW_INPUT"},
         NEW key, NEW value,
         key \notin {"operator", "draftProgress", "fromFavourite", "miniAppPending"},
         key = "depDate" => value \in Dates,
         key = "srcLocate" => value \in Serves(Operator(s))
  PROVE  ReadySession(Note(s, key, value))
<1> DEFINE info == Put(s.train_info, key, value)
<1> DEFINE t == Note(s, key, value)
<1>1. /\ t = [in_progress |-> s.in_progress, last_action |-> s.last_action,
              credentials |-> s.credentials, train_info |-> info]
      /\ Shaped(t)
  BY NoteIs DEF ReadySession
<1>2. /\ \A k : Has(info, k) <=> Has(s.train_info, k) \/ k = key
      /\ \A k \in DOMAIN s.train_info : k # key => info[k] = s.train_info[k]
      /\ info[key] = value
  BY DEF Put, Has
<1>3. DraftOf(t) = s.last_action /\ DraftOf(s) = s.last_action
  BY <1>1 DEF DraftOf, DraftStates
<1> HIDE DEF info, t
<1>4. Sound(info)
  BY <1>2 DEF ReadySession, Sound, FilledIn, Has
<1>5. Complete(info, s.last_action)
  BY <1>2, <1>3 DEF ReadySession, Complete
<1>6. Operator(t) = Operator(s)
  BY <1>1, <1>2, OperatorIs DEF Has
<1>7. LoginOK(t)
  BY <1>1, <1>6 DEF ReadySession, LoginOK, Fits
<1>8. RailwayStays => StationsOK(t)
  BY <1>1, <1>2, <1>6 DEF ReadySession, StationsOK, Has, DraftStates
<1>9. ReadySession(t)
  BY <1>1, <1>3, <1>4, <1>5, <1>7, <1>8 DEF ReadySession, DraftStates
<1> QED
  BY <1>9 DEF t

\* On to another question, or back to one, of those that come after the login.
LEMMA MovedReady ==
  ASSUME NEW s, ReadySession(s), s.last_action \in DraftStates \union {"PW_INPUT"},
         NEW p \in DraftStates \union {"PW_INPUT"}, Complete(s.train_info, p)
  PROVE  ReadySession(At(s, p))
<1> DEFINE t == At(s, p)
<1>1. /\ t = [in_progress |-> s.in_progress, last_action |-> p,
              credentials |-> s.credentials, train_info |-> s.train_info]
      /\ Shaped(t)
  BY AtIs, ProgressIs DEF ReadySession
<1>2. DraftOf(t) = p
  BY <1>1 DEF DraftOf, DraftStates
<1> HIDE DEF t
<1>3. Operator(t) = Operator(s)
  BY <1>1 DEF Operator
<1>4. LoginOK(t)
  BY <1>1, <1>3 DEF ReadySession, LoginOK, Fits, DraftStates
<1>5. RailwayStays => StationsOK(t)
  BY <1>1, <1>3 DEF ReadySession, StationsOK, DraftStates
<1>6. ReadySession(t)
  BY <1>1, <1>2, <1>4, <1>5 DEF ReadySession, DraftStates
<1> QED
  BY <1>6 DEF t

\* Before the list of trains, what is ticked makes no difference.
LEMMA NoListGood ==
  ASSUME NEW s, ReadySession(s), DraftOf(s) \notin ListStates,
         s.last_action # "SEAT_STRATEGY_INPUT"
  PROVE  GoodSession(s)
  BY DEF GoodSession, TrainsOK

\* An answer that leads to a question before the list of trains.
LEMMA AnsweredGood ==
  ASSUME NEW s, ReadySession(s), s.last_action \in DraftStates \union {"PW_INPUT"},
         NEW key, NEW value,
         key \notin {"operator", "draftProgress", "fromFavourite", "miniAppPending"},
         key = "depDate" => value \in Dates,
         key = "srcLocate" => value \in Serves(Operator(s)),
         NEW p \in DraftStates, Complete(Put(s.train_info, key, value), p)
  PROVE  /\ ReadySession(Answered(s, key, value, p))
         /\ p \notin ListStates => GoodSession(Answered(s, key, value, p))
         /\ Answered(s, key, value, p).last_action = p
         /\ Answered(s, key, value, p).train_info = Put(s.train_info, key, value)
<1> DEFINE n == Note(s, key, value)
<1> DEFINE t == Answered(s, key, value, p)
<1>1. ReadySession(n)
  BY NotedReady
<1>2. /\ n.last_action = s.last_action /\ n.train_info = Put(s.train_info, key, value)
      /\ Shaped(n)
  BY NoteIs DEF ReadySession
<1>3. t = At(n, p)
  BY DEF Answered
<1> HIDE DEF n, t
<1>4. ReadySession(t)
  BY <1>1, <1>2, <1>3, MovedReady
<1>5. t.last_action = p /\ t.train_info = Put(s.train_info, key, value)
  <2>1. p \in Progress
    BY ProgressIs
  <2>2. t = [in_progress |-> n.in_progress, last_action |-> p,
             credentials |-> n.credentials, train_info |-> n.train_info]
    BY <1>2, <1>3, <2>1, AtIs
  <2> QED
    BY <1>2, <2>2
<1>6. p \notin ListStates => GoodSession(t)
  <2>1. DraftOf(t) = p
    BY <1>5 DEF DraftOf, DraftStates
  <2> QED
    BY <1>4, <1>5, <2>1, NoListGood DEF ListStates
<1> QED
  BY <1>4, <1>5, <1>6 DEF t

LEMMA DateGood ==
  ASSUME GoodSession(session), DateInput
  PROVE  GoodSession(session')
<1>1. session.last_action = "PW_INPUT" /\ ReadySession(session)
  BY DEF DateInput, Asked, GoodSession
<1>2. PICK d \in Dates :
        LET s == Answered(session, "depDate", d, "DATE_INPUT") IN
        session' \in IF Has(s.train_info, "fromFavourite")
                     THEN AfterTrainList(At(s, "SEAT_STRATEGY_INPUT")) ELSE {s}
  BY DEF DateInput
<1> DEFINE info == Put(session.train_info, "depDate", d)
<1> DEFINE s == Answered(session, "depDate", d, "DATE_INPUT")
<1>3. Has(info, "depDate") /\ Sound(info)
  BY <1>1 DEF ReadySession, Sound, FilledIn, Put, Has
<1>4. /\ ReadySession(s) /\ GoodSession(s) /\ s.last_action = "DATE_INPUT" /\ s.train_info = info
  <2> HIDE DEF info
  <2>1. Complete(info, "DATE_INPUT")
    BY <1>3 DEF Complete
  <2> QED
    BY <1>1, <2>1, AnsweredGood DEF info, DraftStates, ListStates
<1> HIDE DEF s, info
<1>5. CASE Has(info, "fromFavourite")
  <2> DEFINE u == At(s, "SEAT_STRATEGY_INPUT")
  <2>1. Complete(info, "SEAT_STRATEGY_INPUT")
    BY <1>3, <1>5 DEF Complete, Sound, FilledIn, Has
  <2>2. ReadySession(u)
    BY <1>4, <2>1, MovedReady DEF DraftStates
  <2>3. u.last_action = "SEAT_STRATEGY_INPUT"
    BY <1>4, AtIs, ProgressIs DEF ReadySession, DraftStates
  <2>4. session' \in AfterTrainList(u)
    BY <1>2, <1>4, <1>5 DEF s
  <2> HIDE DEF u
  <2> QED
    BY <2>2, <2>3, <2>4, ListGood
<1>6. CASE ~Has(info, "fromFavourite")
  BY <1>2, <1>4, <1>6 DEF s
<1> QED
  BY <1>5, <1>6

LEMMA SourceGood ==
  ASSUME GoodSession(session), SourceInput
  PROVE  GoodSession(session')
<1>1. session.last_action = "DATE_INPUT" /\ ReadySession(session)
  BY DEF SourceInput, Asked, GoodSession
<1>2. PICK name \in Serves(Operator(session)) :
        session' = Answered(session, "srcLocate", name, "SRC_INPUT")
  BY DEF SourceInput, Stations
<1>3. Complete(Put(session.train_info, "srcLocate", name), "SRC_INPUT")
  BY <1>1 DEF ReadySession, Complete, DraftOf, DraftStates, Put, Has
<1> QED
  BY <1>1, <1>2, <1>3, AnsweredGood DEF DraftStates, ListStates

LEMMA PlainGood ==
  ASSUME GoodSession(session), PlainInput
  PROVE  GoodSession(session')
<1>1. PICK p \in DOMAIN Plain :
        /\ session.last_action = p
        /\ session' = Answered(session, Plain[p][1], Plain[p][2], Plain[p][3])
  BY DEF PlainInput, Asked
<1>2. ReadySession(session)
  BY DEF GoodSession
<1>3. CASE p = "SRC_INPUT"
  <2>1. session' = Answered(session, "dstLocate", "shared", "DST_INPUT")
    BY <1>1, <1>3 DEF Plain
  <2>2. Complete(Put(session.train_info, "dstLocate", "shared"), "DST_INPUT")
    BY <1>1, <1>2, <1>3 DEF ReadySession, Complete, DraftOf, DraftStates, Put, Has
  <2> QED
    BY <1>1, <1>2, <1>3, <2>1, <2>2, AnsweredGood DEF DraftStates, ListStates
<1>4. CASE p = "DST_INPUT"
  <2>1. session' = Answered(session, "depTime", "given", "DEP_TIME_INPUT")
    BY <1>1, <1>4 DEF Plain
  <2>2. Complete(Put(session.train_info, "depTime", "given"), "DEP_TIME_INPUT")
    BY <1>1, <1>2, <1>4 DEF ReadySession, Complete, DraftOf, DraftStates, Put, Has
  <2> QED
    BY <1>1, <1>2, <1>4, <2>1, <2>2, AnsweredGood DEF DraftStates, ListStates
<1>5. CASE p = "MAX_DEP_TIME_INPUT"
  <2>1. session' = Answered(session, "trainType", "ALL", "TRAIN_TYPE_INPUT")
    BY <1>1, <1>5 DEF Plain
  <2>2. Complete(Put(session.train_info, "trainType", "ALL"), "TRAIN_TYPE_INPUT")
    BY <1>1, <1>2, <1>5 DEF ReadySession, Complete, DraftOf, DraftStates, Put, Has
  <2> QED
    BY <1>1, <1>2, <1>5, <2>1, <2>2, AnsweredGood DEF DraftStates, ListStates
<1>6. CASE p = "TRAIN_TYPE_INPUT"
  <2>1. session' = Answered(session, "specialInfo", "given", "SPECIAL_INPUT")
    BY <1>1, <1>6 DEF Plain
  <2>2. Complete(Put(session.train_info, "specialInfo", "given"), "SPECIAL_INPUT")
    BY <1>1, <1>2, <1>6 DEF ReadySession, Complete, DraftOf, DraftStates, Put, Has
  <2> QED
    BY <1>1, <1>2, <1>6, <2>1, <2>2, AnsweredGood DEF DraftStates, ListStates
<1> QED
  BY <1>1, <1>3, <1>4, <1>5, <1>6 DEF Plain

LEMMA MaxDepTimeGood ==
  ASSUME GoodSession(session), MaxDepTimeInput
  PROVE  GoodSession(session')
<1> DEFINE s == Answered(session, "maxDepTime", "given", "MAX_DEP_TIME_INPUT")
<1> DEFINE u == Answered(s, "trainType", "SRT", "TRAIN_TYPE_INPUT")
<1>1. session.last_action = "DEP_TIME_INPUT" /\ ReadySession(session)
  BY DEF MaxDepTimeInput, Asked, GoodSession
<1>2. session' \in {s, u}
  BY DEF MaxDepTimeInput
<1>3. Complete(Put(session.train_info, "maxDepTime", "given"), "MAX_DEP_TIME_INPUT")
  BY <1>1 DEF ReadySession, Complete, DraftOf, DraftStates, Put, Has
<1>4. ReadySession(s) /\ GoodSession(s) /\ s.last_action = "MAX_DEP_TIME_INPUT"
  BY <1>1, <1>3, AnsweredGood DEF DraftStates, ListStates
<1> HIDE DEF s
<1>5. Complete(Put(s.train_info, "trainType", "SRT"), "TRAIN_TYPE_INPUT")
  BY <1>4 DEF ReadySession, Complete, DraftOf, DraftStates, Put, Has
<1>6. GoodSession(u)
  BY <1>4, <1>5, AnsweredGood DEF DraftStates, ListStates
<1> QED
  BY <1>2, <1>4, <1>6

LEMMA PassengerCountGood ==
  ASSUME GoodSession(session), PassengerCountInput
  PROVE  GoodSession(session')
<1>1. session.last_action = "SPECIAL_INPUT" /\ ReadySession(session)
  BY DEF PassengerCountInput, Asked, GoodSession
<1>2. PICK n \in {1, 2} :
        LET s == Answered(session, "passengerCount", n, "PASSENGER_COUNT_INPUT") IN
        session' \in IF n > 1 THEN {s}
                     ELSE AfterTrainList(Answered(s, "seatStrategy", "consecutive",
                                                  "SEAT_STRATEGY_INPUT"))
  BY DEF PassengerCountInput
<1> DEFINE s == Answered(session, "passengerCount", n, "PASSENGER_COUNT_INPUT")
<1> DEFINE u == Answered(s, "seatStrategy", "consecutive", "SEAT_STRATEGY_INPUT")
<1>3. session' = s \/ session' \in AfterTrainList(u)
  BY <1>2
<1>4. Complete(Put(session.train_info, "passengerCount", n), "PASSENGER_COUNT_INPUT")
  BY <1>1 DEF ReadySession, Complete, DraftOf, DraftStates, Put, Has
<1>5. ReadySession(s) /\ GoodSession(s) /\ s.last_action = "PASSENGER_COUNT_INPUT"
  BY <1>1, <1>4, AnsweredGood DEF DraftStates, ListStates
<1> HIDE DEF s
<1>6. Complete(Put(s.train_info, "seatStrategy", "consecutive"), "SEAT_STRATEGY_INPUT")
  BY <1>5 DEF ReadySession, Complete, DraftOf, DraftStates, Put, Has
<1>7. ReadySession(u) /\ u.last_action = "SEAT_STRATEGY_INPUT"
  BY <1>5, <1>6, AnsweredGood DEF DraftStates
<1> HIDE DEF u
<1> QED
  BY <1>3, <1>5, <1>7, ListGood

LEMMA SeatStrategyGood ==
  ASSUME GoodSession(session), SeatStrategyInput
  PROVE  GoodSession(session')
<1>1. session.last_action = "PASSENGER_COUNT_INPUT" /\ ReadySession(session)
  BY DEF SeatStrategyInput, Asked, GoodSession
<1>2. PICK kind \in {"consecutive", "random"} :
        session' \in AfterTrainList(Answered(Note(session, "seatStrategyShow", kind),
                                             "seatStrategy", kind, "SEAT_STRATEGY_INPUT"))
  BY DEF SeatStrategyInput
<1> DEFINE s == Note(session, "seatStrategyShow", kind)
<1> DEFINE u == Answered(s, "seatStrategy", kind, "SEAT_STRATEGY_INPUT")
<1>3. ReadySession(s)
  BY <1>1, NotedReady DEF DraftStates
<1>4. s.last_action = "PASSENGER_COUNT_INPUT"
  BY <1>1, NoteIs DEF ReadySession
<1>5. session' \in AfterTrainList(u)
  BY <1>2
<1> HIDE DEF s
<1>6. Complete(Put(s.train_info, "seatStrategy", kind), "SEAT_STRATEGY_INPUT")
  BY <1>3, <1>4 DEF ReadySession, Complete, DraftOf, DraftStates, Put, Has
<1>7. ReadySession(u) /\ u.last_action = "SEAT_STRATEGY_INPUT"
  BY <1>3, <1>4, <1>6, AnsweredGood DEF DraftStates
<1> HIDE DEF u
<1> QED
  BY <1>5, <1>7, ListGood

LEMMA TrainSelectionGood ==
  ASSUME GoodSession(session), TrainSelectionInput
  PROVE  GoodSession(session')
<1> DEFINE options == Get(session.train_info, "trainOptions", {})
<1> DEFINE Toggled(train) == (Ticked(session) \ {train}) \union ({train} \ Ticked(session))
<1>1. session.last_action = "SEAT_STRATEGY_INPUT" /\ ReadySession(session)
  BY DEF TrainSelectionInput, Asked, GoodSession
<1>2. \/ session' \in {ListClosed(session, {}), ListClosed(session, Ticked(session))}
      \/ session' \in AfterTrainList(session)
      \/ \E now \in SUBSET (Ticked(session) \union options) :
           session' = Note(session, "selectedTrains", now)
  <2>1. \A train \in options : Toggled(train) \in SUBSET (Ticked(session) \union options)
    OBVIOUS
  <2>2. \A typed \in SUBSET options : typed \in SUBSET (Ticked(session) \union options)
    OBVIOUS
  <2> QED
    BY <2>1, <2>2 DEF TrainSelectionInput
<1>3. DraftOf(session) = "SEAT_STRATEGY_INPUT"
  BY <1>1 DEF DraftOf
<1>4. ListsStay => /\ Ticked(session) \subseteq TrainsOn[session.train_info["depDate"]]
                   /\ options \subseteq TrainsOn[session.train_info["depDate"]]
  BY <1>1, <1>3 DEF GoodSession, TrainsOK, ListStates
<1>5. CASE session' \in {ListClosed(session, {}), ListClosed(session, Ticked(session))}
  BY <1>1, <1>4, <1>5, ClosedGood
<1>6. CASE session' \in AfterTrainList(session)
  BY <1>1, <1>6, ListGood
<1>7. ASSUME NEW now \in SUBSET (Ticked(session) \union options),
             session' = Note(session, "selectedTrains", now)
      PROVE  GoodSession(session')
  <2> DEFINE info == Put(session.train_info, "selectedTrains", now)
  <2> DEFINE s == Note(session, "selectedTrains", now)
  <2>1. ListsStay => now \subseteq TrainsOn[session.train_info["depDate"]]
    BY <1>4
  <2>2. ReadySession(s)
    BY <1>1, NotedReady DEF DraftStates
  <2>3. s.last_action = "SEAT_STRATEGY_INPUT" /\ s.train_info = info
    BY <1>1, NoteIs DEF ReadySession
  <2>4. Has(session.train_info, "depDate")
    BY <1>1, <1>3 DEF ReadySession, Complete, DraftStates
  <2>5. /\ info["depDate"] = session.train_info["depDate"]
        /\ Ticked(s) = now /\ Get(info, "trainOptions", {}) = options
    BY <2>3, <2>4 DEF Put, Has, Get, Ticked
  <2> HIDE DEF info, s, options
  <2>6. ListsStay => TrainsOK(s)
    BY <1>4, <2>1, <2>3, <2>5 DEF TrainsOK
  <2>7. GoodSession(s)
    BY <2>2, <2>6 DEF GoodSession
  <2> QED
    BY <1>7, <2>7 DEF s
<1> QED
  BY <1>2, <1>5, <1>6, <1>7

\* From the summary to the time of the appointment, and back.
LEMMA SummaryGood ==
  ASSUME NEW s, GoodSession(s), s.last_action \in {"TRAIN_SELECT_INPUT", "SCHEDULE_PENDING"},
         NEW p \in {"TRAIN_SELECT_INPUT", "SCHEDULE_PENDING"}
  PROVE  GoodSession(At(s, p))
<1> DEFINE t == At(s, p)
<1>1. /\ ReadySession(s) /\ Complete(s.train_info, p) /\ DraftOf(s) = s.last_action
  BY DEF GoodSession, ReadySession, Complete, DraftOf, DraftStates
<1>2. ReadySession(t)
  BY <1>1, MovedReady DEF DraftStates
<1>3. t.last_action = p /\ t.train_info = s.train_info
  <2>1. p \in Progress /\ Shaped(s)
    BY <1>1, ProgressIs DEF ReadySession, DraftStates
  <2> QED
    BY <2>1, AtIs
<1> HIDE DEF t
<1>4. ListsStay => TrainsOK(t)
  BY <1>1, <1>3 DEF GoodSession, TrainsOK, DraftOf, Ticked, ListStates
<1>5. GoodSession(t)
  BY <1>2, <1>4 DEF GoodSession
<1> QED
  BY <1>5 DEF t

-----------------------------------------------------------------------------
(* Back, and the draft *)

LEMMA BackGood ==
  ASSUME world \in Worlds, GoodSession(session), Back
  PROVE  GoodSession(session')
<1> DEFINE p == Previous(session)
<1> DEFINE s == At(session, p)
<1>1. /\ session.last_action \in DOMAIN BackTargets
      /\ session' \in IF s.last_action = "SEAT_STRATEGY_INPUT" THEN AfterTrainList(s) ELSE {s}
      /\ RailwayStays => ~(session.last_action = "START_ACCEPTED"
                             /\ Has(session.train_info, "miniAppPending"))
  BY DEF Back, Uses, RailwayStays
<1>2. ReadySession(session) /\ Shaped(session) /\ DraftOf(session) = session.last_action
  BY <1>1 DEF GoodSession, ReadySession, DraftOf, BackTargets
<1>3. CASE session.last_action \in DraftStates
  <2>1. p \in DraftStates \union {"PW_INPUT"} /\ Complete(session.train_info, p)
    <3>1. Complete(session.train_info, session.last_action)
      BY <1>2 DEF ReadySession
    <3> DEFINE la == session.last_action
    <3>2. \/ la = "DATE_INPUT" /\ p = "PW_INPUT"
          \/ la = "SRC_INPUT" /\ p = "DATE_INPUT"
          \/ la = "DST_INPUT" /\ p = "SRC_INPUT"
          \/ la = "DEP_TIME_INPUT" /\ p = "DST_INPUT"
          \/ la = "MAX_DEP_TIME_INPUT" /\ p = "DEP_TIME_INPUT"
          \/ la = "TRAIN_TYPE_INPUT" /\ p \in {"MAX_DEP_TIME_INPUT", "DEP_TIME_INPUT"}
          \/ la = "SPECIAL_INPUT" /\ p = "TRAIN_TYPE_INPUT"
          \/ la = "PASSENGER_COUNT_INPUT" /\ p = "SPECIAL_INPUT"
          \/ la = "SEAT_STRATEGY_INPUT" /\ p \in {"PASSENGER_COUNT_INPUT", "SPECIAL_INPUT"}
          \/ la = "TRAIN_SELECT_INPUT" /\ p = "SEAT_STRATEGY_INPUT"
          \/ la = "SCHEDULE_PENDING" /\ p = "TRAIN_SELECT_INPUT"
      BY <1>3 DEF Previous, BackTargets, DraftStates
    <3> HIDE DEF p, la
    <3> QED
      BY <3>1, <3>2 DEF la, Complete, DraftStates
  <2> HIDE DEF p
  <2>2. ReadySession(s)
    BY <1>2, <1>3, <2>1, MovedReady
  <2>3. s.last_action = p
    <3>1. p \in Progress
      BY <2>1, ProgressIs
    <3> QED
      BY <1>2, <3>1, AtIs
  <2>4. CASE p = "SEAT_STRATEGY_INPUT"
    BY <1>1, <2>2, <2>3, <2>4, ListGood
  <2>5. CASE p = "TRAIN_SELECT_INPUT"
    <3>1. session.last_action = "SCHEDULE_PENDING"
      BY <1>3, <2>5 DEF p, Previous, BackTargets, DraftStates
    <3> QED
      BY <1>1, <2>3, <2>5, <3>1, SummaryGood
  <2>6. CASE p \notin {"SEAT_STRATEGY_INPUT", "TRAIN_SELECT_INPUT"}
    <3>1. p # "SCHEDULE_PENDING"
      BY <1>3 DEF p, Previous, BackTargets, DraftStates
    <3>2. DraftOf(s) = p
      BY <2>1, <2>3 DEF DraftOf, DraftStates
    <3>3. GoodSession(s)
      BY <2>2, <2>3, <2>6, <3>1, <3>2, NoListGood DEF ListStates
    <3> QED
      BY <1>1, <2>3, <2>6, <3>3
  <2> QED
    BY <2>4, <2>5, <2>6
<1>4. CASE session.last_action \notin DraftStates
  <2>1. \/ session.last_action = "START_ACCEPTED" /\ p = "OPERATOR_PENDING"
        \/ session.last_action = "ID_INPUT" /\ p = "START_ACCEPTED"
    BY <1>1, <1>4 DEF Previous, BackTargets, DraftStates
  <2> HIDE DEF p
  <2>2. /\ s = [in_progress |-> session.in_progress, last_action |-> p,
                credentials |-> session.credentials, train_info |-> session.train_info]
        /\ Shaped(s)
    <3>1. p \in Progress
      BY <2>1, ProgressIs
    <3> QED
      BY <1>2, <3>1, AtIs
  <2> HIDE DEF s
  <2>3. Operator(s) = Operator(session)
    BY <2>2 DEF Operator
  <2>4. RailwayStays => StationsOK(s)
    BY <1>1, <1>2, <2>1, <2>2, <2>3 DEF ReadySession, StationsOK
  <2>5. LoginOK(s)
    BY <2>1, <2>2 DEF LoginOK, DraftStates
  <2>6. DraftOf(s) = p
    BY <2>1, <2>2 DEF DraftOf
  <2>7. ReadySession(s)
    BY <1>2, <2>1, <2>2, <2>4, <2>5, <2>6 DEF ReadySession, Complete, DraftStates
  <2>8. GoodSession(s)
    BY <2>1, <2>2, <2>6, <2>7, NoListGood DEF ListStates
  <2> QED
    BY <1>1, <2>1, <2>2, <2>8
<1> QED
  BY <1>3, <1>4

-----------------------------------------------------------------------------
(* Logging in *)

Accounts == [Railways -> Numbers \union {NoNumber}]
GoodOutcome(o) == GoodSession(o.session) /\ o.account \in Accounts

LEMMA UnchangedGood ==
  ASSUME NEW s, GoodSession(s), account \in Accounts
  PROVE  GoodOutcome(Unchanged(s))
  BY DEF GoodOutcome, Unchanged

LEMMA ForgottenIs ==
  ASSUME account \in Accounts, NEW r
  PROVE  Forgotten(r) \in Accounts
  BY DEF Accounts, Forgotten

LEMMA RegisteredIs ==
  ASSUME account \in Accounts, NEW r \in Railways, Registered(r)
  PROVE  account[r] \in Numbers
  BY DEF Accounts, Registered

\* A login accepted for the railway of the session, which stands at the date then.
LEMMA LoggedInGood ==
  ASSUME NEW s, ReadySession(s), NEW n \in Numbers
  PROVE  GoodSession(LoggedIn(s, n))
<1> DEFINE t == LoggedIn(s, n)
<1>1. /\ t = [in_progress |-> s.in_progress, last_action |-> "PW_INPUT",
              credentials |-> [id |-> n, pw |-> "typed", by |-> Operator(s)],
              train_info |-> s.train_info]
      /\ Shaped(t)
  BY LoggedInIs, RailwayIs DEF ReadySession
<1> HIDE DEF t
<1>2. Operator(t) = Operator(s) /\ DraftOf(t) = "PW_INPUT"
  BY <1>1 DEF Operator, DraftOf
<1>3. LoginOK(t)
  BY <1>1, <1>2, SessionAssumption DEF LoginOK, Fits, Usable
<1>4. RailwayStays => StationsOK(t)
  BY <1>1, <1>2 DEF ReadySession, StationsOK
<1>5. ReadySession(t)
  BY <1>1, <1>2, <1>3, <1>4 DEF ReadySession, Complete, DraftStates
<1>6. GoodSession(t)
  BY <1>1, <1>2, <1>5, NoListGood DEF ListStates
<1> QED
  BY <1>6 DEF t

LEMMA ServerLoginGood ==
  ASSUME NEW s, GoodSession(s), account \in Accounts, NEW o \in ServerLogin(s)
  PROVE  GoodOutcome(o)
<1>1. GoodSession(LoggedIn(s, ServerNumber))
  BY LoggedInGood, ConversationAssumption DEF GoodSession
<1> QED
  BY <1>1, UnchangedGood DEF ServerLogin

LEMMA RegisteredLoginGood ==
  ASSUME NEW s, ReadySession(s), account \in Accounts, Registered(Operator(s)),
         NEW o \in RegisteredLogin(s)
  PROVE  GoodOutcome(o)
<1>1. account[Operator(s)] \in Numbers
  BY RailwayIs, RegisteredIs DEF ReadySession
<1>2. GoodSession(LoggedIn(s, account[Operator(s)]))
  BY <1>1, LoggedInGood
<1>3. GoodSession(FreshFlow(s)) /\ Forgotten(Operator(s)) \in Accounts
  BY FreshFlowGood, ForgottenIs DEF ReadySession
<1> QED
  BY <1>2, <1>3, UnchangedGood DEF RegisteredLogin, GoodOutcome

LEMMA BeginFlowGood ==
  ASSUME NEW s, Shaped(s), account \in Accounts, NEW o \in BeginFlow(s)
  PROVE  GoodOutcome(o)
<1> DEFINE f == FreshFlow(s)
<1>1. GoodSession(f) /\ Operator(f) = "KORAIL"
  <2>1. GoodSession(f) /\ f.train_info = Nothing
    BY FreshFlowGood, FreshFlowIs
  <2> HIDE DEF f
  <2> QED
    BY <2>1, NothingIs DEF Operator, Get
<1>2. o \in IF UsesAnyServerAccount \/ ~Registered("KORAIL") THEN {Unchanged(f)}
                                                           ELSE RegisteredLogin(f)
  BY DEF BeginFlow
<1> HIDE DEF f
<1>3. CASE UsesAnyServerAccount \/ ~Registered("KORAIL")
  BY <1>1, <1>2, <1>3, UnchangedGood
<1>4. CASE ~(UsesAnyServerAccount \/ ~Registered("KORAIL"))
  BY <1>1, <1>2, <1>4, RegisteredLoginGood DEF GoodSession
<1> QED
  BY <1>3, <1>4

\* The draft taken up again: a login for its railway, and its answers.
LEMMA DraftLoginsFit ==
  ASSUME world \in Worlds, GoodSession(session), account \in Accounts,
         session.last_action = "RESUME_PENDING", NEW s \in DraftLogins(session)
  PROVE  /\ Shaped(s) /\ s.train_info = session.train_info
         /\ Fits(s)
<1>1. ReadySession(session) /\ Shaped(session) /\ Operator(session) \in Railways
  BY RailwayIs DEF GoodSession, ReadySession
<1>2. CASE Usable(session.credentials)
  <2>1. s = session
    BY <1>2 DEF DraftLogins
  <2> QED
    BY <1>1, <1>2, <2>1 DEF ReadySession, LoginOK
<1>3. ASSUME NEW n \in Numbers, s = LoggedIn(session, n)
      PROVE  /\ Shaped(s) /\ s.train_info = session.train_info
             /\ Fits(s)
  <2>1. /\ s = [in_progress |-> session.in_progress, last_action |-> "PW_INPUT",
                credentials |-> [id |-> n, pw |-> "typed", by |-> Operator(session)],
                train_info |-> session.train_info]
        /\ Shaped(s)
    BY <1>1, <1>3, LoggedInIs
  <2>2. Operator(s) = Operator(session)
    BY <2>1 DEF Operator
  <2> QED
    BY <2>1, <2>2, SessionAssumption DEF Fits, Usable
<1>4. CASE ~Usable(session.credentials)
  <2>1. \/ s = LoggedIn(session, ServerNumber)
        \/ Registered(Operator(session)) /\ s = LoggedIn(session, account[Operator(session)])
    BY <1>4 DEF DraftLogins
  <2> QED
    BY <1>1, <1>3, <2>1, RegisteredIs, ConversationAssumption
<1> QED
  BY <1>2, <1>4

LEMMA DraftRefusedGood ==
  ASSUME GoodSession(session), account \in Accounts, NEW o \in DraftRefused(session)
  PROVE  GoodOutcome(o)
<1>1. \/ o = Unchanged(session)
      \/ Registered(Operator(session)) /\ o \in RegisteredLogin(session)
      \/ o \in BeginFlow(session)
  BY DEF DraftRefused
<1> QED
  BY <1>1, UnchangedGood, RegisteredLoginGood, BeginFlowGood DEF GoodSession, ReadySession

LEMMA ResumeGood ==
  ASSUME world \in Worlds, GoodSession(session), account \in Accounts, ResumeDraft
  PROVE  GoodSession(session') /\ account' \in Accounts
<1> DEFINE p == session.train_info["draftProgress"]
<1>1. session.last_action = "RESUME_PENDING"
  BY DEF ResumeDraft, Asked
<1>2. /\ Shaped(session) /\ Sound(session.train_info) /\ p \in DraftStates
      /\ DraftOf(session) = p /\ Complete(session.train_info, p)
  BY <1>1 DEF GoodSession, ReadySession, Sound, DraftOf, Get
<1>3. \/ \E s \in DraftLogins(session) :
           LET draft == At([s EXCEPT !.train_info = Drop(@, {"draftProgress"})], p) IN
           /\ session' \in IF p = "SEAT_STRATEGY_INPUT" THEN AfterTrainList(draft) ELSE {draft}
           /\ UNCHANGED account
      \/ \E o \in DraftRefused(session) \union BeginFlow(session) :
           session' = o.session /\ account' = o.account
  BY DEF ResumeDraft
<1>4. ASSUME NEW s \in DraftLogins(session), UNCHANGED account,
             LET draft == At([s EXCEPT !.train_info = Drop(@, {"draftProgress"})], p) IN
             session' \in IF p = "SEAT_STRATEGY_INPUT" THEN AfterTrainList(draft) ELSE {draft}
      PROVE  GoodSession(session')
  <2> DEFINE info == Drop(session.train_info, {"draftProgress"})
  <2> DEFINE draft == At([s EXCEPT !.train_info = Drop(@, {"draftProgress"})], p)
  <2>1. /\ Shaped(s) /\ s.train_info = session.train_info
        /\ Fits(s)
    BY <1>1, <1>4, DraftLoginsFit
  <2>2. /\ draft = [in_progress |-> s.in_progress, last_action |-> p,
                    credentials |-> s.credentials, train_info |-> info]
        /\ Shaped(draft)
    <3>1. [s EXCEPT !.train_info = Drop(@, {"draftProgress"})]
            = [in_progress |-> s.in_progress, last_action |-> s.last_action,
               credentials |-> s.credentials, train_info |-> info]
      <4> HIDE DEF info
      <4> QED
        BY <2>1 DEF Shaped, info
    <3>2. p \in Progress
      BY <1>2, ProgressIs
    <3> DEFINE u == [s EXCEPT !.train_info = Drop(@, {"draftProgress"})]
    <3>3. draft = At(u, p) /\ u = [in_progress |-> s.in_progress, last_action |-> s.last_action,
                                   credentials |-> s.credentials, train_info |-> info]
      BY <3>1
    <3> HIDE DEF info, p, u, draft
    <3>4. Shaped(u)
      BY <2>1, <3>3 DEF Shaped
    <3> QED
      BY <3>2, <3>3, <3>4, AtIs
  <2>3. session' \in IF p = "SEAT_STRATEGY_INPUT" THEN AfterTrainList(draft) ELSE {draft}
    BY <1>4
  <2>4. /\ \A k : Has(info, k) <=> Has(session.train_info, k) /\ k # "draftProgress"
        /\ \A k \in DOMAIN session.train_info : k # "draftProgress" =>
             info[k] = session.train_info[k]
    BY DEF Drop, Has
  <2> HIDE DEF info, draft, p
  <2>5. Sound(info) /\ Complete(info, p)
    <3>1. Sound(info)
      BY <1>2, <2>4 DEF Sound, FilledIn, Has
    <3>2. Complete(info, p)
      BY <1>2, <2>4 DEF Complete
    <3> QED
      BY <3>1, <3>2
  <2>6. Operator(draft) = Operator(session) /\ Operator(s) = Operator(session)
    BY <2>1, <2>2, <2>4, OperatorIs DEF Has
  <2>7. LoginOK(draft)
    BY <1>2, <2>1, <2>2, <2>6 DEF LoginOK, Fits, DraftStates
  <2>8. RailwayStays => StationsOK(draft)
    BY <1>2, <2>2, <2>4, <2>6 DEF GoodSession, ReadySession, StationsOK, DraftStates, Has
  <2>9. DraftOf(draft) = p
    BY <1>2, <2>2 DEF DraftOf, DraftStates
  <2>10. ReadySession(draft)
    BY <1>2, <2>2, <2>5, <2>7, <2>8, <2>9 DEF ReadySession, DraftStates
  <2>11. CASE p = "SEAT_STRATEGY_INPUT"
    BY <2>2, <2>3, <2>10, <2>11, ListGood
  <2>12. CASE p # "SEAT_STRATEGY_INPUT"
    <3>1. Has(session.train_info, "depDate")
      BY <1>2 DEF Complete
    <3>2. ListsStay => TrainsOK(draft)
      BY <1>2, <2>2, <2>4, <2>9, <2>12, <3>1
      DEF GoodSession, TrainsOK, Ticked, Get, Has
    <3>3. GoodSession(draft)
      BY <2>10, <3>2 DEF GoodSession
    <3> QED
      BY <2>3, <2>12, <3>3
  <2> QED
    BY <2>11, <2>12
<1>5. ASSUME NEW o \in DraftRefused(session) \union BeginFlow(session),
             session' = o.session, account' = o.account
      PROVE  GoodSession(session') /\ account' \in Accounts
  BY <1>2, <1>5, DraftRefusedGood, BeginFlowGood DEF GoodOutcome
<1> QED
  BY <1>3, <1>4, <1>5

-----------------------------------------------------------------------------
(* Before the conditions *)

LEMMA ConfirmationGood ==
  ASSUME GoodSession(session), StartConfirmation
  PROVE  GoodSession(session')
<1> DEFINE s == At(session, "OPERATOR_PENDING")
<1>1. session' \in {s, Reset(session)} /\ session.last_action = "STARTED"
  BY DEF StartConfirmation, Asked
<1>2. ReadySession(session) /\ Shaped(session)
  BY DEF GoodSession, ReadySession
<1>3. /\ s = [in_progress |-> session.in_progress, last_action |-> "OPERATOR_PENDING",
              credentials |-> session.credentials, train_info |-> session.train_info]
      /\ Shaped(s)
  BY <1>2, AtIs, ProgressIs
<1> HIDE DEF s
<1>4. Operator(s) = Operator(session) /\ DraftOf(s) = "OPERATOR_PENDING"
  BY <1>3 DEF Operator, DraftOf
<1>5. GoodSession(s)
  BY <1>1, <1>2, <1>3, <1>4
  DEF GoodSession, ReadySession, Complete, LoginOK, StationsOK, TrainsOK, DraftStates, ListStates
<1> QED
  BY <1>1, <1>2, <1>5, ResetGood

\* The railway chosen: before anything that goes with one.
LEMMA RailwayChosenGood ==
  ASSUME GoodSession(session), session.last_action = "OPERATOR_PENDING", NEW r \in Railways,
         NEW p \in {"START_ACCEPTED", "OVERWRITE_PENDING"}
  PROVE  /\ GoodSession(Answered(session, "operator", r, p))
         /\ Operator(Answered(session, "operator", r, p)) = r
         /\ Shaped(Answered(session, "operator", r, p))
<1> DEFINE info == Put(session.train_info, "operator", r)
<1> DEFINE n == Note(session, "operator", r)
<1> DEFINE s == Answered(session, "operator", r, p)
<1>1. ReadySession(session) /\ Shaped(session)
  BY DEF GoodSession, ReadySession
<1>2. /\ n = [in_progress |-> session.in_progress, last_action |-> session.last_action,
              credentials |-> session.credentials, train_info |-> info]
      /\ Shaped(n)
  BY <1>1, NoteIs
<1>3. s = At(n, p)
  BY DEF Answered
<1>4. /\ \A k : Has(info, k) <=> Has(session.train_info, k) \/ k = "operator"
      /\ \A k \in DOMAIN session.train_info : k # "operator" => info[k] = session.train_info[k]
      /\ info["operator"] = r
  BY DEF Put, Has
<1> HIDE DEF info, n, s
<1>5. /\ s = [in_progress |-> session.in_progress, last_action |-> p,
              credentials |-> session.credentials, train_info |-> info]
      /\ Shaped(s)
  <2>1. p \in Progress
    BY ProgressIs
  <2> QED
    BY <1>2, <1>3, <2>1, AtIs
<1>6. Operator(s) = r /\ DraftOf(s) = p
  BY <1>4, <1>5 DEF Operator, Get, DraftOf
<1>7. Sound(info)
  BY <1>1, <1>4 DEF ReadySession, Sound, FilledIn, Has
<1>8. RailwayStays => StationsOK(s)
  BY <1>1, <1>4, <1>5 DEF ReadySession, StationsOK
<1>9. ReadySession(s)
  BY <1>5, <1>6, <1>7, <1>8 DEF ReadySession, Complete, LoginOK, DraftStates
<1>10. GoodSession(s)
  BY <1>5, <1>6, <1>9, NoListGood DEF ListStates
<1> QED
  BY <1>5, <1>6, <1>10 DEF s

LEMMA OperatorGood ==
  ASSUME GoodSession(session), account \in Accounts, OperatorInput
  PROVE  GoodSession(session') /\ account' \in Accounts
<1>1. session.last_action = "OPERATOR_PENDING" /\ Shaped(session)
  BY DEF OperatorInput, Asked, GoodSession, ReadySession
<1>2. PICK r \in Railways :
        LET s == Answered(session, "operator", r, "START_ACCEPTED") IN
        \E o \in
          IF Has(s.train_info, "onboarding")
          THEN IF UsesServerAccount(r) THEN {Unchanged(Reset(s))}
               ELSE IF Registered(r) THEN {Unchanged(At(s, "OVERWRITE_PENDING"))}
               ELSE {Unchanged(s)}
          ELSE IF UsesServerAccount(r) THEN ServerLogin(s)
               ELSE IF Registered(r) THEN RegisteredLogin(s) ELSE {Unchanged(s)} :
        Becoming(o)
  BY DEF OperatorInput
<1> DEFINE s == Answered(session, "operator", r, "START_ACCEPTED")
<1>3. GoodSession(s) /\ Operator(s) = r /\ Shaped(s)
  BY <1>1, RailwayChosenGood
<1>4. GoodSession(At(s, "OVERWRITE_PENDING"))
  <2> DEFINE n == Note(session, "operator", r)
  <2>1. Shaped(n)
    BY <1>1, NoteIs
  <2>2. s = At(n, "START_ACCEPTED")
    BY DEF Answered
  <2>3. Answered(session, "operator", r, "OVERWRITE_PENDING") = At(n, "OVERWRITE_PENDING")
    BY DEF Answered
  <2> HIDE DEF n, s
  <2>4. At(s, "OVERWRITE_PENDING") = At(n, "OVERWRITE_PENDING")
    <3>1. /\ s = [in_progress |-> n.in_progress, last_action |-> "START_ACCEPTED",
                  credentials |-> n.credentials, train_info |-> n.train_info]
          /\ Shaped(s)
      BY <2>1, <2>2, AtIs, ProgressIs
    <3>2. At(s, "OVERWRITE_PENDING")
            = [in_progress |-> s.in_progress, last_action |-> "OVERWRITE_PENDING",
               credentials |-> s.credentials, train_info |-> s.train_info]
      BY <3>1, AtIs, ProgressIs
    <3>3. At(n, "OVERWRITE_PENDING")
            = [in_progress |-> n.in_progress, last_action |-> "OVERWRITE_PENDING",
               credentials |-> n.credentials, train_info |-> n.train_info]
      BY <2>1, AtIs, ProgressIs
    <3> QED
      BY <3>1, <3>2, <3>3
  <2> QED
    BY <1>1, <2>3, <2>4, RailwayChosenGood
<1>5. PICK o :
        /\ session' = o.session /\ account' = o.account
        /\ \/ o = Unchanged(Reset(s)) \/ o = Unchanged(At(s, "OVERWRITE_PENDING"))
           \/ o = Unchanged(s) \/ o \in ServerLogin(s)
           \/ Registered(r) /\ o \in RegisteredLogin(s)
  BY <1>2 DEF Becoming
<1> HIDE DEF s
<1>6. GoodOutcome(o)
  <2>1. GoodSession(Reset(s))
    BY <1>3, ResetGood
  <2>2. o \in ServerLogin(s) => GoodOutcome(o)
    BY <1>3, ServerLoginGood
  <2>3. Registered(r) /\ o \in RegisteredLogin(s) => GoodOutcome(o)
    BY <1>3, RegisteredLoginGood DEF GoodSession
  <2> QED
    BY <1>3, <1>4, <1>5, <2>1, <2>2, <2>3, UnchangedGood
<1> QED
  BY <1>5, <1>6 DEF GoodOutcome

LEMMA OverwriteGood ==
  ASSUME GoodSession(session), account \in Accounts, OnboardingOverwrite
  PROVE  GoodSession(session') /\ account' \in Accounts
<1> DEFINE t == At(session, "START_ACCEPTED")
<1> DEFINE s == [t EXCEPT !.credentials = NoCredentials]
<1>1. session.last_action = "OVERWRITE_PENDING" /\ Shaped(session) /\ ReadySession(session)
  BY DEF OnboardingOverwrite, Asked, GoodSession, ReadySession
<1>2. PICK o \in {[session |-> s, account |-> Forgotten(Operator(session))],
                  Unchanged(Reset(session))} :
        session' = o.session /\ account' = o.account
  BY DEF OnboardingOverwrite, Becoming
<1>3. GoodOutcome(Unchanged(Reset(session)))
  BY <1>1, ResetGood, UnchangedGood
<1>4. t = [in_progress |-> session.in_progress, last_action |-> "START_ACCEPTED",
           credentials |-> session.credentials, train_info |-> session.train_info]
  BY <1>1, AtIs, ProgressIs
<1> HIDE DEF t
<1>5. /\ s = [in_progress |-> session.in_progress, last_action |-> "START_ACCEPTED",
              credentials |-> NoCredentials, train_info |-> session.train_info]
      /\ Shaped(s)
  <2>1. NoCredentials \in Credentials
    BY DEF NoCredentials, Credentials
  <2> QED
    BY <1>1, <1>4, <2>1, ProgressIs DEF Shaped
<1> HIDE DEF s
<1>6. Operator(s) = Operator(session) /\ DraftOf(s) = "START_ACCEPTED"
  BY <1>5 DEF Operator, DraftOf
<1>7. ReadySession(s)
  <2>1. RailwayStays => StationsOK(s)
    BY <1>1, <1>5 DEF ReadySession, StationsOK
  <2> QED
    BY <1>1, <1>5, <1>6, <2>1 DEF ReadySession, Complete, LoginOK, DraftStates
<1>8. GoodSession(s)
  BY <1>5, <1>6, <1>7, NoListGood DEF ListStates
<1> QED
  BY <1>2, <1>3, <1>8, ForgottenIs DEF GoodOutcome

LEMMA PhoneGood ==
  ASSUME GoodSession(session), PhoneInput
  PROVE  GoodSession(session')
<1> DEFINE t == At(session, "ID_INPUT")
<1>1. session.last_action = "START_ACCEPTED" /\ Shaped(session) /\ ReadySession(session)
  BY DEF PhoneInput, Asked, GoodSession, ReadySession
<1>2. PICK n \in Numbers : session' = [t EXCEPT !.credentials.id = n]
  BY DEF PhoneInput
<1>3. t = [in_progress |-> session.in_progress, last_action |-> "ID_INPUT",
           credentials |-> session.credentials, train_info |-> session.train_info]
  BY <1>1, AtIs, ProgressIs
<1> HIDE DEF t
<1> DEFINE c == [session.credentials EXCEPT !.id = n]
<1>4. c \in Credentials /\ c.id = n
  BY <1>1 DEF Shaped, Credentials
<1>5. /\ session' = [in_progress |-> session.in_progress, last_action |-> "ID_INPUT",
                     credentials |-> c, train_info |-> session.train_info]
  BY <1>2, <1>3
<1> HIDE DEF c
<1>6. Shaped(session')
  BY <1>1, <1>4, <1>5, ProgressIs DEF Shaped
<1> DEFINE s == session'
<1>7. /\ s.last_action = "ID_INPUT" /\ s.train_info = session.train_info
      /\ s.credentials.id # NoNumber
  BY <1>4, <1>5, SessionAssumption
<1> HIDE DEF s
<1>8. Operator(s) = Operator(session) /\ DraftOf(s) = "ID_INPUT"
  BY <1>7 DEF Operator, DraftOf
<1>9. ReadySession(s)
  <2>1. RailwayStays => StationsOK(s)
    BY <1>1, <1>7, <1>8 DEF ReadySession, StationsOK
  <2> QED
    BY <1>1, <1>6, <1>7, <1>8, <2>1 DEF ReadySession, Complete, LoginOK, DraftStates, s
<1>10. GoodSession(s)
  BY <1>7, <1>8, <1>9, NoListGood DEF ListStates
<1> QED
  BY <1>10 DEF s

\* A form's answers taken in, with a login for them.
LEMMA FormTakenReady ==
  ASSUME NEW s, ReadySession(s), s.last_action = "PW_INPUT", Has(s.train_info, "miniAppPending")
  PROVE  ReadySession(MiniAppFinished(s)) /\ MiniAppFinished(s).last_action = "SEAT_STRATEGY_INPUT"
<1> DEFINE info == Drop(s.train_info, {"miniAppPending"})
<1> DEFINE u == [s EXCEPT !.train_info = info]
<1> DEFINE t == MiniAppFinished(s)
<1>1. t = At(u, "SEAT_STRATEGY_INPUT")
  BY DEF MiniAppFinished
<1>2. /\ \A k : Has(info, k) <=> Has(s.train_info, k) /\ k # "miniAppPending"
      /\ \A k \in DOMAIN s.train_info : k # "miniAppPending" => info[k] = s.train_info[k]
  BY DEF Drop, Has
<1> HIDE DEF info
<1>3. /\ u = [in_progress |-> s.in_progress, last_action |-> s.last_action,
              credentials |-> s.credentials, train_info |-> info]
      /\ Shaped(u)
  <2>1. Shaped(s)
    BY DEF ReadySession
  <2>2. u = [in_progress |-> s.in_progress, last_action |-> s.last_action,
             credentials |-> s.credentials, train_info |-> info]
    BY <2>1 DEF Shaped
  <2> HIDE DEF u
  <2> QED
    BY <2>1, <2>2 DEF Shaped
<1> HIDE DEF u, t
<1>4. /\ t = [in_progress |-> s.in_progress, last_action |-> "SEAT_STRATEGY_INPUT",
              credentials |-> s.credentials, train_info |-> info]
      /\ Shaped(t)
  <2>1. "SEAT_STRATEGY_INPUT" \in Progress
    BY ProgressIs DEF DraftStates
  <2>2. /\ t = [in_progress |-> u.in_progress, last_action |-> "SEAT_STRATEGY_INPUT",
                credentials |-> u.credentials, train_info |-> u.train_info]
        /\ Shaped(t)
    BY <1>1, <1>3, <2>1, AtIs
  <2> QED
    BY <1>3, <2>2
<1>5. Operator(t) = Operator(s) /\ DraftOf(t) = "SEAT_STRATEGY_INPUT"
  BY <1>2, <1>4, OperatorIs DEF Has, DraftOf
<1>6. Sound(info) /\ Complete(info, "SEAT_STRATEGY_INPUT")
  <2>1. Sound(info)
    BY <1>2 DEF ReadySession, Sound, FilledIn, Has
  <2>2. FilledIn \union {"depDate"} \subseteq DOMAIN s.train_info
    BY DEF ReadySession, Sound
  <2>3. Complete(info, "SEAT_STRATEGY_INPUT")
    BY <1>2, <2>2 DEF Complete, FilledIn, Has
  <2> QED
    BY <2>1, <2>3
<1>7. LoginOK(t)
  BY <1>4, <1>5 DEF ReadySession, LoginOK, Fits, DraftStates
<1>8. RailwayStays => StationsOK(t)
  BY <1>2, <1>4, <1>5 DEF ReadySession, StationsOK, Has
<1>9. ReadySession(t)
  BY <1>4, <1>5, <1>6, <1>7, <1>8 DEF ReadySession, DraftStates
<1> QED
  BY <1>4, <1>9 DEF t

LEMMA PasswordGood ==
  ASSUME GoodSession(session), account \in Accounts, PasswordInput
  PROVE  GoodSession(session') /\ account' \in Accounts
<1> DEFINE n == session.credentials.id
<1> DEFINE s == LoggedIn(session, n)
<1>1. session.last_action = "ID_INPUT" /\ ReadySession(session) /\ Shaped(session)
  BY DEF PasswordInput, Asked, GoodSession, ReadySession
<1>2. n \in Numbers
  BY <1>1 DEF ReadySession, Shaped, Credentials
<1>3. Operator(session) \in Railways
  BY <1>1, RailwayIs DEF ReadySession
<1>4. /\ s = [in_progress |-> session.in_progress, last_action |-> "PW_INPUT",
              credentials |-> [id |-> n, pw |-> "typed", by |-> Operator(session)],
              train_info |-> session.train_info]
      /\ GoodSession(s)
  BY <1>1, <1>2, <1>3, LoggedInIs, LoggedInGood
<1>5. Operator(s) = Operator(session)
  BY <1>4 DEF Operator
<1>6. \/ /\ session' \in IF Has(s.train_info, "miniAppPending")
                         THEN AfterTrainList(MiniAppFinished(s)) ELSE {s}
         /\ account' = [account EXCEPT ![Operator(s)] = n]
      \/ /\ session' = [session EXCEPT !.credentials = Refused(session.credentials)]
         /\ UNCHANGED account
  BY DEF PasswordInput
<1>7. ASSUME session' \in IF Has(s.train_info, "miniAppPending")
                           THEN AfterTrainList(MiniAppFinished(s)) ELSE {s}
      PROVE  GoodSession(session')
  <2> HIDE DEF s
  <2>1. CASE Has(s.train_info, "miniAppPending")
    <3>1. s.last_action = "PW_INPUT" /\ ReadySession(s)
      BY <1>4 DEF GoodSession
    <3>2. /\ ReadySession(MiniAppFinished(s))
          /\ MiniAppFinished(s).last_action = "SEAT_STRATEGY_INPUT"
      BY <2>1, <3>1, FormTakenReady
    <3> QED
      BY <1>7, <2>1, <3>2, ListGood
  <2>2. CASE ~Has(s.train_info, "miniAppPending")
    BY <1>4, <1>7, <2>2
  <2> QED
    BY <2>1, <2>2
<1>8. ASSUME session' = [session EXCEPT !.credentials = Refused(session.credentials)]
      PROVE  GoodSession(session')
  <2> DEFINE t == session'
  <2>1. /\ t = [in_progress |-> session.in_progress, last_action |-> "ID_INPUT",
                credentials |-> Refused(session.credentials), train_info |-> session.train_info]
        /\ Refused(session.credentials) \in Credentials
        /\ Refused(session.credentials).id = n
    BY <1>1, <1>8 DEF Shaped, Refused, Credentials
  <2> HIDE DEF t, n
  <2>2. Shaped(t)
    BY <1>1, <2>1, ProgressIs DEF Shaped
  <2>3. Operator(t) = Operator(session) /\ DraftOf(t) = "ID_INPUT"
    BY <2>1 DEF Operator, DraftOf
  <2>4. RailwayStays => StationsOK(t)
    BY <1>1, <2>1, <2>3 DEF ReadySession, StationsOK
  <2>5. ReadySession(t)
    BY <1>1, <1>2, <2>1, <2>2, <2>3, <2>4, SessionAssumption
    DEF ReadySession, Complete, LoginOK, DraftStates
  <2>6. GoodSession(t)
    BY <2>1, <2>3, <2>5, NoListGood DEF ListStates
  <2> QED
    BY <2>6 DEF t
<1>9. account' \in Accounts
  <2>1. [account EXCEPT ![Operator(s)] = n] \in Accounts
    <3> HIDE DEF n, s
    <3> QED
      BY <1>2 DEF Accounts
  <2> QED
    BY <1>6, <2>1
<1> QED
  BY <1>6, <1>7, <1>8, <1>9

-----------------------------------------------------------------------------
(* At the summary *)

LEMMA AskScheduleGood ==
  ASSUME GoodSession(session), AskSchedule
  PROVE  GoodSession(session')
  BY SummaryGood DEF AskSchedule, Asked

\* A login whose password can no longer be read, of a draft or of any question.
LEMMA KeyRotatedGood ==
  ASSUME world \in Worlds, GoodSession(session), KeyRotated
  PROVE  GoodSession(session')
<1> DEFINE t == session'
<1>1. Shaped(session) /\ ReadySession(session)
  BY DEF GoodSession, ReadySession
<1>2. KeysStay => session.last_action = "RESUME_PENDING"
  BY DEF KeyRotated, KeysStay, Uses
<1>3. session' = [session EXCEPT !.credentials = Blank(session.credentials)]
  BY DEF KeyRotated
<1>4. /\ t = [in_progress |-> session.in_progress, last_action |-> session.last_action,
              credentials |-> Blank(session.credentials), train_info |-> session.train_info]
      /\ Blank(session.credentials) \in Credentials
      /\ ~Usable(Blank(session.credentials))
      /\ Blank(session.credentials).id = session.credentials.id
  BY <1>1, <1>3 DEF Shaped, Blank, Credentials, Usable
<1> HIDE DEF t
<1>5. Shaped(t)
  BY <1>1, <1>4 DEF Shaped
<1>6. Operator(t) = Operator(session) /\ DraftOf(t) = DraftOf(session)
  BY <1>4 DEF Operator, DraftOf
<1>7. LoginOK(t)
  BY <1>2, <1>4 DEF LoginOK, Fits, DraftStates
<1>8. RailwayStays => StationsOK(t)
  BY <1>1, <1>4, <1>6 DEF ReadySession, StationsOK
<1>9. ListsStay => TrainsOK(t)
  BY <1>4, <1>6 DEF GoodSession, TrainsOK, Ticked
<1>10. GoodSession(t)
  BY <1>1, <1>4, <1>5, <1>6, <1>7, <1>8, <1>9 DEF GoodSession, ReadySession
<1> QED
  BY <1>10 DEF t

\* The conditions kept as a favourite: all of them, with a station of their railway.
LEMMA FavouriteKept ==
  ASSUME GoodSession(session), session.last_action = "TRAIN_SELECT_INPUT"
  PROVE  GoodFavourite(AsFavourite(session.train_info))
<1> DEFINE info == session.train_info
<1> DEFINE f == AsFavourite(info)
<1>1. /\ DOMAIN f = FavouriteKeys
      /\ f["operator"] = Get(info, "operator", "KORAIL")
      /\ f["srcLocate"] = Get(info, "srcLocate", "")
  BY DEF AsFavourite, FavouriteKeys, RequiredKeys
<1>2. Has(info, "srcLocate") /\ Sound(info) /\ (RailwayStays => StationsOK(session))
  BY DEF GoodSession, ReadySession, Complete, DraftOf, DraftStates
<1>3. f["operator"] = Operator(session) /\ Operator(session) \in Railways
  BY <1>1, <1>2, RailwayIs DEF Operator
<1> HIDE DEF f
<1>4. RailwayStays => f["srcLocate"] \in Serves(f["operator"])
  BY <1>1, <1>2, <1>3 DEF StationsOK, Get
<1>5. GoodFavourite(f)
  BY <1>1, <1>3, <1>4 DEF GoodFavourite
<1> QED
  BY <1>5 DEF f

-----------------------------------------------------------------------------
(* Commands *)

\* The draft set aside, also one that had been set aside already.
LEMMA ParkedGood ==
  ASSUME NEW s, GoodSession(s), HasDraft(s)
  PROVE  GoodSession(Parked(s))
<1> DEFINE p == DraftOf(s)
<1> DEFINE info == Put(s.train_info, "draftProgress", p)
<1> DEFINE n == Note(s, "draftProgress", p)
<1> DEFINE u == At(n, "RESUME_PENDING")
<1> DEFINE t == Parked(s)
<1> DEFINE yes == TRUE
<1>1. ReadySession(s) /\ Shaped(s) /\ p \in DraftStates
  BY DEF GoodSession, ReadySession, HasDraft
<1>2. t = [u EXCEPT !.in_progress = yes]
  BY DEF Parked, Answered
<1>3. /\ \A k : Has(info, k) <=> Has(s.train_info, k) \/ k = "draftProgress"
      /\ \A k \in DOMAIN s.train_info : k # "draftProgress" => info[k] = s.train_info[k]
      /\ info["draftProgress"] = p
  <2> HIDE DEF p
  <2> QED
    BY DEF Put, Has
<1> HIDE DEF p
<1>4. /\ n = [in_progress |-> s.in_progress, last_action |-> s.last_action,
              credentials |-> s.credentials, train_info |-> info]
      /\ Shaped(n)
  BY <1>1, NoteIs
<1> HIDE DEF info, n, yes
<1>5. /\ u = [in_progress |-> s.in_progress, last_action |-> "RESUME_PENDING",
              credentials |-> s.credentials, train_info |-> info]
      /\ Shaped(u)
  BY <1>4, AtIs, ProgressIs
<1> HIDE DEF u, t
<1>6. t = [in_progress |-> yes, last_action |-> "RESUME_PENDING",
           credentials |-> s.credentials, train_info |-> info]
  BY <1>2, <1>5
<1>7. Shaped(t)
  BY <1>1, <1>6, ProgressIs DEF Shaped, yes
<1>8. Operator(t) = Operator(s) /\ DraftOf(t) = p
  BY <1>3, <1>6, OperatorIs DEF Has, DraftOf, Get
<1>9. Sound(info)
  BY <1>1, <1>3 DEF ReadySession, Sound, FilledIn, Has
<1>10. Complete(info, p)
  BY <1>1, <1>3 DEF ReadySession, Complete, p
<1>11. LoginOK(t)
  BY <1>1, <1>6, <1>8 DEF ReadySession, LoginOK, Fits, p, DraftOf, DraftStates
<1>12. RailwayStays => StationsOK(t)
  BY <1>1, <1>3, <1>6, <1>8 DEF ReadySession, StationsOK, Has
<1>13. Has(s.train_info, "depDate")
  BY DEF HasDraft
<1>14. ListsStay => TrainsOK(t)
  BY <1>3, <1>6, <1>8, <1>13 DEF GoodSession, TrainsOK, Ticked, Get, Has, p
<1>15. GoodSession(t)
  BY <1>3, <1>6, <1>7, <1>8, <1>9, <1>10, <1>11, <1>12, <1>14 DEF GoodSession, ReadySession
<1> QED
  BY <1>15 DEF t

LEMMA StartGood ==
  ASSUME GoodSession(session), account \in Accounts, Start
  PROVE  GoodSession(session') /\ account' \in Accounts
<1>1. CASE HasDraft(session)
  BY <1>1, ParkedGood DEF Start
<1>2. CASE ~HasDraft(session)
  <2>1. PICK o : /\ o \in BeginFlow(session) \/ o = Unchanged(Reset(session))
                 /\ session' = o.session /\ account' = o.account
    BY <1>2 DEF Start
  <2>2. Shaped(session)
    BY DEF GoodSession, ReadySession
  <2>3. GoodOutcome(o)
    BY <2>1, <2>2, BeginFlowGood, ResetGood, UnchangedGood
  <2> QED
    BY <2>1, <2>3 DEF GoodOutcome
<1> QED
  BY <1>1, <1>2

\* The registration's own flow has nothing filled in yet, and a railway still to choose.
LEMMA OnboardingGood ==
  ASSUME GoodSession(session), Onboarding
  PROVE  GoodSession(session')
<1> DEFINE info == Put(Nothing, "onboarding", TRUE)
<1> DEFINE u == At(session, "STARTED")
<1> DEFINE t == session'
<1> DEFINE yes == TRUE
<1>1. Shaped(session) /\ ReadySession(session)
  BY DEF GoodSession, ReadySession
<1>2. t = [u EXCEPT !.in_progress = yes, !.train_info = info]
  BY DEF Onboarding
<1>3. u = [in_progress |-> session.in_progress, last_action |-> "STARTED",
           credentials |-> session.credentials, train_info |-> session.train_info]
  BY <1>1, AtIs, ProgressIs
<1>4. \A k : Has(info, k) <=> k = "onboarding"
  BY NothingIs DEF Put, Has
<1> HIDE DEF info, u, t, yes
<1>5. t = [in_progress |-> yes, last_action |-> "STARTED",
           credentials |-> session.credentials, train_info |-> info]
  BY <1>2, <1>3
<1>6. Shaped(t)
  BY <1>1, <1>5, ProgressIs DEF Shaped, yes
<1>7. DraftOf(t) = "STARTED"
  BY <1>5 DEF DraftOf
<1>8. ReadySession(t)
  BY <1>4, <1>5, <1>6, <1>7
  DEF ReadySession, Sound, Complete, LoginOK, StationsOK, DraftStates
<1>9. GoodSession(t)
  BY <1>5, <1>7, <1>8, NoListGood DEF ListStates
<1> QED
  BY <1>9 DEF t

LEMMA NewSessionGood == GoodSession(NewSession)
<1> DEFINE t == NewSession
<1>1. /\ t.last_action = "INIT" /\ t.train_info = Nothing /\ Shaped(t)
  <2>1. NoCredentials \in Credentials
    BY DEF NoCredentials, Credentials
  <2> QED
    BY <2>1, ProgressIs DEF NewSession, Shaped
<1> HIDE DEF t
<1>2. GoodSession(t)
  BY <1>1, NothingIs
  DEF GoodSession, ReadySession, TrainsOK, StationsOK, LoginOK, Complete, Sound, DraftOf,
      DraftStates, ListStates
<1> QED
  BY <1>2 DEF t

\* Conditions filled in from a favourite, with a login for their railway.
LEMMA FavouriteTakenGood ==
  ASSUME NEW s, Shaped(s), s.last_action = "PW_INPUT", NEW f, GoodFavourite(f),
         Usable(s.credentials), s.credentials.by = f["operator"]
  PROVE  GoodSession([s EXCEPT !.train_info = Put(f, "fromFavourite", TRUE)])
<1> DEFINE info == Put(f, "fromFavourite", TRUE)
<1> DEFINE t == [s EXCEPT !.train_info = info]
<1>1. /\ \A k : Has(info, k) <=> k \in FavouriteKeys \/ k = "fromFavourite"
      /\ \A k \in FavouriteKeys : info[k] = f[k]
  BY DEF GoodFavourite, FavouriteKeys, RequiredKeys, Put, Has
<1> HIDE DEF info
<1>2. /\ t = [in_progress |-> s.in_progress, last_action |-> "PW_INPUT",
              credentials |-> s.credentials, train_info |-> info]
  BY DEF Shaped
<1> HIDE DEF t
<1>3. Shaped(t)
  BY <1>2, ProgressIs DEF Shaped
<1>4. Operator(t) = f["operator"] /\ DraftOf(t) = "PW_INPUT"
  BY <1>1, <1>2 DEF Operator, Get, DraftOf, FavouriteKeys
<1>5. Sound(info)
  <2>1. FilledIn \subseteq FavouriteKeys
    BY DEF FilledIn, FavouriteKeys, RequiredKeys
  <2>2. /\ "depDate" \notin FavouriteKeys /\ "draftProgress" \notin FavouriteKeys
        /\ "miniAppPending" \notin FavouriteKeys /\ "operator" \in FavouriteKeys
    BY DEF FavouriteKeys, RequiredKeys
  <2> QED
    BY <1>1, <2>1, <2>2 DEF Sound, GoodFavourite, Has
<1>6. RailwayStays => StationsOK(t)
  <2>1. "srcLocate" \in FavouriteKeys
    BY DEF FavouriteKeys, RequiredKeys
  <2> QED
    BY <1>1, <1>2, <1>4, <2>1 DEF StationsOK, GoodFavourite
<1>7. LoginOK(t)
  BY <1>2, <1>4 DEF LoginOK, Fits
<1>8. ReadySession(t)
  BY <1>2, <1>3, <1>4, <1>5, <1>6, <1>7 DEF ReadySession, Complete, DraftStates
<1>9. GoodSession(t)
  BY <1>2, <1>4, <1>8, NoListGood DEF ListStates
<1> QED
  BY <1>9 DEF t, info

\* A flow begun afresh, its railway already known.
LEMMA RailwayNotedGood ==
  ASSUME NEW s, Shaped(s), NEW r \in Railways
  PROVE  /\ GoodSession(Note(FreshFlow(s), "operator", r))
         /\ Operator(Note(FreshFlow(s), "operator", r)) = r
         /\ Note(FreshFlow(s), "operator", r).last_action = "STARTED"
<1> DEFINE f == FreshFlow(s)
<1> DEFINE info == Put(f.train_info, "operator", r)
<1> DEFINE t == Note(f, "operator", r)
<1>1. /\ Shaped(f) /\ f.last_action = "STARTED" /\ f.train_info = Nothing
  BY FreshFlowIs
<1> HIDE DEF f
<1>2. /\ \A k : Has(info, k) <=> k = "operator"
      /\ info["operator"] = r
  BY <1>1, NothingIs DEF Put, Has
<1>3. /\ t = [in_progress |-> f.in_progress, last_action |-> f.last_action,
              credentials |-> f.credentials, train_info |-> info]
      /\ Shaped(t)
  BY <1>1, NoteIs
<1> HIDE DEF info, t
<1>4. Operator(t) = r /\ DraftOf(t) = "STARTED"
  BY <1>1, <1>2, <1>3 DEF Operator, Get, DraftOf
<1>5. ReadySession(t)
  BY <1>1, <1>2, <1>3, <1>4
  DEF ReadySession, Sound, Complete, LoginOK, StationsOK, DraftStates
<1>6. GoodSession(t)
  BY <1>1, <1>3, <1>4, <1>5, NoListGood DEF ListStates
<1> QED
  BY <1>1, <1>3, <1>4, <1>6 DEF t, f

LEMMA StartFromFavouriteGood ==
  ASSUME GoodSession(session), account \in Accounts, \A f \in favourites : GoodFavourite(f),
         StartFromFavourite
  PROVE  GoodSession(session') /\ account' \in Accounts
<1>1. PICK favourite \in favourites :
        LET r == favourite.operator
            s == Note(FreshFlow(session), "operator", r)
        IN \E o \in IF UsesServerAccount(r) THEN ServerLogin(s)
                    ELSE IF Registered(r) THEN RegisteredLogin(s) ELSE {Unchanged(Reset(s))} :
             /\ account' = o.account
             /\ session' = IF o.session.last_action # "PW_INPUT" THEN o.session
                           ELSE [o.session EXCEPT !.train_info = Put(favourite, "fromFavourite", TRUE)]
  BY DEF StartFromFavourite
<1> DEFINE r == favourite["operator"]
<1> DEFINE s == Note(FreshFlow(session), "operator", r)
<1> DEFINE yes == TRUE
<1> DEFINE Taken(o) == IF o.session.last_action # "PW_INPUT" THEN o.session
                       ELSE [o.session EXCEPT !.train_info = Put(favourite, "fromFavourite", yes)]
<1>2. PICK o \in IF UsesServerAccount(r) THEN ServerLogin(s)
                 ELSE IF Registered(r) THEN RegisteredLogin(s) ELSE {Unchanged(Reset(s))} :
        account' = o.account /\ session' = Taken(o)
  BY <1>1
<1>3. \/ o \in ServerLogin(s)
      \/ Registered(r) /\ o \in RegisteredLogin(s)
      \/ o = Unchanged(Reset(s))
  <2> HIDE DEF s, r
  <2>1. CASE UsesServerAccount(r)
    BY <1>2, <2>1
  <2>2. CASE ~UsesServerAccount(r) /\ Registered(r)
    BY <1>2, <2>2
  <2>3. CASE ~UsesServerAccount(r) /\ ~Registered(r)
    BY <1>2, <2>3
  <2> QED
    BY <2>1, <2>2, <2>3
<1>4. GoodFavourite(favourite) /\ r \in Railways /\ Shaped(session)
  BY DEF GoodFavourite, GoodSession, ReadySession
<1>5. GoodSession(s) /\ Operator(s) = r /\ s.last_action = "STARTED" /\ Shaped(s)
  <2>1. GoodSession(s) => Shaped(s)
    BY DEF GoodSession, ReadySession
  <2> QED
    BY <1>4, <2>1, RailwayNotedGood
<1> HIDE DEF s, r
<1>6. Registered(r) => account[r] \in Numbers
  BY <1>4, RegisteredIs
<1>7. GoodOutcome(o)
  <2>1. o \in ServerLogin(s) => GoodOutcome(o)
    BY <1>5, ServerLoginGood
  <2>2. Registered(r) /\ o \in RegisteredLogin(s) => GoodOutcome(o)
    BY <1>5, RegisteredLoginGood DEF GoodSession
  <2> QED
    BY <1>5, <1>3, <2>1, <2>2, ResetGood, UnchangedGood
<1>8. ASSUME o.session.last_action = "PW_INPUT"
      PROVE  Usable(o.session.credentials) /\ o.session.credentials.by = r
  <2>1. \E n \in Numbers : o.session = LoggedIn(s, n)
    <3>1. o \in ServerLogin(s) => \E n \in Numbers : o.session = LoggedIn(s, n)
      BY <1>5, <1>8, ConversationAssumption DEF ServerLogin, Unchanged
    <3>2. FreshFlow(s).last_action = "STARTED" /\ Reset(s).last_action = "INIT"
      <4>1. FreshFlow(s).last_action = "STARTED"
        BY <1>5, FreshFlowIs
      <4>2. Reset(s).last_action = "INIT"
        BY <1>5, ResetIs
      <4> QED
        BY <4>1, <4>2
    <3>3. Registered(r) /\ o \in RegisteredLogin(s) => \E n \in Numbers : o.session = LoggedIn(s, n)
      BY <1>5, <1>6, <1>8, <3>2 DEF RegisteredLogin, Unchanged
    <3>4. o # Unchanged(Reset(s))
      BY <1>8, <3>2 DEF Unchanged
    <3> QED
      BY <1>3, <3>1, <3>3, <3>4
  <2>2. PICK n \in Numbers : o.session = LoggedIn(s, n)
    BY <2>1
  <2>3. o.session.credentials = [id |-> n, pw |-> "typed", by |-> r]
    BY <1>4, <1>5, <2>2, LoggedInIs
  <2> QED
    BY <2>3, SessionAssumption DEF Usable
<1>9. CASE o.session.last_action = "PW_INPUT"
  <2>1. Shaped(o.session)
    BY <1>7 DEF GoodOutcome, GoodSession, ReadySession
  <2>2. GoodSession([o.session EXCEPT !.train_info = Put(favourite, "fromFavourite", TRUE)])
    BY <1>4, <1>8, <1>9, <2>1, FavouriteTakenGood DEF r
  <2> QED
    BY <1>2, <1>7, <1>9, <2>2 DEF GoodOutcome
<1>10. CASE o.session.last_action # "PW_INPUT"
  BY <1>2, <1>7, <1>10 DEF GoodOutcome
<1> QED
  BY <1>9, <1>10

-----------------------------------------------------------------------------
(* Forms *)

\* What every form fills in, and nothing a conversation leaves on the way.
LEMMA FormIs ==
  ASSUME NEW f \in Submissions
  PROVE  /\ \A k : Has(AsTrainInfo(f), k) <=>
                     k \in FilledIn \union {"operator", "depDate", "seatStrategyShow", "selectedTrains"}
         /\ AsTrainInfo(f)["operator"] = f.operator /\ f.operator \in Railways
         /\ AsTrainInfo(f)["depDate"] = f.depDate /\ f.depDate \in Dates
         /\ AsTrainInfo(f)["srcLocate"] = f.srcLocate
  BY DEF AsTrainInfo, Has, FilledIn, Submissions

LEMMA SubmitFormGood ==
  ASSUME world \in Worlds, GoodSession(session), account \in Accounts, SubmitForm
  PROVE  GoodSession(session') /\ account' \in Accounts
<1>1. PICK f \in world.forms :
        LET r == f.operator
            s == [Reset(session) EXCEPT !.in_progress = TRUE,
                                        !.train_info = Put(AsTrainInfo(f), "miniAppPending", TRUE)]
            known == IF UsesServerAccount(r) THEN ServerNumber ELSE account[r]
        IN \/ /\ known # NoNumber
              /\ session' \in AfterTrainList(MiniAppFinished(LoggedIn(s, known)))
              /\ UNCHANGED account
           \/ /\ session' = At(s, "START_ACCEPTED")
              /\ account' = IF UsesServerAccount(r) THEN account ELSE Forgotten(r)
  BY DEF SubmitForm
<1>2. f \in Submissions /\ Valid(f)
  BY ChatFrontAssumption
<1> DEFINE yes == TRUE
<1> DEFINE info == Put(AsTrainInfo(f), "miniAppPending", yes)
<1> DEFINE u == Reset(session)
<1> DEFINE s == [u EXCEPT !.in_progress = yes, !.train_info = info]
<1> DEFINE known == IF UsesServerAccount(f.operator) THEN ServerNumber ELSE account[f.operator]
<1>3. \/ /\ known # NoNumber
         /\ session' \in AfterTrainList(MiniAppFinished(LoggedIn(s, known)))
         /\ UNCHANGED account
      \/ /\ session' = At(s, "START_ACCEPTED")
         /\ account' = account \/ account' = Forgotten(f.operator)
  BY <1>1
<1>4. /\ \A k : Has(info, k) <=> k \in FilledIn \union {"operator", "depDate", "seatStrategyShow",
                                                     "selectedTrains", "miniAppPending"}
      /\ info["operator"] = f.operator /\ f.operator \in Railways
      /\ info["depDate"] = f.depDate /\ f.depDate \in Dates
      /\ info["srcLocate"] = f.srcLocate
  <2> DEFINE form == AsTrainInfo(f)
  <2>1. /\ \A k : Has(form, k) <=>
                    k \in FilledIn \union {"operator", "depDate", "seatStrategyShow", "selectedTrains"}
        /\ form["operator"] = f.operator /\ f.operator \in Railways
        /\ form["depDate"] = f.depDate /\ f.depDate \in Dates
        /\ form["srcLocate"] = f.srcLocate
    BY <1>2, FormIs
  <2> HIDE DEF form, yes
  <2>2. info = Put(form, "miniAppPending", yes)
    BY DEF form
  <2>3. Has(form, "operator") /\ Has(form, "depDate") /\ Has(form, "srcLocate")
    BY <2>1 DEF FilledIn
  <2> QED
    BY <2>1, <2>2, <2>3 DEF Put, Has
<1> HIDE DEF yes, info, known
<1>5. /\ s = [in_progress |-> yes, last_action |-> "INIT",
              credentials |-> Blank(session.credentials), train_info |-> info]
      /\ Shaped(s)
  <2>1. Shaped(session)
    BY DEF GoodSession, ReadySession
  <2>2. /\ u.last_action = "INIT" /\ u.credentials = Blank(session.credentials)
        /\ Shaped(u)
    BY <2>1, ResetIs
  <2> HIDE DEF u
  <2>3. s = [in_progress |-> yes, last_action |-> u.last_action, credentials |-> u.credentials,
             train_info |-> info]
    <3> DEFINE was == u.in_progress
    <3> DEFINE la == u.last_action
    <3> DEFINE c == u.credentials
    <3> DEFINE i == u.train_info
    <3>1. u = [in_progress |-> was, last_action |-> la, credentials |-> c, train_info |-> i]
      BY <2>2 DEF Shaped
    <3>2. u.last_action = la /\ u.credentials = c
      OBVIOUS
    <3>3. s = [u EXCEPT !.in_progress = yes, !.train_info = info]
      OBVIOUS
    <3> HIDE DEF was, la, c, i, s
    <3>4. s = [in_progress |-> yes, last_action |-> la, credentials |-> c, train_info |-> info]
      BY <3>1, <3>3
    <3> QED
      BY <3>2, <3>4
  <2> HIDE DEF s
  <2> QED
    BY <2>2, <2>3, ProgressIs DEF Shaped, yes
<1> HIDE DEF s, u
<1>6. Operator(s) = f.operator /\ DraftOf(s) = "INIT"
  BY <1>4, <1>5 DEF Operator, Get, DraftOf
<1>7. Sound(info)
  BY <1>4 DEF Sound, FilledIn, Has
<1>8. StationsOK(s)
  BY <1>2, <1>4, <1>5, <1>6 DEF StationsOK, Valid
<1>9. ReadySession(s)
  BY <1>5, <1>6, <1>7, <1>8 DEF ReadySession, Complete, LoginOK, DraftStates
<1>10. CASE /\ known # NoNumber
            /\ session' \in AfterTrainList(MiniAppFinished(LoggedIn(s, known)))
            /\ UNCHANGED account
  <2> DEFINE l == LoggedIn(s, known)
  <2>1. known \in Numbers
    BY <1>4, <1>10, ConversationAssumption DEF known, Accounts
  <2>2. GoodSession(l)
    BY <1>9, <2>1, LoggedInGood
  <2>3. l.last_action = "PW_INPUT" /\ l.train_info = info
    BY <1>4, <1>5, <1>6, <2>1, LoggedInIs
  <2> HIDE DEF l
  <2>4. /\ ReadySession(MiniAppFinished(l))
        /\ MiniAppFinished(l).last_action = "SEAT_STRATEGY_INPUT"
    BY <1>4, <2>2, <2>3, FormTakenReady DEF GoodSession
  <2>5. session' \in AfterTrainList(MiniAppFinished(l))
    BY <1>10 DEF l
  <2> QED
    BY <1>10, <2>4, <2>5, ListGood
<1>11. CASE /\ session' = At(s, "START_ACCEPTED")
            /\ account' = account \/ account' = Forgotten(f.operator)
  <2> DEFINE t == At(s, "START_ACCEPTED")
  <2>1. /\ t = [in_progress |-> s.in_progress, last_action |-> "START_ACCEPTED",
                credentials |-> s.credentials, train_info |-> s.train_info]
        /\ Shaped(t)
    BY <1>5, AtIs, ProgressIs
  <2> HIDE DEF t
  <2>2. Operator(t) = Operator(s) /\ DraftOf(t) = "START_ACCEPTED"
    BY <2>1 DEF Operator, DraftOf
  <2>3. StationsOK(t)
    BY <1>4, <1>5, <1>8, <2>1, <2>2 DEF StationsOK
  <2>4. ReadySession(t)
    BY <1>5, <1>7, <2>1, <2>2, <2>3 DEF ReadySession, Complete, LoginOK, DraftStates
  <2>5. GoodSession(t)
    BY <2>1, <2>2, <2>4, NoListGood DEF ListStates
  <2> QED
    BY <1>11, <2>5, ForgottenIs DEF t
<1> QED
  BY <1>3, <1>10, <1>11

-----------------------------------------------------------------------------
(* Bookings *)

Bookings == booking = [t \in Threads |-> booking[t]] /\ \A t \in Threads : GoodBooking(booking[t])

LEMMA BookingMoves ==
  ASSUME Bookings, NEW t \in Threads, NEW b, GoodBooking(b), booking' = [booking EXCEPT ![t] = b]
  PROVE  Bookings'
<1>1. booking'[t] = b /\ \A u \in Threads : u # t => booking'[u] = booking[u]
  BY DEF Bookings
<1>2. booking' = [u \in Threads |-> booking'[u]]
  BY DEF Bookings
<1> QED
  BY <1>1, <1>2 DEF Bookings

LEMMA IdleGood == GoodBooking(Idle)
  BY DEF GoodBooking, Idle

\* A search about to start: the session says so, and has the login to start it with.
LEMMA FindingGood ==
  ASSUME NEW s, ReadySession(s), s.last_action \in DraftStates \union {"PW_INPUT"}
  PROVE  /\ GoodSession(At(s, "FINDING_TICKET"))
         /\ At(s, "FINDING_TICKET").last_action = "FINDING_TICKET"
         /\ At(s, "FINDING_TICKET").credentials = s.credentials
         /\ Fits(At(s, "FINDING_TICKET"))
<1> DEFINE t == At(s, "FINDING_TICKET")
<1>1. /\ t = [in_progress |-> s.in_progress, last_action |-> "FINDING_TICKET",
              credentials |-> s.credentials, train_info |-> s.train_info]
      /\ Shaped(t)
  BY AtIs, ProgressIs DEF ReadySession
<1> HIDE DEF t
<1>2. Operator(t) = Operator(s) /\ DraftOf(t) = "FINDING_TICKET"
  BY <1>1 DEF Operator, DraftOf
<1>3. RailwayStays => StationsOK(t)
  BY <1>1, <1>2 DEF ReadySession, StationsOK
<1>4. ReadySession(t)
  BY <1>1, <1>2, <1>3 DEF ReadySession, Complete, LoginOK, DraftStates
<1>5. GoodSession(t)
  BY <1>1, <1>2, <1>4, NoListGood DEF ListStates
<1>6. Fits(t)
  BY <1>1, <1>2 DEF ReadySession, LoginOK, Fits
<1> QED
  BY <1>1, <1>5, <1>6 DEF t

LEMMA DecidedGood ==
  ASSUME Bookings, NEW t \in Threads, NEW s, Decided(t, s),
         ReadySession(s), s.last_action \in DraftStates \union {"PW_INPUT"},
         s.credentials.id # NoNumber
  PROVE  GoodSession(session') /\ Bookings'
<1> DEFINE searching == At(s, "FINDING_TICKET")
<1> DEFINE level     == Evaluated(searching.credentials.id, IsDeveloper)
<1> DEFINE started   == [Idle EXCEPT !.at = "start", !.level = level, !.session = searching]
<1>1. \/ /\ session' = Reset(s)
         /\ booking' = [booking EXCEPT ![t] = Idle]
      \/ /\ session' = searching
         /\ booking' = [booking EXCEPT ![t] = started]
  BY DEF Decided
<1>2. /\ GoodSession(searching) /\ searching.last_action = "FINDING_TICKET"
      /\ searching.credentials = s.credentials
      /\ Fits(searching)
  BY FindingGood
<1>3. started = [at |-> "start", session |-> searching, level |-> level, call |-> "start"]
  <2> DEFINE none == NewSession
  <2> DEFINE i == Idle
  <2> DEFINE from == "start"
  <2>1. i = [at |-> "idle", session |-> none, level |-> "trial", call |-> from]
    BY DEF Idle
  <2>2. started = [i EXCEPT !.at = from, !.level = level, !.session = searching]
    OBVIOUS
  <2> HIDE DEF searching, level, none, started, i, from
  <2>3. started = [at |-> from, session |-> searching, level |-> level, call |-> from]
    BY <2>1, <2>2
  <2> QED
    BY <2>3 DEF from
<1> HIDE DEF searching, level, started
<1>4. GoodBooking(started)
  BY <1>2, <1>3 DEF GoodBooking
<1>5. GoodSession(Reset(s))
  BY ResetGood DEF ReadySession
<1>6. CASE session' = Reset(s) /\ booking' = [booking EXCEPT ![t] = Idle]
  BY <1>5, <1>6, BookingMoves, IdleGood
<1>7. CASE session' = searching /\ booking' = [booking EXCEPT ![t] = started]
  BY <1>2, <1>4, <1>7, BookingMoves
<1> QED
  BY <1>1, <1>6, <1>7

LEMMA ConfirmGood ==
  ASSUME GoodSession(session), account \in Accounts, Bookings, ConfirmBooking
  PROVE  GoodSession(session') /\ account' \in Accounts /\ Bookings'
<1>1. /\ session.last_action = "TRAIN_SELECT_INPUT" /\ ReadySession(session) /\ Shaped(session)
  BY DEF ConfirmBooking, Asked, GoodSession, ReadySession
<1>2. PICK o \in BookingLogin(session) :
        /\ account' = o.account
        /\ IF Proceeds(o.session)
           THEN Decided("poller", o.session)
           ELSE session' = o.session /\ UNCHANGED <<booking, world, schedules, gate>>
  BY DEF ConfirmBooking
<1>3. \/ o = Unchanged(session)
      \/ Registered(Operator(session)) /\ o \in RegisteredLogin(session)
      \/ o = Unchanged(Reset(session))
  BY DEF BookingLogin
<1>4. GoodOutcome(o)
  BY <1>1, <1>3, UnchangedGood, RegisteredLoginGood, ResetGood
<1>5. CASE Proceeds(o.session)
  <2>1. o.session.credentials.id # NoNumber /\ o.session.train_info # Nothing
    BY <1>5 DEF Proceeds
  <2>2. o.session.last_action \in DraftStates \union {"PW_INPUT"}
    <3>1. Reset(session).train_info = Nothing
      BY <1>1, ResetIs
    <3>2. FreshFlow(session).train_info = Nothing
      BY <1>1, FreshFlowIs
    <3>3. CASE o = Unchanged(session)
      BY <1>1, <3>3 DEF Unchanged, DraftStates
    <3>4. CASE Registered(Operator(session)) /\ o \in RegisteredLogin(session)
      <4>1. Operator(session) \in Railways
        BY <1>1, RailwayIs DEF ReadySession
      <4>2. account[Operator(session)] \in Numbers
        BY <3>4, <4>1, RegisteredIs
      <4>3. o.session = LoggedIn(session, account[Operator(session)])
        BY <2>1, <3>2, <3>4 DEF RegisteredLogin, Unchanged
      <4> QED
        BY <1>1, <4>1, <4>2, <4>3, LoggedInIs
    <3>5. CASE o = Unchanged(Reset(session))
      BY <2>1, <3>1, <3>5 DEF Unchanged
    <3> QED
      BY <1>3, <3>3, <3>4, <3>5
  <2>3. Decided("poller", o.session) /\ "poller" \in Threads
    BY <1>2, <1>5 DEF Threads
  <2> QED
    BY <1>2, <1>4, <2>1, <2>2, <2>3, DecidedGood DEF GoodOutcome, GoodSession
<1>6. CASE ~Proceeds(o.session)
  <2>1. session' = o.session /\ UNCHANGED booking
    BY <1>2, <1>6
  <2> QED
    BY <1>2, <1>4, <2>1 DEF GoodOutcome, Bookings
<1> QED
  BY <1>5, <1>6

LEMMA StartBookingGood ==
  ASSUME Bookings, NEW t \in Threads, StartBooking(t)
  PROVE  GoodSession(session') /\ Bookings'
<1> DEFINE s == booking[t].session
<1>1. /\ booking[t].at = "start"
      /\ booking' = [booking EXCEPT ![t] = Idle]
      /\ \/ session' = [s EXCEPT !.credentials = Blank(s.credentials)]
         \/ session' = Reset(s)
  BY DEF StartBooking
<1>2. GoodSession(s) /\ s.last_action = "FINDING_TICKET" /\ Shaped(s) /\ ReadySession(s)
  BY <1>1 DEF Bookings, GoodBooking, GoodSession, ReadySession
<1> HIDE DEF s
<1>3. Bookings'
  BY <1>1, BookingMoves, IdleGood
<1>4. CASE session' = Reset(s)
  BY <1>2, <1>3, <1>4, ResetGood
<1>5. CASE session' = [s EXCEPT !.credentials = Blank(s.credentials)]
  <2> DEFINE u == session'
  <2>1. u = [in_progress |-> s.in_progress, last_action |-> s.last_action,
             credentials |-> Blank(s.credentials), train_info |-> s.train_info]
    BY <1>2, <1>5 DEF Shaped
  <2>2. Blank(s.credentials) \in Credentials
    BY <1>2 DEF Shaped, Blank, Credentials
  <2> HIDE DEF u
  <2>3. Shaped(u)
    BY <1>2, <2>1, <2>2 DEF Shaped
  <2>4. Operator(u) = Operator(s) /\ DraftOf(u) = "FINDING_TICKET" /\ DraftOf(s) = "FINDING_TICKET"
    BY <1>2, <2>1 DEF Operator, DraftOf
  <2>5. RailwayStays => StationsOK(u)
    BY <1>2, <2>1, <2>4 DEF ReadySession, StationsOK
  <2>6. ReadySession(u)
    BY <1>2, <2>1, <2>3, <2>4, <2>5 DEF ReadySession, LoginOK, DraftStates
  <2>7. GoodSession(u)
    BY <1>2, <2>1, <2>4, <2>6, NoListGood DEF ListStates
  <2> QED
    BY <1>3, <2>7 DEF u
<1> QED
  BY <1>1, <1>4, <1>5

-----------------------------------------------------------------------------
(* The Mini App's thread *)

\* A request takes the session it read, and the form, to the railway's login.
LEMMA AppCallsGood ==
  ASSUME world \in Worlds, GoodSession(session), Bookings, AppCalls
  PROVE  Bookings'
<1>1. PICK call \in Calls, f \in world.forms :
        LET s == [Reset(session) EXCEPT
                    !.in_progress = TRUE, !.last_action = "SEAT_STRATEGY_INPUT",
                    !.train_info = Put(AsTrainInfo(f), "selectedTrains", Ticked(session))]
        IN booking' = [booking EXCEPT !["app"] =
                         [Idle EXCEPT !.at = "login", !.session = s, !.call = call]]
  BY DEF AppCalls
<1> DEFINE yes == TRUE
<1> DEFINE list == "SEAT_STRATEGY_INPUT"
<1> DEFINE at == "login"
<1> DEFINE info == Put(AsTrainInfo(f), "selectedTrains", Ticked(session))
<1> DEFINE u == Reset(session)
<1> DEFINE s == [u EXCEPT !.in_progress = yes, !.last_action = list, !.train_info = info]
<1> DEFINE b == [Idle EXCEPT !.at = at, !.session = s, !.call = call]
<1>2. f \in Submissions /\ Valid(f)
  BY ChatFrontAssumption
<1>3. booking' = [booking EXCEPT !["app"] = b]
  BY <1>1
<1>4. s = [in_progress |-> yes, last_action |-> list,
           credentials |-> Blank(session.credentials), train_info |-> info]
  <2> DEFINE no == FALSE
  <2> DEFINE init == "INIT"
  <2> DEFINE c == Blank(session.credentials)
  <2> DEFINE i == Nothing
  <2>1. u = [in_progress |-> no, last_action |-> init, credentials |-> c, train_info |-> i]
    BY ResetIs DEF GoodSession, ReadySession
  <2>2. s = [u EXCEPT !.in_progress = yes, !.last_action = list, !.train_info = info]
    OBVIOUS
  <2> HIDE DEF no, init, c, i, yes, list, info, u, s
  <2>3. s = [in_progress |-> yes, last_action |-> list, credentials |-> c, train_info |-> info]
    BY <2>1, <2>2
  <2> QED
    BY <2>3 DEF c
<1>5. b = [at |-> at, session |-> s, level |-> "trial", call |-> call]
  <2> DEFINE none == NewSession
  <2> DEFINE i == Idle
  <2> DEFINE level == "trial"
  <2>1. i = [at |-> "idle", session |-> none, level |-> level, call |-> "start"]
    BY DEF Idle
  <2>2. b = [i EXCEPT !.at = at, !.session = s, !.call = call]
    OBVIOUS
  <2> HIDE DEF none, i, level, at, s, b
  <2>3. b = [at |-> at, session |-> s, level |-> level, call |-> call]
    BY <2>1, <2>2
  <2> QED
    BY <2>3 DEF level
<1>6. Blank(session.credentials) \in Credentials
  BY DEF GoodSession, ReadySession, Shaped, Blank, Credentials
<1>7. Ticked(s) = Ticked(session)
  <2>1. s.train_info = info
    BY <1>4
  <2> HIDE DEF s
  <2>2. Has(info, "selectedTrains") /\ info["selectedTrains"] = Ticked(session)
    <3> DEFINE form == AsTrainInfo(f)
    <3> HIDE DEF form
    <3>1. Put(form, "selectedTrains", Ticked(session))["selectedTrains"] = Ticked(session)
      BY DEF Put
    <3>2. Has(Put(form, "selectedTrains", Ticked(session)), "selectedTrains")
      BY DEF Put, Has
    <3> QED
      BY <3>1, <3>2 DEF form
  <2> HIDE DEF info
  <2>3. Ticked(s) = s.train_info["selectedTrains"]
    BY <2>1, <2>2 DEF Ticked, Get
  <2> QED
    BY <2>1, <2>2, <2>3
<1>8. AppForm(s)
  <2>1. s = [in_progress |-> TRUE, last_action |-> "SEAT_STRATEGY_INPUT",
             credentials |-> s.credentials,
             train_info |-> Put(AsTrainInfo(f), "selectedTrains", Ticked(s))]
    <3>1. s.credentials = Blank(session.credentials)
      BY <1>4
    <3> HIDE DEF s
    <3> QED
      BY <1>4, <1>7, <3>1 DEF yes, list, info
  <2> HIDE DEF s
  <2> QED
    BY <1>2, <2>1 DEF AppForm
<1>9. s.credentials \in Credentials
  BY <1>4, <1>6
<1> HIDE DEF s, b
<1>10. GoodBooking(b)
  BY <1>5, <1>8, <1>9 DEF GoodBooking, at
<1> QED
  BY <1>3, <1>10, BookingMoves DEF Threads

LEMMA AppDoneGood == ASSUME Bookings, AppDone PROVE Bookings'
  BY BookingMoves, IdleGood DEF AppDone, Threads

\* The form with the login the railway has accepted: no list has been shown yet.
LEMMA AppSessionReady ==
  ASSUME Bookings, account \in Accounts, NEW call, AppLogsIn(call)
  PROVE  /\ ReadySession(AppSession)
         /\ AppSession.last_action \in {"PW_INPUT", "SEAT_STRATEGY_INPUT"}
         /\ AppSession.credentials.id \in Numbers /\ Usable(AppSession.credentials)
         /\ Has(AppSession.train_info, "depDate")
         /\ ~Has(AppSession.train_info, "trainOptions")
<1> DEFINE s == booking["app"].session
<1> DEFINE r == Operator(s)
<1>1. /\ AppForm(s) /\ s.credentials \in Credentials
      /\ UsesServerAccount(r) \/ Registered(r)
  BY DEF AppLogsIn, Bookings, GoodBooking, Threads
<1> HIDE DEF s
<1>2. PICK f \in Submissions :
        /\ Valid(f)
        /\ s = [in_progress |-> TRUE, last_action |-> "SEAT_STRATEGY_INPUT",
                credentials |-> s.credentials,
                train_info |-> Put(AsTrainInfo(f), "selectedTrains", Ticked(s))]
  BY <1>1 DEF AppForm
<1> DEFINE info == s.train_info
<1>3. /\ \A k : Has(info, k) <=> k \in FilledIn \union {"operator", "depDate", "seatStrategyShow",
                                                     "selectedTrains"}
      /\ info["operator"] = f.operator /\ f.operator \in Railways
      /\ info["depDate"] = f.depDate /\ f.depDate \in Dates
      /\ info["srcLocate"] = f.srcLocate
  <2> DEFINE form == AsTrainInfo(f)
  <2> DEFINE ticked == Ticked(s)
  <2>1. /\ \A k : Has(form, k) <=>
                    k \in FilledIn \union {"operator", "depDate", "seatStrategyShow", "selectedTrains"}
        /\ form["operator"] = f.operator /\ f.operator \in Railways
        /\ form["depDate"] = f.depDate /\ f.depDate \in Dates
        /\ form["srcLocate"] = f.srcLocate
    BY FormIs
  <2>2. info = Put(form, "selectedTrains", ticked)
    BY <1>2
  <2> HIDE DEF form, ticked, info
  <2>3. Has(form, "operator") /\ Has(form, "depDate") /\ Has(form, "srcLocate")
    BY <2>1 DEF FilledIn
  <2> QED
    BY <2>1, <2>2, <2>3 DEF Put, Has
<1>4. Shaped(s) /\ s.last_action = "SEAT_STRATEGY_INPUT"
  <2> DEFINE yes == TRUE
  <2> DEFINE i == s.train_info
  <2> DEFINE c == s.credentials
  <2>1. /\ s = [in_progress |-> yes, last_action |-> "SEAT_STRATEGY_INPUT", credentials |-> c,
                train_info |-> i]
        /\ i = s.train_info /\ c = s.credentials
    BY <1>2
  <2> HIDE DEF yes, i, c
  <2>2. s.in_progress = yes /\ s.last_action = "SEAT_STRATEGY_INPUT"
    BY <2>1
  <2>3. "SEAT_STRATEGY_INPUT" \in Progress
    BY ProgressIs DEF DraftStates
  <2> QED
    BY <1>1, <2>1, <2>2, <2>3 DEF Shaped, yes
<1>5. r = f.operator
  BY <1>3 DEF Operator, Get
<1>6. StationsOK(s)
  BY <1>2, <1>3, <1>4, <1>5 DEF StationsOK, Valid
<1>7. Sound(info) /\ Complete(info, "PW_INPUT") /\ Complete(info, "SEAT_STRATEGY_INPUT")
  <2>1. Sound(info)
    BY <1>3 DEF Sound, FilledIn
  <2>2. Complete(info, "PW_INPUT") /\ Complete(info, "SEAT_STRATEGY_INPUT")
    BY <1>3 DEF Complete, FilledIn, DraftStates
  <2> QED
    BY <2>1, <2>2
<1> DEFINE n == IF UsesServerAccount(r) THEN ServerNumber ELSE account[r]
<1> DEFINE t == AppSession
<1>8. n \in Numbers
  BY <1>1, <1>3, <1>5, RegisteredIs, ConversationAssumption
<1>9. /\ t = [in_progress |-> s.in_progress, last_action |-> t.last_action,
              credentials |-> [id |-> n, pw |-> "typed", by |-> r], train_info |-> info]
      /\ t.last_action \in {"PW_INPUT", "SEAT_STRATEGY_INPUT"}
  <2>1. CASE UsesServerAccount(r)
    <3>1. t = LoggedIn(s, n)
      BY <2>1 DEF AppSession, s
    <3> QED
      BY <1>3, <1>4, <1>5, <1>8, <3>1, LoggedInIs
  <2>2. CASE ~UsesServerAccount(r)
    <3>1. t = [s EXCEPT !.credentials = [id |-> n, pw |-> "typed", by |-> r]]
      BY <2>2 DEF AppSession, Verified, s
    <3> DEFINE c == [id |-> n, pw |-> "typed", by |-> r]
    <3>2. t = [s EXCEPT !.credentials = c]
      BY <3>1
    <3> HIDE DEF c, t
    <3>3. t = [in_progress |-> s.in_progress, last_action |-> s.last_action,
               credentials |-> c, train_info |-> s.train_info]
      BY <1>4, <3>2 DEF Shaped
    <3> QED
      BY <1>4, <3>3 DEF c
  <2> QED
    BY <2>1, <2>2
<1> HIDE DEF t, n
<1>10. Shaped(t)
  BY <1>3, <1>4, <1>5, <1>8, <1>9, ProgressIs DEF Shaped, Credentials, DraftStates
<1>11. Operator(t) = r /\ DraftOf(t) = t.last_action
  BY <1>9 DEF Operator, DraftOf
<1>12. StationsOK(t)
  BY <1>4, <1>6, <1>9, <1>11 DEF StationsOK
<1>13. LoginOK(t)
  BY <1>8, <1>9, <1>11, SessionAssumption DEF LoginOK, Fits, Usable
<1>14. ReadySession(t)
  BY <1>7, <1>9, <1>10, <1>11, <1>12, <1>13 DEF ReadySession
<1> QED
  BY <1>3, <1>8, <1>9, <1>14, SessionAssumption DEF t, FilledIn, Usable

\* The list the railway gave, and what is ticked of it.
LEMMA AppNoted ==
  ASSUME NEW s, ReadySession(s), s.last_action \in {"PW_INPUT", "SEAT_STRATEGY_INPUT"},
         Has(s.train_info, "depDate"), ~Has(s.train_info, "trainOptions"),
         NEW key, NEW trains \in SUBSET TrainOptions(s),
         \/ key = "selectedTrains"
         \/ key = "trainOptions" /\ (ListsStay => Ticked(s) = {})
  PROVE  GoodSession(Note(s, key, trains)) /\ ReadySession(Note(s, key, trains))
<1> DEFINE t == Note(s, key, trains)
<1> DEFINE info == Put(s.train_info, key, trains)
<1>1. /\ t.last_action = s.last_action /\ t.train_info = info
      /\ ReadySession(t)
  <2>1. ReadySession(t)
    BY NotedReady DEF DraftStates
  <2> QED
    BY <2>1, NoteIs DEF ReadySession
<1>2. trains \subseteq TrainsOn[s.train_info["depDate"]]
  BY DEF TrainOptions
<1>3. info["depDate"] = s.train_info["depDate"]
  BY DEF Put, Has
<1>4. ListsStay => Ticked(t) \subseteq TrainsOn[info["depDate"]]
  <2>1. CASE key = "selectedTrains"
    <3>1. Has(info, key) /\ info[key] = trains
      BY DEF Put, Has
    <3> HIDE DEF t, info
    <3> QED
      BY <1>1, <1>2, <1>3, <2>1, <3>1 DEF Ticked, Get
  <2>2. CASE key = "trainOptions" /\ (ListsStay => Ticked(s) = {})
    <3>1. /\ Has(info, "selectedTrains") <=> Has(s.train_info, "selectedTrains")
          /\ Has(s.train_info, "selectedTrains") =>
               info["selectedTrains"] = s.train_info["selectedTrains"]
      BY <2>2 DEF Put, Has
    <3> HIDE DEF t, info
    <3>2. Ticked(t) = Ticked(s)
      BY <1>1, <3>1 DEF Ticked, Get
    <3> QED
      BY <2>2, <3>2
  <2> QED
    BY <2>1, <2>2
<1>5. Get(info, "trainOptions", {}) \subseteq TrainsOn[info["depDate"]]
  <2>1. \/ ~Has(info, "trainOptions")
        \/ info["trainOptions"] = trains
    BY DEF Put, Has
  <2> HIDE DEF info
  <2> QED
    BY <1>2, <1>3, <2>1 DEF Get
<1> HIDE DEF t, info
<1>6. GoodSession(t)
  BY <1>1, <1>4, <1>5 DEF GoodSession, TrainsOK
<1> QED
  BY <1>1, <1>6 DEF t

LEMMA AppListsGood ==
  ASSUME world \in Worlds, Bookings, account \in Accounts, AppLists
  PROVE  GoodSession(session') /\ Bookings'
<1> DEFINE s == AppSession
<1>1. /\ AppLogsIn("list") /\ AppDone
      /\ ListsStay => Ticked(s) = {}
      /\ session' \in {s, Note(s, "trainOptions", TrainOptions(s))}
  BY DEF AppLists, ListsStay, Uses
<1>2. /\ ReadySession(s)
      /\ s.last_action \in {"PW_INPUT", "SEAT_STRATEGY_INPUT"}
      /\ Has(s.train_info, "depDate") /\ ~Has(s.train_info, "trainOptions")
  BY <1>1, AppSessionReady
<1> HIDE DEF s
<1>3. CASE session' = s
  <2>1. GoodSession(s)
    BY <1>1, <1>2 DEF GoodSession, TrainsOK, Get
  <2> QED
    BY <1>1, <1>3, <2>1, AppDoneGood
<1>4. CASE session' = Note(s, "trainOptions", TrainOptions(s))
  <2> DEFINE trains == TrainOptions(s)
  <2>1. trains \in SUBSET TrainOptions(s)
    OBVIOUS
  <2> HIDE DEF trains
  <2>2. GoodSession(Note(s, "trainOptions", trains))
    BY <1>1, <1>2, <2>1, AppNoted
  <2> QED
    BY <1>1, <1>4, <2>2, AppDoneGood DEF trains
<1> QED
  BY <1>1, <1>3, <1>4

\* The session with the trains the page sends along.
LEMMA AppChosenGood ==
  ASSUME Bookings, account \in Accounts, NEW call, AppLogsIn(call),
         NEW s \in AppChosen(AppSession)
  PROVE  /\ GoodSession(s)
         /\ ReadySession(s)
         /\ s.last_action \in DraftStates \union {"PW_INPUT"}
         /\ s.credentials.id \in Numbers /\ Usable(s.credentials)
<1> DEFINE a == AppSession
<1>1. /\ ReadySession(a)
      /\ a.last_action \in {"PW_INPUT", "SEAT_STRATEGY_INPUT"}
      /\ a.credentials.id \in Numbers /\ Usable(a.credentials)
      /\ Has(a.train_info, "depDate") /\ ~Has(a.train_info, "trainOptions")
  BY AppSessionReady
<1>2. PICK trains \in SUBSET TrainOptions(a) : s = Note(a, "selectedTrains", trains)
  BY DEF AppChosen
<1> HIDE DEF a
<1>3. GoodSession(s) /\ ReadySession(s)
  BY <1>1, <1>2, AppNoted
<1>4. s.last_action = a.last_action /\ s.credentials = a.credentials
  BY <1>1, <1>2, NoteIs DEF ReadySession
<1> QED
  BY <1>1, <1>3, <1>4 DEF DraftStates

LEMMA AppStartsGood ==
  ASSUME Bookings, account \in Accounts, AppStarts
  PROVE  GoodSession(session') /\ Bookings'
<1>1. PICK s \in AppChosen(AppSession) : Decided("app", s)
  BY DEF AppStarts
<1>2. AppLogsIn("start")
  BY DEF AppStarts
<1>3. /\ ReadySession(s)
      /\ s.last_action \in DraftStates \union {"PW_INPUT"}
      /\ s.credentials.id # NoNumber
  BY <1>2, AppChosenGood, SessionAssumption
<1> QED
  BY <1>1, <1>3, DecidedGood DEF Threads

LEMMA AppSchedulesGood ==
  ASSUME Bookings, account \in Accounts, AppSchedules
  PROVE  GoodSession(session') /\ Bookings'
<1>1. PICK s \in AppChosen(AppSession) : session' = Reset(s) \/ session' = s
  BY DEF AppSchedules
<1>2. AppLogsIn("schedule") /\ AppDone
  BY DEF AppSchedules
<1>3. GoodSession(s) /\ Shaped(s)
  BY <1>2, AppChosenGood DEF ReadySession
<1> QED
  BY <1>1, <1>2, <1>3, ResetGood, AppDoneGood

LEMMA AppRefusedGood ==
  ASSUME Bookings, account \in Accounts, AppRefused
  PROVE  account' \in Accounts /\ Bookings'
<1>1. account' = account \/ account' = Forgotten(Operator(booking["app"].session))
  BY DEF AppRefused
<1> QED
  BY <1>1, ForgottenIs, AppDoneGood DEF AppRefused

LEMMA AppRegisterGood ==
  ASSUME account \in Accounts, AppRegister
  PROVE  account' \in Accounts
  BY DEF AppRegister, Accounts

\* A form filled in is a favourite as well as one taken from a summary is.
LEMMA FormKept ==
  ASSUME NEW f \in Submissions, Valid(f)
  PROVE  GoodFavourite(AsFavourite(AsTrainInfo(f)))
<1> DEFINE form == AsTrainInfo(f)
<1> DEFINE fav == AsFavourite(form)
<1>1. /\ Has(form, "operator") /\ form["operator"] = f.operator /\ f.operator \in Railways
      /\ Has(form, "srcLocate") /\ form["srcLocate"] = f.srcLocate
  BY FormIs DEF FilledIn
<1> HIDE DEF form
<1>2. /\ DOMAIN fav = FavouriteKeys
      /\ fav["operator"] = Get(form, "operator", "KORAIL")
      /\ fav["srcLocate"] = Get(form, "srcLocate", "")
  BY DEF AsFavourite, FavouriteKeys, RequiredKeys
<1> HIDE DEF fav
<1>3. fav["operator"] = f.operator /\ fav["srcLocate"] = f.srcLocate
  BY <1>1, <1>2 DEF Get
<1>4. GoodFavourite(fav)
  BY <1>1, <1>2, <1>3 DEF GoodFavourite, Valid
<1> QED
  BY <1>4 DEF fav, form

LEMMA FavouritesGood ==
  ASSUME world \in Worlds, GoodSession(session), \A f \in favourites : GoodFavourite(f),
         SaveFavourite \/ AppSaveFavourite
  PROVE  \A f \in favourites' : GoodFavourite(f)
<1>1. CASE SaveFavourite
  BY <1>1, FavouriteKept DEF SaveFavourite, Asked
<1>2. CASE AppSaveFavourite
  <2>1. PICK f \in world.forms : favourites' = favourites \union {AsFavourite(AsTrainInfo(f))}
    BY <1>2 DEF AppSaveFavourite
  <2>2. f \in Submissions /\ Valid(f)
    BY ChatFrontAssumption
  <2> QED
    BY <2>1, <2>2, FormKept
<1> QED
  BY <1>1, <1>2

-----------------------------------------------------------------------------
(* Every step *)

ChatInv ==
  /\ world \in Worlds
  /\ GoodSession(session)
  /\ account \in Accounts
  /\ \A f \in favourites : GoodFavourite(f)
  /\ Bookings

LEMMA KeptOutsideBookings ==
  ASSUME ChatInv, UNCHANGED <<booking, world>>,
         GoodSession(session'), account' \in Accounts, \A f \in favourites' : GoodFavourite(f)
  PROVE  ChatInv'
  BY DEF ChatInv, Bookings

LEMMA AnswersKeep ==
  ASSUME ChatInv, Answer
  PROVE  ChatInv'
<1>0. /\ world \in Worlds /\ GoodSession(session) /\ account \in Accounts
      /\ Shaped(session) /\ Bookings
      /\ \A f \in favourites : GoodFavourite(f)
  BY DEF ChatInv, GoodSession, ReadySession
<1>1. ASSUME GoodSession(session'), SessionOnly
      PROVE  ChatInv'
  BY <1>0, <1>1, KeptOutsideBookings DEF SessionOnly, ChatOnly
<1>2. ASSUME GoodSession(session'), account' \in Accounts, ChatOnly, UNCHANGED favourites
      PROVE  ChatInv'
  BY <1>0, <1>2, KeptOutsideBookings DEF ChatOnly
<1>3. CASE DateInput \/ SourceInput \/ PlainInput
  BY <1>0, <1>1, <1>3, DateGood, SourceGood, PlainGood DEF DateInput, SourceInput, PlainInput
<1>4. CASE MaxDepTimeInput \/ PassengerCountInput \/ SeatStrategyInput
  BY <1>0, <1>1, <1>4, MaxDepTimeGood, PassengerCountGood, SeatStrategyGood
  DEF MaxDepTimeInput, PassengerCountInput, SeatStrategyInput
<1>5. CASE TrainSelectionInput \/ Back \/ AskSchedule
  BY <1>0, <1>1, <1>5, TrainSelectionGood, BackGood, AskScheduleGood
  DEF TrainSelectionInput, Back, AskSchedule
<1>6. CASE StartConfirmation \/ PhoneInput
  BY <1>0, <1>1, <1>6, ConfirmationGood, PhoneGood DEF StartConfirmation, PhoneInput
<1>7. CASE OperatorInput
  <2>1. ChatOnly /\ UNCHANGED favourites
    BY <1>7 DEF OperatorInput, Becoming
  <2> QED
    BY <1>0, <1>2, <1>7, <2>1, OperatorGood
<1>8. CASE OnboardingOverwrite
  <2>1. ChatOnly /\ UNCHANGED favourites
    BY <1>8 DEF OnboardingOverwrite, Becoming
  <2> QED
    BY <1>0, <1>2, <1>8, <2>1, OverwriteGood
<1>9. CASE PasswordInput \/ ResumeDraft
  <2>1. ChatOnly /\ UNCHANGED favourites
    BY <1>9 DEF PasswordInput, ResumeDraft
  <2> QED
    BY <1>0, <1>2, <1>9, <2>1, PasswordGood, ResumeGood
<1>10. CASE SaveFavourite
  <2>1. ChatOnly /\ UNCHANGED <<session, account>>
    BY <1>10 DEF SaveFavourite
  <2> QED
    BY <1>0, <1>10, <2>1, FavouritesGood, KeptOutsideBookings DEF ChatOnly
<1>11. CASE Decline
  BY <1>0, <1>1, <1>11, ResetGood DEF Decline
<1>12. CASE ScheduleInput
  <2>1. session' = Reset(session) /\ UNCHANGED <<account, favourites, booking, world>>
    BY <1>12 DEF ScheduleInput
  <2> QED
    BY <1>0, <2>1, ResetGood, KeptOutsideBookings
<1>13. CASE ConfirmBooking
  <2>1. GoodSession(session') /\ account' \in Accounts /\ Bookings'
    BY <1>0, <1>13, ConfirmGood
  <2>2. UNCHANGED favourites /\ (UNCHANGED world \/ \E s : Decided("poller", s))
    BY <1>13 DEF ConfirmBooking
  <2>3. UNCHANGED <<favourites, world>>
    BY <2>2 DEF Decided
  <2> QED
    BY <1>0, <2>1, <2>3 DEF ChatInv
<1> QED
  BY <1>3, <1>4, <1>5, <1>6, <1>7, <1>8, <1>9, <1>10, <1>11, <1>12, <1>13 DEF Answer

LEMMA CommandsKeep ==
  ASSUME ChatInv,
         \/ KeyRotated \/ Start \/ Onboarding \/ Logout \/ Leave \/ Cancel
         \/ StartFromFavourite \/ DeleteFavourite \/ SubmitForm
         \/ SearchEnds \/ AppCancels
  PROVE  ChatInv'
<1>0. /\ world \in Worlds /\ GoodSession(session) /\ account \in Accounts
      /\ Shaped(session) /\ \A f \in favourites : GoodFavourite(f)
  BY DEF ChatInv, GoodSession, ReadySession
<1>1. CASE KeyRotated \/ Onboarding
  <2>1. UNCHANGED <<account, favourites, booking, world>>
    BY <1>1 DEF KeyRotated, Onboarding, SessionOnly, ChatOnly
  <2> QED
    BY <1>0, <1>1, <2>1, KeyRotatedGood, OnboardingGood, KeptOutsideBookings
<1>2. CASE Start \/ StartFromFavourite \/ SubmitForm
  <2>1. UNCHANGED <<favourites, booking, world>>
    BY <1>2 DEF Start, StartFromFavourite, SubmitForm, ChatOnly
  <2> QED
    BY <1>0, <1>2, <2>1, StartGood, StartFromFavouriteGood, SubmitFormGood, KeptOutsideBookings
<1>3. CASE Logout \/ Leave
  <2>1. /\ session' = session \/ session' = NewSession
        /\ account' \in Accounts
        /\ favourites' \subseteq favourites
        /\ UNCHANGED <<booking, world>>
    BY <1>3 DEF Logout, Leave, ChatOnly, Accounts
  <2> QED
    BY <1>0, <2>1, NewSessionGood, KeptOutsideBookings
<1>4. CASE DeleteFavourite
  <2>1. favourites' \subseteq favourites /\ UNCHANGED <<session, account, booking, world>>
    BY <1>4 DEF DeleteFavourite, ChatOnly
  <2> QED
    BY <1>0, <2>1, KeptOutsideBookings
<1>5. CASE Cancel \/ SearchEnds \/ AppCancels
  <2>1. /\ session' = session \/ session' = Reset(session)
        /\ UNCHANGED <<account, favourites, booking, world>>
    BY <1>5 DEF Cancel, SearchEnds, AppCancels
  <2> QED
    BY <1>0, <2>1, ResetGood, KeptOutsideBookings
<1> QED
  BY <1>1, <1>2, <1>3, <1>4, <1>5

LEMMA AppKeepsChat ==
  ASSUME ChatInv,
         \/ AppRegister \/ AppSaveFavourite \/ AppCalls \/ AppRefused \/ AppLists \/ AppStarts
         \/ AppSchedules
  PROVE  ChatInv'
<1>0. /\ world \in Worlds /\ GoodSession(session) /\ account \in Accounts
      /\ \A f \in favourites : GoodFavourite(f)
      /\ Bookings
  BY DEF ChatInv
<1>1. CASE AppRegister
  <2>1. UNCHANGED <<session, favourites, booking, world>>
    BY <1>1 DEF AppRegister, ChatOnly
  <2> QED
    BY <1>0, <1>1, <2>1, AppRegisterGood, KeptOutsideBookings
<1>2. CASE AppSaveFavourite
  <2>1. UNCHANGED <<session, account, booking, world>>
    BY <1>2 DEF AppSaveFavourite, ChatOnly
  <2> QED
    BY <1>0, <1>2, <2>1, FavouritesGood, KeptOutsideBookings
<1>3. CASE AppCalls \/ AppRefused
  <2>1. UNCHANGED <<session, favourites, world>> /\ (AppCalls => UNCHANGED account)
    BY <1>3 DEF AppCalls, AppRefused
  <2> QED
    BY <1>0, <1>3, <2>1, AppCallsGood, AppRefusedGood DEF ChatInv
<1>4. CASE AppLists \/ AppStarts \/ AppSchedules
  <2>1. UNCHANGED <<account, favourites, world>>
    BY <1>4 DEF AppLists, AppStarts, AppSchedules, Decided
  <2>2. GoodSession(session') /\ Bookings'
    BY <1>0, <1>4, AppListsGood, AppStartsGood, AppSchedulesGood
  <2> QED
    BY <1>0, <2>1, <2>2 DEF ChatInv
<1> QED
  BY <1>1, <1>2, <1>3, <1>4

LEMMA ChatKeeps == ASSUME ChatInv, [Next]_fvars PROVE ChatInv'
<1>1. CASE UNCHANGED cvars
  BY <1>1 DEF cvars, ChatInv, Bookings
<1>2. CASE UNCHANGED fvars
  BY <1>1, <1>2 DEF fvars
<1>3. CASE AskAccess \/ DecideAccess \/ Background
  BY <1>1, <1>3 DEF AskAccess, DecideAccess, Background
<1>4. ASSUME NEW t \in Threads, StartBooking(t)
      PROVE  ChatInv'
  <2>1. UNCHANGED <<account, favourites, world>>
    BY <1>4 DEF StartBooking
  <2> QED
    BY <1>4, <2>1, StartBookingGood DEF ChatInv
<1> QED
  BY <1>2, <1>3, <1>4, AnswersKeep, CommandsKeep, AppKeepsChat DEF Next

LEMMA ChatBegins == Init => ChatInv
<1> SUFFICES ASSUME Init PROVE ChatInv
  OBVIOUS
<1>1. /\ session = NewSession /\ world \in Worlds /\ favourites = {}
      /\ account = [r \in Railways |-> NoNumber]
      /\ booking = [t \in Threads |-> Idle]
  BY DEF Init, ConversationInit
<1> QED
  BY <1>1, NewSessionGood, IdleGood DEF ChatInv, Accounts, Bookings

-----------------------------------------------------------------------------
(* What a chat may rely on *)

\* The questions from the i-th on come after the answer to the i-th.
LEMMA StagesAre ==
  /\ Len(Stages) = 11 /\ DOMAIN Answers = 1..9
  /\ \A j \in 1..11 : Stages[j] \in DraftStates
  /\ \A j \in 2..11 : Stages[j] # "DATE_INPUT"
  /\ \A j \in 3..11 : Stages[j] # "SRC_INPUT"
  /\ \A j \in 4..11 : Stages[j] # "DST_INPUT"
  /\ \A j \in 5..11 : Stages[j] # "DEP_TIME_INPUT"
  /\ \A j \in 6..11 : Stages[j] # "MAX_DEP_TIME_INPUT"
  /\ \A j \in 7..11 : Stages[j] # "TRAIN_TYPE_INPUT"
  /\ \A j \in 8..11 : Stages[j] # "SPECIAL_INPUT"
  /\ \A j \in 9..11 : Stages[j] # "PASSENGER_COUNT_INPUT"
<1>1. Len(Stages) = 11 /\ DOMAIN Answers = 1..9
  BY DEF Stages, Answers
<1>2. \A j \in 1..11 : Stages[j] \in DraftStates
  BY DEF Stages, DraftStates
<1>3. /\ \A j \in 2..11 : Stages[j] # "DATE_INPUT"
      /\ \A j \in 3..11 : Stages[j] # "SRC_INPUT"
      /\ \A j \in 4..11 : Stages[j] # "DST_INPUT"
      /\ \A j \in 5..11 : Stages[j] # "DEP_TIME_INPUT"
  BY DEF Stages
<1>4. /\ \A j \in 6..11 : Stages[j] # "MAX_DEP_TIME_INPUT"
      /\ \A j \in 7..11 : Stages[j] # "TRAIN_TYPE_INPUT"
      /\ \A j \in 8..11 : Stages[j] # "SPECIAL_INPUT"
      /\ \A j \in 9..11 : Stages[j] # "PASSENGER_COUNT_INPUT"
  BY DEF Stages
<1> QED
  BY <1>1, <1>2, <1>3, <1>4

LEMMA CompleteIs == ASSUME ChatInv PROVE AnswersComplete
<1> SUFFICES ASSUME NEW i \in 1..9, NEW j \in i..11, DraftOf(session) = Stages[j]
             PROVE  Has(session.train_info, Answers[i])
  BY StagesAre DEF AnswersComplete
<1>1. Complete(session.train_info, Stages[j]) /\ Stages[j] \in DraftStates
  BY StagesAre DEF ChatInv, GoodSession, ReadySession
<1>2. CASE i = 1
  <2>1. Answers[i] = "depDate"
    BY <1>2 DEF Answers
  <2> QED
    BY <1>1, <2>1 DEF Complete
<1>3. CASE i = 2
  <2>1. Answers[i] = "srcLocate"
    BY <1>3 DEF Answers
  <2> QED
    BY <1>1, <1>3, <2>1, StagesAre DEF Complete
<1>4. CASE i = 3
  <2>1. Answers[i] = "dstLocate"
    BY <1>4 DEF Answers
  <2> QED
    BY <1>1, <1>4, <2>1, StagesAre DEF Complete
<1>5. CASE i = 4
  <2>1. Answers[i] = "depTime"
    BY <1>5 DEF Answers
  <2> QED
    BY <1>1, <1>5, <2>1, StagesAre DEF Complete
<1>6. CASE i = 5
  <2>1. Answers[i] = "maxDepTime"
    BY <1>6 DEF Answers
  <2> QED
    BY <1>1, <1>6, <2>1, StagesAre DEF Complete
<1>7. CASE i = 6
  <2>1. Answers[i] = "trainType"
    BY <1>7 DEF Answers
  <2> QED
    BY <1>1, <1>7, <2>1, StagesAre DEF Complete
<1>8. CASE i = 7
  <2>1. Answers[i] = "specialInfo"
    BY <1>8 DEF Answers
  <2>2. Stages[j] \in {"SPECIAL_INPUT", "PASSENGER_COUNT_INPUT", "SEAT_STRATEGY_INPUT",
                       "TRAIN_SELECT_INPUT", "SCHEDULE_PENDING"}
    BY <1>1, <1>8, StagesAre DEF DraftStates
  <2> QED
    BY <1>1, <2>1, <2>2 DEF Complete
<1>9. CASE i = 8
  <2>1. Answers[i] = "passengerCount"
    BY <1>9 DEF Answers
  <2>2. Stages[j] \in {"PASSENGER_COUNT_INPUT", "SEAT_STRATEGY_INPUT", "TRAIN_SELECT_INPUT",
                       "SCHEDULE_PENDING"}
    BY <1>1, <1>9, StagesAre DEF DraftStates
  <2> QED
    BY <1>1, <2>1, <2>2 DEF Complete
<1>10. CASE i = 9
  <2>1. Answers[i] = "seatStrategy"
    BY <1>10 DEF Answers
  <2>2. Stages[j] \in {"SEAT_STRATEGY_INPUT", "TRAIN_SELECT_INPUT", "SCHEDULE_PENDING"}
    BY <1>1, <1>10, StagesAre DEF DraftStates
  <2> QED
    BY <1>1, <2>1, <2>2 DEF Complete
<1> QED
  BY <1>2, <1>3, <1>4, <1>5, <1>6, <1>7, <1>8, <1>9, <1>10

\* Whatever way a chat came to a question - typed through, back and forth, a draft taken
\* up, a favourite, a form - every answer the questions before it ask for is there, so that
\* _build_search_params finds what it reads (ConversationHandler, start_from_favourite,
\* _apply_mini_app_submission): for any chat, whatever goes wrong around it.
THEOREM AnswersAreComplete == Spec => []AnswersComplete
<1>1. ChatInv /\ [Next]_fvars => ChatInv'
  BY ChatKeeps
<1> QED
  BY ChatBegins, <1>1, CompleteIs, PTL DEF Spec

\* The stations of a summary are stations of the railway it names (validate_station_name,
\* MiniAppSubmission.parse), for any chat that does not go back to the railway with a form's
\* answers waiting.
THEOREM ConditionsFit == ASSUME RailwayStays PROVE Spec => []ConditionsFitRailway
<1>1. ChatInv /\ [Next]_fvars => ChatInv'
  BY ChatKeeps
<1>2. ChatInv => ConditionsFitRailway
  <2> SUFFICES ASSUME ChatInv, Confirming
               PROVE  session.train_info.srcLocate \in Serves(Operator(session))
    BY DEF ConditionsFitRailway
  <2>1. StationsOK(session)
    BY DEF ChatInv, GoodSession, ReadySession
  <2>2. Has(session.train_info, "srcLocate")
    BY DEF ChatInv, GoodSession, ReadySession, Complete, Confirming, DraftOf, DraftStates
  <2> QED
    BY <2>1, <2>2 DEF StationsOK
<1> QED
  BY ChatBegins, <1>1, <1>2, PTL DEF Spec

\* The trains a summary says will be watched run on the day it names (_show_train_selection,
\* _finish_train_selection), for any chat that does not have the trains listed in the app and
\* closes the list in the chat.
THEOREM WatchedTrainsDoRun == ASSUME ListsStay PROVE Spec => []WatchedTrainsRun
<1>1. ChatInv /\ [Next]_fvars => ChatInv'
  BY ChatKeeps
<1>2. ChatInv => WatchedTrainsRun
  <2> SUFFICES ASSUME ChatInv, Confirming
               PROVE  Ticked(session) \subseteq TrainsOn[session.train_info.depDate]
    BY DEF WatchedTrainsRun
  <2>1. TrainsOK(session)
    BY DEF ChatInv, GoodSession
  <2>2. DraftOf(session) \in ListStates
    BY DEF Confirming, DraftOf, ListStates
  <2> QED
    BY <2>1, <2>2 DEF TrainsOK
<1> QED
  BY ChatBegins, <1>1, <1>2, PTL DEF Spec
=============================================================================
