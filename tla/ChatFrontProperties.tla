------------------------ MODULE ChatFrontProperties ------------------------
(***************************************************************************)
(* What a chat may rely on when it confirms a booking, and afterwards.     *)
(***************************************************************************)
EXTENDS ChatFront, Sequences

\* The shape of the state: a session at a question, logins of known numbers, threads
\* between their steps, and trial counts that are numbers.
TypeOK ==
  /\ session.last_action \in Progress
  /\ session.in_progress \in BOOLEAN
  /\ session.credentials \in Credentials
  /\ account \in [Railways -> Numbers \union {NoNumber}]
  /\ \A t \in Threads : booking[t].at \in {"idle", "login", "start"}
  /\ trial \in [Numbers -> Nat]
  /\ approved \subseteq Numbers /\ requests \subseteq Numbers
  /\ ScheduleTypeOK

Stages == <<"DATE_INPUT", "SRC_INPUT", "DST_INPUT", "DEP_TIME_INPUT", "MAX_DEP_TIME_INPUT",
            "TRAIN_TYPE_INPUT", "SPECIAL_INPUT", "PASSENGER_COUNT_INPUT", "SEAT_STRATEGY_INPUT",
            "TRAIN_SELECT_INPUT", "SCHEDULE_PENDING">>
Answers == <<"depDate", "srcLocate", "dstLocate", "depTime", "maxDepTime", "trainType",
             "specialInfo", "passengerCount", "seatStrategy">>

\* Whatever way a chat came to a question - typed through, back and forth, a draft taken
\* up, a favourite, a form - every answer the questions before it ask for is there, so
\* that _build_search_params finds what it reads.
AnswersComplete ==
  \A i \in DOMAIN Answers : \A j \in i..Len(Stages) :
    DraftOf(session) = Stages[j] => Has(session.train_info, Answers[i])

Confirming == session.last_action \in {"TRAIN_SELECT_INPUT", "SCHEDULE_PENDING"}

\* At the summary the session holds a login, with its password, that the railway of the
\* booking has accepted, and a search that runs was started with such a login.
LoginFits ==
  /\ Confirming => Usable(session.credentials) /\ session.credentials.by = Operator(session)
  /\ search # NoRecord => search.login.by = search.operator

\* The stations of the summary are stations of the railway the summary names.
ConditionsFitRailway ==
  Confirming => session.train_info.srcLocate \in Serves(Operator(session))

\* The trains a summary says will be watched run on the day it names.
WatchedTrainsRun ==
  Confirming => Ticked(session) \subseteq TrainsOn[session.train_info.depDate]

\* A number has no more trial searches charged than it is allowed, but for one for each
\* thread that was allowed one before another was charged; and none where trials are not
\* limited.
AllowanceKept ==
  \A n \in Numbers :
    trial[n] <= IF NoLimit THEN 0
                ELSE TrialLimit + (IF Uses("both_at_once") THEN Cardinality(Threads) - 1 ELSE 0)

\* An appointment that stands has the login to start it with, of its own railway.
AppointmentHasLogin ==
  schedule # NoRecord => slot.id # NoNumber /\ slot.by = schedule.operator

\* An appointment comes to one end and stays there: no search starts for one the chat took
\* back, or put another in the place of, or was told has been missed, and none starts twice.
Promised == INSTANCE Appointments WITH Appointment <- Appointment, fate <- fate
AppointmentsKept == Promised!Spec
=============================================================================
