---------------------------- MODULE SeatingProofs ----------------------------
(***************************************************************************)
(* What a group that takes its seats one by one may rely on, for groups of *)
(* any size and any number of reservations, orders, deaths and restarts:   *)
(* no seat too many, none missing from the record, no payment taken for a  *)
(* lapse, nobody passed over.  Each theorem says which of the accidents    *)
(* RandomSeating names it leaves out.                                      *)
(***************************************************************************)
EXTENDS SeatingProperties, FiniteSetTheorems, WellFoundedInduction, TLAPS

-----------------------------------------------------------------------------
(* The shape of the state *)

\* The first of the seats is one of them.
LEMMA FirstIs ==
  ASSUME NEW S \in SUBSET Nat, S # {}
  PROVE  First(S) \in S
<1>1. PICK x \in S : \A y \in S : ~(<<y, x>> \in OpToRel(<, Nat))
  BY NatLessThanWellFounded, WFMin
<1>2. \A y \in S : x <= y
  <2>1. \A y \in S : ~(y < x)
    BY <1>1 DEF OpToRel
  <2> QED
    BY <2>1
<1> QED
  BY <1>2, Zenon DEF First

IsRecord(record) ==
  /\ record \in [kept : BOOLEAN, rows : [DOMAIN record.rows -> Rows], stopped : BOOLEAN]
  /\ DOMAIN record.rows \subseteq Seats
  /\ ~record.kept => record = NoRecord

LEMMA NoRows == NoRecord.rows = <<>> /\ DOMAIN NoRecord.rows = {} /\ Fresh.rows = <<>> /\ DOMAIN Fresh.rows = {}
  BY DEF NoRecord, Fresh

LEMMA EmptyRecords == IsRecord(NoRecord) /\ IsRecord(Fresh)
<1>1. <<>> \in [{} -> Rows]
  OBVIOUS
<1> QED
  BY <1>1 DEF IsRecord, NoRecord, Fresh

LEMMA WithOtherRows ==
  ASSUME NEW record, IsRecord(record), NEW rows
  PROVE  [record EXCEPT !.rows = rows]
           = [kept |-> record.kept, rows |-> rows, stopped |-> record.stopped]
<1>1. record \in [kept : BOOLEAN, rows : [DOMAIN record.rows -> Rows], stopped : BOOLEAN]
  BY DEF IsRecord
<1> QED
  BY <1>1

\* What marking seats does to a record.
LEMMA MarkedRecord ==
  ASSUME NEW record, IsRecord(record), record.kept,
         NEW seats, NEW status \in Statuses
  PROVE  LET m == Marked(record, seats, status) IN
         /\ IsRecord(m) /\ m.kept /\ m.stopped = record.stopped
         /\ DOMAIN m.rows = DOMAIN record.rows
         /\ \A s \in DOMAIN record.rows :
              /\ m.rows[s].rsv = record.rows[s].rsv
              /\ s \in seats => m.rows[s].status = status
              /\ s \notin seats => m.rows[s] = record.rows[s]
<1> DEFINE rows == [s \in DOMAIN record.rows |->
                     IF s \in seats THEN [record.rows[s] EXCEPT !.status = status]
                                    ELSE record.rows[s]]
<1>1. rows \in [DOMAIN record.rows -> Rows]
  <2>1. \A s \in DOMAIN record.rows :
          record.rows[s].rsv \in Reservations /\ record.rows[s] = [rsv |-> record.rows[s].rsv, status |-> record.rows[s].status]
    BY DEF IsRecord, Rows
  <2>2. ASSUME NEW s \in DOMAIN record.rows
        PROVE  [record.rows[s] EXCEPT !.status = status] \in Rows /\ record.rows[s] \in Rows
    BY <2>1 DEF IsRecord, Rows
  <2> QED
    BY <2>2
<1>2. Marked(record, seats, status) = [kept |-> record.kept, rows |-> rows, stopped |-> record.stopped]
  <2>1. Marked(record, seats, status) = [record EXCEPT !.rows = rows]
    BY Zenon DEF Marked
  <2> HIDE DEF rows
  <2> QED
    BY <2>1, WithOtherRows
<1>3. \A s \in DOMAIN record.rows :
        /\ rows[s].rsv = record.rows[s].rsv
        /\ s \in seats => rows[s].status = status
        /\ s \notin seats => rows[s] = record.rows[s]
  BY DEF IsRecord, Rows
<1> HIDE DEF rows
<1> QED
  BY <1>1, <1>2, <1>3 DEF IsRecord

\* What taking a seat down does to a record.
LEMMA RowTakenDown ==
  ASSUME NEW record, IsRecord(record), record.kept,
         NEW seat \in Seats, NEW rsv \in Reservations
  PROVE  LET w == WithRow(record, seat, rsv) IN
         /\ IsRecord(w) /\ w.kept /\ w.stopped = record.stopped
         /\ DOMAIN w.rows = DOMAIN record.rows \union {seat}
         /\ w.rows[seat] = [rsv |-> rsv, status |-> "pending"]
         /\ \A s \in DOMAIN record.rows : s # seat => w.rows[s] = record.rows[s]
<1> DEFINE row  == [rsv |-> rsv, status |-> "pending"]
           rows == [s \in DOMAIN record.rows \union {seat} |->
                     IF s = seat THEN row ELSE record.rows[s]]
<1>1. row \in Rows
  BY DEF Rows, Statuses
<1>2. rows \in [DOMAIN record.rows \union {seat} -> Rows]
  BY <1>1 DEF IsRecord
<1>3. WithRow(record, seat, rsv) = [kept |-> record.kept, rows |-> rows, stopped |-> record.stopped]
  <2>1. WithRow(record, seat, rsv) = [record EXCEPT !.rows = rows]
    BY Zenon DEF WithRow
  <2> HIDE DEF rows
  <2> QED
    BY <2>1, WithOtherRows
<1>4. /\ rows[seat] = row
      /\ \A s \in DOMAIN record.rows : s # seat => rows[s] = record.rows[s]
      /\ DOMAIN rows = DOMAIN record.rows \union {seat}
  OBVIOUS
<1> HIDE DEF rows
<1> QED
  BY <1>2, <1>3, <1>4 DEF IsRecord

Working == run.at \in {"save", "note", "index", "tell", "wait", "clear", "finish"}

RailStates == {"free", "held", "paid", "lapsed", "returned", "withdrawn"}
RunSteps   == {"gone", "search", "save", "note", "index", "tell", "wait", "clear", "finish"}
WatchSteps == {"rest", "ask", "tell", "mark"}
UserSteps  == {"idle", "cancel", "sign_in", "record"}

WatchShape ==
  /\ watch \in [at : WatchSteps, record : {watch.record}, left : SUBSET Seats,
                settled : SUBSET Seats, mark : Seats \union {NoSeat}]
  /\ IsRecord(watch.record)
  /\ watch.left \union watch.settled \subseteq DOMAIN watch.record.rows
  /\ watch.at \in {"tell", "mark"} => watch.settled # {}
  /\ watch.at = "mark" => watch.mark = First(watch.settled) /\ Verdict(watch.mark) = "paid"

\* TypeOK, with what its steps need: what the run and the watchdog hold at each step.
ShapeInv ==
  /\ world \in Worlds
  /\ rail \in [Reservations -> RailStates]
  /\ due \in SUBSET Reservations /\ noted \in SUBSET Reservations
  /\ run \in [at : RunSteps, seat : Seats, rsv : Reservations \union {0}]
  /\ Working => run.rsv \in Reservations
  /\ run.at = "wait" => run.seat < world.seats
  /\ search \in {"none", "running", "dead"}
  /\ partial \in [DOMAIN partial -> Reservations] /\ DOMAIN partial \subseteq Seats
  /\ IsRecord(multi)
  /\ current \in Seats \union {NoSeat} /\ ready \in SUBSET Seats
  /\ WatchShape
  /\ user \in [at : UserSteps, picked : SUBSET Reservations]
  /\ told \in [Reservations -> SUBSET Statuses]

LEMMA WorldHasSeats == ASSUME world \in Worlds PROVE world.seats \in Nat \ {0, 1}
  BY SeatingAssumption

LEMMA ShapeInit == Init => ShapeInv
<1> SUFFICES ASSUME Init PROVE ShapeInv
  OBVIOUS
<1>1. world.seats \in Nat \ {0, 1} /\ 1 \in Seats
  BY WorldHasSeats DEF Init, Seats
<1>2. IsRecord(NoRecord) /\ DOMAIN NoRecord.rows = {}
  BY EmptyRecords, NoRows
<1>3. WatchShape
  BY <1>2 DEF Init, AtRest, WatchShape, WatchSteps
<1>4. partial \in [DOMAIN partial -> Reservations] /\ DOMAIN partial \subseteq Seats
  BY DEF Init
<1> QED
  BY <1>1, <1>2, <1>3, <1>4 DEF Init, ShapeInv, RailStates, RunSteps, UserSteps, Gone, Idle, Working

LEMMA ShapeNext == ASSUME ShapeInv, [Next]_vars PROVE ShapeInv'
<1> USE DEF ShapeInv, history, redis, app
<1>0. world.seats \in Nat \ {0, 1} /\ 1 \in Seats /\ (world' = world => Seats' = Seats)
  BY WorldHasSeats DEF Seats
<1>w. ASSUME UNCHANGED <<watch, world>> PROVE WatchShape'
  BY <1>w DEF WatchShape, Verdict, IsRecord, Seats
<1>m. ASSUME UNCHANGED <<multi, world>> PROVE IsRecord(multi)'
  BY <1>m DEF IsRecord, Seats
<1>1. ASSUME NEW r \in Reservations,
             Pay(r) \/ DeadlinePasses(r) \/ Lapse(r) \/ CancelElsewhere(r)
      PROVE  ShapeInv'
  <2>1. rail' \in [Reservations -> RailStates] /\ due' \in SUBSET Reservations
    BY <1>1 DEF Pay, DeadlinePasses, Lapse, CancelElsewhere, RailStates
  <2>2. UNCHANGED <<world, run, search, partial, multi, current, ready, watch, user, told, noted>>
    BY <1>1 DEF Pay, DeadlinePasses, Lapse, CancelElsewhere
  <2> QED
    BY <2>1, <2>2, <1>w, <1>m, <1>0 DEF Working
<1>2. CASE TakesSeat
  <2>1. rail' \in [Reservations -> RailStates]
    BY <1>2 DEF TakesSeat, RailStates
  <2>2. PICK r \in Reservations : run' = [run EXCEPT !.at = "save", !.rsv = r]
    BY <1>2 DEF TakesSeat
  <2> HIDE DEF history, redis, app
  <2>3. UNCHANGED <<world, due, search, partial, multi, current, ready, watch, user, told, noted>>
    BY <1>2 DEF TakesSeat, redis, app
  <2>4. /\ run'.at = "save" /\ run'.rsv \in Reservations
        /\ run' \in [at : RunSteps, seat : Seats, rsv : Reservations \union {0}]
    <3>1. run = [at |-> run.at, seat |-> run.seat, rsv |-> run.rsv]
      OBVIOUS
    <3>2. run' = [at |-> "save", seat |-> run.seat, rsv |-> r]
      BY <2>2, <3>1
    <3> QED
      BY <3>2 DEF RunSteps
  <2> QED
    BY <2>1, <2>3, <2>4, <1>w, <1>m, <1>0
<1>3. CASE SavesPartial
  <2>1. partial' \in [DOMAIN partial' -> Reservations] /\ DOMAIN partial' \subseteq Seats
    BY <1>3 DEF SavesPartial, Working
  <2> QED
    BY <1>3, <2>1, <1>w, <1>m, <1>0 DEF SavesPartial, Working, RunSteps
<1>4. CASE NotesSeat
  <2>1. IsRecord(RecordFor) /\ RecordFor.kept
    BY EmptyRecords DEF RecordFor, Fresh
  <2>2. IsRecord(multi')
    BY <1>4, <2>1, RowTakenDown DEF NotesSeat, Working
  <2>3. IsRecord(multi)'
    BY <1>4, <2>2, <1>0 DEF NotesSeat, IsRecord
  <2> QED
    BY <1>4, <2>3, <1>w, <1>0 DEF NotesSeat, Working, RunSteps
<1>5. CASE SetsIndex \/ TellsOfSeat \/ ClearsIndex \/ Finishes \/ Fails \/ Dies
  <2>1. run' \in [at : RunSteps, seat : Seats, rsv : Reservations \union {0}]
    BY <1>5, <1>0 DEF SetsIndex, TellsOfSeat, ClearsIndex, Finishes, Fails, Dies, RunSteps, Gone
  <2>2. (Working => run.rsv \in Reservations)' /\ (run'.at = "wait" => run'.seat < world.seats)
    BY <1>5 DEF SetsIndex, TellsOfSeat, ClearsIndex, Finishes, Fails, Dies, RunSteps, Gone, Working
  <2>3. UNCHANGED <<world, rail, due, partial, multi, ready, watch, user, told, noted>>
        /\ search' \in {search, "none"} /\ current' \in {current, run.seat, NoSeat}
    BY <1>5 DEF SetsIndex, TellsOfSeat, ClearsIndex, Finishes, Fails, Dies
  <2> QED
    BY <2>1, <2>2, <2>3, <1>w, <1>m, <1>0
<1>6. CASE WaitIsOver
  <2>1. run.seat + 1 \in Seats
    BY <1>6, <1>0 DEF WaitIsOver, Seats
  <2> QED
    BY <1>6, <2>1, <1>w, <1>m, <1>0 DEF WaitIsOver, Searching, Working, RunSteps
<1>7. CASE FlagExpires
  BY <1>7, <1>w, <1>m, <1>0 DEF FlagExpires, Working
<1>8. CASE RecordExpires \/ CancelClears
  <2>1. IsRecord(multi)'
    BY <1>8, EmptyRecords, <1>0 DEF RecordExpires, CancelClears, IsRecord
  <2> QED
    BY <1>8, <2>1, <1>w, <1>0 DEF RecordExpires, CancelClears, Working, Idle, UserSteps
<1>9. CASE PartialsExpire
  <2>1. partial' = <<>> /\ partial' \in [DOMAIN partial' -> Reservations] /\ DOMAIN partial' = {}
    BY <1>9 DEF PartialsExpire
  <2> QED
    BY <1>9, <2>1, <1>w, <1>m, <1>0 DEF PartialsExpire, Working
<1>10. CASE WatchLooks
  <2>1. WatchShape'
    BY <1>10, <1>0 DEF WatchLooks, WatchShape, AtRest, RowsAt, WatchSteps, IsRecord
  <2> QED
    BY <1>10, <2>1, <1>m, <1>0 DEF WatchLooks, Working
<1>11. CASE WatchAsks
  <2> DEFINE s == First(watch.left)
  <2>1. s \in watch.left /\ s \in DOMAIN watch.record.rows /\ s \in Seats
    BY <1>11, <1>0, FirstIs DEF WatchAsks, WatchShape, Seats
  <2>2. watch.record.kept
    BY <2>1, NoRows DEF WatchShape, IsRecord
  <2> HIDE DEF s
  <2>3. ASSUME NEW status \in Statuses
        PROVE  /\ IsRecord(Marked(watch.record, {s}, status))
               /\ DOMAIN Marked(watch.record, {s}, status).rows = DOMAIN watch.record.rows
    BY <2>2, MarkedRecord DEF WatchShape
  <2>4. PICK status \in Statuses :
          \/ watch' = [watch EXCEPT !.left = @ \ {s}]
          \/ watch' = [watch EXCEPT !.left = @ \ {s}, !.settled = @ \union {s},
                                    !.record = Marked(@, {s}, status)]
    BY <1>11 DEF WatchAsks, s, Statuses
  <2>5. watch.at = "ask" /\ UNCHANGED <<world, multi>>
    BY <1>11 DEF WatchAsks
  <2>6. WatchShape'
    <3>1. PICK record, settled :
            /\ watch' = [at |-> "ask", record |-> record, left |-> watch.left \ {s},
                         settled |-> settled, mark |-> watch.mark]
            /\ IsRecord(record) /\ DOMAIN record.rows = DOMAIN watch.record.rows
            /\ settled \subseteq watch.settled \union {s}
      BY <2>3, <2>4, <2>5 DEF WatchShape
    <3>2. IsRecord(watch.record)'
      BY <3>1, <2>5, <1>0 DEF IsRecord
    <3>3. watch.left \subseteq Seats /\ watch.settled \subseteq Seats /\ watch.mark \in Seats \union {NoSeat}
          /\ watch.left \union watch.settled \subseteq DOMAIN watch.record.rows
      BY DEF WatchShape
    <3> QED
      BY <3>1, <3>2, <3>3, <2>1, <2>5, <1>0 DEF WatchShape, WatchSteps
  <2> QED
    BY <1>11, <2>6, <1>m, <1>0 DEF WatchAsks, Working
<1>12. CASE WatchSaves
  <2>1. IsRecord(multi)'
    BY <1>12, <1>0, <1>m DEF WatchSaves, WatchShape, IsRecord
  <2>2. WatchShape'
    BY <1>12, <1>0, EmptyRecords, NoRows DEF WatchSaves, WatchShape, WatchSteps, AtRest, IsRecord
  <2> QED
    BY <1>12, <2>1, <2>2, <1>0 DEF WatchSaves, Working
<1>13. CASE WatchTells \/ WatchMarks
  <2> DEFINE s == First(watch.settled)
  <2>1. s \in watch.settled /\ s \in DOMAIN watch.record.rows /\ s \in Seats
    BY <1>13, <1>0, FirstIs DEF WatchTells, WatchMarks, WatchShape, Seats
  <2>2. watch.record.rows[s].rsv \in Reservations /\ Verdict(s) \in Statuses
    BY <2>1 DEF WatchShape, IsRecord, Rows, Verdict
  <2>3. UNCHANGED <<world, multi>> /\ watch.at \in {"tell", "mark"}
    BY <1>13 DEF WatchTells, WatchMarks
  <2>4. \/ Tells(s)
        \/ /\ UNCHANGED told /\ current = s /\ Verdict(s) = "paid"
           /\ watch' = [watch EXCEPT !.at = "mark", !.mark = s]
    BY <1>13, <2>1 DEF WatchTells, WatchMarks, Releases, NoSeat, s
  <2>5. WatchShape' /\ told' \in [Reservations -> SUBSET Statuses]
    <3>1. CASE Tells(s)
      <4>1. told' \in [Reservations -> SUBSET Statuses]
        BY <3>1, <2>2 DEF Tells
      <4>2. WatchShape'
        <5> HIDE DEF s
        <5> QED
          <6>1. \/ watch' = AtRest
                \/ /\ watch' = [at |-> "tell", record |-> watch.record, left |-> watch.left,
                                settled |-> watch.settled \ {s}, mark |-> NoSeat]
                   /\ watch.settled # {s}
            BY <3>1 DEF Tells, WatchShape
          <6>2. IsRecord(watch.record)'
            BY <6>1, <2>3, <1>0, EmptyRecords DEF WatchShape, AtRest, IsRecord
          <6> QED
            BY <6>1, <6>2, <2>1, <2>3, <1>0, NoRows DEF WatchShape, WatchSteps, AtRest
      <4> QED
        BY <4>1, <4>2
    <3>2. CASE /\ UNCHANGED told /\ current = s /\ Verdict(s) = "paid"
               /\ watch' = [watch EXCEPT !.at = "mark", !.mark = s]
      <4>1. watch' = [at |-> "mark", record |-> watch.record, left |-> watch.left,
                      settled |-> watch.settled, mark |-> s]
        BY <3>2 DEF WatchShape
      <4> QED
        BY <3>2, <4>1, <2>1, <2>3, <1>0 DEF WatchShape, WatchSteps, IsRecord, Verdict
    <3> QED
      BY <2>4, <3>1, <3>2
  <2>6. ready' \in SUBSET Seats
    BY <1>13, <2>1 DEF WatchTells, WatchMarks, WatchShape
  <2>7. UNCHANGED <<rail, due, run, search, partial, current, user, noted>>
    BY <1>13 DEF WatchTells, WatchMarks
  <2> QED
    BY <2>3, <2>5, <2>6, <2>7, <1>m, <1>0 DEF Working
<1>14. CASE ReminderEnds
  BY <1>14, <1>w, <1>m, <1>0 DEF ReminderEnds, Working
<1>15. CASE ReminderExpires
  <2>1. multi.kept
    BY <1>15, NoRows DEF ReminderExpires, IsRecord, Pending, RowsAt
  <2>2. IsRecord(multi')
    BY <1>15, <2>1, MarkedRecord DEF ReminderExpires, Statuses
  <2>3. IsRecord(multi)'
    BY <1>15, <2>2, <1>0 DEF ReminderExpires, IsRecord
  <2> QED
    BY <1>15, <2>3, <1>w, <1>0 DEF ReminderExpires, Working
<1>16. CASE Order \/ ResumesDead \/ Buries
  BY <1>16, <1>w, <1>m, <1>0 DEF Order, ResumesDead, Buries, Searching, Working, RunSteps
<1>17. CASE Restarts
  BY <1>17, <1>w, <1>m, <1>0 DEF Restarts, Searching, Working, RunSteps
<1>18. CASE CarryOn
  BY <1>18, <1>w, <1>m, <1>0 DEF CarryOn, NoSeat, Working
<1>19. CASE NotifyOff
  <2>1. multi.kept
    BY <1>19, NoRows DEF NotifyOff, IsRecord, Pending, RowsAt
  <2>2. multi' = [kept |-> multi.kept, rows |-> multi.rows, stopped |-> TRUE]
    BY <1>19 DEF NotifyOff, IsRecord
  <2>3. IsRecord(multi)'
    BY <1>19, <2>1, <2>2, <1>0 DEF NotifyOff, IsRecord
  <2> QED
    BY <1>19, <2>3, <1>w, <1>0 DEF NotifyOff, Working
<1>20. CASE CancelStops
  BY <1>20, <1>w, <1>m, <1>0 DEF CancelStops, Gone, Idle, Working, RunSteps, UserSteps
<1>21. CASE GiveBackReads
  <2>1. \A s \in DOMAIN multi.rows : multi.rows[s].rsv \in Reservations
    BY DEF IsRecord, Rows
  <2> QED
    BY <1>21, <2>1, <1>w, <1>m, <1>0 DEF GiveBackReads, Pending, RowsAt, Working, UserSteps
<1>22. CASE GiveBackAsks
  <2>1. PICK returned \in SUBSET {r \in user.picked : rail[r] = "held"} :
          /\ rail' = [r \in Reservations |-> IF r \in returned THEN "returned" ELSE rail[r]]
          /\ user' = IF returned = {} THEN Idle ELSE [at |-> "record", picked |-> returned]
    BY <1>22 DEF GiveBackAsks
  <2>2. rail' \in [Reservations -> RailStates]
    BY <2>1 DEF RailStates
  <2>3. user' \in [at : UserSteps, picked : SUBSET Reservations]
    BY <2>1 DEF UserSteps, Idle
  <2> QED
    BY <1>22, <2>2, <2>3, <1>w, <1>m, <1>0 DEF GiveBackAsks, Working
<1>23. CASE GiveBackRecords
  <2> DEFINE back == {s \in DOMAIN multi.rows : multi.rows[s].rsv \in user.picked}
             gone == Marked(multi, back, "cancelled")
  <2>1. IsRecord(multi)'
    <3>1. CASE multi.kept
      <4>1. IsRecord(gone) /\ gone.kept
        BY <3>1, MarkedRecord DEF Statuses
      <4>2. multi' = [gone EXCEPT !.stopped = TRUE]
        BY <1>23, <3>1 DEF GiveBackRecords
      <4> HIDE DEF gone
      <4>3. multi' = [kept |-> gone.kept, rows |-> gone.rows, stopped |-> TRUE]
        BY <4>1, <4>2 DEF IsRecord
      <4>4. world' = world
        BY <1>23 DEF GiveBackRecords
      <4> QED
        BY <4>1, <4>3, <4>4, <1>0 DEF IsRecord
    <3>2. CASE ~multi.kept
      BY <1>23, <3>2, <1>m DEF GiveBackRecords
    <3> QED
      BY <3>1, <3>2
  <2> QED
    BY <1>23, <2>1, <1>w, <1>0 DEF GiveBackRecords, Idle, Working, UserSteps
<1>24. CASE Stops
  <2>1. WatchShape'
    BY <1>24, <1>0, EmptyRecords, NoRows DEF Stops, AtRest, WatchShape, WatchSteps, IsRecord
  <2> QED
    BY <1>24, <2>1, <1>m, <1>0 DEF Stops, Gone, Idle, Working, RunSteps, UserSteps
<1>25. CASE UNCHANGED vars
  BY <1>25, <1>w, <1>m, <1>0 DEF vars, Working
<1> QED
  BY <1>1, <1>2, <1>3, <1>4, <1>5, <1>6, <1>7, <1>8, <1>9, <1>10, <1>11, <1>12, <1>13, <1>14, <1>15,
     <1>16, <1>17, <1>18, <1>19, <1>20, <1>21, <1>22, <1>23, <1>24, <1>25
  DEF Next, Run, Watch, User, Lifecycle

\* Every row and flag is of a seat of the group, and every step of the run, the watchdog and the
\* chat one of theirs, for groups of any size.
THEOREM TypeCorrect == Spec => []TypeOK
<1>1. ShapeInv => TypeOK
  BY DEF ShapeInv, TypeOK, WatchShape, IsRecord, RecordOK, RailStates, RunSteps, WatchSteps,
         UserSteps
<1> QED
  BY <1>1, ShapeInit, ShapeNext, PTL DEF Spec

-----------------------------------------------------------------------------
(* No seat too many *)

\* The schedules the theorem is about: without the accidents that lose sight of a seat.
NothingLost ==
  \A w \in Worlds : {"cut_short", "partials_lapsed", "resumed_by_hand"} \intersect w.uses = {}

\* What the run has taken, it counts by its seat; and before anything starts from the first
\* seat again, what is written down says whether something has been taken.
RunInv ==
  /\ run = [at |-> run.at, seat |-> run.seat, rsv |-> run.rsv]
  /\ run.at = "gone" \/ run.at = "search" \/ Working
  /\ run.seat \in 1..world.seats
  /\ run.at = "wait" => run.seat < world.seats
  /\ Alive => up /\ search = "running"
  /\ run.at = "search" => Cardinality(Of(orders)) < run.seat
  /\ Working => Cardinality(Of(orders)) <= run.seat

OrdersInv ==
  /\ orders \in Nat
  /\ search # "none" => orders # 0
  /\ taken \in [Reservations -> 0..orders]
  /\ \A order \in 1..orders : IsFiniteSet(Of(order)) /\ Cardinality(Of(order)) <= world.seats
  /\ search # "none" /\ run.at # "save" /\ DOMAIN partial = {} => Of(orders) = {}

SeatInv == world \in Worlds /\ RunInv /\ OrdersInv

\* The rest of the state is not about how many seats there are.
counted == <<world, run, search, partial, taken, orders, up>>

LEMMA FrameKeeps == ASSUME SeatInv, UNCHANGED counted PROVE SeatInv'
<1>1. Of(orders)' = Of(orders) /\ \A order : Of(order)' = Of(order)
  BY DEF Of, counted
<1> QED
  BY <1>1 DEF SeatInv, RunInv, OrdersInv, Alive, Working, counted

\* What most steps leave as it is.
LEMMA OthersFrame ==
  ASSUME \/ \E r \in Reservations : Pay(r) \/ DeadlinePasses(r) \/ Lapse(r) \/ CancelElsewhere(r)
         \/ FlagExpires \/ RecordExpires \/ Watch \/ ReminderEnds \/ ReminderExpires
         \/ CarryOn \/ NotifyOff \/ CancelClears \/ GiveBackReads \/ GiveBackAsks
         \/ GiveBackRecords
  PROVE  UNCHANGED counted
<1>1. CASE \E r \in Reservations : Pay(r) \/ DeadlinePasses(r) \/ Lapse(r) \/ CancelElsewhere(r)
  BY <1>1 DEF Pay, DeadlinePasses, Lapse, CancelElsewhere, redis, app, history, counted
<1>2. CASE FlagExpires \/ RecordExpires
  BY <1>2 DEF FlagExpires, RecordExpires, app, history, counted
<1>3. CASE WatchLooks \/ WatchAsks \/ WatchSaves
  BY <1>3 DEF WatchLooks, WatchAsks, WatchSaves, redis, history, counted
<1>4. CASE WatchTells \/ WatchMarks
  BY <1>4 DEF WatchTells, WatchMarks, redis, counted
<1>5. CASE ReminderEnds \/ ReminderExpires
  BY <1>5 DEF ReminderEnds, ReminderExpires, redis, app, history, counted
<1>6. CASE CarryOn \/ NotifyOff \/ CancelClears
  BY <1>6 DEF CarryOn, NotifyOff, CancelClears, app, history, counted
<1>7. CASE GiveBackReads \/ GiveBackAsks \/ GiveBackRecords
  BY <1>7 DEF GiveBackReads, GiveBackAsks, GiveBackRecords, redis, history, counted
<1> QED
  BY <1>1, <1>2, <1>3, <1>4, <1>5, <1>6, <1>7 DEF Watch

\* A seat more: the order has one reservation more at most, and its run counts it.
LEMMA TakesSeatKeeps == ASSUME SeatInv, TakesSeat PROVE SeatInv'
<1>1. PICK r \in Reservations : /\ run.at = "search"
                                /\ run' = [run EXCEPT !.at = "save", !.rsv = r]
                                /\ taken' = [taken EXCEPT ![r] = orders]
                                /\ UNCHANGED <<world, search, partial, orders, up>>
  BY DEF TakesSeat, redis, app
<1>2. /\ orders \in Nat /\ orders # 0 /\ orders \in 1..orders
      /\ up /\ search = "running"
      /\ world.seats \in Nat
  BY <1>1, WorldHasSeats DEF SeatInv, RunInv, OrdersInv, Alive
<1>3. Of(orders)' = Of(orders) \union {r}
  BY <1>1, <1>2 DEF SeatInv, OrdersInv, Of
<1>4. /\ IsFiniteSet(Of(orders)')
      /\ Cardinality(Of(orders)') <= run.seat
  <2>1. IsFiniteSet(Of(orders)) /\ Cardinality(Of(orders)) < run.seat
    BY <1>1, <1>2 DEF SeatInv, RunInv, OrdersInv
  <2>2. Cardinality(Of(orders)) \in Nat /\ run.seat \in Nat
    BY <2>1, <1>2, FS_CardinalityType DEF SeatInv, RunInv
  <2> QED
    BY <1>3, <2>1, <2>2, FS_AddElement
<1>5. ASSUME NEW order \in 1..orders, order # orders
      PROVE  IsFiniteSet(Of(order)') /\ Cardinality(Of(order)') <= world.seats
  <2>1. Of(order)' \in SUBSET Of(order)
    BY <1>1, <1>2, <1>5 DEF SeatInv, OrdersInv, Of
  <2>2. IsFiniteSet(Of(order)) /\ Cardinality(Of(order)) <= world.seats
    BY <1>5 DEF SeatInv, OrdersInv
  <2>3. IsFiniteSet(Of(order)') /\ Cardinality(Of(order)') <= Cardinality(Of(order))
    BY <2>1, <2>2, FS_Subset
  <2> QED
    BY <1>2, <2>2, <2>3, FS_CardinalityType
<1>6. run'.at = "save" /\ run'.seat = run.seat
      /\ run' = [at |-> run'.at, seat |-> run'.seat, rsv |-> run'.rsv]
  BY <1>1 DEF SeatInv, RunInv
<1>7. RunInv'
  BY <1>1, <1>2, <1>4, <1>6 DEF SeatInv, RunInv, Alive, Working
<1>8. OrdersInv'
  <2>1. Cardinality(Of(orders)') <= world.seats
    BY <1>2, <1>4, FS_CardinalityType DEF SeatInv, RunInv
  <2>2. taken' \in [Reservations -> 0..orders]
    BY <1>1, <1>2 DEF SeatInv, OrdersInv
  <2>3. \A order \in 1..orders' : IsFiniteSet(Of(order)') /\ Cardinality(Of(order)') <= world'.seats
    BY <1>1, <1>4, <1>5, <2>1
  <2> QED
    BY <1>1, <1>2, <1>6, <2>2, <2>3 DEF OrdersInv
<1> QED
  BY <1>1, <1>7, <1>8 DEF SeatInv

\* The run goes on without taking one: on its seat, or to the next.
LEMMA GoesOnKeeps ==
  ASSUME SeatInv,
         \/ SavesPartial \/ NotesSeat \/ SetsIndex \/ TellsOfSeat \/ ClearsIndex \/ WaitIsOver
  PROVE  SeatInv'
<1>1. /\ UNCHANGED <<world, search, taken, orders, up>>
      /\ \A order : Of(order)' = Of(order)
      /\ Of(orders)' = Of(orders)
  BY DEF SavesPartial, NotesSeat, SetsIndex, TellsOfSeat, ClearsIndex, WaitIsOver, redis, app,
         history, Of
<1>2. run.seat \in Nat /\ world.seats \in Nat
  BY WorldHasSeats DEF SeatInv, RunInv
<1>3. CASE SavesPartial
  <2>1. /\ run.at = "save" /\ run' = [run EXCEPT !.at = "note"]
        /\ DOMAIN partial' # {}
    BY <1>3 DEF SavesPartial
  <2> QED
    BY <1>1, <1>2, <2>1 DEF SeatInv, RunInv, OrdersInv, Alive, Working
<1>4. CASE NotesSeat \/ SetsIndex \/ TellsOfSeat \/ ClearsIndex
  <2>1. PICK at \in {"index", "tell", "wait", "clear", "finish"} :
          /\ run.at \in {"note", "index", "tell", "clear"}
          /\ run' = [run EXCEPT !.at = at]
          /\ at = "wait" => run.seat < world.seats
          /\ partial' = partial
    BY <1>4 DEF NotesSeat, SetsIndex, TellsOfSeat, ClearsIndex, redis
  <2>2. run' = [at |-> at, seat |-> run.seat, rsv |-> run.rsv]
    BY <2>1 DEF SeatInv, RunInv
  <2> QED
    BY <1>1, <1>2, <2>1, <2>2 DEF SeatInv, RunInv, OrdersInv, Alive, Working
<1>5. CASE WaitIsOver
  <2>1. /\ run.at = "wait"
        /\ run' = [at |-> "search", seat |-> run.seat + 1, rsv |-> 0]
        /\ partial' = partial
    BY <1>5 DEF WaitIsOver, Searching
  <2>2. /\ run.seat + 1 \in 1..world.seats
        /\ orders \in 1..orders
        /\ IsFiniteSet(Of(orders)) /\ Cardinality(Of(orders)) < run.seat + 1
    <3>1. orders \in 1..orders /\ IsFiniteSet(Of(orders)) /\ Cardinality(Of(orders)) <= run.seat
      BY <2>1 DEF SeatInv, RunInv, OrdersInv, Alive, Working
    <3> QED
      BY <1>2, <2>1, <3>1, FS_CardinalityType DEF SeatInv, RunInv
  <2> QED
    BY <1>1, <1>2, <2>1, <2>2 DEF SeatInv, RunInv, OrdersInv, Alive, Working
<1> QED
  BY <1>3, <1>4, <1>5

\* The run ends, by itself, by the chat, by a death or with the application.
LEMMA EndsKeeps ==
  ASSUME NothingLost, SeatInv, Finishes \/ Fails \/ CancelStops \/ Dies \/ Stops
  PROVE  SeatInv'
<1>1. /\ UNCHANGED <<world, taken, orders, partial>>
      /\ run' = Gone
      /\ search' = "none" \/ (search' = search /\ run.at # "save")
  BY DEF Finishes, Fails, CancelStops, Dies, Stops, redis, app, history, NothingLost, SeatInv, Uses
<1>2. \A order : Of(order)' = Of(order) /\ Of(orders)' = Of(orders)
  BY <1>1 DEF Of
<1> QED
  BY <1>1, <1>2, WorldHasSeats DEF SeatInv, RunInv, OrdersInv, Alive, Working, Gone

\* An order of its own, or one that has taken nothing yet, starts from the first seat.
LEMMA StartsKeeps ==
  ASSUME NothingLost, SeatInv, Order \/ ResumesDead \/ Restarts \/ Buries \/ PartialsExpire
  PROVE  SeatInv'
<1>1. world.seats \in Nat \ {0, 1} /\ orders \in Nat
  BY WorldHasSeats DEF SeatInv, OrdersInv
<1>2. CASE Order
  <2>1. /\ UNCHANGED <<world, taken, up>>
        /\ up /\ search' = "running"
        /\ orders' = orders + 1
        /\ run' = [at |-> "search", seat |-> 1, rsv |-> 0]
    BY <1>2 DEF Order, Searching, app
  <2>2. Of(orders)' = {} /\ \A order : Of(order)' = Of(order)
    BY <1>1, <2>1 DEF SeatInv, OrdersInv, Of
  <2>3. taken \in [Reservations -> 0..orders']
    BY <1>1, <2>1 DEF SeatInv, OrdersInv
  <2>4. Of(orders + 1) = {}
    BY <1>1 DEF SeatInv, OrdersInv, Of
  <2>5. \A order \in 1..orders' : order \in 1..orders \/ order = orders + 1
    BY <1>1, <2>1
  <2>6. RunInv'
    BY <1>1, <2>1, <2>2, FS_EmptySet DEF RunInv, Alive, Working
  <2>7. ASSUME NEW order \in 1..orders'
        PROVE  IsFiniteSet(Of(order)') /\ Cardinality(Of(order)') <= world'.seats
    <3>1. CASE order \in 1..orders
      BY <2>1, <2>2, <3>1 DEF SeatInv, OrdersInv
    <3>2. CASE order = orders + 1
      <4>1. Of(order)' = {}
        BY <2>2, <2>4, <3>2
      <4> QED
        BY <1>1, <2>1, <4>1, FS_EmptySet
    <3> QED
      BY <2>5, <3>1, <3>2
  <2>8. OrdersInv'
    BY <1>1, <2>1, <2>2, <2>3, <2>7 DEF OrdersInv
  <2> QED
    BY <2>1, <2>6, <2>8 DEF SeatInv
<1>3. CASE ResumesDead \/ (Restarts /\ search = "running" /\ Resumes)
  <2>1. /\ UNCHANGED <<world, taken, orders, partial>>
        /\ DOMAIN partial = {} /\ search # "none" /\ run.at = "gone"
        /\ up' /\ search' = "running"
        /\ run' = [at |-> "search", seat |-> 1, rsv |-> 0]
    BY <1>3 DEF ResumesDead, Restarts, Resumes, Searching, SeatInv, RunInv, Alive, NothingLost,
                Uses, app, history
  <2>2. Of(orders) = {}
    BY <2>1 DEF SeatInv, OrdersInv
  <2>3. Of(orders)' = Of(orders) /\ \A order : Of(order)' = Of(order)
    BY <2>1 DEF Of
  <2>4. RunInv'
    BY <1>1, <2>1, <2>2, <2>3, FS_EmptySet DEF RunInv, Alive, Working
  <2>5. OrdersInv'
    BY <2>1, <2>2, <2>3 DEF SeatInv, OrdersInv
  <2> QED
    BY <2>1, <2>4, <2>5 DEF SeatInv
<1>4. CASE Buries \/ PartialsExpire \/ (Restarts /\ ~(search = "running" /\ Resumes))
  <2>1. /\ UNCHANGED <<world, taken, orders, run>>
        /\ up' = up \/ ~Alive
        /\ \/ search' = "dead" /\ search = "running" /\ ~Alive /\ partial' = partial
           \/ search' = search /\ (search = "none" \/ partial' = partial)
           \/ search' = "none" /\ ~Alive
        /\ search' # search => ~Alive
    BY <1>4 DEF Buries, PartialsExpire, Restarts, SeatInv, RunInv, Alive, NothingLost, Uses, app,
                history
  <2>2. Of(orders)' = Of(orders) /\ \A order : Of(order)' = Of(order)
    BY <2>1 DEF Of
  <2>3. RunInv'
    BY <2>1, <2>2 DEF SeatInv, RunInv, Alive, Working
  <2>4. OrdersInv'
    BY <2>1, <2>2 DEF SeatInv, OrdersInv
  <2> QED
    BY <2>1, <2>3, <2>4 DEF SeatInv
<1> QED
  BY <1>2, <1>3, <1>4

LEMMA SeatStep == ASSUME NothingLost, SeatInv, [Next]_vars PROVE SeatInv'
<1>1. CASE UNCHANGED vars
  BY <1>1, FrameKeeps DEF vars, redis, app, history, counted
<1>2. CASE Next
  BY <1>2, FrameKeeps, OthersFrame, TakesSeatKeeps, GoesOnKeeps, EndsKeeps, StartsKeeps
  DEF Next, Run, User, Lifecycle
<1> QED
  BY <1>1, <1>2

\* However often a run dies, fails, is stopped with the application and resumed
\* (_run_random_reservation, resume_dead_search, reconcile_after_restart), the railway gives
\* an order no more seats than there are passengers, as long as what has been taken is
\* written down before the run can end, kept until a restart, and looked at by whoever
\* resumes it.
THEOREM NoSeatTooMany == ASSUME NothingLost PROVE Spec => []SeatsAsAsked
<1>1. Init => SeatInv
  <2> SUFFICES ASSUME Init PROVE SeatInv
    OBVIOUS
  <2>1. world.seats \in Nat \ {0, 1}
    BY WorldHasSeats DEF Init
  <2> QED
    BY <2>1 DEF Init, SeatInv, RunInv, OrdersInv, Alive, Working, Gone
<1>2. SeatInv /\ [Next]_vars => SeatInv'
  BY SeatStep
<1>3. SeatInv => SeatsAsAsked
  BY DEF SeatInv, OrdersInv, SeatsAsAsked
<1> QED
  BY <1>1, <1>2, <1>3, PTL DEF Spec

-----------------------------------------------------------------------------
(* One way only *)

\* The user may cancel it on the railway's site without anybody being misled.
AtLiberty(r) == Uses("cancelled_elsewhere") \/ (run.rsv # r /\ ~Unsettled(r))

\* The railway's reservations go one way, and a time to pay that is over stays over.
LEMMA RailSteps ==
  ASSUME ShapeInv, [Next]_vars, NEW r \in Reservations
  PROVE  /\ r \in due => r \in due'
         /\ r \in due' => r \in due \/ rail[r] \in {"held", "paid"}
         /\ r \in due' /\ r \notin due /\ run.rsv = r => run.at \notin {"save", "note"}
         /\ rail[r] # "free" => rail'[r] # "free"
         /\ rail[r] = "free" => rail'[r] \in {"free", "held"}
         /\ rail[r] \in {"paid", "lapsed", "returned", "withdrawn"} => rail'[r] = rail[r]
         /\ rail'[r] = "held" => rail[r] \in {"free", "held"}
         /\ rail'[r] = "paid" => rail[r] = "paid" \/ (rail[r] = "held" /\ r \notin due')
         /\ rail[r] = "held" => \/ rail'[r] \in {"held", "paid"}
                                \/ rail'[r] = "lapsed" /\ r \in due
                                \/ rail'[r] = "withdrawn" /\ AtLiberty(r)
                                \/ /\ rail'[r] = "returned" /\ r \in user.picked
                                   /\ user'.at = "record" /\ r \in user'.picked
<1> USE DEF ShapeInv, RailStates, AtLiberty, app, redis, history
<1>1. CASE \E q \in Reservations : Pay(q) \/ DeadlinePasses(q) \/ Lapse(q) \/ CancelElsewhere(q)
  BY <1>1 DEF Pay, DeadlinePasses, Lapse, CancelElsewhere
<1>2. CASE TakesSeat
  BY <1>2 DEF TakesSeat
<1>3. CASE GiveBackAsks
  BY <1>3 DEF GiveBackAsks
<1>4. CASE SavesPartial \/ NotesSeat \/ SetsIndex \/ TellsOfSeat \/ WaitIsOver \/ ClearsIndex
             \/ Finishes \/ Fails \/ Dies \/ FlagExpires \/ RecordExpires \/ PartialsExpire
  BY <1>4 DEF SavesPartial, NotesSeat, SetsIndex, TellsOfSeat, WaitIsOver, ClearsIndex, Finishes,
              Fails, Dies, FlagExpires, RecordExpires, PartialsExpire
<1>5. CASE Watch \/ ReminderEnds \/ ReminderExpires
  BY <1>5 DEF Watch, WatchLooks, WatchAsks, WatchSaves, WatchTells, WatchMarks, ReminderEnds,
              ReminderExpires
<1>6. CASE Order \/ CarryOn \/ NotifyOff \/ CancelStops \/ CancelClears \/ GiveBackReads
             \/ GiveBackRecords \/ Lifecycle \/ UNCHANGED vars
  BY <1>6 DEF Order, CarryOn, NotifyOff, CancelStops, CancelClears, GiveBackReads, GiveBackRecords,
              Lifecycle, Buries, ResumesDead, Stops, Restarts, vars
<1> QED
  BY <1>1, <1>2, <1>3, <1>4, <1>5, <1>6 DEF Next, Run, User

\* What a step leaves of the rows of a record.
OfRows(a, b) == /\ DOMAIN a.rows \subseteq DOMAIN b.rows
                /\ \A s \in DOMAIN a.rows : a.rows[s].rsv = b.rows[s].rsv

LEMMA NoRowsOf == ASSUME NEW b PROVE OfRows(NoRecord, b)
  BY NoRows DEF OfRows

LEMMA RecordSteps ==
  ASSUME ShapeInv, [Next]_vars
  PROVE  /\ \/ OfRows(multi', multi)
            \/ WatchSaves /\ multi' = watch.record
            \/ /\ NotesSeat
               /\ multi' = WithRow(RecordFor, run.seat, run.rsv)
               /\ IsRecord(RecordFor) /\ RecordFor.kept /\ OfRows(RecordFor, multi)
         /\ OfRows(watch'.record, watch.record) \/ (WatchLooks /\ watch'.record = multi)
<1> USE DEF ShapeInv, app, redis, history
<1>0. OfRows(multi, multi) /\ OfRows(watch.record, watch.record)
  BY DEF OfRows
<1>1. CASE UNCHANGED <<multi, watch>>
  BY <1>1, <1>0
<1>2. CASE NotesSeat
  <2>1. IsRecord(RecordFor) /\ RecordFor.kept /\ OfRows(RecordFor, multi)
    BY <1>0, EmptyRecords, NoRows DEF RecordFor, Fresh, OfRows
  <2> QED
    BY <1>2, <2>1, <1>0 DEF NotesSeat
<1>3. CASE RecordExpires \/ CancelClears
  BY <1>3, <1>0, NoRowsOf DEF RecordExpires, CancelClears
<1>4. CASE WatchLooks
  BY <1>4, <1>0 DEF WatchLooks
<1>5. CASE WatchAsks
  <2> DEFINE s == First(watch.left)
  <2>1. s \in watch.left /\ s \in DOMAIN watch.record.rows
    BY <1>5, FirstIs, WorldHasSeats DEF WatchAsks, WatchShape, Seats
  <2>2. watch.record.kept
    BY <2>1, NoRows DEF WatchShape, IsRecord
  <2> HIDE DEF s
  <2>3. ASSUME NEW status \in Statuses
        PROVE  OfRows(Marked(watch.record, {s}, status), watch.record)
    BY <2>2, MarkedRecord DEF WatchShape, OfRows
  <2>4. PICK status \in Statuses :
          \/ watch' = [watch EXCEPT !.left = @ \ {s}]
          \/ watch' = [watch EXCEPT !.left = @ \ {s}, !.settled = @ \union {s},
                                    !.record = Marked(@, {s}, status)]
    BY <1>5 DEF WatchAsks, s, Statuses
  <2>5. watch'.record \in {watch.record, Marked(watch.record, {s}, status)}
    BY <2>4 DEF WatchShape
  <2>6. multi' = multi
    BY <1>5 DEF WatchAsks
  <2> QED
    BY <2>3, <2>5, <2>6, <1>0
<1>6. CASE WatchSaves
  <2>1. watch'.record \in {watch.record, NoRecord}
    BY <1>6 DEF WatchSaves, WatchShape, AtRest
  <2> QED
    BY <1>6, <2>1, <1>0, NoRowsOf DEF WatchSaves
<1>7. CASE WatchTells \/ WatchMarks
  <2>1. watch'.record \in {watch.record, NoRecord}
    <3>1. ASSUME NEW s, Tells(s) PROVE watch'.record \in {watch.record, NoRecord}
      BY <3>1 DEF Tells, WatchShape, AtRest
    <3>2. (\E s : Tells(s)) \/ watch' = [watch EXCEPT !.at = "mark", !.mark = Releases(First(watch.settled))]
      BY <1>7, Zenon DEF WatchTells, WatchMarks
    <3> QED
      BY <3>1, <3>2 DEF WatchShape
  <2> QED
    BY <1>7, <2>1, <1>0, NoRowsOf DEF WatchTells, WatchMarks
<1>8. CASE ReminderExpires
  <2>1. multi.kept
    BY <1>8, NoRows DEF ReminderExpires, IsRecord, Pending, RowsAt
  <2>2. OfRows(multi', multi)
    BY <1>8, <2>1, MarkedRecord DEF ReminderExpires, Statuses, OfRows
  <2> QED
    BY <1>8, <2>2, <1>0 DEF ReminderExpires
<1>9. CASE NotifyOff
  <2>1. multi'.rows = multi.rows
    BY <1>9 DEF NotifyOff, IsRecord
  <2> QED
    BY <1>9, <2>1, <1>0 DEF NotifyOff, OfRows
<1>10. CASE GiveBackRecords
  <2> DEFINE back == {s \in DOMAIN multi.rows : multi.rows[s].rsv \in user.picked}
             gone == Marked(multi, back, "cancelled")
  <2>1. CASE multi.kept
    <3>1. IsRecord(gone) /\ OfRows(gone, multi)
      BY <2>1, MarkedRecord DEF Statuses, OfRows
    <3>2. multi' = [gone EXCEPT !.stopped = TRUE]
      BY <1>10, <2>1 DEF GiveBackRecords
    <3> HIDE DEF gone
    <3>3. multi'.rows = gone.rows
      BY <3>1, <3>2 DEF IsRecord
    <3>4. watch' = watch
      BY <1>10 DEF GiveBackRecords
    <3> QED
      BY <3>1, <3>3, <3>4, <1>0 DEF OfRows
  <2>2. CASE ~multi.kept
    BY <1>10, <2>2, <1>0 DEF GiveBackRecords
  <2> QED
    BY <2>1, <2>2
<1>11. CASE Stops
  <2>1. watch'.record = NoRecord /\ multi' = multi
    BY <1>11 DEF Stops, AtRest
  <2> QED
    BY <2>1, <1>0, NoRowsOf
<1>12. CASE \/ \E q \in Reservations : Pay(q) \/ DeadlinePasses(q) \/ Lapse(q) \/ CancelElsewhere(q)
            \/ TakesSeat \/ SavesPartial \/ SetsIndex \/ TellsOfSeat \/ WaitIsOver \/ ClearsIndex
            \/ Finishes \/ Fails \/ Dies \/ FlagExpires \/ PartialsExpire
  BY <1>12, <1>1 DEF Pay, DeadlinePasses, Lapse, CancelElsewhere, TakesSeat, SavesPartial,
                     SetsIndex, TellsOfSeat,
                     WaitIsOver, ClearsIndex, Finishes, Fails, Dies, FlagExpires, PartialsExpire
<1>13. CASE ReminderEnds \/ Order \/ CarryOn \/ CancelStops \/ GiveBackReads \/ GiveBackAsks
             \/ Buries \/ ResumesDead \/ Restarts \/ UNCHANGED vars
  BY <1>13, <1>1 DEF ReminderEnds, Order, CarryOn, CancelStops, GiveBackReads, GiveBackAsks, Buries,
                     ResumesDead, Restarts, vars
<1> QED
  BY <1>2, <1>3, <1>4, <1>5, <1>6, <1>7, <1>8, <1>9, <1>10, <1>11, <1>12, <1>13
  DEF Next, Run, Watch, User, Lifecycle

\* A reservation is taken once: what the run has not written down yet is on no record, nor
\* in anybody's hand, and it is still there to be paid for, unless the user has cancelled it.
Unnoted == {"save", "note"}
Taken(record) ==
  \A s \in DOMAIN record.rows : /\ rail[record.rows[s].rsv] # "free"
                                /\ run.at \in Unnoted => record.rows[s].rsv # run.rsv
OnceInv ==
  /\ \A r \in due \union noted \union user.picked : rail[r] # "free"
  /\ Taken(multi) /\ Taken(watch.record)
  /\ run.at \in Unnoted => /\ \/ rail[run.rsv] \in {"held", "paid"}
                              \/ rail[run.rsv] = "withdrawn" /\ Uses("cancelled_elsewhere")
                           /\ run.rsv \notin due \union user.picked
  /\ user.at = "record" => \A r \in user.picked : rail[r] = "returned"

LEMMA OnceInit == Init => OnceInv
  BY NoRows DEF Init, OnceInv, Taken, AtRest, Idle, Unnoted, Gone

LEMMA RowsAreOf == ASSUME NEW record, IsRecord(record), NEW s \in DOMAIN record.rows
                   PROVE record.rows[s].rsv \in Reservations /\ record.rows[s].status \in Statuses
  BY DEF IsRecord, Rows

LEMMA WorldStays == ASSUME [Next]_vars PROVE world' = world
  BY DEF Next, Run, User, Watch, Lifecycle, Pay, DeadlinePasses, Lapse, CancelElsewhere,
         TakesSeat, SavesPartial, NotesSeat, SetsIndex, TellsOfSeat, WaitIsOver, ClearsIndex,
         Finishes, Fails, Dies, FlagExpires, RecordExpires, PartialsExpire, WatchLooks,
         WatchAsks, WatchSaves, WatchTells, WatchMarks, ReminderEnds, ReminderExpires, Order,
         CarryOn, NotifyOff, CancelStops, CancelClears, GiveBackReads, GiveBackAsks,
         GiveBackRecords, Buries, ResumesDead, Stops, Restarts, vars

LEMMA OnceNext == ASSUME ShapeInv, OnceInv, [Next]_vars PROVE OnceInv'
<1> USE DEF app, redis, history
<1>0. Uses("cancelled_elsewhere")' <=> Uses("cancelled_elsewhere")
  BY WorldStays DEF Uses
<1>1. \A r \in Reservations :
         /\ r \in due' => r \in due \/ rail[r] \in {"held", "paid"}
         /\ r \in due' /\ r \notin due /\ run.rsv = r => run.at \notin Unnoted
         /\ rail[r] # "free" => rail'[r] # "free"
         /\ rail[r] \in {"paid", "lapsed", "returned", "withdrawn"} => rail'[r] = rail[r]
         /\ rail[r] = "held" => \/ rail'[r] \in {"held", "paid"}
                                \/ rail'[r] = "lapsed" /\ r \in due
                                \/ rail'[r] = "withdrawn" /\ AtLiberty(r)
                                \/ rail'[r] = "returned" /\ r \in user.picked
  BY RailSteps DEF Unnoted
<1>2. /\ \A s \in DOMAIN multi.rows : multi.rows[s].rsv \in Reservations
      /\ \A s \in DOMAIN watch.record.rows : watch.record.rows[s].rsv \in Reservations
      /\ due \subseteq Reservations /\ noted \subseteq Reservations /\ user.picked \subseteq Reservations
      /\ due' \subseteq Reservations
      /\ run.at \in Unnoted => run.rsv \in Reservations
      /\ rail \in [Reservations -> RailStates] /\ rail' \in [Reservations -> RailStates]
  BY ShapeNext, RowsAreOf DEF ShapeInv, WatchShape, Unnoted, Working
<1>3. CASE TakesSeat
  <2>1. PICK r \in Reservations : /\ rail[r] = "free" /\ rail' = [rail EXCEPT ![r] = "held"]
                                  /\ run' = [run EXCEPT !.at = "save", !.rsv = r]
                                  /\ UNCHANGED <<due, noted, user, multi, watch>>
    BY <1>3 DEF TakesSeat
  <2>2. run'.at = "save" /\ run'.rsv = r
    BY <2>1 DEF ShapeInv
  <2>3. \A q \in Reservations : rail[q] # "free" => rail'[q] = rail[q] /\ q # r
    BY <2>1, <1>2
  <2>4. rail'[r] = "held" /\ r \notin due /\ r \notin user.picked
    BY <2>1, <1>2 DEF OnceInv
  <2>5. Taken(multi)' /\ Taken(watch.record)'
    BY <2>1, <2>2, <2>3, <1>2 DEF OnceInv, Taken
  <2>6. \A q \in due \union noted \union user.picked : rail'[q] # "free"
    BY <2>3, <1>2 DEF OnceInv
  <2>7. user.at = "record" => \A q \in user.picked : rail'[q] = "returned"
    BY <2>3, <1>2 DEF OnceInv
  <2> QED
    BY <2>1, <2>2, <2>4, <2>5, <2>6, <2>7 DEF OnceInv
<1>4. CASE GiveBackAsks
  <2>1. PICK returned \in SUBSET {r \in user.picked : rail[r] = "held"} :
          /\ rail' = [r \in Reservations |-> IF r \in returned THEN "returned" ELSE rail[r]]
          /\ user' = IF returned = {} THEN Idle ELSE [at |-> "record", picked |-> returned]
    BY <1>4 DEF GiveBackAsks
  <2>2. UNCHANGED <<due, noted, run, multi, watch>>
    BY <1>4 DEF GiveBackAsks
  <2>3. user'.picked \subseteq returned /\ \A r \in returned : rail'[r] = "returned"
    BY <2>1, <1>2 DEF Idle
  <2>4. Taken(multi)' /\ Taken(watch.record)'
    BY <2>2, <1>1, <1>2 DEF OnceInv, Taken
  <2>5. run.at \in Unnoted => rail'[run.rsv] = rail[run.rsv]
    BY <2>1, <1>2 DEF OnceInv
  <2> QED
    BY <2>1, <2>2, <2>3, <2>4, <2>5, <1>0, <1>1, <1>2 DEF OnceInv
<1>5. CASE GiveBackReads
  <2>1. UNCHANGED <<rail, due, noted, run, multi, watch>>
    BY <1>5 DEF GiveBackReads
  <2>2. user'.at = "sign_in" /\ \A r \in user'.picked : \E s \in DOMAIN multi.rows : r = multi.rows[s].rsv
    BY <1>5 DEF GiveBackReads, Pending, RowsAt
  <2> QED
    BY <2>1, <2>2, <1>0 DEF OnceInv, Taken
<1>6. CASE NotesSeat
  <2>1. /\ run.at = "note" /\ run'.at = "index"
        /\ noted' = noted \union {run.rsv}
        /\ UNCHANGED <<rail, due, user, watch>>
    BY <1>6 DEF NotesSeat, ShapeInv
  <2>2. multi' = WithRow(RecordFor, run.seat, run.rsv) /\ IsRecord(RecordFor) /\ RecordFor.kept
        /\ OfRows(RecordFor, multi)
    BY <1>6, EmptyRecords, NoRows DEF NotesSeat, RecordFor, Fresh, OfRows, ShapeInv
  <2>3. run.seat \in Seats /\ run.rsv \in Reservations
    BY <2>1 DEF ShapeInv, Working
  <2>4. \A s \in DOMAIN multi'.rows :
           multi'.rows[s].rsv = run.rsv \/ (s \in DOMAIN multi.rows /\ multi'.rows[s].rsv = multi.rows[s].rsv)
    <3>1. /\ DOMAIN multi'.rows = DOMAIN RecordFor.rows \union {run.seat}
          /\ multi'.rows[run.seat] = [rsv |-> run.rsv, status |-> "pending"]
          /\ \A s \in DOMAIN RecordFor.rows : s # run.seat => multi'.rows[s] = RecordFor.rows[s]
      BY <2>2, <2>3, RowTakenDown
    <3>2. multi'.rows[run.seat].rsv = run.rsv
      BY <3>1
    <3> QED
      BY <3>1, <3>2, <2>2 DEF OfRows
  <2>5. Taken(multi)' /\ Taken(watch.record)'
    BY <2>1, <2>4 DEF OnceInv, Taken, Unnoted
  <2> QED
    BY <2>1, <2>5 DEF OnceInv, Unnoted
<1>7. CASE ~TakesSeat /\ ~GiveBackAsks /\ ~GiveBackReads /\ ~NotesSeat
  <2>1. /\ noted' \subseteq noted
        /\ user' = user \/ (user'.picked = {} /\ user'.at # "record")
        /\ run'.at \in Unnoted => run.at \in Unnoted /\ run'.rsv = run.rsv
    <3> USE DEF ShapeInv, Unnoted, Gone, Idle, Searching
    <3>1. CASE \/ \E q \in Reservations : Pay(q) \/ DeadlinePasses(q) \/ Lapse(q) \/ CancelElsewhere(q)
               \/ FlagExpires \/ RecordExpires \/ PartialsExpire \/ Watch \/ ReminderEnds \/ ReminderExpires
      BY <3>1 DEF Pay, DeadlinePasses, Lapse, CancelElsewhere, FlagExpires, RecordExpires,
                  PartialsExpire, Watch, WatchLooks,
                  WatchAsks, WatchSaves, WatchTells, WatchMarks, ReminderEnds, ReminderExpires
    <3>2. CASE SavesPartial \/ SetsIndex \/ TellsOfSeat \/ WaitIsOver \/ ClearsIndex \/ Finishes \/ Fails \/ Dies
      BY <3>2 DEF SavesPartial, SetsIndex, TellsOfSeat, WaitIsOver, ClearsIndex, Finishes, Fails,
                  Dies
    <3>3. CASE Order \/ CarryOn \/ NotifyOff \/ CancelStops \/ CancelClears \/ GiveBackRecords
      BY <3>3 DEF Order, CarryOn, NotifyOff, CancelStops, CancelClears, GiveBackRecords
    <3>4. CASE Lifecycle \/ UNCHANGED vars
      BY <3>4 DEF Lifecycle, Buries, ResumesDead, Stops, Restarts, vars
    <3> QED
      BY <1>7, <3>1, <3>2, <3>3, <3>4 DEF Next, Run, User
  <2>2. Taken(multi)' /\ Taken(watch.record)'
    <3>1. OfRows(multi', multi) \/ OfRows(multi', watch.record)
      BY <1>7, RecordSteps DEF OfRows
    <3>2. OfRows(watch'.record, multi) \/ OfRows(watch'.record, watch.record)
      BY RecordSteps DEF OfRows
    <3>3. ASSUME NEW a, NEW b, OfRows(a, b), b \in {multi, watch.record}
          PROVE  \A s \in DOMAIN a.rows : /\ rail'[a.rows[s].rsv] # "free"
                                          /\ run'.at \in Unnoted => a.rows[s].rsv # run'.rsv
      BY <3>3, <2>1, <1>1, <1>2 DEF OnceInv, Taken, OfRows
    <3> QED
      BY <3>1, <3>2, <3>3 DEF Taken
  <2>3. run'.at \in Unnoted =>
          /\ \/ rail'[run.rsv] \in {"held", "paid"}
             \/ rail'[run.rsv] = "withdrawn" /\ Uses("cancelled_elsewhere")
          /\ run.rsv \notin due' \union user'.picked
    BY <2>1, <1>1, <1>2 DEF OnceInv, AtLiberty
  <2> QED
    BY <2>1, <2>2, <2>3, <1>0, <1>1, <1>2 DEF OnceInv
<1> QED
  BY <1>3, <1>4, <1>5, <1>6, <1>7

-----------------------------------------------------------------------------
(* Nobody saves the record while the watchdog is in its pass *)

AloneInPass == \A w \in Worlds : "during_pass" \notin w.uses

Passing == watch.at # "rest"

\* The record in the watchdog's hand is the one in Redis, but for what it has settled; and what
\* it has settled is as the railway said.
PassInv ==
  Passing =>
    /\ user.at \notin {"sign_in", "record"}
    /\ DOMAIN multi.rows # {} /\ DOMAIN multi.rows = DOMAIN watch.record.rows
    /\ \A s \in DOMAIN multi.rows : multi.rows[s].rsv = watch.record.rows[s].rsv
    /\ watch.at = "ask" => \A s \in DOMAIN multi.rows :
         /\ s \notin watch.settled => multi.rows[s] = watch.record.rows[s]
         /\ s \in watch.left => s \notin watch.settled
         /\ s \in watch.left \union watch.settled => multi.rows[s].status = "pending"
    /\ \A s \in watch.settled :
         /\ Verdict(s) \in {"paid", "expired"}
         /\ Verdict(s) = "paid" => rail[watch.record.rows[s].rsv] \notin {"free", "held"}
         /\ Verdict(s) = "expired" => watch.record.rows[s].rsv \in due

\* In a pass only the watchdog saves the record.
LEMMA PassKeepsRecord ==
  ASSUME ShapeInv, PassInv, AloneInPass, Passing, [Next]_vars
  PROVE  /\ ~WatchSaves => multi' = multi
         /\ user'.at \notin {"sign_in", "record"}
         /\ ~Watch => watch' \in {watch, AtRest}
<1> USE DEF app, redis, history, ShapeInv, AloneInPass, Passing, NotInAPass, Uses, PassInv
<1>1. CASE \/ \E q \in Reservations : Pay(q) \/ DeadlinePasses(q) \/ Lapse(q) \/ CancelElsewhere(q)
           \/ TakesSeat \/ SavesPartial \/ SetsIndex \/ TellsOfSeat \/ WaitIsOver \/ ClearsIndex
           \/ Finishes \/ Fails \/ Dies \/ FlagExpires \/ PartialsExpire
  BY <1>1 DEF Pay, DeadlinePasses, Lapse, CancelElsewhere, TakesSeat, SavesPartial, SetsIndex,
              TellsOfSeat, WaitIsOver,
              ClearsIndex, Finishes, Fails, Dies, FlagExpires, PartialsExpire
<1>2. CASE NotesSeat \/ RecordExpires \/ CancelClears \/ ReminderExpires \/ NotifyOff \/ GiveBackReads
             \/ GiveBackAsks \/ GiveBackRecords
  BY <1>2 DEF NotesSeat, RecordExpires, CancelClears, ReminderExpires, NotifyOff, GiveBackReads,
              GiveBackAsks, GiveBackRecords
<1>3. CASE Watch
  BY <1>3 DEF Watch, WatchLooks, WatchAsks, WatchSaves, WatchTells, WatchMarks
<1>4. CASE ReminderEnds \/ Order \/ CarryOn \/ CancelStops \/ Lifecycle \/ UNCHANGED vars
  BY <1>4 DEF ReminderEnds, Order, CarryOn, CancelStops, Lifecycle, Buries, ResumesDead, Stops,
              Restarts, Idle, vars
<1> QED
  BY <1>1, <1>2, <1>3, <1>4 DEF Next, Run, User

\* One seat after another is settled, and no seat twice.
LEMMA AsksOfSeat ==
  ASSUME ShapeInv, WatchAsks
  PROVE  LET s == First(watch.left) IN
         /\ s \in watch.left /\ s \in DOMAIN watch.record.rows /\ watch.record.kept
         /\ \/ watch' = [watch EXCEPT !.left = @ \ {s}]
            \/ \E status \in {"paid", "expired"} :
                 /\ watch'.at = "ask" /\ watch'.left = watch.left \ {s}
                 /\ watch'.settled = watch.settled \union {s}
                 /\ watch'.record = Marked(watch.record, {s}, status)
                 /\ status = "paid" => rail[watch.record.rows[s].rsv] # "held"
                 /\ status = "expired" => /\ watch.record.rows[s].rsv \in due
                                          /\ rail[watch.record.rows[s].rsv] = "held"
<1> DEFINE s == First(watch.left)
<1>1. s \in watch.left /\ s \in DOMAIN watch.record.rows
  BY FirstIs, WorldHasSeats DEF WatchAsks, ShapeInv, WatchShape, Seats
<1>2. watch.record.kept
  BY <1>1, NoRows DEF ShapeInv, WatchShape, IsRecord
<1>3. watch.at = "ask"
  BY DEF WatchAsks
<1>4. \/ watch' = [watch EXCEPT !.left = @ \ {s}]
      \/ \E status \in {"paid", "expired"} :
           /\ watch' = [watch EXCEPT !.left = @ \ {s}, !.settled = @ \union {s},
                                     !.record = Marked(@, {s}, status)]
           /\ status = "paid" => rail[watch.record.rows[s].rsv] # "held"
           /\ status = "expired" => /\ watch.record.rows[s].rsv \in due
                                    /\ rail[watch.record.rows[s].rsv] = "held"
  BY DEF WatchAsks, OffTheList
<1> HIDE DEF s
<1>5. ASSUME NEW status,
             watch' = [watch EXCEPT !.left = @ \ {s}, !.settled = @ \union {s},
                                    !.record = Marked(@, {s}, status)]
      PROVE  /\ watch'.at = "ask" /\ watch'.left = watch.left \ {s}
             /\ watch'.settled = watch.settled \union {s}
             /\ watch'.record = Marked(watch.record, {s}, status)
  BY <1>3, <1>5 DEF ShapeInv, WatchShape
<1>6. \/ watch' = [watch EXCEPT !.left = @ \ {s}]
      \/ \E status \in {"paid", "expired"} :
           /\ watch'.at = "ask" /\ watch'.left = watch.left \ {s}
           /\ watch'.settled = watch.settled \union {s}
           /\ watch'.record = Marked(watch.record, {s}, status)
           /\ status = "paid" => rail[watch.record.rows[s].rsv] # "held"
           /\ status = "expired" => /\ watch.record.rows[s].rsv \in due
                                    /\ rail[watch.record.rows[s].rsv] = "held"
  BY <1>4, <1>5
<1> QED
  BY <1>1, <1>2, <1>6 DEF s

\* Telling of a seat: on to the next, or the pass is over.
LEMMA TellsOfOne ==
  ASSUME ShapeInv, WatchTells \/ WatchMarks
  PROVE  LET s == First(watch.settled) IN
         /\ s \in watch.settled /\ s \in DOMAIN watch.record.rows
         /\ \/ watch' = AtRest
            \/ /\ watch'.at \in {"tell", "mark"} /\ watch'.record = watch.record
               /\ watch'.settled \subseteq watch.settled
         /\ \/ told' = told
            \/ told' = [told EXCEPT ![watch.record.rows[s].rsv] = @ \union {Verdict(s)}]
<1> DEFINE s == First(watch.settled)
<1>1. s \in watch.settled /\ s \in DOMAIN watch.record.rows
  BY FirstIs, WorldHasSeats DEF WatchTells, WatchMarks, ShapeInv, WatchShape, Seats
<1>2. \/ Tells(s)
      \/ told' = told /\ watch' = [watch EXCEPT !.at = "mark", !.mark = Releases(s)]
  BY DEF WatchTells, WatchMarks
<1> HIDE DEF s
<1>3. CASE Tells(s)
  <2>1. \/ watch' = AtRest
        \/ watch' = [watch EXCEPT !.at = "tell", !.settled = @ \ {s}, !.mark = NoSeat]
    BY <1>3 DEF Tells
  <2>2. ASSUME watch' = [watch EXCEPT !.at = "tell", !.settled = @ \ {s}, !.mark = NoSeat]
        PROVE  /\ watch'.at \in {"tell", "mark"} /\ watch'.record = watch.record
               /\ watch'.settled \subseteq watch.settled
    <3>1. watch' = [at |-> "tell", record |-> watch.record, left |-> watch.left,
                    settled |-> watch.settled \ {s}, mark |-> NoSeat]
      BY <2>2 DEF ShapeInv, WatchShape
    <3> QED
      BY <3>1
  <2>3. told' = [told EXCEPT ![watch.record.rows[s].rsv] = @ \union {Verdict(s)}]
    BY <1>3 DEF Tells
  <2> QED
    BY <1>1, <2>1, <2>2, <2>3 DEF s
<1>4. CASE told' = told /\ watch' = [watch EXCEPT !.at = "mark", !.mark = Releases(s)]
  <2>1. /\ watch'.at \in {"tell", "mark"} /\ watch'.record = watch.record
        /\ watch'.settled \subseteq watch.settled
    BY <1>4 DEF ShapeInv, WatchShape
  <2> QED
    BY <1>1, <1>4, <2>1 DEF s
<1> QED
  BY <1>2, <1>3, <1>4

LEMMA PassInit == Init => PassInv
  BY DEF Init, PassInv, Passing, AtRest

LEMMA PassNext ==
  ASSUME ShapeInv, OnceInv, PassInv, AloneInPass, [Next]_vars
  PROVE  PassInv'
<1>1. ASSUME NEW s \in DOMAIN watch.record.rows
      PROVE  LET r == watch.record.rows[s].rsv IN
             /\ r \in Reservations
             /\ r \in due => r \in due'
             /\ rail[r] \notin {"free", "held"} => rail'[r] \notin {"free", "held"}
  <2>1. watch.record.rows[s].rsv \in Reservations
    BY RowsAreOf DEF ShapeInv, WatchShape
  <2> QED
    BY <2>1, RailSteps DEF ShapeInv, RailStates
<1>2. watch.settled \subseteq DOMAIN watch.record.rows
  BY DEF ShapeInv, WatchShape
<1>3. CASE WatchLooks
  <2>1. /\ watch'.at = "ask" /\ watch'.record = multi /\ watch'.left = RowsAt(multi, "pending")
        /\ watch'.settled = {}
        /\ multi' = multi /\ user' = user /\ user.at = "idle"
        /\ RowsAt(multi, "pending") # {}
    BY <1>3 DEF WatchLooks, AtRest, redis, AloneInPass, Uses, ShapeInv
  <2> QED
    BY <2>1 DEF PassInv, RowsAt
<1>4. CASE Passing /\ ~Watch
  <2>1. multi' = multi /\ user'.at \notin {"sign_in", "record"} /\ watch' \in {watch, AtRest}
    BY <1>4, PassKeepsRecord DEF Watch
  <2>2. CASE watch' = watch
    BY <1>4, <2>1, <2>2, <1>1, <1>2 DEF PassInv, Verdict, Passing
  <2>3. CASE watch' = AtRest
    BY <2>3 DEF PassInv, Passing, AtRest
  <2> QED
    BY <2>1, <2>2, <2>3
<1>5. CASE WatchAsks
  <2> DEFINE s == First(watch.left)
  <2>1. Passing /\ watch.at = "ask" /\ UNCHANGED <<multi, rail, due, user>>
    BY <1>5 DEF WatchAsks, redis, Passing
  <2>2. /\ s \in watch.left /\ s \in DOMAIN watch.record.rows /\ watch.record.kept
        /\ \/ watch' = [watch EXCEPT !.left = @ \ {s}]
           \/ \E status \in {"paid", "expired"} :
                /\ watch'.at = "ask" /\ watch'.left = watch.left \ {s}
                /\ watch'.settled = watch.settled \union {s}
                /\ watch'.record = Marked(watch.record, {s}, status)
                /\ status = "paid" => rail[watch.record.rows[s].rsv] # "held"
                /\ status = "expired" => /\ watch.record.rows[s].rsv \in due
                                         /\ rail[watch.record.rows[s].rsv] = "held"
    BY <1>5, AsksOfSeat
  <2> HIDE DEF s
  <2>3. CASE watch' = [watch EXCEPT !.left = @ \ {s}]
    <3>1. /\ watch'.at = "ask" /\ watch'.left \subseteq watch.left
          /\ watch'.settled = watch.settled /\ watch'.record = watch.record
      BY <2>1, <2>3 DEF ShapeInv, WatchShape
    <3> QED
      BY <2>1, <3>1 DEF PassInv, Verdict, Passing
  <2>4. ASSUME NEW status \in {"paid", "expired"},
               watch'.at = "ask" /\ watch'.left = watch.left \ {s},
               watch'.settled = watch.settled \union {s},
               watch'.record = Marked(watch.record, {s}, status),
               status = "paid" => rail[watch.record.rows[s].rsv] # "held",
               status = "expired" => watch.record.rows[s].rsv \in due
        PROVE  PassInv'
    <3>1. /\ DOMAIN watch'.record.rows = DOMAIN watch.record.rows
          /\ \A q \in DOMAIN watch.record.rows :
               /\ watch'.record.rows[q].rsv = watch.record.rows[q].rsv
               /\ q = s => watch'.record.rows[q].status = status
               /\ q # s => watch'.record.rows[q] = watch.record.rows[q]
      <4>1. IsRecord(watch.record) /\ status \in Statuses
        BY DEF ShapeInv, WatchShape, Statuses
      <4> QED
        BY <2>2, <2>4, <4>1, MarkedRecord
    <3>2. rail[watch.record.rows[s].rsv] # "free"
      BY <2>2 DEF OnceInv, Taken
    <3>3. /\ DOMAIN multi.rows # {} /\ DOMAIN multi.rows = DOMAIN watch.record.rows
          /\ \A q \in DOMAIN multi.rows :
               /\ multi.rows[q].rsv = watch.record.rows[q].rsv
               /\ q \notin watch.settled => multi.rows[q] = watch.record.rows[q]
               /\ q \in watch.left => q \notin watch.settled
               /\ q \in watch.left \union watch.settled => multi.rows[q].status = "pending"
          /\ \A q \in watch.settled :
               /\ Verdict(q) \in {"paid", "expired"}
               /\ Verdict(q) = "paid" => rail[watch.record.rows[q].rsv] \notin {"free", "held"}
               /\ Verdict(q) = "expired" => watch.record.rows[q].rsv \in due
      BY <2>1 DEF PassInv
    <3>4. \A q \in DOMAIN multi'.rows :
               /\ multi'.rows[q].rsv = watch'.record.rows[q].rsv
               /\ q \notin watch'.settled => multi'.rows[q] = watch'.record.rows[q]
               /\ q \in watch'.left => q \notin watch'.settled
               /\ q \in watch'.left \union watch'.settled => multi'.rows[q].status = "pending"
      <4> SUFFICES ASSUME NEW q \in DOMAIN multi'.rows
                   PROVE  /\ multi'.rows[q].rsv = watch'.record.rows[q].rsv
                          /\ q \notin watch'.settled => multi'.rows[q] = watch'.record.rows[q]
                          /\ q \in watch'.left => q \notin watch'.settled
                          /\ q \in watch'.left \union watch'.settled => multi'.rows[q].status = "pending"
        OBVIOUS
      <4>1. q \in DOMAIN multi.rows /\ multi'.rows[q] = multi.rows[q]
            /\ q \in DOMAIN watch.record.rows
        BY <2>1, <3>3
      <4>2. /\ q \in watch'.settled <=> q \in watch.settled \/ q = s
            /\ q \in watch'.left <=> q \in watch.left /\ q # s
        BY <2>4
      <4> QED
        BY <2>2, <4>1, <4>2, <3>1, <3>3
    <3>5. \A q \in watch'.settled :
               /\ Verdict(q)' \in {"paid", "expired"}
               /\ Verdict(q)' = "paid" => rail'[watch'.record.rows[q].rsv] \notin {"free", "held"}
               /\ Verdict(q)' = "expired" => watch'.record.rows[q].rsv \in due'
      <4> SUFFICES ASSUME NEW q \in watch'.settled
                   PROVE  /\ Verdict(q)' \in {"paid", "expired"}
                          /\ Verdict(q)' = "paid" => rail'[watch'.record.rows[q].rsv] \notin {"free", "held"}
                          /\ Verdict(q)' = "expired" => watch'.record.rows[q].rsv \in due'
        OBVIOUS
      <4>1. q \in DOMAIN watch.record.rows /\ watch'.record.rows[q].rsv = watch.record.rows[q].rsv
        BY <1>2, <2>2, <2>4, <3>1
      <4>2. CASE q = s
        <5>1. Verdict(q)' = status
          BY <4>1, <4>2, <3>1 DEF Verdict
        <5> QED
          BY <4>1, <4>2, <5>1, <2>1, <2>4, <3>2
      <4>3. CASE q # s
        <5>1. q \in watch.settled /\ Verdict(q)' = Verdict(q)
          BY <4>1, <4>3, <2>4, <3>1 DEF Verdict
        <5> QED
          BY <4>1, <5>1, <2>1, <3>3
      <4> QED
        BY <4>2, <4>3
    <3>6. DOMAIN multi'.rows # {} /\ DOMAIN multi'.rows = DOMAIN watch'.record.rows
          /\ user'.at \notin {"sign_in", "record"}
      BY <2>1, <3>1, <3>3 DEF PassInv
    <3> QED
      BY <3>4, <3>5, <3>6 DEF PassInv
  <2> QED
    BY <2>2, <2>3, <2>4
<1>6. CASE WatchSaves
  <2>1. Passing /\ watch.at = "ask" /\ UNCHANGED <<rail, due, user>>
    BY <1>6 DEF WatchSaves, app, Passing
  <2>2. CASE watch.settled = {}
    BY <1>6, <2>2 DEF WatchSaves, AtRest, PassInv, Passing
  <2>3. CASE watch.settled # {}
    <3>1. multi' = watch.record /\ watch' = [watch EXCEPT !.at = "tell"]
      BY <1>6, <2>3 DEF WatchSaves
    <3>2. watch'.at = "tell" /\ watch'.record = watch.record /\ watch'.settled = watch.settled
      BY <3>1 DEF ShapeInv, WatchShape
    <3> QED
      BY <2>1, <3>1, <3>2 DEF PassInv, Verdict
  <2> QED
    BY <2>2, <2>3
<1>7. CASE WatchTells \/ WatchMarks
  <2>1. Passing /\ UNCHANGED <<multi, rail, due, user>>
    BY <1>7 DEF WatchTells, WatchMarks, Passing, redis
  <2>2. \/ watch' = AtRest
        \/ /\ watch'.at \in {"tell", "mark"} /\ watch'.record = watch.record
           /\ watch'.settled \subseteq watch.settled
    BY <1>7, TellsOfOne
  <2> QED
    BY <2>1, <2>2, <1>2 DEF PassInv, Verdict, AtRest, Passing
<1>8. CASE ~Passing /\ ~Watch
  <2>1. watch'.at = "rest"
    <3> USE DEF app, redis, history, Passing, AtRest, Watch
    <3>1. CASE \/ \E q \in Reservations : Pay(q) \/ DeadlinePasses(q) \/ Lapse(q) \/ CancelElsewhere(q)
               \/ TakesSeat \/ SavesPartial \/ SetsIndex \/ TellsOfSeat \/ WaitIsOver \/ ClearsIndex
               \/ Finishes \/ Fails \/ Dies \/ FlagExpires \/ PartialsExpire
      BY <1>8, <3>1 DEF Pay, DeadlinePasses, Lapse, CancelElsewhere, TakesSeat, SavesPartial,
                        SetsIndex, TellsOfSeat,
                  WaitIsOver, ClearsIndex, Finishes, Fails, Dies, FlagExpires, PartialsExpire
    <3>2. CASE NotesSeat \/ RecordExpires \/ CancelClears \/ ReminderExpires \/ NotifyOff
                 \/ GiveBackReads \/ GiveBackAsks \/ GiveBackRecords
      BY <1>8, <3>2 DEF NotesSeat, RecordExpires, CancelClears, ReminderExpires, NotifyOff,
                  GiveBackReads, GiveBackAsks, GiveBackRecords
    <3>3. CASE ReminderEnds \/ Order \/ CarryOn \/ CancelStops \/ Lifecycle \/ UNCHANGED vars
      BY <1>8, <3>3 DEF ReminderEnds, Order, CarryOn, CancelStops, Lifecycle, Buries, ResumesDead,
                  Stops, Restarts, vars
    <3> QED
      BY <1>8, <3>1, <3>2, <3>3 DEF Next, Run, User
  <2> QED
    BY <2>1 DEF PassInv, Passing
<1> QED
  BY <1>3, <1>4, <1>5, <1>6, <1>7, <1>8 DEF Watch

-----------------------------------------------------------------------------
(* What is paid and what is expired *)

\* Payments and seats off the list are asked about in time, in passes of the watchdog's own, and
\* nobody ends between the railway's answer and writing it down.  Seats cancelled on the
\* railway's own site are admitted.
Prompt ==
  \A w \in Worlds :
    {"during_pass", "late_payment", "prompt_drop", "cut_short"} \intersect w.uses = {}

\* What the watchdog takes for paid: a seat that was, or one the user cancelled on the railway's
\* own site, in a chat that does such a thing.
PaidOrWithdrawn(r) ==
  rail[r] = "paid" \/ (rail[r] = "withdrawn" /\ Uses("cancelled_elsewhere"))

\* No chat of the instance does.
NoneWithdrawn == \A w \in Worlds : "cancelled_elsewhere" \notin w.uses

\* A pending seat is still there to be paid for, or about to be marked as given back; once its
\* time is over it is not paid any more.
TrueRow(row) ==
  /\ row.status = "pending" =>
       /\ \/ rail[row.rsv] = "held" \/ PaidOrWithdrawn(row.rsv)
          \/ user.at = "record" /\ row.rsv \in user.picked
       /\ row.rsv \in due => rail[row.rsv] # "paid"
  /\ row.status = "paid" => PaidOrWithdrawn(row.rsv)
  /\ row.status = "expired" => row.rsv \in due /\ rail[row.rsv] # "paid"

VerdictsInv ==
  /\ \A s \in DOMAIN multi.rows : TrueRow(multi.rows[s])
  /\ Passing => \A s \in watch.settled :
       /\ Verdict(s) = "paid" => PaidOrWithdrawn(watch.record.rows[s].rsv)
       /\ Verdict(s) = "expired" => rail[watch.record.rows[s].rsv] # "paid"
  /\ \A r \in Reservations : /\ "paid" \in told[r] => PaidOrWithdrawn(r)
                             /\ "expired" \in told[r] => r \in due /\ rail[r] # "paid"

\* The railway's steps keep away from a seat that is pending, and what is being given back is
\* recorded.
LEMMA PromptSteps ==
  ASSUME ShapeInv, Prompt, [Next]_vars
  PROVE  /\ \A r \in Reservations :
              /\ rail[r] = "paid" /\ r \in due' /\ r \notin due => ~Unsettled(r)
              /\ rail[r] = "held" /\ rail'[r] = "lapsed" => ~Unsettled(r)
              /\ rail[r] = "held" /\ rail'[r] = "withdrawn" =>
                   ~Unsettled(r) \/ Uses("cancelled_elsewhere")
              /\ rail[r] = "held" /\ rail'[r] = "returned" => user'.at = "record" /\ r \in user'.picked
         /\ user.at = "record" /\ ~GiveBackRecords => user' = user
<1> USE DEF ShapeInv, RailStates, app, redis, history, Prompt, Uses
<1>1. CASE \E q \in Reservations : Pay(q) \/ DeadlinePasses(q) \/ Lapse(q) \/ CancelElsewhere(q)
  BY <1>1 DEF Pay, DeadlinePasses, Lapse, CancelElsewhere
<1>2. CASE TakesSeat
  BY <1>2 DEF TakesSeat
<1>3. CASE GiveBackAsks
  BY <1>3 DEF GiveBackAsks
<1>4. CASE SavesPartial \/ NotesSeat \/ SetsIndex \/ TellsOfSeat \/ WaitIsOver \/ ClearsIndex
             \/ Finishes \/ Fails \/ Dies \/ FlagExpires \/ RecordExpires \/ PartialsExpire
  BY <1>4 DEF SavesPartial, NotesSeat, SetsIndex, TellsOfSeat, WaitIsOver, ClearsIndex, Finishes,
              Fails, Dies, FlagExpires, RecordExpires, PartialsExpire
<1>5. CASE Watch \/ ReminderEnds \/ ReminderExpires
  BY <1>5 DEF Watch, WatchLooks, WatchAsks, WatchSaves, WatchTells, WatchMarks, ReminderEnds,
              ReminderExpires
<1>6. CASE Order \/ CarryOn \/ NotifyOff \/ CancelStops \/ CancelClears \/ GiveBackReads
             \/ GiveBackRecords \/ Lifecycle \/ UNCHANGED vars
  BY <1>6 DEF Order, CarryOn, NotifyOff, CancelStops, CancelClears, GiveBackReads, GiveBackRecords,
              Lifecycle, Buries, ResumesDead, Stops, Restarts, Serves, vars
<1> QED
  BY <1>1, <1>2, <1>3, <1>4, <1>5, <1>6 DEF Next, Run, User

\* A row that stays as it is stays true.
LEMMA TrueRowStays ==
  ASSUME ShapeInv, Prompt, [Next]_vars, ~GiveBackRecords,
         NEW row \in Rows, \E s \in DOMAIN multi.rows : multi.rows[s] = row, TrueRow(row)
  PROVE  TrueRow(row)'
<1> DEFINE r == row.rsv
<1>1. r \in Reservations
  BY DEF Rows
<1>2. row.status = "pending" => Unsettled(r)
  BY DEF Unsettled, RowsAt
<1> HIDE DEF r
<1>3. /\ r \in due => r \in due'
      /\ PaidOrWithdrawn(r) => PaidOrWithdrawn(r)'
      /\ rail'[r] = "paid" => rail[r] = "paid" \/ (rail[r] = "held" /\ r \notin due')
      /\ rail[r] = "held" => rail'[r] \in RailStates \ {"free"}
  BY <1>1, RailSteps, WorldStays DEF RailStates, PaidOrWithdrawn, Uses
<1>4. /\ rail[r] = "paid" /\ r \in due' /\ r \notin due => ~Unsettled(r)
      /\ rail[r] = "held" /\ rail'[r] = "lapsed" => ~Unsettled(r)
      /\ rail[r] = "held" /\ rail'[r] = "withdrawn" =>
           ~Unsettled(r) \/ Uses("cancelled_elsewhere")
      /\ rail[r] = "held" /\ rail'[r] = "returned" => user'.at = "record" /\ r \in user'.picked
      /\ user.at = "record" => user' = user
  BY <1>1, PromptSteps
<1>5. row.status = "pending" =>
        /\ rail'[r] = "held" \/ PaidOrWithdrawn(r)' \/ (user'.at = "record" /\ r \in user'.picked)
        /\ r \in due' => rail'[r] # "paid"
  <2>1. Uses("cancelled_elsewhere")' <=> Uses("cancelled_elsewhere")
    BY WorldStays DEF Uses
  <2> QED
    BY <1>2, <1>3, <1>4, <2>1 DEF TrueRow, r, RailStates, PaidOrWithdrawn
<1>6. /\ row.status = "paid" => PaidOrWithdrawn(r)'
      /\ row.status = "expired" => r \in due' /\ rail'[r] # "paid"
  BY <1>3 DEF TrueRow, r
<1> QED
  BY <1>5, <1>6 DEF TrueRow, r

\* The four that change rows of the record.
Rewrites == NotesSeat \/ WatchSaves \/ ReminderExpires \/ GiveBackRecords

LEMMA OtherSaves ==
  ASSUME ShapeInv, [Next]_vars, ~Rewrites
  PROVE  multi'.rows = multi.rows \/ ((RecordExpires \/ CancelClears) /\ multi' = NoRecord)
<1> USE DEF app, redis, history, ShapeInv, Rewrites
<1>1. CASE \/ \E q \in Reservations : Pay(q) \/ DeadlinePasses(q) \/ Lapse(q) \/ CancelElsewhere(q)
           \/ TakesSeat \/ SavesPartial \/ SetsIndex \/ TellsOfSeat \/ WaitIsOver \/ ClearsIndex
           \/ Finishes \/ Fails \/ Dies \/ FlagExpires \/ PartialsExpire
  BY <1>1 DEF Pay, DeadlinePasses, Lapse, CancelElsewhere, TakesSeat, SavesPartial, SetsIndex,
              TellsOfSeat, WaitIsOver,
              ClearsIndex, Finishes, Fails, Dies, FlagExpires, PartialsExpire
<1>2. CASE RecordExpires \/ CancelClears
  BY <1>2 DEF RecordExpires, CancelClears
<1>3. CASE NotifyOff
  BY <1>3 DEF NotifyOff, IsRecord
<1>4. CASE Watch \/ GiveBackReads \/ GiveBackAsks
  BY <1>4 DEF Watch, WatchLooks, WatchAsks, WatchTells, WatchMarks, GiveBackReads, GiveBackAsks
<1>5. CASE ReminderEnds \/ Order \/ CarryOn \/ CancelStops \/ Lifecycle \/ UNCHANGED vars
  BY <1>5 DEF ReminderEnds, Order, CarryOn, CancelStops, Lifecycle, Buries, ResumesDead, Stops,
              Restarts, vars
<1> QED
  BY <1>1, <1>2, <1>3, <1>4, <1>5 DEF Next, Run, User

\* A seat noted: its row, and the rows of the record it is added to.
LEMMA NotedRows ==
  ASSUME ShapeInv, NotesSeat
  PROVE  /\ run.seat \in DOMAIN multi'.rows /\ multi'.kept
         /\ multi'.rows[run.seat] = [rsv |-> run.rsv, status |-> "pending"]
         /\ \A s \in DOMAIN multi'.rows :
              \/ s = run.seat
              \/ run.seat # 1 /\ s \in DOMAIN multi.rows /\ multi'.rows[s] = multi.rows[s]
         /\ run.seat # 1 => \A s \in DOMAIN multi.rows : s # run.seat =>
              s \in DOMAIN multi'.rows /\ multi'.rows[s] = multi.rows[s]
<1>1. /\ multi' = WithRow(RecordFor, run.seat, run.rsv)
      /\ run.seat \in Seats /\ run.rsv \in Reservations
  BY DEF NotesSeat, ShapeInv, Working
<1>2. /\ IsRecord(RecordFor) /\ RecordFor.kept
      /\ run.seat = 1 => RecordFor = Fresh
      /\ run.seat # 1 => RecordFor.rows = multi.rows
  <2>1. ~multi.kept => multi.rows = Fresh.rows
    BY NoRows DEF ShapeInv, IsRecord
  <2> QED
    BY <2>1, EmptyRecords DEF RecordFor, Fresh, ShapeInv
<1>3. /\ DOMAIN multi'.rows = DOMAIN RecordFor.rows \union {run.seat} /\ multi'.kept
      /\ multi'.rows[run.seat] = [rsv |-> run.rsv, status |-> "pending"]
      /\ \A s \in DOMAIN RecordFor.rows : s # run.seat => multi'.rows[s] = RecordFor.rows[s]
  BY <1>1, <1>2, RowTakenDown
<1> QED
  BY <1>2, <1>3, NoRows

\* The reminder's rows: what is pending and over has expired.
LEMMA ExpiredRows ==
  ASSUME ShapeInv, ReminderExpires
  PROVE  /\ DOMAIN multi'.rows = DOMAIN multi.rows /\ multi.kept /\ multi'.kept
         /\ \A s \in DOMAIN multi.rows :
              /\ multi'.rows[s].rsv = multi.rows[s].rsv
              /\ \/ multi'.rows[s] = multi.rows[s]
                 \/ multi.rows[s].rsv \in due /\ multi'.rows[s].status = "expired"
                    /\ multi.rows[s].status = "pending"
<1> DEFINE over == RowsAt(multi, "pending") \ Pending(multi)
<1>1. multi.kept
  BY NoRows DEF ReminderExpires, ShapeInv, IsRecord, Pending, RowsAt
<1>2. \A s \in over : s \in DOMAIN multi.rows /\ multi.rows[s].rsv \in due
                      /\ multi.rows[s].status = "pending"
  BY DEF Pending, RowsAt
<1>3. multi' = Marked(multi, over, "expired")
  BY DEF ReminderExpires
<1> HIDE DEF over
<1>4. /\ multi'.kept /\ DOMAIN multi'.rows = DOMAIN multi.rows
      /\ \A s \in DOMAIN multi.rows :
           /\ multi'.rows[s].rsv = multi.rows[s].rsv
           /\ s \in over => multi'.rows[s].status = "expired"
           /\ s \notin over => multi'.rows[s] = multi.rows[s]
  BY <1>1, <1>3, MarkedRecord DEF ShapeInv, Statuses
<1> QED
  BY <1>1, <1>2, <1>4

\* The rows of what is given back.
LEMMA CancelledRows ==
  ASSUME ShapeInv, GiveBackRecords
  PROVE  /\ DOMAIN multi'.rows = DOMAIN multi.rows /\ (multi.kept => multi'.kept)
         /\ \A s \in DOMAIN multi.rows :
              /\ multi'.rows[s].rsv = multi.rows[s].rsv
              /\ multi.rows[s].rsv \in user.picked => multi'.rows[s].status = "cancelled"
              /\ multi.rows[s].rsv \notin user.picked => multi'.rows[s] = multi.rows[s]
<1> DEFINE back == {s \in DOMAIN multi.rows : multi.rows[s].rsv \in user.picked}
           gone == Marked(multi, back, "cancelled")
<1>1. CASE multi.kept
  <2>1. /\ IsRecord(gone) /\ gone.kept /\ DOMAIN gone.rows = DOMAIN multi.rows
        /\ \A s \in DOMAIN multi.rows :
             /\ gone.rows[s].rsv = multi.rows[s].rsv
             /\ s \in back => gone.rows[s].status = "cancelled"
             /\ s \notin back => gone.rows[s] = multi.rows[s]
    BY <1>1, MarkedRecord DEF ShapeInv, Statuses
  <2>2. multi' = [gone EXCEPT !.stopped = TRUE]
    BY <1>1 DEF GiveBackRecords
  <2> HIDE DEF gone
  <2>3. multi'.rows = gone.rows /\ multi'.kept = gone.kept
    BY <2>1, <2>2 DEF IsRecord
  <2> QED
    BY <2>1, <2>3
<1>2. CASE ~multi.kept
  BY <1>2, NoRows DEF GiveBackRecords, ShapeInv, IsRecord
<1> QED
  BY <1>1, <1>2

\* The verdicts are the watchdog's, and so is its pass, but for a stop of the application.
LEMMA ToldOnly == ASSUME [Next]_vars, ~(WatchTells \/ WatchMarks) PROVE told' = told
<1> USE DEF app, redis, history
<1>1. CASE \/ \E q \in Reservations : Pay(q) \/ DeadlinePasses(q) \/ Lapse(q) \/ CancelElsewhere(q)
           \/ TakesSeat \/ SavesPartial \/ SetsIndex \/ TellsOfSeat \/ WaitIsOver \/ ClearsIndex
           \/ Finishes \/ Fails \/ Dies \/ FlagExpires \/ PartialsExpire
  BY <1>1 DEF Pay, DeadlinePasses, Lapse, CancelElsewhere, TakesSeat, SavesPartial, SetsIndex,
              TellsOfSeat, WaitIsOver,
              ClearsIndex, Finishes, Fails, Dies, FlagExpires, PartialsExpire
<1>2. CASE NotesSeat \/ RecordExpires \/ CancelClears \/ ReminderExpires \/ NotifyOff \/ GiveBackReads
             \/ GiveBackAsks \/ GiveBackRecords
  BY <1>2 DEF NotesSeat, RecordExpires, CancelClears, ReminderExpires, NotifyOff, GiveBackReads,
              GiveBackAsks, GiveBackRecords
<1>3. CASE WatchLooks \/ WatchAsks \/ WatchSaves
  BY <1>3 DEF WatchLooks, WatchAsks, WatchSaves
<1>4. CASE ReminderEnds \/ Order \/ CarryOn \/ CancelStops \/ Lifecycle \/ UNCHANGED vars
  BY <1>4 DEF ReminderEnds, Order, CarryOn, CancelStops, Lifecycle, Buries, ResumesDead, Stops,
              Restarts, vars
<1> QED
  BY <1>1, <1>2, <1>3, <1>4 DEF Next, Run, User, Watch

LEMMA WatchOnly == ASSUME [Next]_vars, ~Watch PROVE watch' \in {watch, AtRest}
<1> USE DEF app, redis, history
<1>1. CASE \/ \E q \in Reservations : Pay(q) \/ DeadlinePasses(q) \/ Lapse(q) \/ CancelElsewhere(q)
           \/ TakesSeat \/ SavesPartial \/ SetsIndex \/ TellsOfSeat \/ WaitIsOver \/ ClearsIndex
           \/ Finishes \/ Fails \/ Dies \/ FlagExpires \/ PartialsExpire
  BY <1>1 DEF Pay, DeadlinePasses, Lapse, CancelElsewhere, TakesSeat, SavesPartial, SetsIndex,
              TellsOfSeat, WaitIsOver,
              ClearsIndex, Finishes, Fails, Dies, FlagExpires, PartialsExpire
<1>2. CASE NotesSeat \/ RecordExpires \/ CancelClears \/ ReminderExpires \/ NotifyOff \/ GiveBackReads
             \/ GiveBackAsks \/ GiveBackRecords
  BY <1>2 DEF NotesSeat, RecordExpires, CancelClears, ReminderExpires, NotifyOff, GiveBackReads,
              GiveBackAsks, GiveBackRecords
<1>3. CASE ReminderEnds \/ Order \/ CarryOn \/ CancelStops \/ Lifecycle \/ UNCHANGED vars
  BY <1>3 DEF ReminderEnds, Order, CarryOn, CancelStops, Lifecycle, Buries, ResumesDead, Stops,
              Restarts, vars
<1> QED
  BY <1>1, <1>2, <1>3 DEF Next, Run, User

LEMMA VerdictsInit == Init => VerdictsInv
  BY NoRows DEF Init, VerdictsInv, Passing, AtRest

LEMMA VerdictsNext ==
  ASSUME ShapeInv, OnceInv, PassInv, VerdictsInv, Prompt, [Next]_vars
  PROVE  VerdictsInv'
<1> DEFINE Settled(r) ==
             rail'[r] = "paid" \/ (rail'[r] = "withdrawn" /\ Uses("cancelled_elsewhere"))
           StillTrue(row) ==
             /\ row.status = "pending" =>
                  /\ \/ rail'[row.rsv] = "held" \/ Settled(row.rsv)
                     \/ user'.at = "record" /\ row.rsv \in user'.picked
                  /\ row.rsv \in due' => rail'[row.rsv] # "paid"
             /\ row.status = "paid" => Settled(row.rsv)
             /\ row.status = "expired" => row.rsv \in due' /\ rail'[row.rsv] # "paid"
<1>1. \A r \in Reservations :
        /\ r \in due => r \in due'
        /\ PaidOrWithdrawn(r) => Settled(r)
        /\ UNCHANGED rail => (PaidOrWithdrawn(r) <=> Settled(r))
        /\ rail'[r] = "paid" => rail[r] = "paid" \/ (rail[r] = "held" /\ r \notin due')
  BY RailSteps DEF PaidOrWithdrawn
<1>w. Uses("cancelled_elsewhere")' <=> Uses("cancelled_elsewhere")
  BY WorldStays DEF Uses
<1>2. /\ \A s \in DOMAIN multi.rows : multi.rows[s] \in Rows
      /\ \A s \in DOMAIN watch.record.rows : watch.record.rows[s].rsv \in Reservations
      /\ watch.settled \subseteq DOMAIN watch.record.rows
      /\ told \in [Reservations -> SUBSET Statuses]
  BY RowsAreOf DEF ShapeInv, WatchShape, IsRecord
<1>3. ASSUME NEW s \in DOMAIN multi.rows, ~GiveBackRecords
      PROVE  StillTrue(multi.rows[s])
  <2>1. \A row \in Rows : (\E q \in DOMAIN multi.rows : multi.rows[q] = row) => StillTrue(row)
    <3> SUFFICES ASSUME NEW row \in Rows, \E q \in DOMAIN multi.rows : multi.rows[q] = row
                 PROVE  StillTrue(row)
      OBVIOUS
    <3>1. TrueRow(row)'
      BY <1>3, TrueRowStays DEF VerdictsInv
    <3> QED
      BY <3>1, <1>w DEF TrueRow, PaidOrWithdrawn
  <2> QED
    BY <2>1, <1>2
<1>s. \A r \in Reservations : PaidOrWithdrawn(r)' <=> Settled(r)
  BY <1>w DEF PaidOrWithdrawn
<1> HIDE DEF StillTrue, Settled
<1>4. ASSUME NEW s \in DOMAIN multi'.rows PROVE StillTrue(multi'.rows[s])
  <2>1. CASE ~Rewrites
    <3>1. multi'.rows = multi.rows
      BY <2>1, <1>4, OtherSaves, NoRows
    <3> QED
      BY <2>1, <3>1, <1>3, <1>4 DEF Rewrites
  <2>2. CASE NotesSeat
    <3>1. \/ multi'.rows[s] = [rsv |-> run.rsv, status |-> "pending"]
          \/ s \in DOMAIN multi.rows /\ multi'.rows[s] = multi.rows[s]
      BY <2>2, <1>4, NotedRows
    <3>2. UNCHANGED <<rail, due, user>> /\ run.at = "note"
      BY <2>2 DEF NotesSeat, app
    <3>3. StillTrue([rsv |-> run.rsv, status |-> "pending"])
      BY <3>2 DEF OnceInv, Unnoted, StillTrue, Settled
    <3>4. ~GiveBackRecords
      BY <2>2 DEF NotesSeat, GiveBackRecords, ShapeInv
    <3> QED
      BY <3>1, <3>3, <3>4, <1>3
  <2>3. CASE WatchSaves
    <3>1. watch.at = "ask" /\ Passing /\ UNCHANGED <<rail, due, user>> /\ ~GiveBackRecords
          /\ multi' \in {multi, watch.record}
      BY <2>3 DEF WatchSaves, app, Passing, GiveBackRecords, PassInv
    <3>2. s \in DOMAIN multi.rows /\ s \in DOMAIN watch.record.rows
      BY <3>1, <1>4 DEF PassInv
    <3>3. CASE multi' = multi \/ s \notin watch.settled
      <4>1. multi'.rows[s] = multi.rows[s]
        BY <3>1, <3>2, <3>3 DEF PassInv
      <4> QED
        BY <4>1, <3>1, <3>2, <1>3
    <3>4. CASE multi' = watch.record /\ s \in watch.settled
      <4>1. /\ Verdict(s) \in {"paid", "expired"}
            /\ Verdict(s) = "paid" => PaidOrWithdrawn(watch.record.rows[s].rsv)
            /\ Verdict(s) = "expired" => /\ watch.record.rows[s].rsv \in due
                                         /\ rail[watch.record.rows[s].rsv] # "paid"
        BY <3>1, <3>4 DEF PassInv, VerdictsInv
      <4> QED
        BY <4>1, <3>1, <3>2, <3>4, <1>1, <1>2 DEF StillTrue, Verdict
    <3> QED
      BY <3>1, <3>3, <3>4
  <2>4. CASE ReminderExpires
    <3>1. UNCHANGED <<rail, due, user>> /\ ~GiveBackRecords
      BY <2>4, TrueRowStays DEF ReminderExpires, app, GiveBackRecords, Idle
    <3>2. s \in DOMAIN multi.rows /\ multi'.rows[s].rsv = multi.rows[s].rsv
      BY <2>4, <1>4, ExpiredRows
    <3>3. \/ multi'.rows[s] = multi.rows[s]
          \/ /\ multi.rows[s].rsv \in due /\ multi'.rows[s].status = "expired"
             /\ multi.rows[s].status = "pending"
      BY <2>4, <3>2, ExpiredRows
    <3>4. StillTrue(multi.rows[s])
      BY <3>1, <3>2, <1>3
    <3>5. multi.rows[s].status = "pending" /\ multi.rows[s].rsv \in due
            => rail'[multi.rows[s].rsv] # "paid"
      BY <3>1, <3>4 DEF StillTrue
    <3> QED
      BY <3>1, <3>2, <3>3, <3>4, <3>5 DEF StillTrue
  <2>5. CASE GiveBackRecords
    <3>1. UNCHANGED <<rail, due>> /\ user.at = "record" /\ user'.at = "idle"
      BY <2>5 DEF GiveBackRecords, Idle
    <3>2. /\ s \in DOMAIN multi.rows /\ multi'.rows[s].rsv = multi.rows[s].rsv
          /\ multi.rows[s].rsv \in user.picked => multi'.rows[s].status = "cancelled"
          /\ multi.rows[s].rsv \notin user.picked => multi'.rows[s] = multi.rows[s]
      BY <2>5, <1>4, CancelledRows
    <3>3. multi.rows[s].rsv \in Reservations /\ TrueRow(multi.rows[s])
      BY <3>2, <1>2 DEF VerdictsInv, Rows
    <3>4. CASE multi.rows[s].rsv \in user.picked
      BY <3>2, <3>4 DEF StillTrue
    <3>5. CASE multi.rows[s].rsv \notin user.picked
      BY <3>1, <3>2, <3>3, <3>5, <1>1 DEF StillTrue, TrueRow
    <3> QED
      BY <3>4, <3>5
  <2> QED
    BY <2>1, <2>2, <2>3, <2>4, <2>5 DEF Rewrites
<1>5. (\A s \in DOMAIN multi.rows : TrueRow(multi.rows[s]))'
  BY <1>4, <1>w DEF StillTrue, TrueRow, PaidOrWithdrawn, Settled
<1>6. (Passing => \A s \in watch.settled :
         /\ Verdict(s) = "paid" => PaidOrWithdrawn(watch.record.rows[s].rsv)
         /\ Verdict(s) = "expired" => rail[watch.record.rows[s].rsv] # "paid")'
  <2> SUFFICES ASSUME Passing'
               PROVE  \A s \in watch'.settled :
                        /\ Verdict(s)' = "paid" => Settled(watch'.record.rows[s].rsv)
                        /\ Verdict(s)' = "expired" => rail'[watch'.record.rows[s].rsv] # "paid"
    BY <1>w DEF PaidOrWithdrawn, Settled
  <2>1. ASSUME Passing, watch'.record = watch.record, watch'.settled \subseteq watch.settled
        PROVE  \A s \in watch'.settled :
                 /\ Verdict(s)' = "paid" => Settled(watch'.record.rows[s].rsv)
                 /\ Verdict(s)' = "expired" => rail'[watch'.record.rows[s].rsv] # "paid"
    BY <2>1, <1>1, <1>2 DEF VerdictsInv, PassInv, Verdict
  <2>2. CASE WatchLooks
    <3>1. watch'.settled = {}
      BY <2>2 DEF WatchLooks, AtRest
    <3> QED
      BY <3>1
  <2>3. CASE WatchAsks
    <3> DEFINE s == First(watch.left)
    <3>1. Passing /\ watch.at = "ask" /\ UNCHANGED <<multi, rail, due, user>>
      BY <2>3 DEF WatchAsks, redis, Passing
    <3>2. /\ s \in watch.left /\ s \in DOMAIN watch.record.rows /\ watch.record.kept
          /\ \/ watch' = [watch EXCEPT !.left = @ \ {s}]
             \/ \E status \in {"paid", "expired"} :
                  /\ watch'.at = "ask" /\ watch'.left = watch.left \ {s}
                  /\ watch'.settled = watch.settled \union {s}
                  /\ watch'.record = Marked(watch.record, {s}, status)
                  /\ status = "paid" => rail[watch.record.rows[s].rsv] # "held"
                  /\ status = "expired" => /\ watch.record.rows[s].rsv \in due
                                           /\ rail[watch.record.rows[s].rsv] = "held"
      BY <2>3, AsksOfSeat
    <3> HIDE DEF s
    <3>3. CASE watch' = [watch EXCEPT !.left = @ \ {s}]
      <4>1. watch'.record = watch.record /\ watch'.settled \subseteq watch.settled
        BY <3>3 DEF ShapeInv, WatchShape
      <4> QED
        BY <3>1, <4>1, <2>1
    <3>4. ASSUME NEW status \in {"paid", "expired"},
                 watch'.settled = watch.settled \union {s},
                 watch'.record = Marked(watch.record, {s}, status),
                 status = "paid" => rail[watch.record.rows[s].rsv] # "held",
                 status = "expired" => rail[watch.record.rows[s].rsv] = "held",
                 NEW q \in watch'.settled
          PROVE  /\ Verdict(q)' = "paid" => Settled(watch'.record.rows[q].rsv)
                 /\ Verdict(q)' = "expired" => rail'[watch'.record.rows[q].rsv] # "paid"
      <4>1. /\ \A p \in DOMAIN watch.record.rows :
                 /\ watch'.record.rows[p].rsv = watch.record.rows[p].rsv
                 /\ p = s => watch'.record.rows[p].status = status
                 /\ p # s => watch'.record.rows[p] = watch.record.rows[p]
        <5>1. IsRecord(watch.record) /\ status \in Statuses
          BY DEF ShapeInv, WatchShape, Statuses
        <5> QED
          BY <3>2, <3>4, <5>1, MarkedRecord
      <4>2. q \in DOMAIN watch.record.rows /\ watch'.record.rows[q].rsv = watch.record.rows[q].rsv
        BY <1>2, <3>2, <3>4, <4>1
      <4>3. CASE q = s
        <5>1. Verdict(q)' = status
          BY <4>1, <4>2, <4>3 DEF Verdict
        <5>2. \/ rail[watch.record.rows[s].rsv] = "held"
              \/ PaidOrWithdrawn(watch.record.rows[s].rsv)
          <6>1. s \in DOMAIN multi.rows /\ multi.rows[s] = watch.record.rows[s]
                /\ multi.rows[s].status = "pending" /\ user.at # "record"
            BY <3>1, <3>2 DEF PassInv
          <6> QED
            BY <6>1 DEF VerdictsInv, TrueRow
        <5>3. watch.record.rows[s].rsv \in Reservations
          BY <1>2, <3>2
        <5> QED
          BY <4>2, <4>3, <5>1, <5>2, <5>3, <3>1, <3>4, <1>1 DEF PaidOrWithdrawn
      <4>4. CASE q # s
        <5>1. q \in watch.settled /\ Verdict(q)' = Verdict(q)
          BY <4>1, <4>2, <4>4, <3>4 DEF Verdict
        <5> QED
          BY <4>2, <5>1, <3>1, <1>1, <1>2 DEF VerdictsInv
      <4> QED
        BY <4>3, <4>4
    <3> QED
      BY <3>2, <3>3, <3>4
  <2>4. CASE WatchSaves
    <3>1. Passing /\ (watch' = AtRest \/ watch' = [watch EXCEPT !.at = "tell"])
      BY <2>4 DEF WatchSaves, Passing
    <3>2. CASE watch' = [watch EXCEPT !.at = "tell"]
      <4>1. watch'.record = watch.record /\ watch'.settled \subseteq watch.settled
        BY <3>2 DEF ShapeInv, WatchShape
      <4> QED
        BY <3>1, <4>1, <2>1
    <3>3. CASE watch' = AtRest
      BY <3>3 DEF AtRest, Passing
    <3> QED
      BY <3>1, <3>2, <3>3
  <2>5. CASE WatchTells \/ WatchMarks
    <3>1. Passing
      BY <2>5 DEF WatchTells, WatchMarks, Passing
    <3>2. watch' = AtRest \/ (watch'.record = watch.record /\ watch'.settled \subseteq watch.settled)
      BY <2>5, TellsOfOne
    <3> QED
      BY <3>1, <3>2, <2>1 DEF AtRest, Passing
  <2>6. CASE ~Watch
    <3>1. watch' \in {watch, AtRest}
      BY <2>6, WatchOnly
    <3>2. CASE Passing /\ watch' = watch
      BY <2>1, <3>2
    <3> QED
      BY <3>1, <3>2 DEF AtRest, Passing
  <2> QED
    BY <2>2, <2>3, <2>4, <2>5, <2>6 DEF Watch
<1>7. (\A r \in Reservations : /\ "paid" \in told[r] => PaidOrWithdrawn(r)
                               /\ "expired" \in told[r] => r \in due /\ rail[r] # "paid")'
  <2> SUFFICES ASSUME NEW r \in Reservations
               PROVE  /\ "paid" \in told'[r] => Settled(r)
                      /\ "expired" \in told'[r] => r \in due' /\ rail'[r] # "paid"
    BY <1>s
  <2>1. CASE told'[r] = told[r]
    BY <2>1, <1>1 DEF VerdictsInv
  <2>2. CASE WatchTells \/ WatchMarks
    <3> DEFINE s == First(watch.settled)
    <3>1. /\ s \in watch.settled
          /\ \/ told' = told
             \/ told' = [told EXCEPT ![watch.record.rows[s].rsv] = @ \union {Verdict(s)}]
      BY <2>2, TellsOfOne
    <3>2. Passing /\ UNCHANGED <<rail, due>>
      BY <2>2 DEF WatchTells, WatchMarks, Passing
    <3> HIDE DEF s
    <3>3. /\ Verdict(s) \in {"paid", "expired"}
          /\ Verdict(s) = "paid" => PaidOrWithdrawn(watch.record.rows[s].rsv)
          /\ Verdict(s) = "expired" => /\ watch.record.rows[s].rsv \in due
                                       /\ rail[watch.record.rows[s].rsv] # "paid"
      BY <3>1, <3>2 DEF PassInv, VerdictsInv
    <3>4. CASE told'[r] # told[r]
      <4>1. r = watch.record.rows[s].rsv /\ told'[r] = told[r] \union {Verdict(s)}
        BY <3>1, <3>4, <1>2
      <4> QED
        BY <4>1, <3>2, <3>3, <1>1 DEF VerdictsInv
    <3> QED
      BY <2>1, <3>4
  <2>3. CASE ~(WatchTells \/ WatchMarks)
    <3>1. told' = told
      BY <2>3, ToldOnly
    <3> QED
      BY <2>1, <3>1
  <2> QED
    BY <2>2, <2>3
<1> QED
  BY <1>5, <1>6, <1>7 DEF VerdictsInv

-----------------------------------------------------------------------------
(* What a step does to the run, and to what is written down for its seats *)

Noting  == {"search", "save", "note"}
Holding == {"index", "tell", "wait"}

\* The run goes on with its seat, or to the next one; it ends; or it starts from the first.
Starts == Order \/ ResumesDead \/ (Restarts /\ search = "running" /\ Resumes)

LEMMA RunMoves ==
  ASSUME ShapeInv, [Next]_vars
  PROVE  \/ run' = run
         \/ run'.at = "gone" /\ run'.seat = 1
         \/ TakesSeat    /\ run.at = "search" /\ run'.at = "save" /\ run'.seat = run.seat
         \/ /\ \/ SavesPartial /\ run.at = "save"  /\ run'.at = "note"
               \/ NotesSeat    /\ run.at = "note"  /\ run'.at = "index"
               \/ SetsIndex    /\ run.at = "index" /\ run'.at = "tell"
               \/ TellsOfSeat  /\ run.at = "tell"  /\ run'.at \in {"wait", "clear"}
               \/ ClearsIndex  /\ run.at = "clear" /\ run'.at = "finish"
            /\ run'.seat = run.seat /\ run'.rsv = run.rsv
         \/ WaitIsOver /\ run.at = "wait" /\ run'.at = "search" /\ run'.seat = run.seat + 1
         \/ Starts /\ run'.at = "search" /\ run'.seat = 1
<1> USE DEF app, redis, history, ShapeInv, Gone, Searching, Starts
<1>1. CASE \/ \E q \in Reservations : Pay(q) \/ DeadlinePasses(q) \/ Lapse(q) \/ CancelElsewhere(q)
           \/ FlagExpires \/ RecordExpires \/ PartialsExpire
  BY <1>1 DEF Pay, DeadlinePasses, Lapse, CancelElsewhere, FlagExpires, RecordExpires,
              PartialsExpire
<1>2. CASE TakesSeat \/ SavesPartial \/ NotesSeat
  BY <1>2 DEF TakesSeat, SavesPartial, NotesSeat
<1>3. CASE SetsIndex \/ TellsOfSeat \/ ClearsIndex \/ WaitIsOver
  BY <1>3 DEF SetsIndex, TellsOfSeat, ClearsIndex, WaitIsOver
<1>4. CASE Finishes \/ Fails \/ Dies \/ CancelStops \/ Stops
  BY <1>4 DEF Finishes, Fails, Dies, CancelStops, Stops
<1>5. CASE Watch \/ ReminderEnds \/ ReminderExpires
  BY <1>5 DEF Watch, WatchLooks, WatchAsks, WatchSaves, WatchTells, WatchMarks, ReminderEnds,
              ReminderExpires
<1>6. CASE CarryOn \/ NotifyOff \/ CancelClears \/ GiveBackReads \/ GiveBackAsks \/ GiveBackRecords
  BY <1>6 DEF CarryOn, NotifyOff, CancelClears, GiveBackReads, GiveBackAsks, GiveBackRecords
<1>7. CASE Order \/ ResumesDead \/ Restarts \/ Buries \/ UNCHANGED vars
  BY <1>7 DEF Order, ResumesDead, Restarts, Buries, vars
<1> QED
  BY <1>1, <1>2, <1>3, <1>4, <1>5, <1>6, <1>7 DEF Next, Run, User, Lifecycle

LEMMA PartialMoves ==
  ASSUME [Next]_vars
  PROVE  \/ partial' = partial
         \/ /\ SavesPartial /\ run.seat \in DOMAIN partial' /\ partial'[run.seat] = run.rsv
            /\ \A s \in DOMAIN partial :
                 s \in DOMAIN partial' /\ (s # run.seat => partial'[s] = partial[s])
         \/ PartialsExpire
<1> USE DEF app, redis, history
<1>1. CASE \/ \E q \in Reservations : Pay(q) \/ DeadlinePasses(q) \/ Lapse(q) \/ CancelElsewhere(q)
           \/ TakesSeat \/ NotesSeat \/ SetsIndex \/ TellsOfSeat \/ WaitIsOver \/ ClearsIndex
           \/ Finishes \/ Fails \/ Dies \/ FlagExpires \/ RecordExpires
  BY <1>1 DEF Pay, DeadlinePasses, Lapse, CancelElsewhere, TakesSeat, NotesSeat, SetsIndex,
              TellsOfSeat, WaitIsOver,
              ClearsIndex, Finishes, Fails, Dies, FlagExpires, RecordExpires
<1>2. CASE SavesPartial
  BY <1>2 DEF SavesPartial
<1>3. CASE Watch \/ ReminderEnds \/ ReminderExpires \/ Lifecycle \/ UNCHANGED vars
  BY <1>3 DEF Watch, WatchLooks, WatchAsks, WatchSaves, WatchTells, WatchMarks, ReminderEnds,
              ReminderExpires, Lifecycle, Buries, ResumesDead, Stops, Restarts, vars
<1>4. CASE User
  BY <1>4 DEF User, Order, CarryOn, NotifyOff, CancelStops, CancelClears, GiveBackReads,
              GiveBackAsks, GiveBackRecords
<1> QED
  BY <1>1, <1>2, <1>3, <1>4 DEF Next, Run

\* The seat the run is about to note is the one it has written down.
NoteInv == run.at = "note" => run.seat \in DOMAIN partial /\ partial[run.seat] = run.rsv

LEMMA NoteInit == Init => NoteInv
  BY DEF Init, NoteInv, Gone

LEMMA NoteNext == ASSUME ShapeInv, OnceInv, NoteInv, [Next]_vars PROVE NoteInv'
<1>1. CASE SavesPartial
  BY <1>1, PartialMoves, RunMoves DEF NoteInv, SavesPartial, PartialsExpire, ShapeInv
<1>2. CASE ~SavesPartial
  <2>1. run'.at = "note" => run' = run
    BY <1>2, RunMoves
  <2>2. run.at = "note" => ~PartialsExpire
    BY DEF NoteInv, PartialsExpire, OnceInv, Unnoted
  <2> QED
    BY <1>2, <2>1, <2>2, PartialMoves DEF NoteInv
<1> QED
  BY <1>1, <1>2

-----------------------------------------------------------------------------
(* No seat that can be paid for goes missing from the record *)

\* Nobody saves in the watchdog's pass, and no run starts on seats that are still unpaid.
Orderly ==
  \A w \in Worlds :
    {"during_pass", "unpaid_reorder", "resumed_by_hand"} \intersect w.uses = {}

\* The seat is written down, it is pending, and a run that is alive is past noting it.
Standing(s, r) ==
  /\ s \in DOMAIN partial /\ partial[s] = r
  /\ s \in DOMAIN multi.rows /\ multi.rows[s] = [rsv |-> r, status |-> "pending"]
  /\ Alive => s < run.seat \/ (s = run.seat /\ run.at \notin Noting)

RecInv ==
  \A r \in noted : rail[r] = "held" /\ r \notin due => \E s \in Seats : Standing(s, r)

\* Whoever saves the record, a row that is pending and can be paid for stays as it is, unless
\* it is noted again.
LEMMA StandingRow ==
  ASSUME ShapeInv, OnceInv, PassInv, Orderly, [Next]_vars, ~CancelClears,
         NEW s \in DOMAIN multi.rows, NEW r \in Reservations,
         multi.rows[s] = [rsv |-> r, status |-> "pending"],
         rail[r] = "held", r \notin due,
         NotesSeat => s # run.seat /\ run.seat # 1
  PROVE  s \in DOMAIN multi'.rows /\ multi'.rows[s] = multi.rows[s]
<1>1. CASE NotesSeat
  BY <1>1, NotedRows
<1>2. CASE WatchSaves
  <2>1. Passing /\ watch.at = "ask" /\ multi' \in {multi, watch.record}
    BY <1>2 DEF WatchSaves, Passing
  <2>2. s \notin watch.settled
    <3>1. multi.rows[s].rsv = watch.record.rows[s].rsv /\ multi.rows[s].rsv = r
      BY <2>1 DEF PassInv
    <3> QED
      BY <2>1, <3>1 DEF PassInv
  <2> QED
    BY <2>1, <2>2 DEF PassInv
<1>3. CASE ReminderExpires
  BY <1>3, ExpiredRows
<1>4. CASE GiveBackRecords
  <2>1. r \notin user.picked
    BY <1>4 DEF GiveBackRecords, OnceInv
  <2> QED
    BY <1>4, <2>1, CancelledRows
<1>5. CASE ~Rewrites
  <2>1. ~RecordExpires
    BY DEF RecordExpires
  <2> QED
    BY <1>5, <2>1, OtherSaves
<1> QED
  BY <1>1, <1>2, <1>3, <1>4, <1>5 DEF Rewrites

LEMMA NotedMoves ==
  ASSUME [Next]_vars
  PROVE  noted' = noted \/ (CancelClears /\ noted' = {}) \/ (NotesSeat /\ noted' = noted \union {run.rsv})
<1> USE DEF app, redis, history
<1>1. CASE \/ \E q \in Reservations : Pay(q) \/ DeadlinePasses(q) \/ Lapse(q) \/ CancelElsewhere(q)
           \/ Run \/ FlagExpires \/ RecordExpires \/ PartialsExpire
  BY <1>1 DEF Pay, DeadlinePasses, Lapse, CancelElsewhere, Run, TakesSeat, SavesPartial,
              NotesSeat, SetsIndex,
              TellsOfSeat, WaitIsOver, ClearsIndex, Finishes, Fails, Dies, FlagExpires,
              RecordExpires, PartialsExpire
<1>2. CASE Watch \/ ReminderEnds \/ ReminderExpires \/ Lifecycle \/ UNCHANGED vars
  BY <1>2 DEF Watch, WatchLooks, WatchAsks, WatchSaves, WatchTells, WatchMarks, ReminderEnds,
              ReminderExpires, Lifecycle, Buries, ResumesDead, Stops, Restarts, vars
<1>3. CASE User
  BY <1>3 DEF User, Order, CarryOn, NotifyOff, CancelStops, CancelClears, GiveBackReads,
              GiveBackAsks, GiveBackRecords
<1> QED
  BY <1>1, <1>2, <1>3 DEF Next

LEMMA RecInit == Init => RecInv
  BY DEF Init, RecInv

LEMMA RecNext ==
  ASSUME ShapeInv, OnceInv, PassInv, NoteInv, RecInv, Orderly, [Next]_vars
  PROVE  RecInv'
<1> SUFFICES ASSUME NEW r \in noted', rail'[r] = "held", r \notin due'
             PROVE  \E s \in Seats' : Standing(s, r)'
  BY DEF RecInv
<1>1. world' = world /\ Seats' = Seats /\ Seats \subseteq Nat /\ run.seat \in Seats
      /\ noted \subseteq Reservations
  BY WorldStays DEF ShapeInv, Seats
<1>2. CASE NotesSeat /\ r = run.rsv
  <2>1. /\ run.at = "note" /\ run'.at = "index" /\ run'.seat = run.seat /\ partial' = partial
    BY <1>2 DEF NotesSeat, ShapeInv
  <2>2. run.seat \in DOMAIN multi'.rows /\ multi'.rows[run.seat] = [rsv |-> r, status |-> "pending"]
    BY <1>2, NotedRows
  <2> PICK s \in Seats : s = run.seat
    BY <1>1
  <2>3. Standing(s, r)'
    BY <1>2, <2>1, <2>2 DEF Standing, NoteInv, Noting
  <2> QED
    BY <2>3, <1>1
<1>3. CASE ~(NotesSeat /\ r = run.rsv)
  <2>1. r \in noted /\ ~CancelClears /\ r \in Reservations
    BY <1>1, <1>3, NotedMoves DEF CancelClears
  <2>2. rail[r] = "held" /\ r \notin due
    BY <2>1, RailSteps DEF OnceInv
  <2>3. PICK s \in Seats : Standing(s, r)
    BY <2>1, <2>2 DEF RecInv
  <2>4. s \in DOMAIN partial' /\ partial'[s] = r
    <3>1. ~PartialsExpire
      BY <2>2, <2>3 DEF Standing, PartialsExpire
    <3>2. SavesPartial => s # run.seat
      BY <2>3, <1>1 DEF Standing, SavesPartial, Noting, Alive
    <3> QED
      BY <2>3, <3>1, <3>2, PartialMoves DEF Standing
  <2>5. s \in DOMAIN multi'.rows /\ multi'.rows[s] = multi.rows[s]
    <3>1. NotesSeat => s < run.seat /\ s # run.seat /\ run.seat # 1
      BY <2>3, <1>1 DEF Standing, NotesSeat, Noting, Alive, Seats
    <3> QED
      BY <2>1, <2>2, <2>3, <3>1, StandingRow DEF Standing
  <2>6. Alive' => s < run'.seat \/ (s = run'.seat /\ run'.at \notin Noting)
    <3>1. ~Starts
      <4>1. ~Order
        BY <2>1, <2>2 DEF Order, Orderly, Uses, ShapeInv
      <4>2. ~ResumesDead /\ ~(Restarts /\ Resumes)
        BY <2>3 DEF ResumesDead, Resumes, Orderly, Uses, ShapeInv, Standing
      <4> QED
        BY <4>1, <4>2 DEF Starts
    <3>2. s \in Nat /\ run.seat \in Nat
      BY <1>1
    <3> QED
      BY <2>3, <3>1, <3>2, RunMoves DEF Standing, Alive, Noting
  <2>7. Standing(s, r)'
    BY <2>3, <2>4, <2>5, <2>6 DEF Standing
  <2> QED
    BY <2>7, <1>1
<1> QED
  BY <1>2, <1>3

-----------------------------------------------------------------------------
(* Nobody is passed over by mistake *)

\* The flag that lets a run go on is the run's own: no run starts on what another has left, and
\* what is written down for its seats lasts as long as it does.  The ten minutes a run waits are
\* the ones a seat is held.  Seats cancelled on the railway's own site are admitted.
InTurn ==
  \A w \in Worlds :
    {"during_pass", "partials_lapsed", "resumed_by_hand", "after_the_run", "other_window"}
      \intersect w.uses = {}

Over(r) == PaidOrWithdrawn(r) \/ r \in due

\* A row of the run's own seat is of the reservation it holds; what is given back is recorded
\* before anything else is done about it.
OwnRow ==
  LET row == multi.rows[run.seat] IN
  /\ row.rsv = run.rsv
  /\ row.status = "pending" /\ rail[run.rsv] = "returned" =>
       user.at = "record" /\ run.rsv \in user.picked

\* While the run holds a seat, no flag and no row is of a seat to come, and a flag of this one is
\* there for a reason.
HeldInv ==
  /\ run.seat \in DOMAIN partial /\ partial[run.seat] = run.rsv
  /\ rail[run.rsv] # "free"
  /\ rail[run.rsv] = "withdrawn" => Uses("cancelled_elsewhere")
  /\ ready \subseteq 1..run.seat /\ DOMAIN multi.rows \subseteq 1..run.seat
  /\ run.at = "index" => run.seat = 1 \/ current # run.seat
  /\ run.at # "index" \/ run.seat # 1 => current \in 0..run.seat
  /\ run.seat \in ready => Over(run.rsv) \/ run.rsv \in waved
  /\ run.seat \in DOMAIN multi.rows => OwnRow
  /\ Passing /\ run.seat \in watch.settled /\ Verdict(run.seat) = "paid" => Over(run.rsv)

\* Between its seats the same, of the seats so far; and a run that starts finds no flag, or a
\* record with which to throw the flags away.
TurnInv ==
  /\ Alive => up /\ search = "running"
  /\ ~Alive => run.seat = 1
  /\ \A r \in Reservations : rail[r] = "lapsed" => r \in due
  /\ search # "none" /\ DOMAIN partial = {} => multi.kept \/ ready = {}
  /\ Alive /\ (run.seat # 1 \/ run.at \notin {"search", "save"}) => DOMAIN partial # {}
  /\ run.at \in Noting /\ run.seat = 1 => multi.kept \/ ready = {}
  /\ run.at \in Noting /\ run.seat # 1 =>
       /\ ready \subseteq 1..(run.seat - 1) /\ DOMAIN multi.rows \subseteq 1..(run.seat - 1)
       /\ current \in 0..(run.seat - 1)
  /\ run.at \in Holding => HeldInv

\* What a step does to the flags, the index and what the chat was told.
LEMMA FlagMoves ==
  ASSUME ShapeInv, [Next]_vars
  PROVE  /\ ready' \subseteq ready \/ CarryOn \/ WatchMarks
         /\ current' \in {current, NoSeat} \/ SetsIndex
         /\ waved \subseteq waved'
         /\ user.at = "record" => user' = user \/ GiveBackRecords \/ run'.at = "gone"
<1> USE DEF app, redis, history, ShapeInv
<1>1. CASE \/ \E q \in Reservations : Pay(q) \/ DeadlinePasses(q) \/ Lapse(q) \/ CancelElsewhere(q)
           \/ TakesSeat \/ SavesPartial \/ SetsIndex \/ TellsOfSeat \/ ClearsIndex
           \/ Finishes \/ Fails \/ Dies \/ RecordExpires \/ PartialsExpire
  BY <1>1 DEF Pay, DeadlinePasses, Lapse, CancelElsewhere, TakesSeat, SavesPartial, SetsIndex,
              TellsOfSeat,
              ClearsIndex, Finishes, Fails, Dies, RecordExpires, PartialsExpire
<1>2. CASE NotesSeat \/ WaitIsOver \/ FlagExpires
  <2>1. /\ ready' \subseteq ready /\ current' \in {current, NoSeat}
        /\ waved' = waved /\ user' = user
    BY <1>2 DEF NotesSeat, WaitIsOver, FlagExpires
  <2> QED
    BY <2>1
<1>3. CASE Watch \/ ReminderEnds \/ ReminderExpires
  BY <1>3 DEF Watch, WatchLooks, WatchAsks, WatchSaves, WatchTells, WatchMarks, ReminderEnds,
              ReminderExpires
<1>4. CASE User \/ Lifecycle \/ UNCHANGED vars
  BY <1>4 DEF User, Order, CarryOn, NotifyOff, CancelStops, CancelClears, GiveBackReads,
              GiveBackAsks, GiveBackRecords, Serves, Idle, Gone, Lifecycle, Buries, ResumesDead,
              Stops, Restarts, vars
<1> QED
  BY <1>1, <1>2, <1>3, <1>4 DEF Next, Run

\* A run is alive under an application that is up, with a search in Redis.
LEMMA AliveMoves ==
  ASSUME ShapeInv, Alive => up /\ search = "running", [Next]_vars
  PROVE  /\ (Alive => up /\ search = "running")'
         /\ search' # "none" => search # "none" \/ Order
<1> USE DEF app, redis, history, ShapeInv, Alive, Gone
<1>1. CASE \/ \E q \in Reservations : Pay(q) \/ DeadlinePasses(q) \/ Lapse(q) \/ CancelElsewhere(q)
           \/ FlagExpires \/ RecordExpires \/ PartialsExpire
  BY <1>1 DEF Pay, DeadlinePasses, Lapse, CancelElsewhere, FlagExpires, RecordExpires,
              PartialsExpire
<1>2. CASE Run
  <2>1. up' = up /\ (search' = search \/ (search' = "none" /\ run' = Gone)) /\ run.at # "gone"
    BY <1>2 DEF Run, TakesSeat, SavesPartial, NotesSeat, SetsIndex, TellsOfSeat, WaitIsOver,
                 ClearsIndex, Finishes, Fails, Dies
  <2> QED
    BY <2>1
<1>3. CASE Watch \/ ReminderEnds \/ ReminderExpires
  BY <1>3 DEF Watch, WatchLooks, WatchAsks, WatchSaves, WatchTells, WatchMarks, ReminderEnds,
              ReminderExpires
<1>4. CASE User \/ Lifecycle \/ UNCHANGED vars
  BY <1>4 DEF User, Order, CarryOn, NotifyOff, CancelStops, CancelClears, GiveBackReads,
              GiveBackAsks, GiveBackRecords, Lifecycle, Buries, ResumesDead, Stops, Restarts, vars
<1> QED
  BY <1>1, <1>2, <1>3, <1>4 DEF Next

\* A record goes with the flags, and otherwise stays one.
LEMMA KeptMoves ==
  ASSUME ShapeInv, multi.kept, [Next]_vars
  PROVE  multi'.kept \/ ready' = {}
<1> USE DEF app, redis, history
<1>1. CASE NotesSeat
  BY <1>1, NotedRows
<1>2. CASE WatchSaves
  <2>1. multi' \in {multi, watch.record} /\ (multi' = multi \/ watch.settled # {})
    BY <1>2 DEF WatchSaves
  <2>2. watch.settled # {} => watch.record.kept
    BY NoRows DEF ShapeInv, WatchShape, IsRecord
  <2> QED
    BY <2>1, <2>2
<1>3. CASE ReminderExpires
  BY <1>3, ExpiredRows
<1>4. CASE GiveBackRecords
  BY <1>4, CancelledRows
<1>5. CASE RecordExpires \/ CancelClears
  BY <1>5 DEF RecordExpires, CancelClears
<1>6. CASE NotifyOff
  BY <1>6 DEF NotifyOff, ShapeInv, IsRecord
<1>7. CASE \/ \E q \in Reservations : Pay(q) \/ DeadlinePasses(q) \/ Lapse(q) \/ CancelElsewhere(q)
           \/ TakesSeat \/ SavesPartial \/ SetsIndex \/ TellsOfSeat \/ WaitIsOver \/ ClearsIndex
           \/ Finishes \/ Fails \/ Dies \/ FlagExpires \/ PartialsExpire
  BY <1>7 DEF Pay, DeadlinePasses, Lapse, CancelElsewhere, TakesSeat, SavesPartial, SetsIndex,
              TellsOfSeat, WaitIsOver,
              ClearsIndex, Finishes, Fails, Dies, FlagExpires, PartialsExpire
<1>8. CASE WatchLooks \/ WatchAsks \/ WatchTells \/ WatchMarks \/ GiveBackReads \/ GiveBackAsks
  BY <1>8 DEF WatchLooks, WatchAsks, WatchTells, WatchMarks, GiveBackReads, GiveBackAsks
<1>9. CASE ReminderEnds \/ Order \/ CarryOn \/ CancelStops \/ Lifecycle \/ UNCHANGED vars
  BY <1>9 DEF ReminderEnds, Order, CarryOn, CancelStops, Lifecycle, Buries, ResumesDead, Stops,
              Restarts, vars
<1> QED
  BY <1>1, <1>2, <1>3, <1>4, <1>5, <1>6, <1>7, <1>8, <1>9 DEF Next, Run, Watch, User

\* The rows are of no other seats than before, but for the one that is noted.
LEMMA RowsOfBefore ==
  ASSUME ShapeInv, PassInv, [Next]_vars, ~NotesSeat
  PROVE  OfRows(multi', multi)
<1>1. CASE WatchSaves /\ multi' = watch.record
  BY <1>1 DEF WatchSaves, PassInv, Passing, OfRows
<1> QED
  BY <1>1, RecordSteps

\* A flag more is of the seat in current_seat_index, where the run has set it, or of a seat the
\* watchdog found paid.
LEMMA FlagsOf ==
  ASSUME ShapeInv, PassInv, InTurn, [Next]_vars, NEW s \in ready', s \notin ready
  PROVE  \/ CarryOn /\ OwnSeat /\ s = current /\ current # NoSeat
         \/ /\ WatchMarks /\ Passing /\ s \in watch.settled /\ s \in DOMAIN multi.rows
            /\ Verdict(s) = "paid" /\ multi.kept
<1>1. CASE CarryOn
  BY <1>1 DEF CarryOn, InTurn, Uses, ShapeInv
<1>2. CASE WatchMarks
  <2>1. s = First(watch.settled) /\ Verdict(s) = "paid" /\ Passing
    BY <1>2 DEF WatchMarks, ShapeInv, WatchShape, Passing
  <2>2. s \in watch.settled
    BY <2>1, <1>2, TellsOfOne
  <2>3. s \in DOMAIN multi.rows
    BY <2>1, <2>2 DEF PassInv, ShapeInv, WatchShape
  <2>4. multi.kept
    BY <2>3, NoRows DEF ShapeInv, IsRecord
  <2> QED
    BY <1>2, <2>1, <2>2, <2>3, <2>4
<1> QED
  BY <1>1, <1>2, FlagMoves

LEMMA TurnInit == Init => TurnInv
  BY DEF Init, TurnInv, Alive, Gone, Noting, Holding

\* The row of the seat the run holds.
LEMMA OwnRowKept ==
  ASSUME ShapeInv, PassInv, TurnInv, [Next]_vars, ~NotesSeat,
         run.at \in Holding, run'.at \in Holding, run'.seat = run.seat, run'.rsv = run.rsv,
         run.seat \in DOMAIN multi'.rows
  PROVE  OwnRow'
<1>1. /\ run.seat \in DOMAIN multi.rows
      /\ multi'.rows[run.seat].rsv = multi.rows[run.seat].rsv
      /\ OwnRow /\ run.rsv \in Reservations
  BY RowsOfBefore DEF OfRows, TurnInv, HeldInv, ShapeInv, Working, Holding
<1>2. CASE rail'[run.rsv] = "returned" /\ multi'.rows[run.seat].status = "pending"
  <2>1. multi.rows[run.seat].status = "pending" /\ ~(GiveBackRecords /\ run.rsv \in user.picked)
    <3>1. CASE WatchSaves
      <4>1. multi' \in {multi, watch.record} /\ Passing /\ watch.at = "ask"
            /\ user.at # "record"
        BY <3>1 DEF WatchSaves, Passing, PassInv
      <4>2. ~GiveBackRecords
        BY <4>1 DEF GiveBackRecords
      <4> QED
        BY <1>1, <1>2, <4>1, <4>2 DEF PassInv, Verdict
    <3>2. CASE ReminderExpires
      <4>1. ~GiveBackRecords
        BY <3>2 DEF ReminderExpires, GiveBackRecords, app, Idle
      <4> QED
        BY <1>1, <1>2, <3>2, <4>1, ExpiredRows
    <3>3. CASE GiveBackRecords
      BY <1>1, <1>2, <3>3, CancelledRows DEF OwnRow
    <3>4. CASE ~Rewrites
      BY <1>1, <1>2, <3>4, OtherSaves, NoRows DEF Rewrites
    <3> QED
      BY <3>1, <3>2, <3>3, <3>4 DEF Rewrites
  <2>2. user'.at = "record" /\ run.rsv \in user'.picked
    <3>1. CASE rail[run.rsv] = "returned"
      <4>1. user.at = "record" /\ run.rsv \in user.picked
        BY <1>1, <2>1, <3>1 DEF OwnRow
      <4> QED
        BY <2>1, <4>1, FlagMoves DEF Holding
    <3>2. CASE rail[run.rsv] # "returned"
      <4>1. rail[run.rsv] \in RailStates
        BY <1>1 DEF ShapeInv
      <4> QED
        BY <1>1, <1>2, <3>2, <4>1, RailSteps DEF RailStates
    <3> QED
      BY <3>1, <3>2
  <2> QED
    BY <1>1, <2>2 DEF OwnRow
<1>3. CASE ~(rail'[run.rsv] = "returned" /\ multi'.rows[run.seat].status = "pending")
  BY <1>1, <1>3 DEF OwnRow
<1> QED
  BY <1>2, <1>3

\* A verdict of paid over the seat the run holds is over a seat paid for, or given up.
LEMMA OwnVerdict ==
  ASSUME ShapeInv, OnceInv, PassInv, TurnInv, [Next]_vars, run.at \in Holding,
         Passing', run.seat \in watch'.settled, watch'.record.rows[run.seat].status = "paid"
  PROVE  Over(run.rsv)
<1> DEFINE q == run.seat
<1>0. HeldInv /\ run.rsv \in Reservations
  BY DEF TurnInv, ShapeInv, Working, Holding
<1>1. ASSUME Passing, q \in watch.settled, watch.record.rows[q].status = "paid"
      PROVE  Over(run.rsv)
  BY <1>0, <1>1 DEF HeldInv, Verdict
<1>2. CASE WatchLooks
  BY <1>2 DEF WatchLooks, AtRest
<1>3. CASE WatchAsks
  <2> DEFINE s == First(watch.left)
  <2>1. Passing /\ watch.at = "ask"
    BY <1>3 DEF WatchAsks, Passing
  <2>2. /\ s \in watch.left /\ s \in DOMAIN watch.record.rows /\ watch.record.kept
        /\ \/ watch' = [watch EXCEPT !.left = @ \ {s}]
           \/ \E status \in {"paid", "expired"} :
                /\ watch'.settled = watch.settled \union {s}
                /\ watch'.record = Marked(watch.record, {s}, status)
                /\ status = "paid" => rail[watch.record.rows[s].rsv] # "held"
    BY <1>3, AsksOfSeat
  <2> HIDE DEF s
  <2>3. CASE watch' = [watch EXCEPT !.left = @ \ {s}]
    <3>1. watch'.record = watch.record /\ watch'.settled = watch.settled
      BY <2>3 DEF ShapeInv, WatchShape
    <3> QED
      BY <2>1, <3>1, <1>1
  <2>4. ASSUME NEW status \in {"paid", "expired"},
               watch'.settled = watch.settled \union {s},
               watch'.record = Marked(watch.record, {s}, status),
               status = "paid" => rail[watch.record.rows[s].rsv] # "held"
        PROVE  Over(run.rsv)
    <3>1. \A p \in DOMAIN watch.record.rows :
             /\ p = s => watch'.record.rows[p].status = status
             /\ p # s => watch'.record.rows[p] = watch.record.rows[p]
      <4>1. IsRecord(watch.record) /\ status \in Statuses
        BY DEF ShapeInv, WatchShape, Statuses
      <4> QED
        BY <2>2, <2>4, <4>1, MarkedRecord
    <3>2. q \in DOMAIN watch.record.rows
      BY <2>2, <2>4 DEF ShapeInv, WatchShape
    <3>3. CASE q # s
      BY <2>1, <2>4, <3>1, <3>2, <3>3, <1>1
    <3>4. CASE q = s
      <4>1. q \in DOMAIN multi.rows /\ multi.rows[q].status = "pending"
            /\ multi.rows[q].rsv = watch.record.rows[q].rsv /\ user.at # "record"
        BY <2>1, <2>2, <3>2, <3>4 DEF PassInv
      <4>2. multi.rows[q].rsv = run.rsv /\ rail[run.rsv] \notin {"returned", "free"}
            /\ (rail[run.rsv] = "withdrawn" => Uses("cancelled_elsewhere"))
        BY <1>0, <4>1 DEF HeldInv, OwnRow
      <4>3. rail[run.rsv] # "held"
        BY <2>4, <3>1, <3>2, <3>4, <4>1, <4>2
      <4>4. rail[run.rsv] \in RailStates
        BY <1>0 DEF ShapeInv
      <4> QED
        BY <1>0, <4>2, <4>3, <4>4 DEF TurnInv, RailStates, Over, PaidOrWithdrawn
    <3> QED
      BY <3>3, <3>4
  <2> QED
    BY <2>2, <2>3, <2>4
<1>4. CASE WatchSaves
  <2>1. Passing /\ (watch' = AtRest \/ watch' = [watch EXCEPT !.at = "tell"])
    BY <1>4 DEF WatchSaves, Passing
  <2>2. watch' # AtRest
    BY DEF AtRest, Passing
  <2>3. watch'.record = watch.record /\ watch'.settled = watch.settled
    BY <2>1, <2>2 DEF ShapeInv, WatchShape
  <2> QED
    BY <2>1, <2>3, <1>1
<1>5. CASE WatchTells \/ WatchMarks
  <2>1. Passing
    BY <1>5 DEF WatchTells, WatchMarks, Passing
  <2>2. watch' # AtRest
    BY DEF AtRest, Passing
  <2>3. watch'.record = watch.record /\ watch'.settled \subseteq watch.settled
    BY <1>5, <2>2, TellsOfOne
  <2> QED
    BY <2>1, <2>3, <1>1
<1>6. CASE ~Watch
  <2>1. watch' = watch
    BY <1>6, WatchOnly DEF AtRest, Passing
  <2> QED
    BY <2>1, <1>1 DEF Passing
<1> QED
  BY <1>2, <1>3, <1>4, <1>5, <1>6 DEF Watch

\* The run that goes on holding a seat.
LEMMA HeldKept ==
  ASSUME ShapeInv, OnceInv, PassInv, TurnInv, InTurn, [Next]_vars, ~NotesSeat,
         run.at \in Holding, run'.at \in Holding, run'.seat = run.seat, run'.rsv = run.rsv,
         SetsIndex => run'.at = "tell", run'.at = "index" => run.at = "index" /\ ~SetsIndex
  PROVE  HeldInv'
<1>0. /\ HeldInv /\ run.rsv \in Reservations /\ run.seat \in Nat \ {0}
      /\ Alive /\ search = "running"
  BY WorldHasSeats DEF TurnInv, ShapeInv, Working, Holding, Alive, Seats
<1>1. partial' = partial
  <2>1. ~SavesPartial /\ ~PartialsExpire
    BY <1>0 DEF SavesPartial, PartialsExpire, Holding, InTurn, Uses, ShapeInv
  <2> QED
    BY <2>1, PartialMoves
<1>2. Over(run.rsv) => Over(run.rsv)'
  BY <1>0, RailSteps, WorldStays DEF Over, PaidOrWithdrawn, Uses
<1>3. rail'[run.rsv] # "free" /\ (rail'[run.rsv] = "withdrawn" => Uses("cancelled_elsewhere")')
  <2>1. rail[run.rsv] \in RailStates /\ (Uses("cancelled_elsewhere")' <=> Uses("cancelled_elsewhere"))
    BY <1>0, WorldStays DEF ShapeInv, Uses
  <2> QED
    BY <1>0, <2>1, RailSteps DEF HeldInv, RailStates, AtLiberty
<1>4. ready' \subseteq 1..run.seat
  <2> SUFFICES ASSUME NEW s \in ready', s \notin ready PROVE s \in 1..run.seat
    BY <1>0 DEF HeldInv
  <2>1. CASE s \in DOMAIN multi.rows
    BY <2>1, <1>0 DEF HeldInv
  <2>2. CASE OwnSeat /\ s = current /\ current # NoSeat
    BY <2>2, <1>0 DEF HeldInv, OwnSeat, NoSeat
  <2> QED
    BY <2>1, <2>2, FlagsOf
<1>5. DOMAIN multi'.rows \subseteq 1..run.seat
  BY <1>0, RowsOfBefore DEF OfRows, HeldInv
<1>6. /\ run'.at = "index" => run.seat = 1 \/ current' # run.seat
      /\ run'.at # "index" \/ run.seat # 1 => current' \in 0..run.seat
  <2>1. CASE SetsIndex
    BY <2>1, <1>0 DEF SetsIndex
  <2>2. CASE ~SetsIndex
    <3>1. run.at = "index" => run'.at = "index"
      BY <2>2, RunMoves DEF Holding
    <3>2. current' \in {current, NoSeat}
      BY <2>2, FlagMoves
    <3> QED
      BY <3>1, <3>2, <1>0 DEF HeldInv, NoSeat
  <2> QED
    BY <2>1, <2>2
<1>7. run.seat \in ready' => Over(run.rsv)' \/ run.rsv \in waved'
  <2>1. CASE run.seat \in ready
    BY <2>1, <1>0, <1>2, FlagMoves DEF HeldInv
  <2>2. CASE run.seat \notin ready /\ run.seat \in ready'
    <3>1. CASE CarryOn /\ OwnSeat /\ run.seat = current /\ current # NoSeat
      <4>1. run.seat \in DOMAIN partial /\ partial[run.seat] = run.rsv
        BY <1>0 DEF HeldInv
      <4>2. waved' = waved \union {partial[s] : s \in {current} \intersect DOMAIN partial}
        BY <3>1 DEF CarryOn
      <4> QED
        BY <3>1, <4>1, <4>2
    <3>2. CASE /\ WatchMarks /\ Passing /\ run.seat \in watch.settled
               /\ Verdict(run.seat) = "paid"
      BY <3>2, <1>0, <1>2 DEF HeldInv
    <3> QED
      BY <2>2, <3>1, <3>2, FlagsOf
  <2> QED
    BY <2>1, <2>2
<1>8. run.seat \in DOMAIN multi'.rows => OwnRow'
  BY OwnRowKept
<1>9. Passing' /\ run.seat \in watch'.settled /\ Verdict(run.seat)' = "paid" => Over(run.rsv)'
  BY <1>2, OwnVerdict DEF Verdict
<1> QED
  BY <1>0, <1>1, <1>3, <1>4, <1>5, <1>6, <1>7, <1>8, <1>9 DEF HeldInv, Verdict, Over

\* The run that has just noted its seat: the flags of an earlier round are gone.
LEMMA NotesHeld ==
  ASSUME ShapeInv, OnceInv, NoteInv, TurnInv, InTurn, NotesSeat
  PROVE  HeldInv'
<1>1. /\ run.at = "note" /\ run'.at = "index" /\ run'.seat = run.seat /\ run'.rsv = run.rsv
      /\ UNCHANGED <<partial, rail, due, watch, user>>
      /\ run.seat \in Nat \ {0} /\ run.rsv \in Reservations
  BY WorldHasSeats DEF NotesSeat, ShapeInv, Working, Seats, app
<1>2. watch.at = "rest" /\ (Uses("cancelled_elsewhere")' <=> Uses("cancelled_elsewhere"))
  BY WorldStays DEF NotesSeat, NotInAPass, InTurn, Uses, ShapeInv
<1>3. CASE run.seat = 1
  <2>1. ready' = {}
    BY <1>1, <1>3 DEF NotesSeat, TurnInv, Noting
  <2>2. DOMAIN multi'.rows \subseteq {1} /\ multi'.rows[1] = [rsv |-> run.rsv, status |-> "pending"]
    BY <1>3, NotedRows
  <2> QED
    BY <1>1, <1>2, <1>3, <2>1, <2>2 DEF HeldInv, NoteInv, OnceInv, Unnoted, OwnRow, Passing
<1>4. CASE run.seat # 1
  <2>1. /\ ready \subseteq 1..(run.seat - 1) /\ DOMAIN multi.rows \subseteq 1..(run.seat - 1)
        /\ current \in 0..(run.seat - 1)
        /\ ready' = ready /\ current' = current
    BY <1>1, <1>4 DEF NotesSeat, TurnInv, Noting
  <2>2. /\ DOMAIN multi'.rows \subseteq DOMAIN multi.rows \union {run.seat}
        /\ multi'.rows[run.seat] = [rsv |-> run.rsv, status |-> "pending"]
    BY <1>4, NotedRows
  <2> QED
    BY <1>1, <1>2, <1>4, <2>1, <2>2 DEF HeldInv, NoteInv, OnceInv, Unnoted, OwnRow, Passing
<1> QED
  BY <1>3, <1>4

LEMMA TurnNext ==
  ASSUME ShapeInv, OnceInv, PassInv, NoteInv, TurnInv, InTurn, [Next]_vars
  PROVE  TurnInv'
<1>0. run.seat \in Nat \ {0} /\ rail \in [Reservations -> RailStates]
  BY WorldHasSeats DEF ShapeInv, Seats
<1>1. (Alive => up /\ search = "running")' /\ (search' # "none" => search # "none" \/ Order)
  BY AliveMoves DEF TurnInv
<1>2. (~Alive => run.seat = 1)'
  BY RunMoves DEF TurnInv, Alive
<1>3. \A r \in Reservations : rail'[r] = "lapsed" => r \in due'
  <2> SUFFICES ASSUME NEW r \in Reservations, rail'[r] = "lapsed" PROVE r \in due'
    OBVIOUS
  <2>1. rail[r] \in RailStates /\ (rail[r] = "lapsed" => r \in due)
    BY <1>0 DEF TurnInv
  <2> QED
    BY <2>1, RailSteps DEF RailStates
<1>4. PartialsExpire => ~Alive /\ run' = run /\ search = "none" /\ search' = "none"
  BY DEF PartialsExpire, InTurn, Uses, ShapeInv, TurnInv, Alive
<1>5. Alive' /\ (run'.seat # 1 \/ run'.at \notin {"search", "save"}) => DOMAIN partial' # {}
  <2>1. CASE SavesPartial
    BY <2>1 DEF SavesPartial
  <2>2. CASE PartialsExpire
    BY <2>2, <1>4 DEF Alive
  <2>3. CASE partial' = partial /\ ~SavesPartial
    BY <2>3, RunMoves DEF TurnInv, Alive
  <2> QED
    BY <2>1, <2>2, <2>3, PartialMoves
\* A flag more, of a run that has set current_seat_index, or with a record.
<1>6. ready' \subseteq ready \/ DOMAIN partial # {} \/ multi.kept
  <2> SUFFICES ASSUME NEW s \in ready', s \notin ready PROVE DOMAIN partial # {} \/ multi.kept
    OBVIOUS
  <2>1. OwnSeat => DOMAIN partial # {}
    BY DEF OwnSeat, TurnInv, Alive
  <2> QED
    BY <2>1, FlagsOf
<1>7. search' # "none" /\ DOMAIN partial' = {} => multi'.kept \/ ready' = {}
  <2> SUFFICES ASSUME search' # "none", DOMAIN partial' = {} PROVE multi'.kept \/ ready' = {}
    OBVIOUS
  <2>1. DOMAIN partial = {}
    BY <1>4, PartialMoves
  <2>2. CASE Order
    BY <2>2 DEF Order, InTurn, Uses, ShapeInv
  <2>3. CASE multi.kept
    BY <2>3, KeptMoves
  <2>4. CASE ready = {} /\ ~multi.kept
    BY <2>1, <2>4, <1>6
  <2> QED
    BY <1>1, <2>1, <2>2, <2>3, <2>4 DEF TurnInv
<1>8. run'.at \in Noting /\ run'.seat = 1 => multi'.kept \/ ready' = {}
  <2> SUFFICES ASSUME run'.at \in Noting, run'.seat = 1 PROVE multi'.kept \/ ready' = {}
    OBVIOUS
  <2>1. CASE Starts
    <3>1. UNCHANGED <<multi, ready>>
      BY <2>1 DEF Starts, Order, ResumesDead, Restarts
    <3>2. CASE Order
      BY <3>1, <3>2 DEF Order, InTurn, Uses, ShapeInv
    <3>3. CASE ResumesDead \/ (Restarts /\ search = "running" /\ Resumes)
      BY <3>1, <3>3 DEF ResumesDead, Resumes, InTurn, Uses, ShapeInv, TurnInv
    <3> QED
      BY <2>1, <3>2, <3>3 DEF Starts
  <2>2. CASE run.at \in Noting /\ run.seat = 1
    <3>1. CASE multi.kept
      BY <3>1, KeptMoves
    <3>2. CASE ready = {} /\ ~multi.kept
      <4>1. ~OwnSeat
        BY <2>2 DEF OwnSeat, Noting
      <4> QED
        BY <3>2, <4>1, FlagsOf
    <3> QED
      BY <2>2, <3>1, <3>2 DEF TurnInv
  <2>3. Starts \/ (run.at \in Noting /\ run.seat = 1)
    BY <1>0, RunMoves DEF Noting
  <2> QED
    BY <2>1, <2>2, <2>3
<1>9. run'.at \in Noting /\ run'.seat # 1 =>
        /\ ready' \subseteq 1..(run'.seat - 1) /\ DOMAIN multi'.rows \subseteq 1..(run'.seat - 1)
        /\ current' \in 0..(run'.seat - 1)
  <2> SUFFICES ASSUME run'.at \in Noting, run'.seat # 1
               PROVE  /\ ready' \subseteq 1..(run'.seat - 1)
                      /\ DOMAIN multi'.rows \subseteq 1..(run'.seat - 1)
                      /\ current' \in 0..(run'.seat - 1)
    OBVIOUS
  <2>1. CASE WaitIsOver /\ run.at = "wait" /\ run'.seat = run.seat + 1
    <3>1. ready' \subseteq ready /\ multi' = multi /\ current' = current /\ HeldInv
      BY <2>1 DEF WaitIsOver, TurnInv, Holding
    <3> QED
      BY <2>1, <3>1, <1>0 DEF HeldInv
  <2>2. CASE run.at \in Noting /\ run'.seat = run.seat /\ ~NotesSeat /\ ~SetsIndex
    <3>1. /\ ready \subseteq 1..(run.seat - 1) /\ DOMAIN multi.rows \subseteq 1..(run.seat - 1)
          /\ current \in 0..(run.seat - 1)
      BY <2>2 DEF TurnInv
    <3>2. DOMAIN multi'.rows \subseteq DOMAIN multi.rows
      BY <2>2, RowsOfBefore DEF OfRows
    <3>3. current' \in {current, NoSeat}
      BY <2>2, FlagMoves
    <3>4. ASSUME NEW s \in ready', s \notin ready PROVE s \in 1..(run.seat - 1)
      <4>1. s \in DOMAIN multi.rows \/ (s = current /\ current # NoSeat)
        BY <3>4, FlagsOf
      <4> QED
        BY <4>1, <3>1, <1>0 DEF NoSeat
    <3>5. current' \in 0..(run.seat - 1)
      BY <3>1, <3>3, <1>0 DEF NoSeat
    <3> QED
      BY <2>2, <3>1, <3>2, <3>4, <3>5
  <2>3. \/ WaitIsOver /\ run.at = "wait" /\ run'.seat = run.seat + 1
        \/ run.at \in Noting /\ run'.seat = run.seat /\ ~NotesSeat /\ ~SetsIndex
    <3>1. NotesSeat => run'.at = "index"
      BY DEF NotesSeat, ShapeInv
    <3>2. SetsIndex => run'.at = "tell"
      BY DEF SetsIndex, ShapeInv
    <3> QED
      BY <3>1, <3>2, RunMoves DEF Noting
  <2> QED
    BY <2>1, <2>2, <2>3
<1>10. run'.at \in Holding => HeldInv'
  <2> SUFFICES ASSUME run'.at \in Holding PROVE HeldInv'
    OBVIOUS
  <2>1. CASE NotesSeat
    BY <2>1, NotesHeld
  <2>2. CASE ~NotesSeat
    <3>1. SetsIndex => run'.at = "tell"
      BY DEF SetsIndex, ShapeInv
    <3>2. /\ run.at \in Holding /\ run'.seat = run.seat /\ run'.rsv = run.rsv
          /\ run'.at = "index" => run.at = "index"
      BY <2>2, RunMoves DEF Holding
    <3> QED
      BY <2>2, <3>1, <3>2, HeldKept
  <2> QED
    BY <2>1, <2>2
<1> QED
  BY <1>1, <1>2, <1>3, <1>5, <1>7, <1>8, <1>9, <1>10 DEF TurnInv

-----------------------------------------------------------------------------
(* What the invariants together promise *)

\* VerdictsTrue, but for the seats cancelled on the railway's own site: those are called paid,
\* never expired.
VerdictsHold ==
  /\ \A s \in DOMAIN multi.rows :
       LET row == multi.rows[s] IN
       /\ row.status = "paid"    => rail[row.rsv] \in {"paid", "withdrawn"}
       /\ row.status = "expired" => row.rsv \in due /\ rail[row.rsv] # "paid"
  /\ \A r \in Reservations :
       /\ "paid"    \in told[r] => rail[r] \in {"paid", "withdrawn"}
       /\ "expired" \in told[r] => r \in due /\ rail[r] # "paid"

LEMMA VerdictsInvHolds == ASSUME Prompt PROVE Spec => [](ShapeInv /\ VerdictsInv)
<1> DEFINE Inv == ShapeInv /\ OnceInv /\ PassInv /\ VerdictsInv
<1>1. AloneInPass
  BY DEF Prompt, AloneInPass
<1>2. Init => Inv
  BY ShapeInit, OnceInit, PassInit, VerdictsInit
<1>3. Inv /\ [Next]_vars => Inv'
  BY <1>1, ShapeNext, OnceNext, PassNext, VerdictsNext
<1> QED
  BY <1>2, <1>3, PTL DEF Spec

\* What the watchdog (_settle_seats) calls paid was paid for or cancelled by the user on the
\* railway's own site, which the list it goes by does not tell apart; what it or the reminder
\* thread calls expired had run out and was not paid for, whoever saves the record in between,
\* as long as seats are asked about in time and in one pass.
THEOREM VerdictsTellLapses == ASSUME Prompt PROVE Spec => []VerdictsHold
<1>1. ShapeInv /\ VerdictsInv => VerdictsHold
  BY DEF VerdictsInv, VerdictsHold, TrueRow, PaidOrWithdrawn
<1> QED
  BY VerdictsInvHolds, <1>1, PTL

\* A payment and a lapse are not mixed up, on the record or in what the chat is told: where
\* besides nobody cancels a seat on the railway's own site, what the watchdog calls paid was
\* paid for.
THEOREM VerdictsAreTrue == ASSUME Prompt, NoneWithdrawn PROVE Spec => []VerdictsTrue
<1>1. ShapeInv /\ VerdictsInv => VerdictsTrue
  <2>1. ASSUME ShapeInv, NEW r, PaidOrWithdrawn(r) PROVE rail[r] = "paid"
    BY <2>1 DEF PaidOrWithdrawn, NoneWithdrawn, Uses, ShapeInv
  <2> QED
    BY <2>1 DEF VerdictsInv, VerdictsTrue, TrueRow
<1> QED
  BY VerdictsInvHolds, <1>1, PTL

\* A seat that can still be paid for stays on the record, pending, through every save of it by
\* the run, the watchdog, the reminder thread, /notify_off and the give-back button, and through
\* deaths, failures and restarts: for groups of any size and any number of orders.
THEOREM NoSeatMissing == ASSUME Orderly PROVE Spec => []SeatsOnRecord
<1> DEFINE Inv == ShapeInv /\ OnceInv /\ PassInv /\ NoteInv /\ RecInv
<1>1. AloneInPass
  BY DEF Orderly, AloneInPass
<1>2. Init => Inv
  BY ShapeInit, OnceInit, PassInit, NoteInit, RecInit
<1>3. Inv /\ [Next]_vars => Inv'
  BY <1>1, ShapeNext, OnceNext, PassNext, NoteNext, RecNext
<1>4. Inv => SeatsOnRecord
  <2>1. ASSUME NEW r, NEW s, Standing(s, r) PROVE Unsettled(r)
    BY <2>1 DEF Standing, Unsettled, RowsAt
  <2> QED
    BY <2>1, Zenon DEF RecInv, SeatsOnRecord
<1> QED
  BY <1>2, <1>3, <1>4, PTL DEF Spec

\* TurnsTaken, but for the seats cancelled on the railway's own site.
TurnsHold ==
  [][run.at = "wait" /\ run'.at = "search" /\ run'.seat > run.seat =>
       rail[run.rsv] \in {"paid", "withdrawn"} \/ run.rsv \in due \/ run.rsv \in waved]_vars

\* The run leaves the seat it waits on for a reason that this seat gives.
Justly == run.at = "wait" /\ run'.at = "search" /\ run'.seat > run.seat =>
            Over(run.rsv) \/ run.rsv \in waved

LEMMA RunGoesOnJustly == ASSUME InTurn PROVE Spec => [](ShapeInv) /\ [][Justly]_vars
<1> DEFINE Inv == ShapeInv /\ OnceInv /\ PassInv /\ NoteInv /\ TurnInv
<1>1. AloneInPass
  BY DEF InTurn, AloneInPass
<1>2. Init => Inv
  BY ShapeInit, OnceInit, PassInit, NoteInit, TurnInit
<1>3. Inv /\ [Next]_vars => Inv'
  BY <1>1, ShapeNext, OnceNext, PassNext, NoteNext, TurnNext
<1>4. Inv /\ [Next]_vars => [Justly]_vars
  <2> SUFFICES ASSUME Inv, [Next]_vars, run.at = "wait", run'.at = "search", run'.seat > run.seat
               PROVE  Over(run.rsv) \/ run.rsv \in waved
    BY DEF Justly
  <2>1. run.seat \in Nat \ {0} /\ HeldInv
    BY WorldHasSeats DEF ShapeInv, Seats, TurnInv, Holding
  <2>2. WaitIsOver
    BY <2>1, RunMoves
  <2> QED
    BY <2>1, <2>2 DEF WaitIsOver, HeldInv, Over, InTurn, Uses, ShapeInv
<1>5. Inv => ShapeInv
  OBVIOUS
<1> QED
  BY <1>2, <1>3, <1>4, <1>5, PTL DEF Spec

\* The run (wait_for_payment) leaves a seat for the next one only where it was paid for or given
\* up on the railway's own site, its time was over, or the chat was told that it is passed over:
\* no flag an earlier seat, an earlier run or an earlier order has left lets it go on.
THEOREM NoStrayFlag == ASSUME InTurn PROVE Spec => TurnsHold
<1>1. [Justly]_vars =>
        [run.at = "wait" /\ run'.at = "search" /\ run'.seat > run.seat =>
           rail[run.rsv] \in {"paid", "withdrawn"} \/ run.rsv \in due \/ run.rsv \in waved]_vars
  BY DEF Justly, Over, PaidOrWithdrawn
<1> QED
  BY RunGoesOnJustly, <1>1, PTL DEF TurnsHold

\* Where besides nobody cancels a seat on the railway's own site, the seat left early was paid
\* for or passed over.
THEOREM NobodyPassedOver == ASSUME InTurn, NoneWithdrawn PROVE Spec => TurnsTaken
<1>1. ShapeInv /\ [Justly]_vars =>
        [run.at = "wait" /\ run'.at = "search" /\ run'.seat > run.seat =>
           rail[run.rsv] = "paid" \/ run.rsv \in due \/ run.rsv \in waved]_vars
  BY DEF Justly, Over, PaidOrWithdrawn, NoneWithdrawn, Uses, ShapeInv
<1> QED
  BY RunGoesOnJustly, <1>1, PTL DEF TurnsTaken
=============================================================================
