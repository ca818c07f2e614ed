------------------------- MODULE SeatingProperties -------------------------
(***************************************************************************)
(* What a group that takes its seats one by one may rely on.  Each promise *)
(* needs some of the accidents RandomSeating names left out.               *)
(***************************************************************************)
EXTENDS RandomSeating

Statuses == {"pending", "paid", "expired", "cancelled"}
Rows     == [rsv : Reservations, status : Statuses]

RecordOK(record) ==
  /\ record.kept \in BOOLEAN /\ record.stopped \in BOOLEAN
  /\ DOMAIN record.rows \subseteq Seats
  /\ \A s \in DOMAIN record.rows : record.rows[s] \in Rows
  /\ ~record.kept => record = NoRecord

\* The shape of the state: rows and flags of seats of the order, a run at one of its steps.
TypeOK ==
  /\ rail \in [Reservations -> {"free", "held", "paid", "lapsed", "returned", "withdrawn"}]
  /\ run.at \in {"gone", "search", "save", "note", "index", "tell", "wait", "clear", "finish"}
  /\ run.seat \in Seats /\ run.rsv \in Reservations \union {0}
  /\ search \in {"none", "running", "dead"}
  /\ DOMAIN partial \subseteq Seats /\ \A s \in DOMAIN partial : partial[s] \in Reservations
  /\ RecordOK(multi)
  /\ current \in Seats \union {NoSeat} /\ ready \subseteq Seats
  /\ watch.at \in {"rest", "ask", "tell", "mark"}
  /\ watch.left \subseteq Seats /\ watch.settled \subseteq Seats
  /\ RecordOK(watch.record)
  /\ user.at \in {"idle", "cancel", "sign_in", "record"} /\ user.picked \subseteq Reservations
  /\ due \subseteq Reservations /\ noted \subseteq Reservations

Of(order) == {r \in Reservations : taken[r] = order}

\* However often the search of one order is resumed, by a restart or after a death, the
\* railway never gives it more seats than there are passengers.
SeatsAsAsked == \A order \in 1..orders : Cardinality(Of(order)) <= world.seats

\* A seat that is held and can still be paid for stands as pending on the record the
\* reminders, /status, the give-back button and the watchdog go by, whoever saved it last.
SeatsOnRecord ==
  \A r \in noted : rail[r] = "held" /\ r \notin due => Unsettled(r)

\* The run goes on to the next seat early only where this one was paid for, or the chat was
\* told that it is passed over.  (Also where it was cancelled on the railway's own site, which
\* the watchdog reads as paid: "cancelled_elsewhere".)
TurnsTaken ==
  [][run.at = "wait" /\ run'.at = "search" /\ run'.seat > run.seat =>
       rail[run.rsv] = "paid" \/ run.rsv \in due \/ run.rsv \in waved]_vars

\* A seat is paid, on the record or in what the chat is told, where it was paid for; and
\* expired only where it was not.  (One cancelled on the railway's own site while it is to be
\* paid for is called paid: "cancelled_elsewhere".)
VerdictsTrue ==
  /\ \A s \in DOMAIN multi.rows :
       LET row == multi.rows[s] IN
       /\ row.status = "paid"    => rail[row.rsv] = "paid"
       /\ row.status = "expired" => rail[row.rsv] # "paid"
  /\ \A r \in Reservations :
       /\ "paid"    \in told[r] => rail[r] = "paid"
       /\ "expired" \in told[r] => rail[r] # "paid"
=============================================================================
