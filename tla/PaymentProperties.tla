------------------------ MODULE PaymentProperties ------------------------
(***************************************************************************)
(* What PaymentWatch promises a chat about the seats booked for it.  Each  *)
(* promise needs some of the schedules PaymentWatch!Scenarios leaves out.  *)
(***************************************************************************)
EXTENDS PaymentWatch

TypeOK ==
  /\ seat      \in [Bookings -> Seat]
  /\ due       \in [Bookings -> BOOLEAN]
  /\ record    \in Record
  /\ lease     \in Watchers \union {Nobody}
  /\ child     \in [Bookings -> ChildState]
  /\ callback  \in [Bookings -> Callback]
  /\ ours      \in SUBSET Bookings
  /\ reminder  \in [Bookings -> BOOLEAN]
  /\ answer    \in [Watchers -> Answer]
  /\ app       \in AppState
  /\ copy      \in Record
  /\ user      \in UserState
  /\ picked    \in Bookings \union {NoBooking}
  /\ up        \in BOOLEAN
  /\ stops     \in 0..MaxStops
  /\ told      \in [Bookings -> [Verdicts -> 0..2]]
  /\ dismissed \in SUBSET Bookings

\* _watch_payment, _settle_single: a payment is announced only for a seat that was paid for,
\* not for one the bot gave back or that ran out.  (One cancelled on the railway's own site
\* while it is watched is announced as paid: "cancelled_elsewhere".)
PaidIsPaid == \A b \in Bookings : told[b]["paid"] > 0 => seat[b] = "paid"

\* "expired unpaid" is told only of a seat that nobody paid for.
ExpiredIsUnpaid ==
  \A b \in Bookings : told[b]["expired"] > 0 => due[b] /\ seat[b] # "paid"

\* claim_payment_watch: the two watchers never both announce the end of a booking.
VerdictOnce == \A b \in Bookings : told[b]["paid"] + told[b]["expired"] <= 1

\* The record /status, the give-back button and the app's watch go by names the booking
\* that is being watched: nothing written meanwhile takes its number away.
RecordKept ==
  \A b \in Bookings : child[b] \in {"rest", "ask", "heed", "settle"} =>
    record.kept /\ record.rsv = b

\* A booking marked settled was announced, is about to be, or was dismissed by the user;
\* only a stop of the application in between loses the message.
SettledIsTold ==
  \A b \in Bookings : stops = 0 /\ record.completed /\ record.rsv = b =>
    \/ b \in dismissed
    \/ told[b]["paid"] + told[b]["expired"] > 0
    \/ child[b] = "tell"
    \/ app = "tell" /\ copy.rsv = b
    \/ user = "close"

\* A record that says reminders are running has a loop behind it, until a stop takes the
\* loop: start_reminders, which goes by the record, would skip the next booking's.
ReminderBacked == stops = 0 /\ record.active => \E b \in Bookings : reminder[b]

\* An open booking is settled in the end, whether its process lives, is stopped or the
\* application crashes.
OpenSettles == \A b \in Bookings : Open(b) ~> ~Open(b)
=============================================================================
