---------------------------- MODULE Appointments ----------------------------
(***************************************************************************)
(* What a chat that books a search for later is promised: the appointment  *)
(* comes to one end and stays there.  Its search starts, or the chat hears *)
(* why it does not, or the chat itself takes the appointment back; or it   *)
(* lapses with nobody there to start it.                                   *)
(***************************************************************************)
CONSTANT Appointment   \* the appointments of one chat, in the order they are made

VARIABLE fate

Fates == {"unmade", "booked", "started", "missed", "turned_away", "cancelled", "replaced",
          "lapsed"}

Init == fate = [a \in Appointment |-> "unmade"]

Becomes(a, from, to) ==
  /\ fate[a] = from
  /\ fate' = [fate EXCEPT ![a] = to]

\* A chat holds one appointment; a new one takes the place of the last.
Book(a) ==
  /\ fate[a] = "unmade"
  /\ fate' = [b \in Appointment |-> CASE b = a -> "booked"
                                      [] fate[b] = "booked" -> "replaced"
                                      [] OTHER -> fate[b]]

Start(a)    == Becomes(a, "booked", "started")
Miss(a)     == Becomes(a, "booked", "missed")
TurnAway(a) == Becomes(a, "booked", "turned_away")
Cancel(a)   == Becomes(a, "booked", "cancelled")

Lapse(a)    == Becomes(a, "booked", "lapsed")

Next == \E a \in Appointment :
  Book(a) \/ Start(a) \/ Miss(a) \/ TurnAway(a) \/ Cancel(a) \/ Lapse(a)

Spec == Init /\ [][Next]_fate
=============================================================================
