-------------------------- MODULE MCRandomSeating --------------------------
(* Three passengers where a turn can go wrong, two everywhere else. *)
EXTENDS SeatingProperties

Group(seats, uses) == [seats |-> seats, uses |-> uses]

MCWorlds == {Group(3, {"carry_on"}),
             Group(2, {"carry_on", "notify_off", "cancel", "give_back", "fails"}),
             Group(2, {"restart", "dies", "carry_on"}),
             Group(2, {"order_again", "cancel", "dies"})}
=============================================================================
