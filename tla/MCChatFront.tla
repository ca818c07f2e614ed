----------------------------- MODULE MCChatFront -----------------------------
(* Two days with a train each, and the kinds of chat the runs look at. *)
EXTENDS ChatFrontProperties, TLC

CONSTANTS n1, d1, d2, t1, t2

MCTrainsOn == (d1 :> {t1}) @@ (d2 :> {t2})

Chat(uses, fixed, forms) == [uses |-> uses, fixed |-> fixed, forms |-> forms]

AllForms == {f \in Submissions : Valid(f)}
Solo     == {f \in AllForms : f.passengerCount = 1 /\ f.srcLocate = "shared"}
OneForm  == {f \in Solo : f.operator = "KORAIL" /\ f.depDate = d1}

\* One for each way of coming to a summary, and one for each way around the gate.
MCWorlds == {Chat({"chat", "back", "draft", "key_rotated"}, {}, {}),
             Chat({"chat", "favourite", "onboard", "logout", "leave"}, {}, {}),
             Chat({"chat", "back", "form"}, {}, AllForms),
             Chat({"chat", "draft", "schedule"}, {}, {}),
             Chat({"app", "schedule", "cancel", "app_was_down"}, {}, OneForm),
             Chat({"app", "gate", "both_at_once"}, {}, OneForm),
             Chat({"app", "favourite"}, {}, OneForm),
             Chat({"chat", "draft", "favourite"}, {"KORAIL"}, {})}
=============================================================================
