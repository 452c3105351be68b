---------------------------- MODULE MCThreadSync ----------------------------
(* Instances of ThreadSync for TLC.                                        *)
EXTENDS ThreadSync

Scenario(mode, sends, kinds, found) ==
  [mode |-> mode, sends |-> sends, mishaps |-> kinds, preloaded |-> found]

\* The three lossless scenarios, everything at once, and an empty conversation.
AllScenarios ==
  { Scenario("ws", TRUE, {"reorder"}, 1),
    Scenario("ws", FALSE, {"disconnect"}, 1),
    Scenario("poll", FALSE, {"fetchFails"}, 1),
    Scenario("ws", TRUE, Kinds, 1),
    Scenario("poll", TRUE, Kinds, 1),
    Scenario("ws", TRUE, {"disconnect", "reorder"}, 0) }
=============================================================================
