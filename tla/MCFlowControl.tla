--------------------------- MODULE MCFlowControl ---------------------------
(* Instances of FlowControl for TLC.                                       *)
EXTENDS FlowControl

CONSTANTS a, b

OneChannel == {a}
TwoChannels == {a, b}
NoChannel == {}

=============================================================================
