------------------------------ MODULE BytePipe ------------------------------
(***************************************************************************)
(* What one direction of a reliable channel promises its two applications: *)
(* bytes are read in the order in which they were written, and the end of  *)
(* the stream is reported when it was written and everything has been      *)
(* read.                                                                   *)
(***************************************************************************)
EXTENDS Integers, Sequences

VARIABLES written, taken, shut, ended

Init == written = <<>> /\ taken = <<>> /\ shut = FALSE /\ ended = FALSE

Prefix(s, t) == Len(s) <= Len(t) /\ s = SubSeq(t, 1, Len(s))

Write == ~shut /\ Prefix(written, written') /\ UNCHANGED <<taken, shut, ended>>

Take == Prefix(taken, taken') /\ Prefix(taken', written) /\ UNCHANGED <<written, shut, ended>>

Shut == shut' = TRUE /\ UNCHANGED <<written, taken, ended>>

End == shut /\ taken = written /\ ended' = TRUE /\ UNCHANGED <<written, taken, shut>>

Next == Write \/ Take \/ Shut \/ End

Spec == Init /\ [][Next]_<<written, taken, shut, ended>>
=============================================================================
