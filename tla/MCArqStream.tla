---------------------------- MODULE MCArqStream ----------------------------
(* Instances of ArqStream for TLC: a short stream of distinct bytes.       *)
EXTENDS ArqStream

OneByte == <<1>>
ThreeBytes == <<1, 2, 3>>
=============================================================================
