------------------------------ MODULE MCFraming ------------------------------
(* Instances of Framing for TLC. *)
EXTENDS Framing

Header(flag, ch, len, off) == [flag |-> flag, ch |-> ch, len |-> len, off |-> off]

\* Two payload lengths, the larger too long for a datagram of four cells.
Data == {Header("DATA", 1, 1, 0), Header("DATA", 2, 1, 0), Header("DATA", 1, 3, 0)}
Acks == {Header("ACK", 1, 0, off) : off \in {1, 2}} \union {Header("ACK", 2, 0, 1)}
Fins == {Header("FIN", 1, 0, 1)}
\* Credit of the session and of a channel, none, or more than a datagram's length.
Updates == {Header("UPD", 0, 1, 0), Header("UPD", 0, 5, 0), Header("UPD", 1, 0, 0), Header("UPD", 1, 1, 0)}

AllFrames == Data \union Acks \union Fins \union Updates

=============================================================================
