---------------------------- MODULE MCSessionLink ----------------------------
(* Instance of SessionLink for TLC. *)
EXTENDS SessionLink

FirstConn == {1}
DialerOnly == {"dialer"}

=============================================================================
