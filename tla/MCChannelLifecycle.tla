------------------------- MODULE MCChannelLifecycle -------------------------
(* Instance of ChannelLifecycle for TLC: one incarnation per end with time-*)
(* outs, or two without; the queue holds one frame.                        *)
EXTENDS ChannelLifecycle

CONSTANTS dialer, listener

TwoEnds == {dialer, listener}
DialerWrites(n) == [e \in TwoEnds |-> IF e = dialer THEN n ELSE 0]
CloseOrReopen ==
  {[opens |-> 1, writes |-> DialerWrites(2), depth |-> 1, early |-> 2, timeouts |-> TRUE],
   [opens |-> 2, writes |-> DialerWrites(1), depth |-> 1, early |-> 3, timeouts |-> FALSE]}

=============================================================================
