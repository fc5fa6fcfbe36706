---------------------------- MODULE MCChannelRead ----------------------------
(* Instances of ChannelRead for TLC. *)
EXTENDS ChannelRead

ReadOnly == {"Read"}
BothOps == {"Read", "WriteTo"}
BothEndings == {"FIN", "GOAWAY"}
NoClose == {}
AllCloses == {"channel", "session"}

=============================================================================
