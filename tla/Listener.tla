------------------------------ MODULE Listener ------------------------------
(***************************************************************************)
(* A listener of listener.go and packetListener.go: the loop that accepts  *)
(* connections or demultiplexes datagrams to sub-connections by address,   *)
(* one handshake goroutine for each, the table of sessions, Accept, and    *)
(* Close racing with all of them.                                          *)
(*                                                                         *)
(* Connections, stream or packetSubConn, are numbered as they are made; a  *)
(* session has the number of the connection whose handshake made it.  The  *)
(* signatures and keys of a handshake are taken to be right: one that is   *)
(* not fails like one that times out.                                      *)
(***************************************************************************)
EXTENDS Integers, Sequences, FiniteSets, Functions

CONSTANTS
  MaxConns,   \* bound: connections ever made
  MaxSessions,\* bound: of those, the first so many may ask for a fresh session
  MaxNonce,   \* bound: nonces of resumption requests
  Addrs,      \* remote addresses of datagrams
  Backlog     \* capacity of acceptChan

ASSUME ListenerAssumption ==
  MaxConns \in Nat /\ MaxNonce \in Nat /\ Addrs # {} /\ Backlog \in Nat \ {0}

Conns == 1..MaxConns

VARIABLES
  kind,                            \* "stream" (Listen) or "packet" (ListenPacket)
  made, open,                      \* connections made, and those not closed
  addr,                            \* a sub-connection's remote address
  peers, peerConns,                \* sub-connections by address: peerUDPConns or peerIPConns, and peerConns
  leaving,                         \* closed sub-connections that still have to leave the map
  loop, from,                      \* streamAcceptLoop or packetReadLoop; whose datagram it holds
  hs, req,                         \* per connection: where its handshake is, and the request
  sess, sconn,                     \* per session: none, open, closing, released, closed; its connection
  hooks,                           \* sessions whose closeHooks hold forgetSession
  nonce, won,                      \* per session: activeSession.nonce, and the nonces that were accepted
  sessions, acceptChan, accept,    \* the table; sessions for Accept; whether an Accept is blocked
  lnClosed, die, acceptDone, sock, \* flags; sock: the underlying listener or socket is open
  lpc, toClose, subs,              \* Listener.Close
  late                             \* sessions saved after Close collected the table

mapVars == <<peers, peerConns>>
connVars == <<made, open, addr, mapVars, leaving>>
loopVars == <<loop, from>>
hsVars == <<hs, req>>
sessVars == <<sess, sconn, hooks>>
nonceVars == <<nonce, won>>
acceptVars == <<acceptChan, accept, acceptDone>>
closeVars == <<lnClosed, die, sock, lpc, toClose, subs>>
vars == <<kind, connVars, loopVars, hsVars, sessVars, nonceVars, sessions, late, acceptVars, closeVars>>

Fresh == [sid |-> 0, nonce |-> 0]

Init ==
  /\ kind \in {"stream", "packet"}
  /\ made = 0 /\ open = {} /\ leaving = {} /\ from \in Addrs
  /\ addr = [c \in Conns |-> from] /\ peers = [a \in Addrs |-> 0] /\ peerConns = peers
  /\ loop = IF kind = "stream" THEN "off" ELSE "top"
  /\ hs = [c \in Conns |-> "none"] /\ req = [c \in Conns |-> Fresh]
  /\ sess = [c \in Conns |-> "none"] /\ sconn = [c \in Conns |-> 0] /\ hooks = {}
  /\ nonce = [c \in Conns |-> 0] /\ won = [c \in Conns |-> <<>>]
  /\ sessions = {} /\ acceptChan = <<>> /\ accept = "idle" /\ acceptDone = FALSE
  /\ lnClosed = FALSE /\ die = FALSE /\ sock = TRUE
  /\ lpc = "idle" /\ toClose = {} /\ subs = {} /\ late = {}

-----------------------------------------------------------------------------
(* Closing connections and sessions                                        *)

\* Close of a connection; a sub-connection sets its flag and goes on to the map.
CloseConns(C) ==
  /\ open' = open \ C
  /\ leaving' = IF kind = "packet" THEN leaving \union (C \intersect open) ELSE leaving

\* Mutant: a closed sub-connection stays in the lookup map.
LeaveMapOther(c) ==
  /\ c \in leaving /\ leaving' = leaving \ {c}
  /\ peerConns' = [peerConns EXCEPT ![addr[c]] = 0]
  /\ UNCHANGED <<made, open, addr, peers, loopVars, hsVars, sessVars, nonceVars, sessions, late,
                 acceptVars, closeVars>>

\* The rest of packetSubConn.Close: the entries of its address are deleted,
\* whoever they are for.
LeaveMap(c) ==
  /\ c \in leaving /\ leaving' = leaving \ {c}
  /\ peers' = [peers EXCEPT ![addr[c]] = 0]
  /\ peerConns' = [peerConns EXCEPT ![addr[c]] = 0]
  /\ UNCHANGED <<made, open, addr, loopVars, hsVars, sessVars, nonceVars, sessions, late,
                 acceptVars, closeVars>>

\* Session.Close of s, if it is the first: the flag, and the hooks are taken.
CloseSession(s) == sess' = [sess EXCEPT ![s] = IF @ = "open" THEN "closing" ELSE @]

\* handleDisconnect: the session lets go of a connection that failed and waits for
\* a resumption.
SessionDrops(s) ==
  /\ sess[s] = "open" /\ sconn[s] # 0
  /\ CloseConns({sconn[s]}) /\ sconn' = [sconn EXCEPT ![s] = 0]
  /\ UNCHANGED <<made, addr, mapVars, loopVars, hsVars, sess, hooks, nonceVars, sessions, late,
                 acceptVars, closeVars>>

\* Session.Close by the application, on GOAWAY, or at the end of the grace period.
SessionCloses(s) ==
  /\ sess[s] = "open" /\ CloseSession(s)
  /\ UNCHANGED <<connVars, loopVars, hsVars, sconn, hooks, nonceVars, sessions, late,
                 acceptVars, closeVars>>

\* Session.Close closes the session's connection ...
SessionReleases(s) ==
  /\ sess[s] = "closing" /\ sess' = [sess EXCEPT ![s] = "released"]
  /\ CloseConns({sconn[s]})
  /\ UNCHANGED <<made, addr, mapVars, loopVars, hsVars, sconn, hooks, nonceVars, sessions, late,
                 acceptVars, closeVars>>

\* ... and runs the hooks: forgetSession.
SessionHooks(s) ==
  /\ sess[s] = "released" /\ sconn[s] \notin leaving
  /\ sess' = [sess EXCEPT ![s] = "closed"]
  /\ sessions' = IF s \in hooks THEN sessions \ {s} ELSE sessions
  /\ UNCHANGED <<connVars, loopVars, hsVars, sconn, hooks, nonceVars, late, acceptVars, closeVars>>

-----------------------------------------------------------------------------
(* streamAcceptLoop and packetReadLoop                                     *)

\* A connection is made and its handshake goroutine started.
Connect(a) ==
  LET c == made + 1 IN
  /\ made < MaxConns /\ made' = c /\ open' = open \union {c}
  /\ addr' = [addr EXCEPT ![c] = a] /\ hs' = [hs EXCEPT ![c] = "read"]

StreamAccept ==
  /\ kind = "stream" /\ loop = "read" /\ sock /\ Connect(from)
  /\ UNCHANGED <<mapVars, leaving, loopVars, req, sessVars, nonceVars, sessions, late,
                 acceptVars, closeVars>>

\* The underlying listener is closed: the error is kept for Accept.
StreamAcceptFails ==
  /\ kind = "stream" /\ loop = "read" /\ ~sock
  /\ loop' = "ended" /\ acceptDone' = TRUE
  /\ UNCHANGED <<connVars, from, hsVars, sessVars, nonceVars, sessions, late,
                 acceptChan, accept, closeVars>>

PacketLoopTop ==
  /\ loop = "top" /\ loop' = IF lnClosed THEN "ended" ELSE "read"
  /\ UNCHANGED <<connVars, from, hsVars, sessVars, nonceVars, sessions, late, acceptVars, closeVars>>

\* A datagram from a, for the open sub-connection of that address or a new one.
PacketRead(a) ==
  /\ kind = "packet" /\ loop = "read" /\ sock /\ from' = a
  /\ loop' = IF peers[a] \in open THEN "top" ELSE "register"
  /\ UNCHANGED <<connVars, hsVars, sessVars, nonceVars, sessions, late, acceptVars, closeVars>>

PacketReadFails ==
  /\ kind = "packet" /\ loop = "read" /\ ~sock /\ loop' = "ended"
  /\ UNCHANGED <<connVars, from, hsVars, sessVars, nonceVars, sessions, late, acceptVars, closeVars>>

PacketRegister ==
  /\ loop = "register" /\ loop' = "top" /\ Connect(from)
  /\ peers' = [peers EXCEPT ![from] = made + 1]
  /\ peerConns' = [peerConns EXCEPT ![from] = made + 1]
  /\ UNCHANGED <<leaving, from, req, sessVars, nonceVars, sessions, late, acceptVars, closeVars>>

-----------------------------------------------------------------------------
(* handshake, handleIncomingStreamConn and handleIncomingPacketConn        *)

\* A call on the connection can succeed: a sub-connection also looks at ln.closed.
Usable(c) == c \in open /\ (kind = "packet" => ~lnClosed)

Goes(c, pc) == hs' = [hs EXCEPT ![c] = pc] /\ UNCHANGED req
Ends(c) == hs' = [hs EXCEPT ![c] = "done"] /\ req' = [req EXCEPT ![c] = Fresh]

\* A request is read.  A resumption must name a session of the table that is not
\* closed (getSession), with a nonce larger than the last.
HandshakeRead(c, r) ==
  /\ hs[c] = "read" /\ Usable(c) /\ req' = [req EXCEPT ![c] = r]
  /\ \/ r = Fresh /\ c <= MaxSessions /\ hs' = [hs EXCEPT ![c] = "answer"]
     \/ /\ r.sid \in sessions /\ sess[r.sid] = "open" /\ r.nonce > nonce[r.sid]
        /\ hs' = [hs EXCEPT ![c] = "cas"]
  /\ UNCHANGED <<connVars, loopVars, sessVars, nonceVars, sessions, late, acceptVars, closeVars>>

\* The handshake fails: refused, malformed, timed out, or an answer not written.
HandshakeFails(c) ==
  /\ hs[c] \in {"read", "answer"} /\ Ends(c) /\ CloseConns({c})
  /\ UNCHANGED <<made, addr, mapVars, loopVars, sessVars, nonceVars, sessions, late,
                 acceptVars, closeVars>>

\* Mutant: the nonce is stored without another look.
HandshakeStore(c) ==
  LET r == req[c] IN
  /\ hs[c] = "cas" /\ Goes(c, "answer")
  /\ nonce' = [nonce EXCEPT ![r.sid] = r.nonce]
  /\ won' = [won EXCEPT ![r.sid] = Append(@, r.nonce)]
  /\ UNCHANGED <<connVars, loopVars, sessVars, sessions, late, acceptVars, closeVars>>

\* The compare-and-swap loop on the nonce.
HandshakeCAS(c) ==
  LET r == req[c] IN
  /\ hs[c] = "cas"
  /\ IF r.nonce <= nonce[r.sid]
       THEN Ends(c) /\ CloseConns({c}) /\ UNCHANGED nonceVars
       ELSE /\ Goes(c, "answer") /\ UNCHANGED <<open, leaving>>
            /\ nonce' = [nonce EXCEPT ![r.sid] = r.nonce]
            /\ won' = [won EXCEPT ![r.sid] = Append(@, r.nonce)]
  /\ UNCHANGED <<made, addr, mapVars, loopVars, sessVars, sessions, late, acceptVars, closeVars>>

\* The answer is written; a fresh session is made, or the connection becomes the
\* resumed session's, whose old one is closed.  Whether a resumed session is offered
\* to Accept again is TransparentResumption, which an application may set.
HandshakeAnswer(c) ==
  LET s == req[c].sid IN
  /\ hs[c] = "answer" /\ Usable(c)
  /\ IF req[c] = Fresh
       THEN /\ Goes(c, "save")
            /\ sess' = [sess EXCEPT ![c] = "open"] /\ sconn' = [sconn EXCEPT ![c] = c]
            /\ UNCHANGED <<open, leaving>>
       ELSE /\ Ends(c) \/ Goes(c, "offer")
            /\ sconn' = [sconn EXCEPT ![s] = c] /\ CloseConns({sconn[s]})
            /\ UNCHANGED sess
  /\ UNCHANGED <<made, addr, mapVars, loopVars, hooks, nonceVars, sessions, late,
                 acceptVars, closeVars>>

\* saveSession ...
HandshakeSave(c) ==
  /\ hs[c] = "save" /\ Goes(c, "hook") /\ sessions' = sessions \union {c}
  /\ late' = IF lpc \in {"idle", "die", "collect"} THEN late ELSE late \union {c}
  /\ UNCHANGED <<connVars, loopVars, sessVars, nonceVars, acceptVars, closeVars>>

\* Mutant: the hook is added whether or not the session is closed.
HandshakeHookOnly(c) ==
  /\ hs[c] = "hook" /\ Goes(c, "offer") /\ hooks' = hooks \union {c}
  /\ UNCHANGED <<connVars, loopVars, sess, sconn, nonceVars, sessions, late, acceptVars, closeVars>>

\* ... then addCloseHook, which runs the hook at once if the session is closed.
HandshakeHook(c) ==
  /\ hs[c] = "hook" /\ Goes(c, "offer")
  /\ IF sess[c] = "open" THEN hooks' = hooks \union {c} /\ UNCHANGED sessions
                         ELSE sessions' = sessions \ {c} /\ UNCHANGED hooks
  /\ UNCHANGED <<connVars, loopVars, sess, sconn, nonceVars, late, acceptVars, closeVars>>

\* The session is handed to Accept ...
HandshakeOffer(c) ==
  /\ hs[c] = "offer" /\ Len(acceptChan) < Backlog /\ Ends(c)
  /\ acceptChan' = Append(acceptChan, IF req[c] = Fresh THEN c ELSE req[c].sid)
  /\ UNCHANGED <<connVars, loopVars, sessVars, nonceVars, sessions, late,
                 accept, acceptDone, closeVars>>

\* ... or the listener is closed: a stream listener closes the session, a packet
\* listener the connection.
HandshakeDies(c) ==
  /\ hs[c] = "offer" /\ die /\ Ends(c)
  /\ IF kind = "stream" THEN /\ CloseSession(IF req[c] = Fresh THEN c ELSE req[c].sid)
                             /\ UNCHANGED <<open, leaving>>
                        ELSE CloseConns({c}) /\ UNCHANGED sess
  /\ UNCHANGED <<made, addr, mapVars, loopVars, sconn, hooks, nonceVars, sessions, late,
                 acceptVars, closeVars>>

-----------------------------------------------------------------------------
(* Accept and Close                                                        *)

\* The first Accept of a stream listener starts its loop.
AcceptCall ==
  /\ accept = "idle" /\ accept' = "blocked"
  /\ loop' = IF loop = "off" THEN "read" ELSE loop
  /\ UNCHANGED <<connVars, from, hsVars, sessVars, nonceVars, sessions, late,
                 acceptChan, acceptDone, closeVars>>

AcceptTakes ==
  /\ accept = "blocked" /\ acceptChan # <<>> /\ accept' = "idle" /\ acceptChan' = Tail(acceptChan)
  /\ UNCHANGED <<connVars, loopVars, hsVars, sessVars, nonceVars, sessions, late, acceptDone, closeVars>>

AcceptFails ==
  /\ accept = "blocked" /\ (die \/ acceptDone) /\ accept' = "idle"
  /\ UNCHANGED <<connVars, loopVars, hsVars, sessVars, nonceVars, sessions, late,
                 acceptChan, acceptDone, closeVars>>

CloseFlag ==
  /\ lpc = "idle" /\ lpc' = "die" /\ lnClosed' = TRUE
  /\ UNCHANGED <<connVars, loopVars, hsVars, sessVars, nonceVars, sessions, late, acceptVars,
                 die, sock, toClose, subs>>

\* Mutant: die is not closed.
CloseDieSilent ==
  /\ lpc = "die" /\ lpc' = "collect"
  /\ UNCHANGED <<connVars, loopVars, hsVars, sessVars, nonceVars, sessions, late, acceptVars,
                 lnClosed, die, sock, toClose, subs>>

CloseDie ==
  /\ lpc = "die" /\ lpc' = "collect" /\ die' = TRUE
  /\ UNCHANGED <<connVars, loopVars, hsVars, sessVars, nonceVars, sessions, late, acceptVars,
                 lnClosed, sock, toClose, subs>>

\* Mutant: the table is emptied before it is read.
CloseCollectLate ==
  /\ lpc = "collect" /\ lpc' = "sessions" /\ toClose' = {} /\ sessions' = {}
  /\ UNCHANGED <<connVars, loopVars, hsVars, sessVars, nonceVars, late, acceptVars,
                 lnClosed, die, sock, subs>>

\* The table is emptied under its lock ...
CloseCollect ==
  /\ lpc = "collect" /\ lpc' = "sessions" /\ toClose' = sessions /\ sessions' = {}
  /\ UNCHANGED <<connVars, loopVars, hsVars, sessVars, nonceVars, late, acceptVars,
                 lnClosed, die, sock, subs>>

\* ... and the sessions are closed without it; Close of a session that another
\* goroutine closes waits for that one.
CloseNext(s) ==
  /\ lpc = "sessions" /\ s \in toClose
  /\ IF sess[s] = "closed" THEN toClose' = toClose \ {s} /\ UNCHANGED sess
                           ELSE CloseSession(s) /\ UNCHANGED toClose
  /\ UNCHANGED <<connVars, loopVars, hsVars, sconn, hooks, nonceVars, sessions, late, acceptVars,
                 lnClosed, die, sock, lpc, subs>>

\* The same for the sub-connections in peerConns.
CloseCollectSubs ==
  /\ lpc = "sessions" /\ toClose = {} /\ lpc' = "subs"
  /\ subs' = Range(peerConns) \ {0} /\ peerConns' = [a \in Addrs |-> 0]
  /\ UNCHANGED <<made, open, addr, peers, leaving, loopVars, hsVars, sessVars, nonceVars, sessions, late,
                 acceptVars, lnClosed, die, sock, toClose>>

CloseSub(c) ==
  /\ lpc = "subs" /\ c \in subs /\ c \notin leaving
  /\ IF c \in open THEN CloseConns({c}) /\ UNCHANGED subs
                   ELSE subs' = subs \ {c} /\ UNCHANGED <<open, leaving>>
  /\ UNCHANGED <<made, addr, mapVars, loopVars, hsVars, sessVars, nonceVars, sessions, late,
                 acceptVars, lnClosed, die, sock, lpc, toClose>>

CloseSocket ==
  /\ lpc = "subs" /\ subs = {} /\ lpc' = "done" /\ sock' = FALSE
  /\ UNCHANGED <<connVars, loopVars, hsVars, sessVars, nonceVars, sessions, late, acceptVars,
                 lnClosed, die, toClose, subs>>

-----------------------------------------------------------------------------
Requests == {Fresh} \union [sid : {s \in Conns : sess[s] # "none"}, nonce : 1..MaxNonce]

Fixed == UNCHANGED kind
Handshakes(c) ==
  Fixed /\ \/ HandshakeFails(c) \/ HandshakeCAS(c) \/ HandshakeAnswer(c) \/ HandshakeSave(c)
           \/ HandshakeHook(c) \/ HandshakeOffer(c) \/ HandshakeDies(c)
SessionEnds(s) == Fixed /\ (SessionReleases(s) \/ SessionHooks(s))
Leaves(c) == Fixed /\ LeaveMap(c)
Loops == Fixed /\ (StreamAcceptFails \/ PacketLoopTop \/ PacketReadFails \/ PacketRegister)
AcceptReturns == Fixed /\ (AcceptTakes \/ AcceptFails)
Closes ==
  Fixed /\ \/ CloseDie \/ CloseCollect \/ CloseCollectSubs \/ CloseSocket
           \/ \E s \in toClose : CloseNext(s)
           \/ \E c \in subs : CloseSub(c)

Next ==
  \/ \E c \in Conns : \/ Handshakes(c) \/ SessionEnds(c) \/ Leaves(c)
                      \/ Fixed /\ (SessionCloses(c) \/ SessionDrops(c))
                      \/ \E r \in Requests : Fixed /\ HandshakeRead(c, r)
  \/ Loops \/ AcceptReturns \/ Closes
  \/ Fixed /\ (StreamAccept \/ AcceptCall \/ CloseFlag)
  \/ \E a \in Addrs : Fixed /\ PacketRead(a)

Spec == Init /\ [][Next]_vars

\* Of the handshakes (which time out), the closes and the hooks in progress some one
\* goes on, and a blocked Accept returns when it can.  Nothing is assumed of the
\* clients, of the loops, nor that the application makes another call.
Goroutines == Closes \/ \E c \in Conns : Handshakes(c) \/ SessionEnds(c) \/ Leaves(c)
Fairness == WF_vars(Goroutines) /\ WF_vars(AcceptReturns)
FairSpec == Spec /\ Fairness

-----------------------------------------------------------------------------
(* Properties                                                              *)

\* "every session ever accepted stayed in ln.sessions forever" cannot happen again:
\* a closed session is in the table only until its handshake reaches addCloseHook.
NoStaleEntry == \A s \in sessions : sess[s] = "closed" => hs[s] = "hook"

\* Listener.Close leaves no session open that it could have seen: what is open
\* when it returns was saved after the table was collected.
OnlyLateSurvive ==
  lpc = "done" => \A s \in Conns : sess[s] = "open" => s \in late \/ hs[s] = "save"

\* The map of sub-connections keeps no closed one but those about to leave.
MapClean == \A a \in Addrs : peers[a] \in open \union leaving \union {0}

\* Nonces of one session win in increasing order, however handshakes overlap.
NoncesIncrease == \A s \in Conns : \A i \in 1..Len(won[s])-1 : won[s][i] < won[s][i+1]

\* After Close, an Accept in progress returns, every handshake goroutine ends, and
\* Close itself completes, though sessions and sub-connections close each other.
ShutsDown ==
  lnClosed ~> /\ lpc = "done" /\ accept = "idle"
              /\ \A c \in Conns : hs[c] \in {"none", "done"}
=============================================================================
