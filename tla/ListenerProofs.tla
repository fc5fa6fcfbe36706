--------------------------- MODULE ListenerProofs ---------------------------
(* Proofs about Listener, for any number of connections, nonces and        *)
(* addresses.  Each invariant is inductive together with the types of the  *)
(* variables it speaks of.                                                 *)
EXTENDS Listener, TLAPS

-----------------------------------------------------------------------------
(* Types                                                                   *)

HsStates == {"none", "read", "cas", "answer", "save", "hook", "offer", "done"}
SessStates == {"none", "open", "closing", "released", "closed"}
LnStates == {"idle", "die", "collect", "sessions", "subs", "done"}

ConnTypes ==
  /\ kind \in {"stream", "packet"} /\ made \in 0..MaxConns
  /\ open \subseteq 1..made /\ leaving \subseteq 1..made
  /\ from \in Addrs /\ addr \in [Conns -> Addrs] /\ peers \in [Addrs -> 0..made]
  /\ loop = "register" => kind = "packet"

HandshakeTypes ==
  /\ hs \in [Conns -> HsStates] /\ req \in [Conns -> [sid : 0..MaxConns, nonce : Nat]]
  /\ \A c \in Conns : hs[c] = "cas" => req[c].sid \in Conns
  /\ \A c \in Conns : c > made => hs[c] = "none"
  /\ sessions \subseteq Conns

SessionTypes ==
  /\ sess \in [Conns -> SessStates] /\ hooks \subseteq Conns /\ toClose \subseteq Conns
  /\ late \subseteq Conns /\ lpc \in LnStates

NonceTypes == nonce \in [Conns -> Nat] /\ won \in [Conns -> Seq(Nat)]

-----------------------------------------------------------------------------
(* The strengthenings                                                      *)

\* A session of the table waits for its hook, or has it and has not run it.
HookInv == \A s \in sessions : hs[s] = "hook" \/ (s \in hooks /\ sess[s] # "closed")

\* Where an open session is before Close collects the table, and after.
OpenInv ==
  \A s \in Conns : sess[s] = "open" =>
    \/ hs[s] = "save"
    \/ lpc \in {"idle", "die", "collect"} /\ s \in sessions
    \/ lpc = "sessions" /\ s \in toClose
    \/ lpc \in {"sessions", "subs", "done"} /\ s \in late

\* A sub-connection is in the map under its own address, and only a packet
\* listener has one.
MapInv ==
  \A a \in Addrs : peers[a] # 0 => kind = "packet" /\ addr[peers[a]] = a

\* The last nonce that won is the one stored.
NonceInv == \A s \in Conns : Len(won[s]) > 0 => won[s][Len(won[s])] <= nonce[s]

ConnInv == ConnTypes /\ MapInv /\ MapClean
HsInv == made \in 0..MaxConns /\ HandshakeTypes
TableInv == HsInv /\ SessionTypes /\ HookInv /\ OpenInv
WonInv == HsInv /\ NonceTypes /\ NonceInv /\ NoncesIncrease

-----------------------------------------------------------------------------
(* Connections and their map                                               *)

\* Connections are closed, or nothing happens to them.
Closing ==
  /\ open' \subseteq open /\ leaving' \subseteq leaving \union open
  /\ kind = "packet" => open \union leaving \subseteq open' \union leaving'
  /\ loop' = "register" => loop = "register"
  /\ UNCHANGED <<kind, made, addr, peers, from>>

\* CloseConns, which every Close of connections comes down to, is such a step.
LEMMA CloseConnsCloses ==
  ASSUME NEW C, CloseConns(C), UNCHANGED <<kind, made, addr, peers, loop, from>>
  PROVE  Closing
BY Zenon DEF CloseConns, Closing

\* Only a new connection, a registration, a datagram and LeaveMap do anything else
\* to connections and their map.
LEMMA ConnFrame ==
  ASSUME Next
  PROVE  \/ Closing
         \/ Fixed /\ StreamAccept
         \/ Fixed /\ PacketRegister
         \/ Fixed /\ \E a \in Addrs : PacketRead(a)
         \/ Fixed /\ \E c \in Conns : LeaveMap(c)
<1>1. ASSUME NEW c \in Conns, Handshakes(c) PROVE Closing
  <2> USE <1>1 DEF Fixed, connVars, mapVars, loopVars
  <2>1. CASE HandshakeFails(c) BY <2>1, CloseConnsCloses DEF HandshakeFails, Handshakes
  <2>2. CASE HandshakeCAS(c) BY <2>2, CloseConnsCloses DEF HandshakeCAS, Handshakes, Closing
  <2>3. CASE HandshakeAnswer(c) BY <2>3, CloseConnsCloses DEF HandshakeAnswer, Handshakes, Closing
  <2>4. CASE HandshakeDies(c) BY <2>4, CloseConnsCloses DEF HandshakeDies, Handshakes, Closing
  <2>5. CASE HandshakeSave(c) \/ HandshakeHook(c) \/ HandshakeOffer(c)
    BY <2>5, Zenon DEF HandshakeSave, HandshakeHook, HandshakeOffer, Handshakes, Closing
  <2> QED BY <2>1, <2>2, <2>3, <2>4, <2>5 DEF Handshakes
<1>2. ASSUME NEW s \in Conns, SessionEnds(s) \/ (Fixed /\ (SessionCloses(s) \/ SessionDrops(s)))
      PROVE  Closing
  BY <1>2, CloseConnsCloses, Zenon DEF SessionEnds, SessionReleases, SessionHooks, SessionCloses,
    SessionDrops, Fixed, Closing, connVars, mapVars, loopVars
<1>3. ASSUME Closes PROVE Closing
  BY <1>3, CloseConnsCloses, Zenon DEF Closes, CloseDie, CloseCollect, CloseCollectSubs, CloseSocket,
    CloseNext, CloseSub, Fixed, Closing, connVars, mapVars, loopVars
<1>4. ASSUME NEW c \in Conns, NEW r \in Requests, Fixed, HandshakeRead(c, r) PROVE Closing
  BY <1>4, Zenon DEF HandshakeRead, Fixed, Closing, connVars, mapVars, loopVars
<1>5. ASSUME AcceptReturns \/ (Fixed /\ (AcceptCall \/ CloseFlag)) PROVE Closing
  BY <1>5, Zenon DEF AcceptReturns, AcceptTakes, AcceptFails, AcceptCall, CloseFlag, Fixed, Closing,
    connVars, mapVars, loopVars
<1>6. ASSUME Fixed, StreamAcceptFails \/ PacketLoopTop \/ PacketReadFails PROVE Closing
  BY <1>6, Zenon DEF StreamAcceptFails, PacketLoopTop, PacketReadFails, Fixed, Closing,
    connVars, mapVars, loopVars
<1>7. CASE \E c \in Conns : \/ Handshakes(c) \/ SessionEnds(c) \/ Leaves(c)
                            \/ Fixed /\ (SessionCloses(c) \/ SessionDrops(c))
                            \/ \E r \in Requests : Fixed /\ HandshakeRead(c, r)
  BY <1>1, <1>2, <1>4, <1>7, Zenon DEF Leaves
<1>8. CASE Loops
  BY <1>6, <1>8, Zenon DEF Loops
<1> QED BY <1>3, <1>5, <1>7, <1>8 DEF Next

\* The invariant of the map is kept by every step.
LEMMA ConnStep == ConnInv /\ [Next]_vars => ConnInv'
<1> SUFFICES ASSUME ConnInv, [Next]_vars PROVE ConnInv'
  BY Zenon
<1> USE DEF ConnInv, ConnTypes, MapInv, MapClean, Conns
<1>1. CASE Closing
  BY <1>1, Zenon DEF Closing
<1>2. CASE Fixed /\ StreamAccept
  BY <1>2, ListenerAssumption DEF StreamAccept, Connect, Fixed, mapVars, loopVars
<1>3. CASE Fixed /\ PacketRegister
  BY <1>3, ListenerAssumption DEF PacketRegister, Connect, Fixed
<1>4. CASE Fixed /\ \E a \in Addrs : PacketRead(a)
  BY <1>4, Zenon DEF PacketRead, Fixed, connVars, mapVars
<1>5. ASSUME NEW c \in Conns, Fixed, LeaveMap(c) PROVE ConnInv'
  BY <1>5 DEF LeaveMap, Fixed, loopVars
<1>6. CASE UNCHANGED vars
  BY <1>6, Zenon DEF vars, connVars, mapVars, loopVars
<1> QED BY <1>1, <1>2, <1>3, <1>4, <1>5, <1>6, ConnFrame

\* The map of sub-connections keeps no closed one but those about to leave
\* (packetSubConn.Close), for any number of addresses and sub-connections.
THEOREM MapTheorem == Spec => []MapClean
<1>1. Init => ConnInv
  BY ListenerAssumption DEF Init, ConnInv, ConnTypes, MapInv, MapClean, Conns
<1> QED BY <1>1, ConnStep, PTL DEF Spec, ConnInv

-----------------------------------------------------------------------------
(* Handshakes                                                              *)

\* The steps of a handshake, one by one.
HandshakeStep(c) ==
  \/ HandshakeFails(c) \/ HandshakeCAS(c) \/ HandshakeAnswer(c) \/ HandshakeSave(c)
  \/ HandshakeHook(c) \/ HandshakeOffer(c) \/ HandshakeDies(c)
  \/ \E r \in Requests : HandshakeRead(c, r)

\* A step that is not one of a handshake starts one, or leaves them alone and at
\* most takes sessions out of the table.
LEMMA HandshakeFrame ==
  ASSUME Next
  PROVE  \/ \E c \in Conns : HandshakeStep(c)
         \/ (\E a : Connect(a)) /\ UNCHANGED <<req, sessVars, nonceVars, sessions, late, toClose, lpc>>
         \/ UNCHANGED <<made, hs, req, nonceVars>> /\ sessions' \subseteq sessions
<1> DEFINE Quiet == UNCHANGED <<made, hs, req, nonceVars>> /\ sessions' \subseteq sessions
<1> DEFINE Starts == (\E a : Connect(a)) /\ UNCHANGED <<req, sessVars, nonceVars, sessions, late, toClose, lpc>>
<1>1. ASSUME NEW s \in Conns, \/ SessionEnds(s) \/ Leaves(s)
                              \/ Fixed /\ (SessionCloses(s) \/ SessionDrops(s))
      PROVE  Quiet
  BY <1>1, Zenon DEF SessionEnds, SessionReleases, SessionHooks, SessionCloses, SessionDrops, Leaves,
    LeaveMap, connVars, hsVars, nonceVars
<1>2. ASSUME Closes PROVE Quiet
  BY <1>2, Zenon DEF Closes, CloseDie, CloseCollect, CloseCollectSubs, CloseSocket, CloseNext, CloseSub,
    connVars, hsVars, nonceVars
<1>3. ASSUME AcceptReturns \/ AcceptCall \/ CloseFlag PROVE Quiet
  BY <1>3, Zenon DEF AcceptReturns, AcceptTakes, AcceptFails, AcceptCall, CloseFlag, connVars, hsVars, nonceVars
<1>4. ASSUME NEW a \in Addrs, PacketRead(a) PROVE Quiet
  BY <1>4, Zenon DEF PacketRead, connVars, hsVars, nonceVars
<1>5. ASSUME Loops \/ StreamAccept PROVE Quiet \/ Starts
  <2>1. CASE StreamAcceptFails \/ PacketLoopTop \/ PacketReadFails
    BY <2>1, Zenon DEF StreamAcceptFails, PacketLoopTop, PacketReadFails, connVars, hsVars, nonceVars
  <2>2. CASE PacketRegister
    BY <2>2, Zenon DEF PacketRegister, closeVars
  <2>3. CASE StreamAccept
    BY <2>3, Zenon DEF StreamAccept, closeVars
  <2> QED BY <1>5, <2>1, <2>2, <2>3 DEF Loops
<1> HIDE DEF Quiet, Starts
<1>6. (\E c \in Conns : HandshakeStep(c)) \/ Starts \/ Quiet
  <2>1. ASSUME NEW c \in Conns, \/ Handshakes(c) \/ SessionEnds(c) \/ Leaves(c)
                                \/ Fixed /\ (SessionCloses(c) \/ SessionDrops(c))
                                \/ \E r \in Requests : Fixed /\ HandshakeRead(c, r)
        PROVE  HandshakeStep(c) \/ Quiet
    BY <2>1, <1>1, Zenon DEF Handshakes, HandshakeStep
  <2> QED BY <2>1, <1>2, <1>3, <1>4, <1>5, Zenon DEF Next
<1> QED BY <1>6 DEF Quiet, Starts

\* A handshake that has begun goes to any state but the compare-and-swap.
LEMMA HandshakeMoves ==
  ASSUME HsInv, NEW c \in Conns, hs[c] # "none",
         NEW st \in HsStates \ {"cas"}, hs' = [hs EXCEPT ![c] = st],
         \/ req' = req
         \/ \E r \in [sid : 0..MaxConns, nonce : Nat] : req' = [req EXCEPT ![c] = r],
         made' = made, sessions' \subseteq Conns
  PROVE  HsInv'
<1>1. hs' \in [Conns -> HsStates]
  BY Zenon DEF HsInv, HandshakeTypes
<1>2. req' \in [Conns -> [sid : 0..MaxConns, nonce : Nat]]
  BY DEF HsInv, HandshakeTypes
<1>3. \A d \in Conns : hs'[d] = "cas" => req'[d].sid \in Conns
  BY DEF HsInv, HandshakeTypes
<1>4. \A d \in Conns : d > made => hs'[d] = "none"
  BY Zenon DEF HsInv, HandshakeTypes
<1> QED BY <1>1, <1>2, <1>3, <1>4 DEF HsInv, HandshakeTypes

\* The types of handshakes are kept: a resumption names a session of the table.
LEMMA HandshakeTyped == HsInv /\ [Next]_vars => HsInv'
<1> SUFFICES ASSUME HsInv, [Next]_vars PROVE HsInv'
  BY Zenon
<1>1. ASSUME NEW c \in Conns, HandshakeStep(c) PROVE HsInv'
  <2> USE DEF Goes, Ends, connVars, HsStates
  <2>0. Fresh \in [sid : 0..MaxConns, nonce : Nat] /\ sessions \subseteq Conns
    BY ListenerAssumption DEF Fresh, HsInv, HandshakeTypes
  <2>1. CASE HandshakeFails(c)
    BY <2>0, <2>1, HandshakeMoves, Zenon DEF HandshakeFails
  <2>2. CASE HandshakeCAS(c)
    BY <2>0, <2>2, HandshakeMoves, Zenon DEF HandshakeCAS
  <2>3. CASE HandshakeAnswer(c)
    BY <2>0, <2>3, HandshakeMoves, Zenon DEF HandshakeAnswer
  <2>4. CASE HandshakeSave(c) \/ HandshakeHook(c)
    BY <2>0, <2>4, HandshakeMoves, Zenon DEF HandshakeSave, HandshakeHook
  <2>5. CASE HandshakeOffer(c) \/ HandshakeDies(c)
    BY <2>0, <2>5, HandshakeMoves, Zenon DEF HandshakeOffer, HandshakeDies
  <2>6. ASSUME NEW r \in Requests, HandshakeRead(c, r) PROVE HsInv'
    <3>1. r \in [sid : 0..MaxConns, nonce : Nat]
      BY ListenerAssumption DEF Requests, Fresh, Conns
    <3> QED BY <2>6, <3>1 DEF HandshakeRead, HsInv, HandshakeTypes
  <2> QED BY <1>1, <2>1, <2>2, <2>3, <2>4, <2>5, <2>6 DEF HandshakeStep
<1> USE ListenerAssumption DEF HsInv, HandshakeTypes, HsStates, Conns
<1>2. ASSUME NEW a, Connect(a), UNCHANGED <<req, sessions>> PROVE HsInv'
  BY <1>2 DEF Connect
<1>3. CASE UNCHANGED <<made, hs, req>> /\ sessions' \subseteq sessions
  BY <1>3, Zenon
<1>4. CASE UNCHANGED vars
  BY <1>4, Zenon DEF vars, connVars, hsVars
<1> QED BY <1>1, <1>2, <1>3, <1>4, HandshakeFrame, Zenon

\* Types hold at the start.
LEMMA HandshakeInit == Init => HsInv
BY ListenerAssumption DEF Init, HsInv, HandshakeTypes, HsStates, Conns, Fresh

-----------------------------------------------------------------------------
(* Nonces                                                                  *)

\* Only the compare-and-swap of a handshake changes nonces, and upwards.
LEMMA NonceStep == WonInv /\ [Next]_vars => WonInv'
<1> SUFFICES ASSUME WonInv, [Next]_vars PROVE WonInv'
  BY Zenon
<1>1. HsInv'
  BY HandshakeTyped, Zenon DEF WonInv
<1>2. ASSUME NEW c \in Conns, HandshakeCAS(c), ~ UNCHANGED nonceVars
      PROVE  (NonceTypes /\ NonceInv /\ NoncesIncrease)'
  <2> DEFINE s == req[c].sid
  <2> DEFINE n == req[c].nonce
  <2>1. /\ s \in Conns /\ n \in Nat /\ nonce \in [Conns -> Nat] /\ won \in [Conns -> Seq(Nat)]
        /\ n > nonce[s]
    BY <1>2 DEF HandshakeCAS, WonInv, HsInv, HandshakeTypes, NonceTypes
  <2>2. nonce' = [nonce EXCEPT ![s] = n] /\ won' = [won EXCEPT ![s] = Append(@, n)]
    BY <1>2, Zenon DEF HandshakeCAS
  <2> HIDE DEF s, n
  <2>3. NonceTypes'
    BY <2>1, <2>2 DEF NonceTypes
  <2>4. NonceInv'
    BY <2>1, <2>2 DEF NonceInv, WonInv
  <2>5. NoncesIncrease'
    <3> SUFFICES ASSUME NEW t \in Conns, NEW i \in 1..Len(won'[t])-1
                 PROVE  won'[t][i] < won'[t][i+1]
      BY Zenon DEF NoncesIncrease
    <3>1. CASE t # s
      BY <2>1, <2>2, <3>1, Zenon DEF NoncesIncrease, WonInv
    <3>2. CASE t = s
      <4>1. /\ won'[s] = Append(won[s], n) /\ won[s] \in Seq(Nat)
            /\ Len(won[s]) > 0 => won[s][Len(won[s])] <= nonce[s]
            /\ \A k \in 1..Len(won[s])-1 : won[s][k] < won[s][k+1]
        BY <2>1, <2>2, Zenon DEF NonceInv, NoncesIncrease, WonInv
      <4>2. nonce[s] \in Nat /\ n \in Nat /\ nonce[s] < n
        BY <2>1, Zenon
      <4>3. Len(won'[s]) = Len(won[s]) + 1 /\ won'[s][Len(won[s]) + 1] = n
            /\ \A k \in 1..Len(won[s]) : won'[s][k] = won[s][k]
        BY <4>1, <4>2
      <4>4. i \in 1..Len(won[s]) /\ Len(won[s]) \in Nat
        BY <3>2, <4>1, <4>3
      <4>5. CASE i < Len(won[s])
        BY <3>2, <4>1, <4>3, <4>4, <4>5
      <4>6. CASE i = Len(won[s])
        <5>1. won[s][i] \in Nat
          BY <4>1, <4>4
        <5>2. won'[t][i] = won[s][i] /\ won'[t][i+1] = n /\ won[s][i] <= nonce[s]
          BY <3>2, <4>1, <4>3, <4>4, <4>6
        <5> QED BY <4>2, <5>1, <5>2
      <4> QED BY <4>4, <4>5, <4>6
    <3> QED BY <3>1, <3>2
  <2> QED BY <2>3, <2>4, <2>5
<1>3. CASE UNCHANGED nonceVars
  BY <1>1, <1>3, Zenon DEF WonInv, NonceTypes, NonceInv, NoncesIncrease, nonceVars
<1>4. ASSUME NEW c \in Conns, HandshakeStep(c) PROVE UNCHANGED nonceVars \/ HandshakeCAS(c)
  BY <1>4, Zenon DEF HandshakeStep, HandshakeFails, HandshakeAnswer, HandshakeSave, HandshakeHook,
    HandshakeOffer, HandshakeDies, HandshakeRead
<1>5. CASE UNCHANGED vars
  BY <1>5, <1>3, Zenon DEF vars
<1> QED BY <1>1, <1>2, <1>3, <1>4, <1>5, HandshakeFrame DEF WonInv

\* However resumption handshakes overlap, the nonces that win for a session increase
\* (the compare-and-swap loop of handshake), for any number of connections.
THEOREM NonceTheorem == Spec => []NoncesIncrease
<1>1. Init => WonInv
  BY HandshakeInit DEF Init, WonInv, NonceTypes, NonceInv, NoncesIncrease
<1> QED BY <1>1, NonceStep, PTL DEF Spec, WonInv

-----------------------------------------------------------------------------
(* The table of sessions                                                   *)

\* The invariants about the table without the types of handshakes.
InTable == SessionTypes /\ HookInv /\ OpenInv
tableVars == <<hs, sess, hooks, sessions, late, lpc, toClose>>

\* A step of a handshake keeps them: a session is saved, then gets its hook.
LEMMA TableHandshake ==
  ASSUME TableInv, NEW c \in Conns, HandshakeStep(c)
  PROVE  InTable'
<1> USE DEF TableInv, HsInv, HandshakeTypes, InTable, SessionTypes, HookInv, OpenInv, SessStates,
            LnStates, Goes, Ends, sessVars, closeVars
<1>1. CASE HandshakeFails(c)
  BY <1>1 DEF HandshakeFails
<1>2. CASE HandshakeCAS(c)
  BY <1>2 DEF HandshakeCAS
<1>3. CASE HandshakeAnswer(c)
  BY <1>3 DEF HandshakeAnswer
<1>4. CASE HandshakeSave(c)
  BY <1>4 DEF HandshakeSave
<1>5. CASE HandshakeHook(c)
  BY <1>5 DEF HandshakeHook
<1>6. CASE HandshakeOffer(c)
  BY <1>6, Zenon DEF HandshakeOffer
<1>7. CASE HandshakeDies(c)
  BY <1>7 DEF HandshakeDies, CloseSession
<1>8. ASSUME NEW r \in Requests, HandshakeRead(c, r) PROVE InTable'
  BY <1>8 DEF HandshakeRead
<1> QED BY <1>1, <1>2, <1>3, <1>4, <1>5, <1>6, <1>7, <1>8 DEF HandshakeStep

\* Sessions that end and Listener.Close keep them: the hook is run when the session
\* is closed, and what is in the table when it is collected is closed.
LEMMA TableCloses ==
  ASSUME TableInv,
         \/ Closes \/ CloseFlag
         \/ \E s \in Conns : SessionEnds(s) \/ SessionCloses(s)
  PROVE  InTable'
<1> USE DEF TableInv, InTable, SessionTypes, HookInv, OpenInv, SessStates, LnStates,
            CloseSession, hsVars, sessVars
<1>1. ASSUME NEW s \in Conns, SessionCloses(s) PROVE InTable'
  BY <1>1 DEF SessionCloses, closeVars
<1>2. ASSUME NEW s \in Conns, SessionReleases(s) PROVE InTable'
  BY <1>2, Zenon DEF SessionReleases, closeVars
<1>3. ASSUME NEW s \in Conns, SessionHooks(s) PROVE InTable'
  BY <1>3, Zenon DEF SessionHooks, closeVars
<1>4. CASE CloseFlag \/ CloseDie
  BY <1>4, Zenon DEF CloseFlag, CloseDie
<1>5. CASE CloseCollect
  BY <1>5, Zenon DEF CloseCollect, HsInv, HandshakeTypes
<1>6. ASSUME NEW s \in toClose, CloseNext(s) PROVE InTable'
  BY <1>6, Zenon DEF CloseNext
<1>7. CASE CloseCollectSubs \/ CloseSocket
  BY <1>7, Zenon DEF CloseCollectSubs, CloseSocket
<1>8. ASSUME NEW c \in subs, CloseSub(c) PROVE InTable'
  BY <1>8, Zenon DEF CloseSub
<1> QED BY <1>1, <1>2, <1>3, <1>4, <1>5, <1>6, <1>7, <1>8 DEF Closes, SessionEnds

\* A connection that is made is no session yet, and nothing else touches the table.
LEMMA TableFrame ==
  ASSUME Next
  PROVE  \/ \E c \in Conns : HandshakeStep(c)
         \/ Closes \/ CloseFlag
         \/ \E s \in Conns : SessionEnds(s) \/ SessionCloses(s)
         \/ (\E a : Connect(a)) /\ UNCHANGED <<req, sessVars, sessions, late, toClose, lpc>>
         \/ UNCHANGED tableVars
<1> DEFINE Starts == (\E a : Connect(a)) /\ UNCHANGED <<req, sessVars, sessions, late, toClose, lpc>>
<1> USE DEF tableVars, hsVars, sessVars, closeVars
<1>1. ASSUME NEW s \in Conns, Leaves(s) \/ SessionDrops(s) PROVE UNCHANGED tableVars
  BY <1>1, Zenon DEF Leaves, LeaveMap, SessionDrops
<1>2. ASSUME AcceptReturns \/ AcceptCall PROVE UNCHANGED tableVars
  BY <1>2, Zenon DEF AcceptReturns, AcceptTakes, AcceptFails, AcceptCall
<1>3. ASSUME NEW a \in Addrs, PacketRead(a) PROVE UNCHANGED tableVars
  BY <1>3, Zenon DEF PacketRead
<1>4. ASSUME Loops \/ StreamAccept PROVE Starts \/ UNCHANGED tableVars
  BY <1>4, Zenon DEF Loops, StreamAcceptFails, PacketLoopTop, PacketReadFails, PacketRegister, StreamAccept
<1> HIDE DEF Starts, tableVars
<1>5. \/ \E c \in Conns : HandshakeStep(c)
      \/ Closes \/ CloseFlag
      \/ \E s \in Conns : SessionEnds(s) \/ SessionCloses(s)
      \/ Starts \/ UNCHANGED tableVars
  BY <1>1, <1>2, <1>3, <1>4, Zenon DEF Next, Handshakes, HandshakeStep
<1> QED BY <1>5 DEF Starts

\* The invariant of the table is kept by every step.
LEMMA TableStep == TableInv /\ [Next]_vars => TableInv'
<1> SUFFICES ASSUME TableInv, [Next]_vars PROVE TableInv'
  BY Zenon
<1>1. HsInv'
  BY HandshakeTyped, Zenon DEF TableInv
<1>2. ASSUME NEW a, Connect(a), UNCHANGED <<req, sessVars, sessions, late, toClose, lpc>>
      PROVE  InTable'
  <2>1. made + 1 \in Conns /\ hs[made + 1] = "none" /\ hs' = [hs EXCEPT ![made + 1] = "read"]
    BY <1>2, ListenerAssumption DEF Connect, TableInv, HsInv, HandshakeTypes, Conns
  <2> QED BY <1>2, <2>1 DEF TableInv, HsInv, HandshakeTypes, InTable, SessionTypes, HookInv, OpenInv,
        sessVars
<1>3. CASE UNCHANGED tableVars
  BY <1>1, <1>3, Zenon DEF tableVars, TableInv, SessionTypes, HookInv, OpenInv
<1>4. CASE UNCHANGED vars
  BY <1>3, <1>4, Zenon DEF vars, tableVars, hsVars, sessVars, closeVars
<1> QED BY <1>1, <1>2, <1>3, <1>4, TableFrame, TableHandshake, TableCloses DEF TableInv, InTable

\* The invariant of the table holds at the start and always.
LEMMA TableAlways == Spec => []TableInv
<1>1. Init => TableInv
  BY HandshakeInit, Zenon DEF Init, TableInv, SessionTypes, SessStates, LnStates, HookInv, OpenInv
<1> QED BY <1>1, TableStep, PTL DEF Spec

\* A closed session is in the table only until its handshake reaches addCloseHook,
\* so the table does not grow with sessions that are gone.
THEOREM StaleTheorem == Spec => []NoStaleEntry
<1>1. TableInv => NoStaleEntry
  BY Zenon DEF TableInv, HookInv, NoStaleEntry
<1> QED BY <1>1, TableAlways, PTL

\* When Listener.Close has returned, only sessions saved after it collected the table
\* are open, for any number of handshakes in progress.
THEOREM LateTheorem == Spec => []OnlyLateSurvive
<1>1. TableInv => OnlyLateSurvive
  BY Zenon DEF TableInv, OpenInv, OnlyLateSurvive
<1> QED BY <1>1, TableAlways, PTL
=============================================================================
