-------------------------- MODULE SessionLinkProofs --------------------------
(* Proofs about SessionLink, for any number of transports and nonces: the  *)
(* writer and the session use the same transport, a waiting writer is      *)
(* told of a new one, and no working transport is dropped.                 *)
EXTENDS SessionLink, TLAPS

-----------------------------------------------------------------------------
(* The inductive invariant                                                 *)

\* A transport that the dialer tries or a handshake names was made.
HandTypes ==
  /\ made \in Nat \ {0} /\ nonce \in Nat /\ dialNonce \in Nat
  /\ attempt \in [conn : 0..made, nonce : Nat, pc : {"none", "sent", "checked"}]
  /\ attempt.pc # "none" => attempt.conn # 0
  /\ requests \subseteq [conn : 1..made, nonce : Nat]
  /\ handling \subseteq [conn : 1..made, nonce : Nat, pc : {"load", "won", "answered"}]

EndTypes ==
  /\ conn \in [Ends -> 0..made] /\ wconn \in [Ends -> 0..made] /\ wuses \in [Ends -> 0..made]
  /\ writer \in [Ends -> {"idle", "wait", "write", "failed", "exited"}]
  /\ connReady \in [Ends -> BOOLEAN] /\ closed \in [Ends -> {"no", "closing", "done"}]
  /\ resumption \in [Ends -> BOOLEAN]

Used(e) == {conn[e], wconn[e], wuses[e]}

\* A transport is installed once at each end.  The listener relies on nonces: a
\* request for a transport that it has used is refused.
FreshInv ==
  /\ attempt.pc # "none" => attempt.conn \notin Used("dialer")
  /\ \A r, q \in requests : r.conn = q.conn => r = q
  /\ \A r \in requests : r.conn \in Used("listener") => r.nonce <= nonce
  /\ \A h \in handling :
       /\ [conn |-> h.conn, nonce |-> h.nonce] \in requests
       /\ h.pc # "load" => h.nonce <= nonce
       /\ h.conn \in Used("listener") => h.pc = "load" /\ h.nonce <= nonce
  /\ \A h, g \in handling : h.conn = g.conn => h = g

\* A writer uses some transport; once it failed the session no longer has that one.
FailedInv ==
  \A e \in Ends :
    /\ writer[e] \in {"write", "failed"} => wuses[e] # 0
    /\ writer[e] = "failed" /\ closed[e] = "no" /\ resumption[e] => conn[e] # wuses[e]

Types == HandTypes /\ EndTypes
IInv == Types /\ FreshInv /\ FailedInv /\ WriterAgrees /\ WriterWakes

-----------------------------------------------------------------------------
(* Kinds of steps                                                          *)

\* The session at e may lose c, which then was its transport.
Loses(e, c) ==
  /\ HandleDisconnect(e, c)
  /\ UNCHANGED <<resumption, made, wuses, handVars>>

\* Neither a transport nor a handshake is touched; a session may close.
Quiet ==
  /\ UNCHANGED <<resumption, made, conn, writeVars, handVars>>
  /\ \A e \in Ends : closed[e] # "no" => closed'[e] # "no"
  /\ closed' \in [Ends -> {"no", "closing", "done"}]

HandStep ==
  \/ ResumeStart \/ ResumeAnswered \/ ResumeFails \/ ResumeDone
  \/ \E h \in handling : HandshakeCAS(h) \/ HandshakeAnswer(h) \/ HandshakeDone(h)
  \/ \E r \in requests : HandshakeRead(r)

\* Every step is of one of these kinds.
LEMMA Kinds ==
  ASSUME EndTypes, Next
  PROVE  \/ Quiet
         \/ Fixed /\ HandStep
         \/ \E e \in Ends : \/ \E c : Loses(e, c) /\ UNCHANGED writer
                            \/ Writes(e)
<1>1. ASSUME Fixed, NEW c \in Breakable, Break(c) PROVE Quiet
  BY <1>1, Zenon DEF Break, Fixed, Quiet, EndTypes, sessVars, writeVars
<1>2. ASSUME NEW e \in Ends, Fixed, ReadGoAway(e) \/ (\E c \in readers[e] : ReadLoop(e, c)) PROVE Quiet
  BY <1>2, Zenon DEF ReadGoAway, ReadLoop, Closing, Fixed, Quiet, EndTypes, writeVars
<1>3. ASSUME NEW e \in Ends, Grace(e) \/ Closes(e) \/ (Fixed /\ AppClose(e)) PROVE Quiet
  BY <1>3, Zenon DEF Grace, Closes, GraceExpires, GraceCloses, CloseConn, AppClose, Closing, Fixed, Quiet,
    EndTypes, writeVars
<1>4. ASSUME NEW e \in Ends, Fixed, ReadFails(e) PROVE Loses(e, reading[e]) /\ UNCHANGED writer
  BY <1>4, Zenon DEF ReadFails, Loses, Fixed
<1>5. ASSUME NEW e \in Ends, KeepAlives(e) PROVE Loses(e, conn[e]) /\ UNCHANGED writer
  BY <1>5, Zenon DEF KeepAlives, KeepAliveFails, Loses, Fixed
<1>6. ASSUME NEW e \in Ends, Reads(e) PROVE Quiet \/ \E c : Loses(e, c) /\ UNCHANGED writer
  BY <1>2, <1>4, <1>6, Zenon DEF Reads
<1>7. ASSUME Resuming \/ Handling \/ (Fixed /\ (ResumeStart \/ \E r \in requests : HandshakeRead(r)))
      PROVE  Fixed /\ HandStep
  BY <1>7, Zenon DEF Resuming, Handling, HandStep
<1>8. ASSUME NEW e \in Ends, \/ Reads(e) \/ Writes(e) \/ Grace(e) \/ Closes(e) \/ KeepAlives(e)
                             \/ Fixed /\ AppClose(e)
      PROVE  Quiet \/ (\E c : Loses(e, c) /\ UNCHANGED writer) \/ Writes(e)
  BY <1>3, <1>5, <1>6, <1>8, Zenon
<1> QED BY <1>1, <1>7, <1>8, Zenon DEF Next

-----------------------------------------------------------------------------
(* Each kind keeps the invariant                                           *)

\* handleDisconnect at e changes nothing at the other end, closes the session, or
\* takes its transport from the session and the writer.
LEMMA LoseEffect ==
  ASSUME EndTypes, NEW e \in Ends, NEW c, HandleDisconnect(e, c)
  PROVE  \/ UNCHANGED <<conn, wconn, connReady, closed>>
         \/ ~resumption[e] /\ UNCHANGED <<conn, wconn, connReady>>
            /\ closed' = [closed EXCEPT ![e] = "closing"]
         \/ conn[e] = c /\ resumption[e] /\ conn' = [conn EXCEPT ![e] = 0]
            /\ wconn' = [wconn EXCEPT ![e] = 0] /\ connReady' = [connReady EXCEPT ![e] = TRUE]
            /\ UNCHANGED closed
BY Zenon DEF HandleDisconnect, Closing, EndTypes

\* handleDisconnect after a failed read or a missed keep-alive.
LEMMA LosesKeeps ==
  ASSUME IInv, NEW e \in Ends, NEW c, Loses(e, c), UNCHANGED writer
  PROVE  IInv'
<1>1. /\ UNCHANGED <<resumption, made, wuses, writer, nonce, dialNonce, attempt, requests, handling>>
      /\ HandleDisconnect(e, c)
  BY Zenon DEF Loses, handVars
<1>2. CASE UNCHANGED <<conn, wconn, connReady, closed>>
  BY <1>1, <1>2 DEF IInv, Types, HandTypes, EndTypes, FreshInv, FailedInv, WriterAgrees, WriterWakes, Used
<1>3. CASE ~resumption[e] /\ UNCHANGED <<conn, wconn, connReady>> /\ closed' = [closed EXCEPT ![e] = "closing"]
  BY <1>1, <1>3 DEF IInv, Types, HandTypes, EndTypes, FreshInv, FailedInv, WriterAgrees, WriterWakes, Used
<1>4. CASE /\ conn[e] = c /\ resumption[e] /\ conn' = [conn EXCEPT ![e] = 0]
           /\ wconn' = [wconn EXCEPT ![e] = 0] /\ connReady' = [connReady EXCEPT ![e] = TRUE]
           /\ UNCHANGED closed
  <2>1. Types'
    BY <1>1, <1>4 DEF IInv, Types, HandTypes, EndTypes
  <2>2. FreshInv'
    BY <1>1, <1>4 DEF IInv, Types, HandTypes, EndTypes, FreshInv, Used, Ends
  <2>3. FailedInv' /\ WriterAgrees' /\ WriterWakes'
    BY <1>1, <1>4, Zenon DEF IInv, Types, EndTypes, FailedInv, WriterAgrees, WriterWakes
  <2> QED BY <2>1, <2>2, <2>3 DEF IInv
<1> QED BY <1>1, <1>2, <1>3, <1>4, LoseEffect DEF IInv, Types

\* The steps of writeLoop.  That alterConnIfSame leaves the session's transport
\* alone is FailedInv.
LEMMA WritesKeep ==
  ASSUME IInv, NEW e \in Ends, Writes(e)
  PROVE  IInv'
<1>1. CASE WritePicks(e)
  <2>1. Types'
    BY <1>1, Zenon DEF Writes, Fixed, WritePicks, sessVars, handVars, IInv, Types, HandTypes, EndTypes
  <2>2. FreshInv'
    BY <1>1 DEF WritePicks, sessVars, handVars, IInv, Types, HandTypes, EndTypes, FreshInv, Used, Ends
  <2>3. FailedInv' /\ WriterAgrees' /\ WriterWakes'
    BY <1>1, Zenon DEF Writes, Fixed, WritePicks, sessVars, IInv, Types, EndTypes, FailedInv, WriterAgrees, WriterWakes
  <2> QED BY <2>1, <2>2, <2>3 DEF IInv
<1>2. CASE WriteBatch(e) /\ wuses[e] \in alive
  BY <1>2 DEF Writes, Fixed, WriteBatch, handVars, IInv, Types, HandTypes, EndTypes, FreshInv, FailedInv,
    WriterAgrees, WriterWakes, Used
<1>3. CASE WriteBatch(e) /\ wuses[e] \notin alive
  <2>1. /\ HandleDisconnect(e, wuses[e]) /\ writer[e] = "write" /\ writer' = [writer EXCEPT ![e] = "failed"]
        /\ UNCHANGED <<resumption, made, wuses, nonce, dialNonce, attempt, requests, handling>>
    BY <1>3, Zenon DEF Writes, Fixed, WriteBatch, handVars
  <2>2. Types'
    <3>1. HandTypes'
      BY <2>1, Zenon DEF IInv, Types, HandTypes
    <3>2. EndTypes /\ made' = made /\ made \in Nat
      BY <2>1, Zenon DEF IInv, Types, HandTypes
    <3>3. EndTypes'
      <4>1. CASE UNCHANGED <<conn, wconn, connReady, closed>>
        BY <2>1, <3>2, <4>1, Zenon DEF EndTypes
      <4>2. CASE UNCHANGED <<conn, wconn, connReady>> /\ closed' = [closed EXCEPT ![e] = "closing"]
        BY <2>1, <3>2, <4>2, Zenon DEF EndTypes
      <4>3. CASE /\ conn' = [conn EXCEPT ![e] = 0] /\ wconn' = [wconn EXCEPT ![e] = 0]
                 /\ connReady' = [connReady EXCEPT ![e] = TRUE] /\ UNCHANGED closed
        BY <2>1, <3>2, <4>3 DEF EndTypes
      <4> QED BY <2>1, <3>2, <4>1, <4>2, <4>3, LoseEffect
    <3> QED BY <3>1, <3>3 DEF Types
  <2>3. FreshInv'
    BY <2>1, LoseEffect DEF IInv, Types, HandTypes, EndTypes, FreshInv, Used, Ends
  <2>4. FailedInv' /\ WriterAgrees' /\ WriterWakes'
    BY <2>1 DEF HandleDisconnect, Closing, IInv, Types, EndTypes, FailedInv, WriterAgrees, WriterWakes
  <2> QED BY <2>2, <2>3, <2>4 DEF IInv
<1>4. CASE AlterConnIfSame(e)
  <2>1. Types'
    BY <1>4 DEF Writes, Fixed, AlterConnIfSame, sessVars, handVars, IInv, Types, HandTypes, EndTypes
  <2>2. FreshInv'
    BY <1>4 DEF AlterConnIfSame, sessVars, handVars, IInv, Types, HandTypes, EndTypes, FreshInv, Used, Ends
  <2>3. FailedInv' /\ WriterAgrees' /\ WriterWakes'
    BY <1>4, Zenon DEF Writes, Fixed, AlterConnIfSame, sessVars, IInv, Types, EndTypes, FailedInv, WriterAgrees,
      WriterWakes
  <2> QED BY <2>1, <2>2, <2>3 DEF IInv
<1>5. CASE FinalFlush(e)
  BY <1>5 DEF Writes, Fixed, FinalFlush, sessVars, handVars, IInv, Types, HandTypes, EndTypes, FreshInv,
    FailedInv, WriterAgrees, WriterWakes, Used
<1> QED BY <1>1, <1>2, <1>3, <1>4, <1>5 DEF Writes

\* A session that closes, and steps that touch neither transports nor handshakes.
LEMMA QuietKeeps ==
  ASSUME IInv, Quiet
  PROVE  IInv'
BY DEF Quiet, writeVars, handVars, IInv, Types, HandTypes, EndTypes, FreshInv, FailedInv, WriterAgrees,
  WriterWakes, Used

\* resumeWithConnection(c) at e keeps writer and session together, if e has not used
\* c before.
LEMMA ResumeKeeps ==
  ASSUME IInv, NEW e \in Ends, NEW c \in 1..made, c \notin Used(e), ResumeWithConnection(e, c),
         UNCHANGED <<resumption, made, closed, writer, wuses>>
  PROVE  EndTypes' /\ FailedInv' /\ WriterAgrees' /\ WriterWakes'
<1>1. EndTypes'
  BY DEF ResumeWithConnection, IInv, Types, HandTypes, EndTypes
<1>2. FailedInv'
  BY Zenon DEF ResumeWithConnection, IInv, Types, EndTypes, FailedInv, Used
<1>3. WriterAgrees' /\ WriterWakes'
  BY Zenon DEF ResumeWithConnection, IInv, Types, EndTypes, WriterAgrees, WriterWakes
<1> QED BY <1>1, <1>2, <1>3

\* The steps of resumption that install no transport.
LEMMA HandshakesKeep ==
  ASSUME IInv, Fixed,
         \/ ResumeStart \/ ResumeAnswered \/ ResumeFails
         \/ \E h \in handling : HandshakeCAS(h) \/ HandshakeAnswer(h)
         \/ \E r \in requests : HandshakeRead(r)
  PROVE  IInv'
<1>1. UNCHANGED <<resumption, sessVars, writeVars>> /\ made' \in Nat /\ made' >= made
  BY DEF Fixed, ResumeStart, ResumeAnswered, ResumeFails, HandshakeCAS, HandshakeAnswer, HandshakeRead,
    IInv, Types, HandTypes
<1>2. EndTypes' /\ FailedInv' /\ WriterAgrees' /\ WriterWakes'
  <2>1. UNCHANGED <<resumption, conn, wconn, wuses, writer, connReady, closed>>
    BY <1>1, Zenon DEF sessVars, writeVars
  <2>2. made \in Nat
    BY Zenon DEF IInv, Types, HandTypes
  <2>3. EndTypes'
    BY <1>1, <2>1, <2>2 DEF IInv, Types, EndTypes
  <2> QED BY <2>1, <2>3 DEF IInv, FailedInv, WriterAgrees, WriterWakes
<1>3. HandTypes' /\ FreshInv'
  <2>0. UNCHANGED <<conn, wconn, wuses>>
    BY <1>1, Zenon DEF sessVars, writeVars
  <2> USE DEF IInv, Types, HandTypes, FreshInv, Used
  <2>1. CASE ResumeStart
    <3>1. \A e \in Ends : made + 1 \notin Used(e)
      BY DEF EndTypes
    <3>2. CASE dialNonce + 1 > NonceLimit
      BY <2>0, <2>1, <3>2 DEF ResumeStart
    <3>3. CASE ~ (dialNonce + 1 > NonceLimit)
      <4>1. HandTypes'
        BY <2>1, <3>3 DEF ResumeStart
      <4>2. FreshInv'
        BY <2>0, <2>1, <3>1, <3>3 DEF ResumeStart, Ends
      <4> QED BY <4>1, <4>2
    <3> QED BY <3>2, <3>3
  <2>2. CASE ResumeAnswered \/ ResumeFails
    BY <2>0, <2>2 DEF ResumeAnswered, ResumeFails, NoAttempt
  <2>3. ASSUME NEW h \in handling, HandshakeCAS(h) PROVE HandTypes' /\ FreshInv'
    <3>1. HandTypes'
      BY <2>3 DEF HandshakeCAS
    <3>2. FreshInv'
      BY <2>0, <2>3 DEF HandshakeCAS
    <3> QED BY <3>1, <3>2
  <2>4. ASSUME NEW h \in handling, HandshakeAnswer(h) PROVE HandTypes' /\ FreshInv'
    <3>1. HandTypes'
      BY <2>4 DEF HandshakeAnswer
    <3>2. FreshInv'
      BY <2>0, <2>4 DEF HandshakeAnswer
    <3> QED BY <3>1, <3>2
  <2>5. ASSUME NEW r \in requests, HandshakeRead(r) PROVE HandTypes' /\ FreshInv'
    <3>1. HandTypes'
      BY <2>5 DEF HandshakeRead
    <3>2. FreshInv'
      BY <2>0, <2>5 DEF HandshakeRead
    <3> QED BY <3>1, <3>2
  <2> QED BY <2>1, <2>2, <2>3, <2>4, <2>5
<1> QED BY <1>2, <1>3 DEF IInv, Types

\* The dialer and the listener install a transport.
LEMMA InstallsKeep ==
  ASSUME IInv, Fixed, ResumeDone \/ \E h \in handling : HandshakeDone(h)
  PROVE  IInv'
<1>1. CASE ResumeDone
  <2>1. attempt.conn \in 1..made /\ attempt.conn \notin Used("dialer") /\ "dialer" \in Ends
    BY <1>1 DEF ResumeDone, IInv, Types, HandTypes, FreshInv, Ends
  <2>2. EndTypes' /\ FailedInv' /\ WriterAgrees' /\ WriterWakes'
    BY <1>1, <2>1, ResumeKeeps, Zenon DEF ResumeDone, Fixed
  <2>3. HandTypes'
    BY <1>1 DEF ResumeDone, NoAttempt, IInv, Types, HandTypes
  <2>4. FreshInv'
    BY <1>1, Zenon DEF ResumeDone, ResumeWithConnection, NoAttempt, IInv, Types, EndTypes, FreshInv, Used, Ends
  <2> QED BY <2>2, <2>3, <2>4 DEF IInv, Types
<1>2. ASSUME NEW h \in handling, HandshakeDone(h) PROVE IInv'
  <2>1. h.conn \in 1..made /\ h.conn \notin Used("listener") /\ "listener" \in Ends
    BY <1>2, Zenon DEF HandshakeDone, IInv, Types, HandTypes, FreshInv, Ends
  <2>2. EndTypes' /\ FailedInv' /\ WriterAgrees' /\ WriterWakes'
    BY <1>2, <2>1, ResumeKeeps, Zenon DEF HandshakeDone, Fixed
  <2>3. HandTypes'
    BY <1>2, Zenon DEF HandshakeDone, IInv, Types, HandTypes
  <2>4. FreshInv'
    <3>1. /\ conn' = [conn EXCEPT !["listener"] = h.conn] /\ wconn' = [wconn EXCEPT !["listener"] = h.conn]
          /\ handling' = handling \ {h} /\ h.nonce <= nonce
          /\ UNCHANGED <<wuses, attempt, requests, nonce>>
      BY <1>2, Zenon DEF HandshakeDone, ResumeWithConnection, IInv, FreshInv
    <3>2. Used("listener")' \subseteq Used("listener") \union {h.conn} /\ Used("dialer")' = Used("dialer")
      BY <3>1, Zenon DEF IInv, Types, EndTypes, Used, Ends
    <3>3. \A r \in requests : r.conn = h.conn => r.nonce <= nonce
      <4> DEFINE q == [conn |-> h.conn, nonce |-> h.nonce]
      <4>1. q \in requests /\ q.conn = h.conn /\ q.nonce <= nonce
        BY <3>1, Zenon DEF IInv, FreshInv
      <4>2. \A r \in requests : r.conn = q.conn => r = q
        BY <4>1, Zenon DEF IInv, FreshInv
      <4> QED BY <4>1, <4>2
    <3> HIDE DEF Used
    <3> QED BY <3>1, <3>2, <3>3 DEF IInv, FreshInv
  <2> QED BY <2>2, <2>3, <2>4 DEF IInv, Types
<1> QED BY <1>1, <1>2

-----------------------------------------------------------------------------
(* The theorems                                                            *)

\* IInv is an invariant.
LEMMA Invariance == Spec => []IInv
<1>1. Init => IInv
  BY DEF Init, IInv, Types, HandTypes, EndTypes, FreshInv, FailedInv, WriterAgrees, WriterWakes, Used,
    NoAttempt
<1>2. IInv /\ [Next]_vars => IInv'
  <2> SUFFICES ASSUME IInv, [Next]_vars PROVE IInv'
    BY Zenon
  <2>1. CASE UNCHANGED vars
    BY <2>1, Zenon DEF vars, sessVars, writeVars, handVars, IInv, Types, HandTypes, EndTypes, FreshInv, FailedInv,
      WriterAgrees, WriterWakes, Used
  <2>2. ASSUME Fixed, HandStep PROVE IInv'
    BY <2>2, HandshakesKeep, InstallsKeep, Zenon DEF HandStep
  <2>3. EndTypes
    BY Zenon DEF IInv, Types
  <2>4. CASE Next
    BY <2>2, <2>3, <2>4, Kinds, QuietKeeps, LosesKeeps, WritesKeep, Zenon
  <2> QED BY <2>1, <2>4
<1> QED BY <1>1, <1>2, PTL DEF Spec

\* Session.conn and the writer's transport agree while the session is open, for any
\* number of drops and resumptions: alterConnIfSame clears only what the session has
\* already given up.
THEOREM AgreementTheorem == Spec => []WriterAgrees
BY Invariance, PTL DEF IInv

\* A writer that waits for a transport finds the token in connReady when there is one.
THEOREM WakeTheorem == Spec => []WriterWakes
BY Invariance, PTL DEF IInv

\* handleDisconnect drops no transport that works, whoever reports the failure and
\* however late.
THEOREM DroppedTheorem == Spec => OnlyDeadDropped
<1> DEFINE Kept == \A e \in Ends : conn[e] # conn'[e] /\ conn'[e] = 0
                     => conn[e] \notin alive \/ closed[Peer(e)] # "no"
<1>1. ASSUME IInv, Next PROVE Kept
  <2> SUFFICES ASSUME NEW e \in Ends, conn[e] # 0, conn'[e] = 0, conn[e] \in alive
               PROVE  closed[Peer(e)] # "no"
    BY Zenon
  <2>0. EndTypes /\ HandTypes
    BY <1>1, Zenon DEF IInv, Types
  <2>1. ASSUME NEW d \in Ends, ReadFails(d) PROVE FALSE
    BY <2>0, <2>1, Zenon DEF ReadFails, HandleDisconnect, EndTypes
  <2>2. ASSUME NEW d \in Ends, KeepAliveFails(d) PROVE closed[Peer(e)] # "no"
    BY <2>0, <2>2, Zenon DEF KeepAliveFails, HandleDisconnect, EndTypes
  <2>3. ASSUME NEW d \in Ends, Writes(d) PROVE FALSE
    BY <2>0, <2>3, Zenon DEF Writes, WritePicks, WriteBatch, AlterConnIfSame, FinalFlush, HandleDisconnect,
      EndTypes, sessVars
  <2>4. ASSUME HandStep PROVE FALSE
    BY <2>0, <2>4 DEF HandStep, ResumeStart, ResumeAnswered, ResumeFails, ResumeDone, HandshakeCAS,
      HandshakeAnswer, HandshakeDone, HandshakeRead, ResumeWithConnection, EndTypes, HandTypes, sessVars
  <2>5. ASSUME NEW d \in Ends, \/ Grace(d) \/ Closes(d) \/ AppClose(d) \/ ReadGoAway(d)
                               \/ \E c \in readers[d] : ReadLoop(d, c)
        PROVE  FALSE
    BY <2>5, Zenon DEF Grace, GraceCloses, GraceExpires, Closes, CloseConn, AppClose, ReadGoAway, ReadLoop
  <2>6. ASSUME NEW c \in Breakable, Break(c) PROVE FALSE
    BY <2>6, Zenon DEF Break, sessVars
  <2>7. ASSUME NEW d \in Ends, \/ Reads(d) \/ Writes(d) \/ Grace(d) \/ Closes(d) \/ KeepAlives(d)
                               \/ Fixed /\ AppClose(d)
        PROVE  closed[Peer(e)] # "no"
    BY <2>1, <2>2, <2>3, <2>5, <2>7, Zenon DEF Reads, KeepAlives
  <2>8. ASSUME Resuming \/ Handling \/ ResumeStart \/ \E r \in requests : HandshakeRead(r) PROVE FALSE
    BY <2>4, <2>8, Zenon DEF Resuming, Handling, HandStep
  <2> QED BY <1>1, <2>6, <2>7, <2>8, Zenon DEF Next
<1>2. IInv /\ [Next]_vars => [Kept]_vars
  BY <1>1, Zenon
<1> QED BY <1>2, Invariance, PTL DEF Spec, OnlyDeadDropped
=============================================================================
