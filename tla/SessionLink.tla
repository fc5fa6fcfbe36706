----------------------------- MODULE SessionLink -----------------------------
(***************************************************************************)
(* The two ends of a session and the transports between them: loss of the  *)
(* transport, the grace period, resumption by handshake over a new one,    *)
(* and closing (handleDisconnect, resumeWithConnection, keepAliveLoop and  *)
(* Close of session.go, writeLoop, Listener.handshake, dialer.resume).     *)
(*                                                                         *)
(* Transports are numbered from 1 in the order in which they are made; 0   *)
(* stands for nil.  Frames other than GOAWAY are not modelled.             *)
(***************************************************************************)
EXTENDS Integers, Sequences

CONSTANTS
  MaxConns,    \* bound: transports ever made
  KeepAlive,   \* Config.KeepAlive
  NonceLimit,  \* math.MaxUint16
  Breakable,   \* bound: the transports that may die by themselves
  MayClose,    \* the ends whose application may call Session.Close
  Writers      \* bound: the ends that have something to write

Ends == {"dialer", "listener"}
Conns == 1..MaxConns

ASSUME LinkAssumption ==
  /\ MaxConns \in Nat \ {0} /\ KeepAlive \in BOOLEAN
  /\ NonceLimit \in Nat \ {0} /\ Breakable \subseteq Conns
  /\ MayClose \subseteq Ends /\ Writers \subseteq Ends

VARIABLES
  resumption,      \* per end: AllowConnectionResumption of the Session's config, which never changes
  made, alive,     \* transports made; those that still carry frames
  goaway,          \* pairs of end and transport: the end's GOAWAY is on it
  \* per end: the Session
  conn,            \* Session.conn
  epoch, suspended,
  closed,          \* no, closing (Session.closed is set), or done (conn is closed)
  timers,          \* epochs whose grace timers run
  fired,           \* a grace timer has passed its check and is about to Close
  reading,         \* the transport of the readLoop that holds readerMu
  readers,         \* transports of the readLoops that wait for it
  \* per end: the writeScheduler
  wconn, connReady,
  writer,          \* what writeLoop does: idle, wait, write, failed, exited
  wuses,           \* the transport it writes to
  \* resumption
  dialNonce,       \* dialer.nonce
  attempt,         \* dialer.resume: none, or [conn, nonce, pc]
  requests,        \* initiator handshakes on their way: [conn, nonce]
  answers,         \* transports with the responder's answer on them
  handling,        \* Listener.handshake goroutines: [conn, nonce, pc]
  nonce            \* activeSession.nonce

sessVars == <<conn, epoch, suspended, closed, timers, fired, reading, readers>>
writeVars == <<wconn, connReady, writer, wuses>>
handVars == <<dialNonce, attempt, requests, answers, handling, nonce>>
vars == <<resumption, made, alive, goaway, sessVars, writeVars, handVars>>

Peer(e) == IF e = "dialer" THEN "listener" ELSE "dialer"
NoAttempt == [conn |-> 0, nonce |-> 0, pc |-> "none"]

\* The listener's session has the listener's own config; the dialer keeps its own
\* setting only if the answer to its handshake agrees.
Init ==
  /\ resumption \in {r \in [Ends -> BOOLEAN] : r["dialer"] => r["listener"]}
  /\ made = 1 /\ alive = {1} /\ goaway = {}
  /\ conn = [e \in Ends |-> 1] /\ epoch = [e \in Ends |-> 0]
  /\ suspended = [e \in Ends |-> FALSE] /\ closed = [e \in Ends |-> "no"]
  /\ timers = [e \in Ends |-> {}] /\ fired = [e \in Ends |-> FALSE]
  /\ reading = [e \in Ends |-> 1] /\ readers = [e \in Ends |-> {}]
  /\ wconn = [e \in Ends |-> 1] /\ connReady = [e \in Ends |-> FALSE]
  /\ writer = [e \in Ends |-> "idle"] /\ wuses = [e \in Ends |-> 0]
  /\ dialNonce = 0 /\ attempt = NoAttempt /\ requests = {} /\ answers = {}
  /\ handling = {} /\ nonce = 0

-----------------------------------------------------------------------------
(* Session: losing, swapping and closing the transport                     *)

\* A transport dies; nobody is told.
Break(c) ==
  /\ c \in alive /\ alive' = alive \ {c}
  /\ UNCHANGED <<made, goaway, sessVars, writeVars, handVars>>

\* The first steps of Session.Close.
Closing(e) == closed' = [closed EXCEPT ![e] = IF @ = "no" THEN "closing" ELSE @]

\* Mutant: the failed transport is not compared with the current one.
DisconnectAny(e, c) ==
  IF closed[e] # "no" THEN UNCHANGED <<alive, conn, epoch, suspended, closed, timers, wconn, connReady>>
  ELSE IF ~resumption[e] THEN Closing(e) /\ UNCHANGED <<alive, conn, epoch, suspended, timers, wconn, connReady>>
  ELSE IF conn[e] = 0 THEN UNCHANGED <<alive, conn, epoch, suspended, closed, timers, wconn, connReady>>
  ELSE /\ conn' = [conn EXCEPT ![e] = 0] /\ alive' = alive \ {conn[e]}
       /\ epoch' = [epoch EXCEPT ![e] = @ + 1]
       /\ wconn' = [wconn EXCEPT ![e] = 0] /\ connReady' = [connReady EXCEPT ![e] = TRUE]
       /\ suspended' = [suspended EXCEPT ![e] = TRUE]
       /\ timers' = [timers EXCEPT ![e] = @ \union {epoch[e] + 1}]
       /\ UNCHANGED closed

\* Mutant: no grace timer is started.
DisconnectUntimed(e, c) ==
  IF closed[e] # "no" \/ conn[e] # c
    THEN UNCHANGED <<alive, conn, epoch, suspended, closed, timers, wconn, connReady>>
  ELSE /\ conn' = [conn EXCEPT ![e] = 0] /\ alive' = alive \ {c}
       /\ epoch' = [epoch EXCEPT ![e] = @ + 1]
       /\ wconn' = [wconn EXCEPT ![e] = 0] /\ connReady' = [connReady EXCEPT ![e] = TRUE]
       /\ suspended' = [suspended EXCEPT ![e] = TRUE]
       /\ UNCHANGED <<closed, timers>>

\* handleDisconnect(c), c # nil: ignored if c has been replaced; else the session
\* is suspended and its grace timer starts, or without resumption it is closed.
HandleDisconnect(e, c) ==
  IF closed[e] # "no" \/ (resumption[e] /\ conn[e] # c)
    THEN UNCHANGED <<alive, conn, epoch, suspended, closed, timers, wconn, connReady>>
  ELSE IF ~resumption[e]
    THEN Closing(e) /\ UNCHANGED <<alive, conn, epoch, suspended, timers, wconn, connReady>>
  ELSE /\ conn' = [conn EXCEPT ![e] = 0] /\ alive' = alive \ {c}
       /\ epoch' = [epoch EXCEPT ![e] = @ + 1]
       /\ wconn' = [wconn EXCEPT ![e] = 0] /\ connReady' = [connReady EXCEPT ![e] = TRUE]
       /\ suspended' = [suspended EXCEPT ![e] = TRUE]
       /\ timers' = [timers EXCEPT ![e] = @ \union {epoch[e] + 1}]
       /\ UNCHANGED closed

\* Mutant: the waiting writer is not told.
ResumeQuietly(e, c) ==
  /\ conn' = [conn EXCEPT ![e] = c] /\ alive' = alive \ {conn[e]}
  /\ epoch' = [epoch EXCEPT ![e] = @ + 1]
  /\ wconn' = [wconn EXCEPT ![e] = c] /\ UNCHANGED connReady
  /\ suspended' = [suspended EXCEPT ![e] = FALSE]
  /\ readers' = [readers EXCEPT ![e] = @ \union {c}]

\* resumeWithConnection(c): swap, close the old transport, start a readLoop.
ResumeWithConnection(e, c) ==
  /\ conn' = [conn EXCEPT ![e] = c] /\ alive' = alive \ {conn[e]}
  /\ epoch' = [epoch EXCEPT ![e] = @ + 1]
  /\ wconn' = [wconn EXCEPT ![e] = c] /\ connReady' = [connReady EXCEPT ![e] = TRUE]
  /\ suspended' = [suspended EXCEPT ![e] = FALSE]
  /\ readers' = [readers EXCEPT ![e] = @ \union {c}]

\* The grace timer: the check ...
GraceExpires(e, n) ==
  /\ n \in timers[e]
  /\ timers' = [timers EXCEPT ![e] = @ \ {n}]
  /\ fired' = [fired EXCEPT ![e] = @ \/ (closed[e] = "no" /\ suspended[e] /\ epoch[e] = n)]
  /\ UNCHANGED <<made, alive, goaway, conn, epoch, suspended, closed, reading, readers,
                 writeVars, handVars>>

\* ... and the Close.
GraceCloses(e) ==
  /\ fired[e]
  /\ fired' = [fired EXCEPT ![e] = FALSE] /\ Closing(e)
  /\ UNCHANGED <<made, alive, goaway, conn, epoch, suspended, timers, reading, readers,
                 writeVars, handVars>>

\* The application calls Session.Close.
AppClose(e) ==
  /\ e \in MayClose /\ closed[e] = "no" /\ Closing(e)
  /\ UNCHANGED <<made, alive, goaway, conn, epoch, suspended, timers, fired, reading, readers,
                 writeVars, handVars>>

\* The end of Session.Close, when the writer has exited or its time is over.
CloseConn(e) ==
  /\ closed[e] = "closing"
  /\ closed' = [closed EXCEPT ![e] = "done"] /\ alive' = alive \ {conn[e]}
  /\ UNCHANGED <<made, goaway, conn, epoch, suspended, timers, fired, reading, readers,
                 writeVars, handVars>>

\* keepAliveLoop: nothing has come in for KeepAliveTimeout, because the transport
\* is dead or because the peer's session no longer answers.
KeepAliveFails(e) ==
  /\ KeepAlive /\ closed[e] = "no" /\ conn[e] # 0
  /\ conn[e] \notin alive \/ closed[Peer(e)] # "no"
  /\ HandleDisconnect(e, conn[e])
  /\ UNCHANGED <<made, goaway, fired, reading, readers, writer, wuses, handVars>>

-----------------------------------------------------------------------------
(* readLoop                                                                *)

\* A new readLoop gets readerMu.
ReadLoop(e, c) ==
  /\ c \in readers[e] /\ reading[e] = 0
  /\ reading' = [reading EXCEPT ![e] = c] /\ readers' = [readers EXCEPT ![e] = @ \ {c}]
  /\ UNCHANGED <<made, alive, goaway, conn, epoch, suspended, closed, timers, fired,
                 writeVars, handVars>>

\* The read fails, or the loop sees that the session is closed, and returns.
ReadFails(e) ==
  /\ reading[e] # 0 /\ (reading[e] \notin alive \/ closed[e] # "no")
  /\ HandleDisconnect(e, reading[e])
  /\ reading' = [reading EXCEPT ![e] = 0]
  /\ UNCHANGED <<made, goaway, fired, readers, writer, wuses, handVars>>

\* FLG_GOAWAY: Close at once.
ReadGoAway(e) ==
  /\ reading[e] # 0 /\ <<Peer(e), reading[e]>> \in goaway
  /\ reading' = [reading EXCEPT ![e] = 0] /\ Closing(e)
  /\ UNCHANGED <<made, alive, goaway, conn, epoch, suspended, timers, fired, readers,
                 writeVars, handVars>>

-----------------------------------------------------------------------------
(* writeLoop                                                               *)

\* A batch is collected; the current transport is taken, or waited for.
WritePicks(e) ==
  /\ \/ e \in Writers /\ writer[e] = "idle" /\ UNCHANGED connReady
     \/ writer[e] = "wait" /\ connReady[e] /\ connReady' = [connReady EXCEPT ![e] = FALSE]
  /\ writer' = [writer EXCEPT ![e] = IF wconn[e] = 0 THEN "wait" ELSE "write"]
  /\ wuses' = [wuses EXCEPT ![e] = wconn[e]]
  /\ UNCHANGED <<made, alive, goaway, sessVars, wconn, handVars>>

\* writeBatch succeeds, or fails and handleDisconnect is called.
WriteBatch(e) ==
  /\ writer[e] = "write"
  /\ IF wuses[e] \in alive
       THEN /\ writer' = [writer EXCEPT ![e] = "idle"]
            /\ UNCHANGED <<alive, conn, epoch, suspended, closed, timers, wconn, connReady>>
       ELSE /\ writer' = [writer EXCEPT ![e] = "failed"]
            /\ HandleDisconnect(e, wuses[e])
  /\ UNCHANGED <<made, goaway, fired, reading, readers, wuses, handVars>>

\* Mutant: the writer's transport is cleared whichever it is.
AlterConnAlways(e) ==
  /\ writer[e] = "failed"
  /\ writer' = [writer EXCEPT ![e] = "idle"]
  /\ wconn' = [wconn EXCEPT ![e] = 0]
  /\ UNCHANGED <<made, alive, goaway, sessVars, connReady, wuses, handVars>>

\* alterConnIfSame.
AlterConnIfSame(e) ==
  /\ writer[e] = "failed"
  /\ writer' = [writer EXCEPT ![e] = "idle"]
  /\ wconn' = [wconn EXCEPT ![e] = IF @ = wuses[e] THEN 0 ELSE @]
  /\ UNCHANGED <<made, alive, goaway, sessVars, connReady, wuses, handVars>>

\* die: finalFlush writes a GOAWAY if there is a transport, then the loop ends.
FinalFlush(e) ==
  /\ closed[e] # "no" /\ writer[e] \in {"idle", "wait"}
  /\ writer' = [writer EXCEPT ![e] = "exited"]
  /\ goaway' = IF writer[e] = "idle" /\ wconn[e] \in alive THEN goaway \union {<<e, wconn[e]>>}
               ELSE goaway
  /\ UNCHANGED <<made, alive, sessVars, wconn, connReady, wuses, handVars>>

-----------------------------------------------------------------------------
(* Resumption: dialer.resume and Listener.handshake                        *)

\* Resume or autoResume: a fresh transport and the next nonce, one attempt at a
\* time (dialer.mu).
ResumeStart ==
  LET c == made + 1 IN
  /\ attempt = NoAttempt /\ closed["dialer"] = "no" /\ resumption["dialer"] /\ made < MaxConns
  /\ made' = c /\ dialNonce' = dialNonce + 1
  /\ IF dialNonce + 1 > NonceLimit
       THEN UNCHANGED <<alive, attempt, requests>>
       ELSE /\ alive' = alive \union {c}
            /\ attempt' = [conn |-> c, nonce |-> dialNonce + 1, pc |-> "sent"]
            /\ requests' = requests \union {[conn |-> c, nonce |-> dialNonce + 1]}
  /\ UNCHANGED <<goaway, sessVars, writeVars, answers, handling, nonce>>

\* The answer came and the session is still open at the last check.
ResumeAnswered ==
  /\ attempt.pc = "sent" /\ attempt.conn \in answers
  /\ closed["dialer"] = "no"
  /\ attempt' = [attempt EXCEPT !.pc = "checked"]
  /\ UNCHANGED <<made, alive, goaway, sessVars, writeVars, dialNonce, requests, answers,
                 handling, nonce>>

\* The attempt fails: no answer in time, or the session was closed.  The caller
\* closes the transport.
ResumeFails ==
  /\ attempt.pc = "sent"
  /\ attempt' = NoAttempt /\ alive' = alive \ {attempt.conn}
  /\ UNCHANGED <<made, goaway, sessVars, writeVars, dialNonce, requests, answers,
                 handling, nonce>>

ResumeDone ==
  /\ attempt.pc = "checked"
  /\ attempt' = NoAttempt
  /\ ResumeWithConnection("dialer", attempt.conn)
  /\ UNCHANGED <<made, goaway, closed, timers, fired, reading, writer, wuses, dialNonce, requests,
                 answers, handling, nonce>>

\* The listener reads a handshake (r may have been sent twice), finds the session,
\* and the nonce is larger than the last.
HandshakeRead(r) ==
  /\ r \in requests /\ closed["listener"] = "no"
  /\ r.nonce > nonce
  /\ \A h \in handling : h.conn # r.conn
  /\ handling' = handling \union {[conn |-> r.conn, nonce |-> r.nonce, pc |-> "load"]}
  /\ UNCHANGED <<made, alive, goaway, sessVars, writeVars, dialNonce, attempt, requests,
                 answers, nonce>>

\* The compare-and-swap loop: the nonce is taken or the handshake is refused.
HandshakeCAS(h) ==
  /\ h \in handling /\ h.pc = "load"
  /\ IF h.nonce <= nonce
       THEN /\ handling' = handling \ {h} /\ alive' = alive \ {h.conn}
            /\ UNCHANGED nonce
       ELSE /\ nonce' = h.nonce
            /\ handling' = (handling \ {h}) \union {[h EXCEPT !.pc = "won"]}
            /\ UNCHANGED alive
  /\ UNCHANGED <<made, goaway, sessVars, writeVars, dialNonce, attempt, requests, answers>>

\* The answer is written, or the write fails.
HandshakeAnswer(h) ==
  /\ h \in handling /\ h.pc = "won"
  /\ IF h.conn \in alive
       THEN /\ answers' = answers \union {h.conn}
            /\ handling' = (handling \ {h}) \union {[h EXCEPT !.pc = "answered"]}
       ELSE handling' = handling \ {h} /\ UNCHANGED answers
  /\ UNCHANGED <<made, alive, goaway, sessVars, writeVars, dialNonce, attempt, requests, nonce>>

\* resumeSession.
HandshakeDone(h) ==
  /\ h \in handling /\ h.pc = "answered"
  /\ handling' = handling \ {h}
  /\ ResumeWithConnection("listener", h.conn)
  /\ UNCHANGED <<made, goaway, closed, timers, fired, reading, writer, wuses, dialNonce, attempt,
                 requests, answers, nonce>>

-----------------------------------------------------------------------------
Fixed == UNCHANGED resumption
Resuming == Fixed /\ (ResumeAnswered \/ ResumeFails \/ ResumeDone)
Handling == Fixed /\ \E h \in handling : HandshakeCAS(h) \/ HandshakeAnswer(h) \/ HandshakeDone(h)
Reads(e) == Fixed /\ (ReadFails(e) \/ ReadGoAway(e) \/ \E c \in readers[e] : ReadLoop(e, c))
Writes(e) == Fixed /\ (WritePicks(e) \/ WriteBatch(e) \/ AlterConnIfSame(e) \/ FinalFlush(e))
Grace(e) == Fixed /\ (GraceCloses(e) \/ \E n \in timers[e] : GraceExpires(e, n))
Closes(e) == Fixed /\ CloseConn(e)
KeepAlives(e) == Fixed /\ KeepAliveFails(e)

Next ==
  \/ Fixed /\ \E c \in Breakable : Break(c)
  \/ \E e \in Ends : \/ Reads(e) \/ Writes(e) \/ Grace(e) \/ Closes(e) \/ KeepAlives(e)
                     \/ Fixed /\ AppClose(e)
  \/ Resuming \/ Handling
  \/ Fixed /\ (ResumeStart \/ \E r \in requests : HandshakeRead(r))

Spec == Init /\ [][Next]_vars

\* Read loops, keep-alives and closes go on and grace timers fire.  Nothing is
\* assumed of the network, of the writers, nor that anyone resumes.
Fairness ==
  \A e \in Ends : WF_vars(Reads(e)) /\ WF_vars(Grace(e)) /\ WF_vars(Closes(e)) /\ WF_vars(KeepAlives(e))
FairSpec == Spec /\ Fairness

-----------------------------------------------------------------------------
(* Properties                                                              *)

\* Session.conn and the writer's conn, swapped together under connMu but cleared
\* by writeLoop on its own (alterConnIfSame), agree while the session is open.
WriterAgrees ==
  \A e \in Ends : closed[e] = "no" => \/ wconn[e] = conn[e]
                                      \/ ~resumption[e]

\* writeLoop does not sleep through a resumption: if it waits for a transport and
\* there is one, connReady holds a token.
WriterWakes == \A e \in Ends : writer[e] = "wait" /\ wconn[e] # 0 => connReady[e]

\* handleDisconnect "with the transport that failed" never drops a transport that
\* works: an open session loses its transport only if that one is dead, if the
\* session is closed, or if a newer one takes its place.
OnlyDeadDropped ==
  [][\A e \in Ends : conn[e] # conn'[e] /\ conn'[e] = 0
       => conn[e] \notin alive \/ closed[Peer(e)] # "no"]_vars

\* When one end closes the session the other closes too, by GOAWAY or because its
\* transport dies and nobody resumes it.
ClosedTogether == \A e \in Ends : (closed[e] = "done") ~> (closed[Peer(e)] = "done")

=============================================================================
