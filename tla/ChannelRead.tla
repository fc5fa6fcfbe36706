----------------------------- MODULE ChannelRead -----------------------------
(***************************************************************************)
(* The reading end of one channel, step by step: Read and WriteTo against  *)
(* readLoop feeding DATA, FIN and GOAWAY, the application closing the      *)
(* channel or the session, and finalize (channel.go; Close of session.go). *)
(* Every load and store of a flag that another goroutine uses is a step of *)
(* its own.  Payload is counted in frames; the ring is a queue of them.    *)
(***************************************************************************)
EXTENDS Integers, Sequences

CONSTANTS
  MaxData,     \* bound: DATA frames the peer sends
  MaxReads,    \* bound: Read or WriteTo calls
  Ops,         \* the calls the application makes, among "Read" and "WriteTo"
  Endings,     \* how the peer's stream may end, among "FIN" and "GOAWAY"
  LocalCloses  \* what the application may close, among "channel" and "session"

ASSUME ReadAssumption ==
  /\ MaxData \in Nat /\ MaxReads \in Nat /\ Ops \subseteq {"Read", "WriteTo"}
  /\ Endings \subseteq {"FIN", "GOAWAY"} /\ LocalCloses \subseteq {"channel", "session"}

VARIABLES
  \* the Channel, and Session.closed
  ring, ringClosed,   \* unread frames; RingBuffer.Close was called
  waitState, notify,  \* TRUE when waiting; the one-slot wake-up channel is full
  closed, closeChan, readDone, drainable, finQueued, drainOnce,
  fin,                \* finalizeOnce: no, lock (waits for readMu), locked, done
  goAway, sessClosed, \* goAwayRecv; no, goaway (readLoop closed the session) or local
  readMu,             \* nobody, reader, or finalize
  \* the reading goroutine
  op, pc, sawDone,    \* its call, where it is, the local sawDone
  reads, result,      \* calls made; what the last one returned: none, data, eof, err
  delivered,          \* frames handed to the application
  discarded,          \* frames thrown away unread
  \* other goroutines
  loop,               \* where readLoop is
  fed, ended,         \* frames pushed; the peer's stream has ended
  closer,             \* where the application's CloseWrite or Close is
  sessCloser          \* where Session.Close is (closeOnce: one goroutine runs it)

chanVars == <<ring, ringClosed, waitState, notify, closed, closeChan, readDone, drainable,
              finQueued, drainOnce, fin, goAway, sessClosed>>
readVars == <<readMu, op, pc, sawDone, reads, result, delivered, discarded>>
restVars == <<loop, fed, ended, closer, sessCloser>>
vars == <<chanVars, readVars, restVars>>

Init ==
  /\ ring = 0 /\ ringClosed = FALSE /\ waitState = FALSE /\ notify = FALSE
  /\ closed = FALSE /\ closeChan = FALSE /\ readDone = FALSE /\ drainable = FALSE
  /\ finQueued = FALSE /\ drainOnce = FALSE /\ fin = "no"
  /\ goAway = FALSE /\ sessClosed = "no"
  /\ readMu = "nobody" /\ op = "Read" /\ pc = "idle" /\ sawDone = FALSE
  /\ reads = 0 /\ result = "none" /\ delivered = 0 /\ discarded = 0
  /\ loop = "idle" /\ fed = 0 /\ ended = FALSE /\ closer = "no" /\ sessCloser = "no"

\* readAborted.
ReadAborted == closed \/ (sessClosed # "no" /\ ~drainable)

-----------------------------------------------------------------------------
(* Read and WriteTo                                                        *)

\* pc moves on; nothing else of the reader changes.
Goto(q) == pc' = q /\ UNCHANGED <<readMu, op, reads, result, delivered, discarded>>

\* The call returns r: readMu is released, the deferred check is still to come.
Return(r) ==
  /\ pc' = "deferred" /\ readMu' = "nobody" /\ result' = r
  /\ UNCHANGED <<op, reads>>

\* Entry: an aborted channel fails at once, else wait for readMu.
Start(o) ==
  /\ pc = "idle" /\ reads < MaxReads
  /\ reads' = reads + 1 /\ op' = o
  /\ IF ReadAborted THEN pc' = "idle" /\ result' = "err" ELSE pc' = "lock" /\ result' = "none"
  /\ UNCHANGED <<chanVars, readMu, sawDone, delivered, discarded, restVars>>

Lock ==
  /\ pc = "lock" /\ readMu = "nobody"
  /\ readMu' = "reader" /\ pc' = "scan" /\ sawDone' = FALSE
  /\ UNCHANGED <<chanVars, op, reads, result, delivered, discarded, restVars>>

\* The ring is emptied (as far as the buffer goes, and then Read returns), or
\* found empty.  WriteTo hands over one frame after another.
Scan(n) ==
  /\ pc = "scan"
  /\ IF ring = 0 THEN Goto("abort1") /\ UNCHANGED ring
     ELSE IF op = "Read" THEN /\ ring' = ring - n /\ delivered' = delivered + n
                              /\ Return("data") /\ UNCHANGED discarded
     ELSE Goto("copy") /\ UNCHANGED ring
  /\ UNCHANGED <<sawDone, ringClosed, waitState, notify, closed, closeChan, readDone, drainable,
                 finQueued, drainOnce, fin, goAway, sessClosed, restVars>>

\* w.Write of WriteTo, with readMu held: it takes the frame or fails.
Copy ==
  /\ pc = "copy"
  /\ \/ /\ ring' = ring - 1 /\ delivered' = delivered + 1 /\ pc' = "scan"
        /\ UNCHANGED <<readMu, op, reads, result, discarded>>
     \/ Return("err") /\ UNCHANGED <<ring, delivered, discarded>>
  /\ UNCHANGED <<sawDone, ringClosed, waitState, notify, closed, closeChan, readDone, drainable,
                 finQueued, drainOnce, fin, goAway, sessClosed, restVars>>

\* The readAborted checks, before and after waitState is set.
CheckAborted ==
  /\ pc \in {"abort1", "abort2"}
  /\ IF ReadAborted
       THEN /\ waitState' = (waitState /\ pc = "abort1")
            /\ Return("err") /\ UNCHANGED <<delivered, discarded>>
       ELSE /\ Goto(IF pc = "abort1" THEN "done1" ELSE "done2")
            /\ UNCHANGED waitState
  /\ UNCHANGED <<sawDone, ring, ringClosed, notify, closed, closeChan, readDone, drainable,
                 finQueued, drainOnce, fin, goAway, sessClosed, restVars>>

\* Mutant: the end of the stream is believed without a second scan.
CheckDoneOnce ==
  /\ pc \in {"done1", "done2"}
  /\ IF readDone
       THEN /\ waitState' = (waitState /\ pc = "done1")
            /\ Return("eof") /\ ringClosed' = TRUE /\ ring' = 0 /\ discarded' = discarded + ring
            /\ UNCHANGED <<sawDone, delivered>>
       ELSE /\ waitState' = TRUE
            /\ Goto(IF pc = "done1" THEN "rescan" ELSE "block")
            /\ UNCHANGED <<ring, ringClosed, sawDone>>
  /\ UNCHANGED <<notify, closed, closeChan, readDone, drainable,
                 finQueued, drainOnce, fin, goAway, sessClosed, restVars>>

\* Mutant: sawDone is never set, the scan starts again for ever.
CheckDoneForgets ==
  /\ pc \in {"done1", "done2"}
  /\ IF readDone THEN Goto("scan") /\ waitState' = FALSE
     ELSE Goto(IF pc = "done1" THEN "rescan" ELSE "block") /\ waitState' = TRUE
  /\ UNCHANGED <<sawDone, ring, ringClosed, notify, closed, closeChan, readDone, drainable,
                 finQueued, drainOnce, fin, goAway, sessClosed, restVars>>

\* The readDone checks.  The end of the stream counts when the ring was still
\* empty after it was seen; then the ring is closed.  WriteTo's second check
\* does not count.
CheckDone ==
  /\ pc \in {"done1", "done2"}
  /\ IF readDone
       THEN /\ waitState' = (waitState /\ pc = "done1")
            /\ IF sawDone /\ (op = "Read" \/ pc = "done1")
                 THEN /\ ringClosed' = TRUE /\ discarded' = discarded + ring /\ ring' = 0
                      /\ Return("eof") /\ UNCHANGED <<sawDone, delivered>>
                 ELSE /\ sawDone' = (sawDone \/ op = "Read" \/ pc = "done1")
                      /\ Goto("scan") /\ UNCHANGED <<ring, ringClosed>>
       ELSE /\ waitState' = TRUE
            /\ Goto(IF pc = "done1" THEN "rescan" ELSE "block")
            /\ UNCHANGED <<ring, ringClosed, sawDone>>
  /\ UNCHANGED <<notify, closed, closeChan, readDone, drainable,
                 finQueued, drainOnce, fin, goAway, sessClosed, restVars>>

\* Mutant: the ring is not looked at again after waitState is set.
RescanSkipped(n) ==
  /\ pc = "rescan" /\ Goto("abort2")
  /\ UNCHANGED <<chanVars, sawDone, restVars>>

\* The second look at the ring, after waitState is set.
Rescan(n) ==
  /\ pc = "rescan"
  /\ IF ring = 0 THEN Goto("abort2") /\ UNCHANGED <<ring, waitState, notify>>
     ELSE /\ waitState' = FALSE /\ notify' = FALSE
          /\ IF op = "Read" THEN /\ ring' = ring - n /\ delivered' = delivered + n
                                 /\ Return("data") /\ UNCHANGED discarded
             ELSE Goto("scan") /\ UNCHANGED ring
  /\ UNCHANGED <<sawDone, ringClosed, closed, closeChan, readDone, drainable,
                 finQueued, drainOnce, fin, goAway, sessClosed, restVars>>

\* The select: a token, or closeChan.
Block ==
  /\ pc = "block"
  /\ \/ notify /\ notify' = FALSE /\ waitState' = FALSE /\ Goto("scan")
     \/ /\ closeChan /\ waitState' = (waitState /\ op = "Read")
        /\ Return("err") /\ UNCHANGED <<notify, delivered, discarded>>
  /\ UNCHANGED <<sawDone, ring, ringClosed, closed, closeChan, readDone, drainable,
                 finQueued, drainOnce, fin, goAway, sessClosed, restVars>>

\* tryDrainRing and drainRing, once, if readMu is free.
Drains == readMu = "nobody" /\ ~drainOnce
DrainRing ==
  IF Drains THEN /\ discarded' = discarded + ring /\ ring' = 0 /\ ringClosed' = TRUE
                 /\ drainOnce' = TRUE
  ELSE UNCHANGED <<discarded, ring, ringClosed, drainOnce>>

\* The deferred function: an aborted reader drains the ring.
Deferred ==
  /\ pc = "deferred"
  /\ pc' = "idle"
  /\ IF ReadAborted THEN DrainRing ELSE UNCHANGED <<discarded, ring, ringClosed, drainOnce>>
  /\ UNCHANGED <<sawDone, readMu, op, reads, result, delivered, waitState, notify, closed, closeChan,
                 readDone, drainable, finQueued, fin, goAway, sessClosed, restVars>>

-----------------------------------------------------------------------------
(* finalize, run by whoever calls it first                                 *)

\* maybeFinalize of a channel with nothing unacknowledged, or finalize itself.
MaybeFinalize == fin' = IF fin = "no" /\ finQueued /\ readDone THEN "lock" ELSE fin
Finalize == fin' = IF fin = "no" THEN "lock" ELSE fin

FinalizeLock ==
  /\ fin = "lock" /\ readMu = "nobody"
  /\ fin' = "locked" /\ readMu' = "finalize"
  /\ UNCHANGED <<ring, ringClosed, waitState, notify, closed, closeChan, readDone, drainable,
                 finQueued, drainOnce, goAway, sessClosed, op, pc, sawDone, reads, result,
                 delivered, discarded, restVars>>

\* Mutant: the ring is closed whatever it still holds.
FinalizeAlways ==
  /\ fin = "locked"
  /\ fin' = "done" /\ readMu' = "nobody"
  /\ ringClosed' = TRUE /\ discarded' = discarded + ring /\ ring' = 0
  /\ UNCHANGED <<waitState, notify, closed, closeChan, readDone, drainable, finQueued, drainOnce,
                 goAway, sessClosed, op, pc, sawDone, reads, result, delivered, restVars>>

\* A drainable ring with unread frames survives for the reader.
FinalizeRing ==
  /\ fin = "locked"
  /\ fin' = "done" /\ readMu' = "nobody"
  /\ IF ~drainable \/ ring = 0
       THEN ringClosed' = TRUE /\ discarded' = discarded + ring /\ ring' = 0
       ELSE UNCHANGED <<ringClosed, discarded, ring>>
  /\ UNCHANGED <<waitState, notify, closed, closeChan, readDone, drainable, finQueued, drainOnce,
                 goAway, sessClosed, op, pc, sawDone, reads, result, delivered, restVars>>

-----------------------------------------------------------------------------
(* readLoop: DATA, FIN and GOAWAY                                          *)

\* feed and feedPayload: refused once closed, else pushed, then the waiter is woken.
FeedCheck ==
  /\ loop = "idle" /\ ~ended /\ fed < MaxData
  /\ ~closed /\ sessClosed = "no"
  /\ loop' = "push"
  /\ UNCHANGED <<chanVars, readVars, fed, ended, closer, sessCloser>>

FeedPush ==
  /\ loop = "push"
  /\ loop' = "look" /\ fed' = fed + 1
  /\ IF ringClosed THEN discarded' = discarded + 1 /\ UNCHANGED ring
                   ELSE ring' = ring + 1 /\ UNCHANGED discarded
  /\ UNCHANGED <<ringClosed, waitState, notify, closed, closeChan, readDone, drainable, finQueued,
                 drainOnce, fin, goAway, sessClosed, readMu, op, pc, sawDone, reads, result,
                 delivered, ended, closer, sessCloser>>

FeedWake ==
  /\ loop = "look"
  /\ loop' = "idle" /\ notify' = (notify \/ waitState)
  /\ UNCHANGED <<ring, ringClosed, waitState, closed, closeChan, readDone, drainable, finQueued,
                 drainOnce, fin, goAway, sessClosed, readVars, fed, ended, closer, sessCloser>>

\* remoteClose: drainable, readDone, wakeReader, maybeFinalize, in this order.
RemoteClose ==
  /\ \/ /\ loop = "idle" /\ ~ended /\ "FIN" \in Endings
        /\ ended' = TRUE /\ drainable' = TRUE /\ loop' = "readDone"
        /\ UNCHANGED <<readDone, notify, fin>>
     \/ /\ loop = "readDone" /\ readDone' = TRUE /\ loop' = "wake"
        /\ UNCHANGED <<drainable, notify, fin, ended>>
     \/ /\ loop = "wake" /\ notify' = TRUE /\ loop' = "final"
        /\ UNCHANGED <<drainable, readDone, fin, ended>>
     \/ /\ loop = "final" /\ MaybeFinalize /\ loop' = "finalized"
        /\ UNCHANGED <<drainable, readDone, notify, ended>>
  /\ UNCHANGED <<ring, ringClosed, waitState, closed, closeChan, finQueued, drainOnce, goAway,
                 sessClosed, readVars, fed, closer, sessCloser>>

\* readLoop goes on when finalize has returned; GOAWAY may still follow a FIN.
RemoteClosed ==
  /\ loop = "finalized" /\ fin \in {"no", "done"}
  /\ loop' = "idle"
  /\ UNCHANGED <<chanVars, readVars, fed, ended, closer, sessCloser>>

GoAway ==
  /\ loop = "idle" /\ "GOAWAY" \in Endings /\ ~goAway
  /\ goAway' = TRUE /\ loop' = "goaway" /\ ended' = TRUE
  /\ UNCHANGED <<ring, ringClosed, waitState, notify, closed, closeChan, readDone, drainable,
                 finQueued, drainOnce, fin, sessClosed, readVars, fed, closer, sessCloser>>

-----------------------------------------------------------------------------
(* The application closes the channel, and Session.Close                   *)

\* What closers leave alone: the reader, readLoop, and the fields they never touch.
CloserKeeps ==
  UNCHANGED <<waitState, goAway, readMu, op, pc, sawDone, reads, result, delivered, loop, fed, ended>>

\* Mutant: CloseWrite does not finalize a channel whose peer has finished.
CloseWriteOnly ==
  /\ closer = "no" /\ sessClosed = "no" /\ closer' = "halved"
  /\ finQueued' = TRUE
  /\ CloserKeeps
  /\ UNCHANGED <<ring, ringClosed, notify, closed, closeChan, readDone, drainable, drainOnce,
                 fin, sessClosed, discarded, sessCloser>>

\* closeWrite, which both CloseWrite and Close begin with, then maybeFinalize.
CloseWrite ==
  /\ \/ /\ closer = "no" /\ sessClosed = "no" /\ closer' = "half"
        /\ finQueued' = TRUE /\ UNCHANGED fin
     \/ closer = "half" /\ closer' = "halved" /\ MaybeFinalize /\ UNCHANGED finQueued
  /\ CloserKeeps
  /\ UNCHANGED <<ring, ringClosed, notify, closed, closeChan, readDone, drainable, drainOnce,
                 sessClosed, discarded, sessCloser>>

\* Close: closeWrite; under closeOnce: closed, closeChan and wakeReader, tryDrainRing;
\* then maybeFinalize.
Close ==
  /\ \/ /\ closer \in {"no", "halved"} /\ "channel" \in LocalCloses /\ finQueued' = TRUE
        /\ closer' = "once"
        /\ UNCHANGED <<closed, closeChan, notify, discarded, ring, ringClosed, drainOnce, fin>>
     \/ /\ closer = "once" /\ sessCloser # "closeChan"
        /\ closer' = (IF closed THEN "final" ELSE "closeChan") /\ closed' = TRUE
        /\ UNCHANGED <<finQueued, closeChan, notify, discarded, ring, ringClosed, drainOnce, fin>>
     \/ /\ closer = "closeChan" /\ closer' = "drain" /\ closeChan' = TRUE /\ notify' = TRUE
        /\ UNCHANGED <<finQueued, closed, discarded, ring, ringClosed, drainOnce, fin>>
     \/ /\ closer = "drain" /\ closer' = "final" /\ DrainRing
        /\ UNCHANGED <<finQueued, closed, closeChan, notify, fin>>
     \/ /\ closer = "final" /\ closer' = "end" /\ MaybeFinalize
        /\ UNCHANGED <<finQueued, closed, closeChan, notify, discarded, ring, ringClosed, drainOnce>>
  /\ CloserKeeps /\ UNCHANGED <<readDone, drainable, sessClosed, sessCloser>>

\* Session.Close, called by readLoop after GOAWAY or by the application: closed is
\* set, and later every channel sees peerGone or localClose.
SessionClose ==
  /\ sessClosed = "no" /\ sessCloser' = "pick"
  /\ \/ loop = "goaway" /\ sessClosed' = "goaway"
     \/ "session" \in LocalCloses /\ sessClosed' = "local"
  /\ CloserKeeps
  /\ UNCHANGED <<ring, ringClosed, notify, closed, closeChan, readDone, drainable, finQueued,
                 drainOnce, fin, discarded, closer>>

\* peerGone: finQueued and drainable, then readDone, wakeReader, finalize.
\* localClose: finQueued and closed, closeChan, readDone, wakeReader, tryDrainRing
\* unless drainable, finalize.
CloseChannel ==
  /\ \/ /\ sessCloser = "pick" /\ goAway /\ sessCloser' = "readDone"
        /\ finQueued' = TRUE /\ drainable' = TRUE
        /\ UNCHANGED <<closed, closeChan, readDone, notify, ring, ringClosed, drainOnce, discarded, fin>>
     \/ /\ sessCloser = "pick" /\ ~goAway /\ closer \notin {"closeChan", "drain"}
        /\ sessCloser' = (IF closed THEN "readDone" ELSE "closeChan")
        /\ finQueued' = TRUE /\ closed' = TRUE
        /\ UNCHANGED <<drainable, closeChan, readDone, notify, ring, ringClosed, drainOnce, discarded, fin>>
     \/ /\ sessCloser = "closeChan" /\ sessCloser' = "readDone" /\ closeChan' = TRUE
        /\ UNCHANGED <<finQueued, drainable, closed, readDone, notify, ring, ringClosed, drainOnce,
                       discarded, fin>>
     \/ /\ sessCloser = "readDone" /\ sessCloser' = "wake" /\ readDone' = TRUE
        /\ UNCHANGED <<finQueued, drainable, closed, closeChan, notify, ring, ringClosed, drainOnce,
                       discarded, fin>>
     \/ /\ sessCloser = "wake" /\ sessCloser' = "drain" /\ notify' = TRUE
        /\ UNCHANGED <<finQueued, drainable, closed, closeChan, readDone, ring, ringClosed, drainOnce,
                       discarded, fin>>
     \/ /\ sessCloser = "drain" /\ sessCloser' = "finalize"
        /\ IF drainable THEN UNCHANGED <<discarded, ring, ringClosed, drainOnce>> ELSE DrainRing
        /\ UNCHANGED <<finQueued, drainable, closed, closeChan, readDone, notify, fin>>
     \/ /\ sessCloser = "finalize" /\ sessCloser' = "end" /\ Finalize
        /\ UNCHANGED <<finQueued, drainable, closed, closeChan, readDone, notify, ring, ringClosed,
                       drainOnce, discarded>>
  /\ CloserKeeps /\ UNCHANGED <<sessClosed, closer>>

-----------------------------------------------------------------------------
Reading ==
  \/ Lock \/ Copy \/ CheckAborted \/ CheckDone \/ Block \/ Deferred
  \/ \E n \in 1..MaxData : n <= ring /\ (Scan(n) \/ Rescan(n))
  \/ ring = 0 /\ (Scan(0) \/ Rescan(0))
Finalizing == FinalizeLock \/ FinalizeRing
Looping == FeedPush \/ FeedWake \/ RemoteClosed \/ (loop # "idle" /\ RemoteClose)
Closing == (closer \notin {"no", "halved"} /\ (CloseWrite \/ Close)) \/ CloseChannel
           \/ (loop = "goaway" /\ SessionClose)
Inputs == (\E o \in Ops : Start(o)) \/ FeedCheck \/ RemoteClose \/ GoAway \/ CloseWrite \/ Close
          \/ SessionClose

Next == Reading \/ Finalizing \/ Looping \/ Closing \/ Inputs

Spec == Init /\ [][Next]_vars

\* Every goroutine that has begun an operation goes on; w.Write returns.
Fairness == WF_vars(Reading) /\ SF_vars(Lock) /\ SF_vars(FinalizeLock) /\ WF_vars(FinalizeRing)
            /\ WF_vars(Looping) /\ WF_vars(closer \notin {"no", "halved"} /\ (CloseWrite \/ Close))
            /\ WF_vars(CloseChannel) /\ WF_vars(loop = "goaway" /\ SessionClose)
FairSpec == Spec /\ Fairness

-----------------------------------------------------------------------------

\* Nobody else is in the middle of an operation.
OthersIdle ==
  /\ loop \in {"idle", "goaway"} /\ (loop = "goaway" => sessCloser = "end")
  /\ closer \in {"no", "halved", "end"} /\ sessCloser \in {"no", "end"} /\ fin \in {"no", "lock", "done"}

\* A reader that blocks in Read's or WriteTo's select while a frame is in the
\* ring, the stream has ended or the channel is closed has a token in notify or
\* a closed closeChan once the goroutine that caused it has gone on: no wake-up
\* is lost between the reader's waitState and the feeder's look at it.
NoLostWakeup ==
  pc = "block" /\ OthersIdle /\ (ring > 0 \/ readDone \/ closed) => notify \/ closeChan

\* A step in which Read returns io.EOF, or WriteTo nil, finds the stream ended and
\* the ring empty before it closes the ring itself; and the reader has been given
\* every frame, unless a close of the channel or of the session took some away.
EOFComplete ==
  [][result' = "eof" /\ result # "eof" =>
       ended /\ ring = 0 /\ (delivered = fed \/ closed \/ sessClosed # "no")]_vars

\* Unread frames are thrown away only once this side has closed the channel or the
\* session is closed: what the peer sent before its FIN stays readable.
DiscardedOnlyByClose == discarded > 0 => closed \/ sessClosed # "no"

\* "Data the peer sent before closing must stay readable after the session is
\* gone": a GOAWAY alone makes nobody throw frames away.
TailReadable == discarded > 0 => closed \/ sessClosed = "local"

\* A call that runs when the stream has ended or the channel is closed returns.
ReadReturns == (pc # "idle" /\ (readDone \/ closed)) ~> (pc = "idle")

\* A channel whose two directions are over is finalized, readers or not.
Finalizes == (finQueued /\ readDone) ~> (fin = "done")

=============================================================================
