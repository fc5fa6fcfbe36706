------------------------- MODULE ChannelReadProofs --------------------------
(***************************************************************************)
(* Proofs about ChannelRead, for any number of frames and calls and any    *)
(* choice of calls, endings and closes: no wake-up of a reader is lost,    *)
(* the end of the stream is told only when nothing is unread, and unread   *)
(* frames are discarded only by a close.                                   *)
(***************************************************************************)
EXTENDS ChannelRead, TLAPS

\* Where the reader has found the ring empty, and where it has set waitState.
Checking == {"abort1", "done1", "rescan", "abort2", "done2", "block"}
Waiting == {"rescan", "abort2", "done2", "block"}

\* The counters, and where each goroutine and each lock is.
Counts ==
  ring \in Nat /\ delivered \in Nat /\ discarded \in Nat /\ fed \in Nat /\ reads \in Nat

Places ==
  /\ fin \in {"no", "lock", "locked", "done"} /\ sessClosed \in {"no", "goaway", "local"}
  /\ readMu \in {"nobody", "reader", "finalize"} /\ op \in {"Read", "WriteTo"}
  /\ pc \in {"idle", "lock", "scan", "copy", "deferred"} \union Checking
  /\ result \in {"none", "data", "eof", "err"}
  /\ loop \in {"idle", "push", "look", "readDone", "wake", "final", "finalized", "goaway"}
  /\ closer \in {"no", "half", "halved", "once", "closeChan", "drain", "final", "end"}
  /\ sessCloser \in {"no", "pick", "closeChan", "readDone", "wake", "drain", "finalize", "end"}

\* readMu is the reader's from Lock to Return and finalize's while it looks at the
\* ring, so the frame that WriteTo is writing stays at the head.
MutexInv ==
  /\ pc \in {"scan", "copy"} \union Checking => readMu = "reader"
  /\ fin = "locked" => readMu = "finalize"
  /\ pc = "copy" => ring > 0

\* Every frame is unread, delivered or discarded.
FramesInv == ring + delivered + discarded = fed

\* What readDone stands for: the peer's stream has ended and what came before is
\* to stay readable, or this side has closed the channel.
DoneInv ==
  /\ loop \in {"readDone", "wake", "final", "finalized", "goaway"} => ended
  /\ loop \in {"push", "look"} => ~ended
  /\ loop = "readDone" => drainable
  /\ drainable \/ goAway => ended
  /\ sessCloser # "no" => sessClosed # "no"
  /\ sessCloser = "closeChan" => closed
  /\ sessCloser = "readDone" => closed \/ drainable
  /\ readDone => closed \/ drainable
  /\ fin # "no" => readDone
  /\ sessCloser \in {"wake", "drain", "finalize", "end"} => readDone
  /\ closer \in {"closeChan", "drain"} => closed

\* A closed ring: nothing is pushed any more, or what is pushed is lost by a close.
RingInv ==
  /\ ringClosed => ended \/ closed \/ sessClosed # "no"
  /\ discarded > 0 => closed \/ sessClosed # "no"

\* A reader that has seen readDone and goes on past readAborted has found the ring
\* empty after the stream's end.
SawInv ==
  /\ sawDone => ended \/ closed
  /\ sawDone /\ pc \in Checking => (closed /\ pc = "abort1") \/ (ended /\ ring = 0)
  /\ result = "eof" => ended /\ ring = 0

\* What a reader that is about to block has not seen is announced by a token, by
\* closeChan, or by a goroutine that is about to do so.
WakeInv ==
  /\ pc \in Waiting => waitState
  /\ closed => closeChan \/ closer = "closeChan" \/ sessCloser = "closeChan"
  /\ pc \in Waiting \ {"rescan"} /\ ring > 0 => notify \/ loop = "look"
  /\ pc = "block" /\ readDone => notify \/ loop = "wake" \/ sessCloser = "wake"

IInv == Counts /\ Places /\ MutexInv /\ FramesInv /\ DoneInv /\ RingInv /\ SawInv /\ WakeInv

USE DEF Checking, Waiting, chanVars, readVars, restVars

-----------------------------------------------------------------------------
(* Every step keeps the invariant                                          *)

\* The first look at the ring: a reader that goes on to abort1 has found it empty.
LEMMA ScanStep ==
  ASSUME IInv, NEW n \in Nat, n <= ring, Scan(n)
  PROVE  IInv'
<1> USE DEF IInv, Counts, Places, MutexInv, FramesInv, DoneInv, RingInv, SawInv, WakeInv
<1>1. /\ UNCHANGED <<sawDone, ringClosed, closed, closeChan, readDone, drainable, finQueued,
                     drainOnce, fin, goAway, sessClosed, restVars, op, reads, discarded>>
      /\ pc = "scan"
  BY Zenon DEF Scan, Goto, Return
<1>2. CASE ring = 0
  <2>1. pc' = "abort1" /\ UNCHANGED <<ring, readMu, result, delivered, waitState, notify>>
    BY <1>2, Zenon DEF Scan, Goto, Return
  <2> QED
    BY <1>1, <1>2, <2>1
<1>3. CASE ring # 0 /\ op = "Read"
  <2>1. /\ pc' = "deferred" /\ ring' = ring - n /\ delivered' = delivered + n
        /\ readMu' = "nobody" /\ result' = "data" /\ UNCHANGED <<waitState, notify>>
    BY <1>3, Zenon DEF Scan, Goto, Return
  <2> QED
    BY <1>1, <1>3, <2>1
<1>4. CASE ring # 0 /\ op # "Read"
  <2>1. pc' = "copy" /\ UNCHANGED <<ring, readMu, result, delivered, waitState, notify>>
    BY <1>4, Zenon DEF Scan, Goto, Return
  <2> QED
    BY <1>1, <1>4, <2>1
<1> QED
  BY <1>2, <1>3, <1>4, Zenon

\* The second look: a reader that goes on to abort2 has set waitState and found the
\* ring empty, so whoever pushes from now on finds waitState set.
LEMMA RescanStep ==
  ASSUME IInv, NEW n \in Nat, n <= ring, Rescan(n)
  PROVE  IInv'
<1> USE DEF IInv, Counts, Places, MutexInv, FramesInv, DoneInv, RingInv, SawInv, WakeInv
<1>1. /\ UNCHANGED <<sawDone, ringClosed, closed, closeChan, readDone, drainable, finQueued,
                     drainOnce, fin, goAway, sessClosed, restVars, op, reads, discarded>>
      /\ pc = "rescan"
  BY Zenon DEF Rescan, Goto, Return
<1>2. CASE ring = 0
  <2>1. pc' = "abort2" /\ UNCHANGED <<ring, readMu, result, delivered, waitState, notify>>
    BY <1>2, Zenon DEF Rescan, Goto, Return
  <2> QED
    BY <1>1, <1>2, <2>1
<1>3. CASE ring # 0 /\ op = "Read"
  <2>1. /\ pc' = "deferred" /\ ring' = ring - n /\ delivered' = delivered + n
        /\ readMu' = "nobody" /\ result' = "data"
        /\ waitState' = FALSE /\ notify' = FALSE
    BY <1>3, Zenon DEF Rescan, Goto, Return
  <2> QED
    BY <1>1, <1>3, <2>1
<1>4. CASE ring # 0 /\ op # "Read"
  <2>1. /\ pc' = "scan" /\ UNCHANGED <<ring, readMu, result, delivered>>
        /\ waitState' = FALSE /\ notify' = FALSE
    BY <1>4, Zenon DEF Rescan, Goto, Return
  <2> QED
    BY <1>1, <1>4, <2>1
<1> QED
  BY <1>2, <1>3, <1>4, Zenon

\* A step of Read or WriteTo keeps the invariant: readMu keeps the ring from everybody
\* but the feeder, who only adds to it, and who adds nothing once the stream has ended.
LEMMA ReadingStep ==
  ASSUME IInv, Reading \/ (\E o \in Ops : Start(o))
  PROVE  IInv'
<1> USE DEF IInv, Counts, Places, MutexInv, FramesInv, DoneInv, RingInv, SawInv, WakeInv
<1>1. CASE \E o \in Ops : Start(o)
  <2>1. Counts' /\ MutexInv' /\ FramesInv' /\ DoneInv'
    BY <1>1, ReadAssumption DEF Start, ReadAborted
  <2>2. Places'
    BY <1>1, ReadAssumption DEF Start, ReadAborted
  <2>3. RingInv' /\ SawInv' /\ WakeInv'
    BY <1>1, ReadAssumption DEF Start, ReadAborted
  <2> QED
    BY <2>1, <2>2, <2>3, Zenon
<1>2. CASE Lock
  <2>1. Counts' /\ MutexInv' /\ FramesInv' /\ DoneInv'
    BY <1>2 DEF Lock
  <2>2. Places'
    BY <1>2 DEF Lock
  <2>3. RingInv' /\ SawInv' /\ WakeInv'
    BY <1>2 DEF Lock
  <2> QED
    BY <2>1, <2>2, <2>3, Zenon
<1>3. CASE Copy
  <2>1. Counts' /\ MutexInv' /\ FramesInv' /\ DoneInv'
    BY <1>3 DEF Copy, Return
  <2>2. Places'
    BY <1>3 DEF Copy, Return
  <2>3. RingInv' /\ SawInv' /\ WakeInv'
    BY <1>3 DEF Copy, Return
  <2> QED
    BY <2>1, <2>2, <2>3, Zenon
<1>4. CASE CheckAborted
  <2>1. Counts' /\ MutexInv' /\ FramesInv' /\ DoneInv'
    BY <1>4 DEF CheckAborted, Goto, Return, ReadAborted
  <2>2. Places'
    BY <1>4 DEF CheckAborted, Goto, Return, ReadAborted
  <2>3. RingInv' /\ SawInv' /\ WakeInv'
    BY <1>4 DEF CheckAborted, Goto, Return, ReadAborted
  <2> QED
    BY <2>1, <2>2, <2>3, Zenon
<1>5. CASE CheckDone
  <2>1. Counts' /\ MutexInv' /\ FramesInv' /\ DoneInv'
    BY <1>5 DEF CheckDone, Goto, Return
  <2>2. Places'
    BY <1>5 DEF CheckDone, Goto, Return
  <2>3. RingInv' /\ SawInv' /\ WakeInv'
    BY <1>5 DEF CheckDone, Goto, Return
  <2> QED
    BY <2>1, <2>2, <2>3, Zenon
<1>6. CASE Block
  <2>1. Counts' /\ MutexInv' /\ FramesInv' /\ DoneInv'
    BY <1>6 DEF Block, Goto, Return
  <2>2. Places'
    BY <1>6 DEF Block, Goto, Return
  <2>3. RingInv' /\ SawInv' /\ WakeInv'
    BY <1>6 DEF Block, Goto, Return
  <2> QED
    BY <2>1, <2>2, <2>3, Zenon
<1>7. CASE Deferred
  <2>1. Counts' /\ MutexInv' /\ FramesInv' /\ DoneInv'
    BY <1>7 DEF Deferred, DrainRing, Drains, ReadAborted
  <2>2. Places'
    BY <1>7 DEF Deferred, DrainRing, Drains, ReadAborted
  <2>3. RingInv' /\ SawInv' /\ WakeInv'
    BY <1>7 DEF Deferred, DrainRing, Drains, ReadAborted
  <2> QED
    BY <2>1, <2>2, <2>3, Zenon
<1>8. CASE \/ \E n \in 1..MaxData : n <= ring /\ (Scan(n) \/ Rescan(n))
          \/ (ring = 0 /\ (Scan(0) \/ Rescan(0)))
  <2> HIDE DEF IInv
  <2>1. PICK n \in Nat : n <= ring /\ (Scan(n) \/ Rescan(n))
    BY <1>8, ReadAssumption
  <2> QED
    BY <2>1, ScanStep, RescanStep, Zenon
<1> HIDE DEF IInv
<1> QED
  BY <1>1, <1>2, <1>3, <1>4, <1>5, <1>6, <1>7, <1>8, Zenon DEF Reading

\* finalize keeps the invariant: it throws unread frames away only if the channel is
\* not drainable, and then this side has closed it.
LEMMA FinalizingStep ==
  ASSUME IInv, Finalizing
  PROVE  IInv'
<1> USE DEF IInv, Counts, Places, MutexInv, FramesInv, DoneInv, RingInv, SawInv, WakeInv
<1>1. CASE FinalizeLock
  <2>1. Counts' /\ MutexInv' /\ FramesInv' /\ DoneInv'
    BY <1>1, Zenon DEF FinalizeLock
  <2>2. Places'
    BY <1>1 DEF FinalizeLock
  <2>3. RingInv' /\ SawInv' /\ WakeInv'
    BY <1>1 DEF FinalizeLock
  <2> QED
    BY <2>1, <2>2, <2>3, Zenon
<1>2. CASE FinalizeRing
  <2>1. Counts' /\ MutexInv' /\ FramesInv' /\ DoneInv'
    BY <1>2 DEF FinalizeRing
  <2>2. Places'
    BY <1>2 DEF FinalizeRing
  <2>3. RingInv' /\ SawInv' /\ WakeInv'
    BY <1>2 DEF FinalizeRing
  <2> QED
    BY <2>1, <2>2, <2>3, Zenon
<1> HIDE DEF IInv
<1> QED
  BY <1>1, <1>2, Zenon DEF Finalizing

\* readLoop keeps the invariant: what it changes before it wakes the reader, it
\* announces.
LEMMA LoopingStep ==
  ASSUME IInv, FeedCheck \/ FeedPush \/ FeedWake \/ RemoteClose \/ RemoteClosed \/ GoAway
  PROVE  IInv'
<1> USE DEF IInv, Counts, Places, MutexInv, FramesInv, DoneInv, RingInv, SawInv, WakeInv
<1>1. CASE FeedCheck
  <2>1. Counts' /\ MutexInv' /\ FramesInv' /\ DoneInv'
    BY <1>1, Zenon DEF FeedCheck
  <2>2. Places'
    BY <1>1 DEF FeedCheck
  <2>3. RingInv' /\ SawInv' /\ WakeInv'
    BY <1>1, Zenon DEF FeedCheck
  <2> QED
    BY <2>1, <2>2, <2>3, Zenon
<1>2. CASE FeedPush
  <2>1. Counts' /\ MutexInv' /\ FramesInv' /\ DoneInv'
    BY <1>2 DEF FeedPush
  <2>2. Places'
    BY <1>2 DEF FeedPush
  <2>3. RingInv' /\ SawInv' /\ WakeInv'
    BY <1>2 DEF FeedPush
  <2> QED
    BY <2>1, <2>2, <2>3, Zenon
<1>3. CASE FeedWake
  <2>1. Counts' /\ MutexInv' /\ FramesInv' /\ DoneInv'
    BY <1>3 DEF FeedWake
  <2>2. Places'
    BY <1>3 DEF FeedWake
  <2>3. RingInv' /\ SawInv' /\ WakeInv'
    BY <1>3, Zenon DEF FeedWake
  <2> QED
    BY <2>1, <2>2, <2>3, Zenon
<1>4. CASE RemoteClose
  <2>1. Counts' /\ MutexInv' /\ FramesInv' /\ DoneInv'
    BY <1>4 DEF RemoteClose, MaybeFinalize
  <2>2. Places'
    BY <1>4 DEF RemoteClose, MaybeFinalize
  <2>3. RingInv' /\ SawInv' /\ WakeInv'
    BY <1>4 DEF RemoteClose, MaybeFinalize
  <2> QED
    BY <2>1, <2>2, <2>3, Zenon
<1>5. CASE RemoteClosed
  <2>1. Counts' /\ MutexInv' /\ FramesInv' /\ DoneInv'
    BY <1>5 DEF RemoteClosed
  <2>2. Places'
    BY <1>5 DEF RemoteClosed
  <2>3. RingInv' /\ SawInv' /\ WakeInv'
    BY <1>5 DEF RemoteClosed
  <2> QED
    BY <2>1, <2>2, <2>3, Zenon
<1>6. CASE GoAway
  <2>1. Counts' /\ MutexInv' /\ FramesInv' /\ DoneInv'
    BY <1>6 DEF GoAway
  <2>2. Places'
    BY <1>6 DEF GoAway
  <2>3. RingInv' /\ SawInv' /\ WakeInv'
    BY <1>6 DEF GoAway
  <2> QED
    BY <2>1, <2>2, <2>3, Zenon
<1> HIDE DEF IInv
<1> QED
  BY <1>1, <1>2, <1>3, <1>4, <1>5, <1>6, Zenon

\* The application's closes keep the invariant: closed comes before readDone, and
\* closeChan and the token come after both.
LEMMA ClosingStep ==
  ASSUME IInv, CloseWrite \/ Close \/ SessionClose \/ CloseChannel
  PROVE  IInv'
<1> USE DEF IInv, Counts, Places, MutexInv, FramesInv, DoneInv, RingInv, SawInv, WakeInv
<1>1. CASE CloseWrite
  <2>1. Counts' /\ MutexInv' /\ FramesInv' /\ DoneInv'
    BY <1>1 DEF CloseWrite, CloserKeeps, MaybeFinalize
  <2>2. Places'
    BY <1>1 DEF CloseWrite, CloserKeeps, MaybeFinalize
  <2>3. RingInv' /\ SawInv' /\ WakeInv'
    BY <1>1 DEF CloseWrite, CloserKeeps, MaybeFinalize
  <2> QED
    BY <2>1, <2>2, <2>3, Zenon
<1>2. CASE Close
  <2>1. Counts' /\ MutexInv' /\ FramesInv' /\ DoneInv'
    BY <1>2 DEF Close, CloserKeeps, MaybeFinalize, DrainRing, Drains
  <2>2. Places'
    BY <1>2 DEF Close, CloserKeeps, MaybeFinalize, DrainRing, Drains
  <2>3. RingInv' /\ SawInv' /\ WakeInv'
    BY <1>2 DEF Close, CloserKeeps, MaybeFinalize, DrainRing, Drains
  <2> QED
    BY <2>1, <2>2, <2>3, Zenon
<1>3. CASE SessionClose
  <2>1. Counts' /\ MutexInv' /\ FramesInv' /\ DoneInv'
    BY <1>3 DEF SessionClose, CloserKeeps
  <2>2. Places'
    BY <1>3 DEF SessionClose, CloserKeeps
  <2>3. RingInv' /\ SawInv' /\ WakeInv'
    BY <1>3 DEF SessionClose, CloserKeeps
  <2> QED
    BY <2>1, <2>2, <2>3, Zenon
<1>4. CASE CloseChannel
  <2>1. Counts' /\ MutexInv' /\ FramesInv' /\ DoneInv'
    BY <1>4 DEF CloseChannel, CloserKeeps, Finalize, DrainRing, Drains
  <2>2. Places'
    BY <1>4 DEF CloseChannel, CloserKeeps, Finalize, DrainRing, Drains
  <2>3. RingInv' /\ SawInv' /\ WakeInv'
    BY <1>4 DEF CloseChannel, CloserKeeps, Finalize, DrainRing, Drains
  <2> QED
    BY <2>1, <2>2, <2>3, Zenon
<1> HIDE DEF IInv
<1> QED
  BY <1>1, <1>2, <1>3, <1>4, Zenon

\* The invariant holds at the start ...
LEMMA InitInv == Init => IInv
BY DEF Init, IInv, Counts, Places, MutexInv, FramesInv, DoneInv, RingInv, SawInv, WakeInv

\* ... and every step keeps it.
LEMMA StepInv == IInv /\ [Next]_vars => IInv'
<1> SUFFICES ASSUME IInv, [Next]_vars PROVE IInv'
  BY Zenon
<1>1. CASE Next
  <2>1. \/ Reading \/ (\E o \in Ops : Start(o))
        \/ Finalizing
        \/ FeedCheck \/ FeedPush \/ FeedWake \/ RemoteClose \/ RemoteClosed \/ GoAway
        \/ CloseWrite \/ Close \/ SessionClose \/ CloseChannel
    BY <1>1, Zenon DEF Next, Looping, Closing, Inputs
  <2> QED
    BY <2>1, ReadingStep, FinalizingStep, LoopingStep, ClosingStep, Zenon
<1>2. CASE UNCHANGED vars
  BY <1>2 DEF vars, IInv, Counts, Places, MutexInv, FramesInv, DoneInv, RingInv, SawInv, WakeInv
<1> QED
  BY <1>1, <1>2, Zenon

-----------------------------------------------------------------------------
\* The invariant, for every behaviour.
THEOREM Invariance == Spec => []IInv
BY InitInv, StepInv, PTL DEF Spec

\* A blocked reader with something to read, or to be told, has a token or a closed
\* closeChan as soon as the goroutine that caused it has gone on: waitState is set
\* before Read's last look, and feed, remoteClose and the closes look after they
\* have changed what Read looks at.
THEOREM WakeupTheorem == Spec => []NoLostWakeup
<1>1. IInv => NoLostWakeup
  BY Zenon DEF IInv, Counts, Places, WakeInv, NoLostWakeup, OthersIdle
<1> QED
  BY <1>1, Invariance, PTL

\* Only the readDone checks of Read and WriteTo answer io.EOF.
LEMMA OnlyCheckDone ==
  ASSUME [Next]_vars, result' = "eof", result # "eof"
  PROVE  CheckDone
<1>1. ~UNCHANGED vars
  BY Zenon DEF vars
<1>2. ~(FinalizeLock \/ FinalizeRing \/ FeedCheck \/ FeedPush \/ FeedWake \/ RemoteClose
        \/ RemoteClosed \/ GoAway)
  BY DEF FinalizeLock, FinalizeRing, FeedCheck, FeedPush, FeedWake, RemoteClose, RemoteClosed, GoAway
<1>3. ~(CloseWrite \/ Close \/ SessionClose \/ CloseChannel)
  BY DEF CloseWrite, Close, SessionClose, CloseChannel, CloserKeeps
<1>4. ~(\E o \in Ops : Start(o)) /\ ~Lock /\ ~Deferred
  BY DEF Start, Lock, Deferred
<1>5. ~Copy /\ ~CheckAborted /\ ~Block
  BY DEF Copy, CheckAborted, Block, Return, Goto
<1>6. ASSUME NEW n PROVE ~(Scan(n) \/ Rescan(n))
  BY DEF Scan, Rescan, Return, Goto
<1> QED
  BY <1>1, <1>2, <1>3, <1>4, <1>5, <1>6, Zenon DEF Next, Reading, Finalizing, Looping, Closing, Inputs

\* io.EOF is answered only when the peer's stream has ended and the ring is empty
\* before Read closes it, so that the reader has had every frame that no close took:
\* the second scan after sawDone leaves no gap.
THEOREM EOFTheorem == Spec => EOFComplete
<1>1. ASSUME IInv, [Next]_vars, result' = "eof", result # "eof"
      PROVE  ended /\ ring = 0 /\ (delivered = fed \/ closed \/ sessClosed # "no")
  <2>1. CheckDone
    BY <1>1, OnlyCheckDone, Zenon
  <2>2. sawDone /\ pc \in {"done1", "done2"}
    BY <1>1, <2>1 DEF CheckDone, Return, Goto
  <2>3. ended /\ ring = 0
    BY <1>1, <2>2 DEF IInv, SawInv
  <2>4. discarded = 0 => delivered = fed
    BY <1>1, <2>3 DEF IInv, Counts, FramesInv
  <2>5. discarded > 0 => closed \/ sessClosed # "no"
    BY <1>1 DEF IInv, RingInv
  <2>6. discarded = 0 \/ discarded > 0
    BY <1>1 DEF IInv, Counts
  <2> QED
    BY <2>3, <2>4, <2>5, <2>6, Zenon
<1>2. IInv /\ [Next]_vars => [result' = "eof" /\ result # "eof" =>
        ended /\ ring = 0 /\ (delivered = fed \/ closed \/ sessClosed # "no")]_vars
  BY <1>1, Zenon
<1> QED
  BY <1>2, Invariance, PTL DEF Spec, EOFComplete

\* Read, WriteTo, finalize and the drains throw unread frames away only when this
\* side has closed the channel or the session is closed.
THEOREM DiscardTheorem == Spec => []DiscardedOnlyByClose
<1>1. IInv => DiscardedOnlyByClose
  BY Zenon DEF IInv, RingInv, DiscardedOnlyByClose
<1> QED
  BY <1>1, Invariance, PTL
=============================================================================
