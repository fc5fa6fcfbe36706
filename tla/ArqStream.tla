------------------------------ MODULE ArqStream ------------------------------
(***************************************************************************)
(* One direction of a muxocket channel with Config.Reliability set: the    *)
(* sending half of a Channel at one end (Write, CloseWrite/Close, onAck,   *)
(* the session's arqLoop) and the receiving half at the other              *)
(* (feedReliablePayload, handleFinReliable, sendAck, the delayed-ACK       *)
(* timer, Read), over a transport that may lose, duplicate, delay and      *)
(* reorder frames and that may drop and be resumed.                        *)
(*                                                                         *)
(* The two directions of a channel meet only in Channel.maybeFinalize.     *)
(* What the other direction contributes there is an input of this module:  *)
(* revDone (the sender's own readDone) and the freedom to finalize the     *)
(* receiver at any time after its readDone.  Flow-control credit is an     *)
(* input as well: AcquireCredits may grant any amount up to a frame.       *)
(***************************************************************************)
EXTENDS Integers, Sequences, FiniteSets

CONSTANTS
  Input,          \* the bytes the application has to write, a sequence
  MaxFrame,       \* Config.MaxFrameDataSize
  ReorderBytes,   \* Channel.maxReorderBytes()
  AckRatio,       \* Config.StreamingAckRatio
  AckDelayed,     \* Config.AckInterval > 0
  AckLarge,       \* Config.ImmediateACKForLargePackets
  MaxRetransmit,  \* Config.MaxRetransmit
  MaxDrops,       \* bound: how often the transport drops
  CloseEarly      \* bound: whether an application may Close before the end

ASSUME ArqAssumption ==
  /\ Input \in Seq(Nat)
  /\ MaxFrame \in Nat \ {0}
  /\ ReorderBytes \in Nat
  /\ AckRatio \in Nat \ {0}
  /\ AckDelayed \in BOOLEAN
  /\ AckLarge \in BOOLEAN
  /\ MaxRetransmit \in Nat
  /\ MaxDrops \in Nat
  /\ CloseEarly \in BOOLEAN

VARIABLES
  \* sender
  writeOffset,  \* bytes handed to queueDataLocked
  granted,      \* > 0: a Write holds writeMu and this much credit
  writeClosed,  \* Channel.writeClosed
  finState,     \* progress of closeWrite: none, wanted, registered, queued
  unacked,      \* Channel.unacked
  inARQ,        \* the channel is in Session.arqSet
  aborting,     \* a localClose is due: retransmits exhausted or Close's timer
  revDone,      \* readDone of the sending endpoint (other direction)
  sndState,     \* open, graceful (maybeFinalize) or aborted (localClose)
  \* transport and write schedulers, both directions
  net,          \* every frame written to the transport
  suspended,    \* the session has no transport
  drops,        \* how often it has dropped
  \* receiver
  readOffset,   \* Channel.readOffset
  reorderMap,   \* set of frames held ahead of readOffset
  hasFin, finOffset,
  feeding,      \* feedReliablePayload is in its drain loop: 0 or frame length
  delivered,    \* every byte pushed into the ring so far
  ring,         \* stream positions at which the unread ring buffers end
  consumed,     \* bytes the application has read
  readDone, closed, eof,
  rcvFinal,     \* the receiving endpoint's channel is finalized
  \* coalesced ACK state of the receiver
  ackOffset, ackPending, inOrderPackets,
  ackResolving, \* the write scheduler has cleared ackPending, not yet loaded
  ackTimer,     \* the delayed-ACK timer is armed
  ackFired      \* offset its callback computed but has not yet sent, or -1

sndVars == <<writeOffset, granted, writeClosed, finState, unacked, inARQ,
             aborting, revDone, sndState>>
netVars == <<net, suspended, drops>>
readVars == <<delivered, ring, consumed, closed, eof>>
asmVars == <<readOffset, reorderMap, hasFin, finOffset, feeding, readDone, rcvFinal>>
ackVars == <<ackOffset, ackPending, inOrderPackets, ackResolving, ackTimer, ackFired>>
vars == <<sndVars, netVars, readVars, asmVars, ackVars>>

-----------------------------------------------------------------------------
(* Frames.  A payload is the segment of Input it was cut from.             *)

Frame(flag, o, d) == [flag |-> flag, offset |-> o, data |-> d]
SegmentFromStart(o, n) == SubSeq(Input, 1, n)  \* mutant: Write never advances b
Segment(o, n) == SubSeq(Input, o + 1, o + n)
End(f) == IF f.flag = "FIN" THEN f.offset + 1 ELSE f.offset + Len(f.data)

\* An unackedFrame: the frame to send again and how often that was done.
Unacked(f) == [frame |-> f, retransmits |-> 0]
FramesOf(s) == {s[i].frame : i \in DOMAIN s}

Init ==
  /\ writeOffset = 0 /\ granted = 0 /\ writeClosed = FALSE
  /\ finState = "none" /\ unacked = <<>> /\ inARQ = FALSE
  /\ aborting = FALSE /\ revDone = FALSE /\ sndState = "open"
  /\ net = {} /\ suspended = FALSE /\ drops = 0
  /\ readOffset = 0 /\ reorderMap = {} /\ hasFin = FALSE /\ finOffset = 0
  /\ feeding = 0 /\ delivered = <<>> /\ ring = {} /\ consumed = 0
  /\ readDone = FALSE /\ closed = FALSE /\ eof = FALSE /\ rcvFinal = FALSE
  /\ ackOffset = 0 /\ ackPending = FALSE /\ inOrderPackets = 0
  /\ ackResolving = FALSE /\ ackTimer = FALSE /\ ackFired = -1

-----------------------------------------------------------------------------
(* Sender                                                                  *)

\* Mutant: maybeFinalize does not look at unacked.
MaybeFinalizeUnacked(q, d, u) ==
  sndState' = IF sndState = "open" /\ q /\ d THEN "graceful" ELSE sndState

\* maybeFinalize with finQueued = q, readDone = d and u left unacknowledged.
MaybeFinalize(q, d, u) ==
  sndState' = IF sndState = "open" /\ q /\ d /\ u = <<>> THEN "graceful" ELSE sndState

\* Write/sendFromRead: take writeMu and let AcquireCredits grant sz bytes.
AcquireCredits(sz) ==
  /\ granted = 0 /\ ~writeClosed
  /\ writeOffset + sz <= Len(Input)
  /\ granted' = sz
  /\ UNCHANGED <<writeOffset, writeClosed, finState, unacked, inARQ, aborting,
                 revDone, sndState, netVars, readVars, asmVars, ackVars>>

\* queueDataLocked: register the chunk for retransmission, then queue it.
QueueData ==
  LET f == Frame("DATA", writeOffset, Segment(writeOffset, granted)) IN
  /\ granted > 0
  /\ writeOffset' = writeOffset + granted
  /\ granted' = 0
  /\ unacked' = Append(unacked, Unacked(f))
  /\ inARQ' = TRUE
  /\ net' = net \union {f}
  /\ UNCHANGED <<writeClosed, finState, aborting, revDone, sndState,
                 suspended, drops, readVars, asmVars, ackVars>>

\* closeWrite: only the first caller of writeOnce does anything.
CloseWrite ==
  IF writeClosed
    THEN UNCHANGED <<writeClosed, finState>>
    ELSE writeClosed' = TRUE /\ finState' = "wanted"

\* The application calls CloseWrite(), or Close(), whose first step it is.
AppCloseWrite ==
  /\ sndState = "open" /\ ~writeClosed
  /\ CloseWrite
  /\ UNCHANGED <<writeOffset, granted, unacked, inARQ, aborting, revDone, sndState,
                 netVars, readVars, asmVars, ackVars>>

\* The rest of Close(): closeWrite has returned, so the FIN is queued or a
\* goroutine waits for the writer; arm closeTimer until the peer's FIN is read.
AppClose ==
  /\ CloseEarly /\ sndState = "open" /\ ~revDone /\ ~aborting
  /\ finState = "queued" \/ (finState = "wanted" /\ granted > 0)
  /\ aborting' = TRUE
  /\ UNCHANGED <<writeOffset, granted, writeClosed, finState, unacked, inARQ,
                 revDone, sndState, netVars, readVars, asmVars, ackVars>>

\* Mutant: the FIN is registered but the channel does not enter the ARQ set.
RegisterFinOnly ==
  /\ finState = "wanted" /\ granted = 0
  /\ unacked' = Append(unacked, Unacked(Frame("FIN", writeOffset, <<>>)))
  /\ finState' = "registered"
  /\ UNCHANGED <<writeOffset, granted, writeClosed, inARQ, aborting, revDone, sndState,
                 netVars, readVars, asmVars, ackVars>>

\* sendFinLocked up to the unlock of unackedMu; writeMu is free or waited for.
RegisterFin ==
  /\ finState = "wanted" /\ granted = 0
  /\ unacked' = Append(unacked, Unacked(Frame("FIN", writeOffset, <<>>)))
  /\ inARQ' = TRUE
  /\ finState' = "registered"
  /\ UNCHANGED <<writeOffset, granted, writeClosed, aborting, revDone, sndState,
                 netVars, readVars, asmVars, ackVars>>

\* The rest of sendFinLocked and the maybeFinalize that follows closeWrite.
QueueFin ==
  /\ finState = "registered"
  /\ finState' = "queued"
  /\ net' = net \union {Frame("FIN", writeOffset, <<>>)}
  /\ MaybeFinalize(TRUE, revDone, unacked)
  /\ UNCHANGED <<writeOffset, granted, writeClosed, unacked, inARQ, aborting,
                 revDone, suspended, drops, readVars, asmVars, ackVars>>

\* onAck: drop the acknowledged prefix (n frames), leave the ARQ set when
\* nothing is left.
OnAck(f) ==
  \E n \in 0..Len(unacked) :
    /\ f.flag = "ACK" /\ ~suspended /\ sndState = "open"
    /\ \A i \in 1..n : End(unacked[i].frame) <= f.offset
    /\ n < Len(unacked) => End(unacked[n+1].frame) > f.offset
    /\ unacked' = SubSeq(unacked, n + 1, Len(unacked))
    /\ inARQ' = (inARQ /\ (n = 0 \/ n < Len(unacked)))
    /\ MaybeFinalize(n > 0 /\ finState = "queued", revDone, unacked')
    /\ UNCHANGED <<writeOffset, granted, writeClosed, finState, aborting, revDone,
                   netVars, readVars, asmVars, ackVars>>

\* RST handler, Channel.peerReset.
OnReset(f) ==
  /\ f.flag = "RST" /\ ~suspended /\ sndState = "open"
  /\ CloseWrite
  /\ MaybeFinalize(finState = "queued", revDone, unacked)
  /\ UNCHANGED <<writeOffset, granted, unacked, inARQ, aborting, revDone,
                 netVars, readVars, asmVars, ackVars>>

\* The other direction has been read to its FIN (remoteClose of the sender).
ReverseDone ==
  /\ sndState = "open" /\ ~revDone
  /\ revDone' = TRUE
  /\ MaybeFinalize(finState = "queued", TRUE, unacked)
  /\ UNCHANGED <<writeOffset, granted, writeClosed, finState, unacked, inARQ,
                 aborting, netVars, readVars, asmVars, ackVars>>

\* One arqLoop visit: checkRetransmissions with the frames in due timed out.
\* It stops at the first frame over the limit and has localClose called.
\* The count saturates at MaxRetransmit + 1: only the comparison matters.
ArqTick(due) ==
  LET over == {i \in due : unacked[i].retransmits >= MaxRetransmit}
      sent == {i \in due : \A j \in over : i < j}
      hit == sent \union {i \in over : \A j \in over : i <= j}
  IN
  /\ inARQ /\ ~suspended /\ due # {}
  /\ unacked' = [i \in DOMAIN unacked |->
                   IF i \in hit /\ unacked[i].retransmits <= MaxRetransmit
                     THEN [unacked[i] EXCEPT !.retransmits = @ + 1]
                     ELSE unacked[i]]
  /\ net' = net \union {unacked[i].frame : i \in sent}
  /\ aborting' = (aborting \/ over # {})
  /\ UNCHANGED <<writeOffset, granted, writeClosed, finState, inARQ, revDone,
                 sndState, suspended, drops, readVars, asmVars, ackVars>>

\* Mutant: cleanupReliability leaves the channel in the ARQ set.
SenderAbortInArq ==
  /\ aborting /\ sndState = "open"
  /\ writeClosed' = TRUE
  /\ sndState' = "aborted"
  /\ unacked' = <<>>
  /\ UNCHANGED <<writeOffset, granted, finState, inARQ, aborting, revDone,
                 netVars, readVars, asmVars, ackVars>>

\* localClose by the give-up goroutine or the close timer.
SenderAbort ==
  /\ aborting /\ sndState = "open"
  /\ writeClosed' = TRUE
  /\ sndState' = "aborted"
  /\ unacked' = <<>> /\ inARQ' = FALSE
  /\ UNCHANGED <<writeOffset, granted, finState, aborting, revDone,
                 netVars, readVars, asmVars, ackVars>>

-----------------------------------------------------------------------------
(* Transport.  net holds every frame ever put on the wire.  A frame may be *)
(* taken from it at any time, again and in any order, or never: delay,     *)
(* duplication, reordering and loss.                                       *)

\* handleDisconnect: nothing arrives and nothing is resent until Resume.
Disconnect ==
  /\ ~suspended /\ drops < MaxDrops
  /\ suspended' = TRUE /\ drops' = drops + 1
  /\ UNCHANGED <<net, sndVars, readVars, asmVars, ackVars>>

\* resumeWithConnection, and retransmitAllUnacked for every open channel.
Resume ==
  /\ suspended
  /\ suspended' = FALSE
  /\ net' = IF sndState = "open" THEN net \union FramesOf(unacked) ELSE net
  /\ UNCHANGED <<drops, sndVars, readVars, asmVars, ackVars>>

-----------------------------------------------------------------------------
(* Receiver: acknowledgements                                              *)

FinSeen(hf, fo, ro) == hf  \* mutant: bytes before the FIN may be missing
FinReached(hf, fo, ro) == hf /\ ro >= fo

\* cumulativeAckLocked: a FIN takes one position of its own.
CumulativeAck(hf, fo, ro) == IF FinReached(hf, fo, ro) THEN fo + 1 ELSE ro

\* sendAck: publish the offset; the ACK frame is queued once.
SendAck(o) ==
  /\ ackTimer' = FALSE
  /\ ackOffset' = o
  /\ ackPending' = TRUE

\* scheduleDelayedAck with the ring as it is after the push.
ScheduleDelayedAck(o) ==
  /\ ackOffset' = o
  /\ ackPending' = (ackPending \/ ~AckDelayed)
  /\ ackTimer' = IF ackPending THEN ackTimer ELSE AckDelayed /\ (ackTimer \/ ring = {})

\* The timer callback: the offset is computed under reorderMu ...
AckTimerFires ==
  /\ ackTimer /\ ackFired = -1 /\ feeding = 0
  /\ ackTimer' = FALSE
  /\ ackFired' = CumulativeAck(hasFin, finOffset, readOffset)
  /\ UNCHANGED <<ackOffset, ackPending, inOrderPackets, ackResolving,
                 sndVars, netVars, readVars, asmVars>>

\* ... and sent after the unlock.
AckTimerSends ==
  /\ ackFired # -1
  /\ SendAck(ackFired)
  /\ ackFired' = -1
  /\ UNCHANGED <<inOrderPackets, ackResolving, sndVars, netVars, readVars, asmVars>>

\* compactAndResolveControlFrames clears the flag first ...
ResolveAck ==
  /\ ackPending /\ ~ackResolving /\ ~suspended
  /\ ackPending' = FALSE
  /\ ackResolving' = TRUE
  /\ UNCHANGED <<ackOffset, inOrderPackets, ackTimer, ackFired,
                 sndVars, netVars, readVars, asmVars>>

\* ... then loads the offset; a write to a dropped transport is lost.
WriteAck ==
  /\ ackResolving
  /\ ackResolving' = FALSE
  /\ net' = IF suspended THEN net ELSE net \union {Frame("ACK", ackOffset, <<>>)}
  /\ UNCHANGED <<ackOffset, ackPending, inOrderPackets, ackTimer, ackFired,
                 suspended, drops, sndVars, readVars, asmVars>>

-----------------------------------------------------------------------------
(* Receiver: reassembly.  readLoop hands over one frame at a time, and the *)
(* drain loop of feedReliablePayload runs with reorderMu held, so nothing  *)
(* but the reader, Close and the write scheduler moves while feeding > 0.  *)

Reset == Frame("RST", 0, <<>>)

\* feedPayload: a closed channel takes nothing.
Push(d) ==
  IF closed
    THEN UNCHANGED <<delivered, ring>>
    ELSE /\ delivered' = delivered \o d
         /\ ring' = ring \union {Len(delivered) + Len(d)}

\* readLoop hands frame f to an open channel that is not being fed.
Arrives(f, flag) == f.flag = flag /\ ~suspended /\ feeding = 0 /\ ~rcvFinal

\* The whole frame was received before: acknowledge it again.
FeedDuplicate(f) ==
  /\ Arrives(f, "DATA") /\ End(f) <= readOffset
  /\ SendAck(CumulativeAck(hasFin, finOffset, readOffset))
  /\ UNCHANGED <<netVars, inOrderPackets, ackResolving, ackFired,
                 sndVars, readVars, asmVars>>

\* The next frame in order; a closed channel discards it and may send a RST
\* (resetPeer(false) is rate limited).
FeedInOrder(f, rst) ==
  /\ Arrives(f, "DATA") /\ f.offset = readOffset /\ End(f) > readOffset
  /\ rst => closed /\ ~readDone
  /\ Push(f.data)
  /\ readOffset' = End(f)
  /\ feeding' = Len(f.data)
  /\ net' = net \union (IF rst THEN {Reset} ELSE {})
  /\ UNCHANGED <<suspended, drops, reorderMap, hasFin, finOffset, readDone,
                 rcvFinal, consumed, closed, eof, sndVars, ackVars>>

\* One turn of the drain loop: a held frame has become the next in order.
FeedDrain ==
  \E f \in reorderMap :
    /\ feeding > 0 /\ f.offset = readOffset
    /\ Push(f.data)
    /\ readOffset' = End(f)
    /\ reorderMap' = reorderMap \ {f}
    /\ UNCHANGED <<hasFin, finOffset, feeding, readDone, rcvFinal,
                   consumed, closed, eof, sndVars, netVars, ackVars>>

\* End of the loop: choose how to acknowledge, and remoteClose at the FIN.
FeedFinish ==
  LET shouldClose == FinReached(hasFin, finOffset, readOffset)
      count == (inOrderPackets + 1) % AckRatio
      now == \/ shouldClose \/ AckRatio = 1 \/ count = 0
             \/ AckLarge /\ feeding >= MaxFrame
      ack == CumulativeAck(hasFin, finOffset, readOffset)
  IN
  /\ feeding > 0 /\ \A f \in reorderMap : f.offset # readOffset
  /\ feeding' = 0
  /\ inOrderPackets' = IF shouldClose THEN inOrderPackets ELSE count
  /\ IF now THEN SendAck(ack) ELSE ScheduleDelayedAck(ack)
  /\ readDone' = (readDone \/ shouldClose)
  /\ UNCHANGED <<readOffset, reorderMap, hasFin, finOffset, rcvFinal,
                 ackResolving, ackFired, sndVars, netVars, readVars>>

NeverTooFar(o) == FALSE  \* mutant: the reorder buffer has no bound
TooFar(o) == o - readOffset > ReorderBytes

\* A frame from the future: held unless too far ahead or held already.
FeedFuture(f) ==
  /\ Arrives(f, "DATA") /\ f.offset > readOffset
  /\ reorderMap' = IF \/ TooFar(f.offset)
                      \/ \E g \in reorderMap : g.offset = f.offset
                     THEN reorderMap ELSE reorderMap \union {f}
  /\ SendAck(CumulativeAck(hasFin, finOffset, readOffset))
  /\ UNCHANGED <<netVars, readOffset, hasFin, finOffset, feeding,
                 readDone, rcvFinal, inOrderPackets, ackResolving, ackFired,
                 sndVars, readVars>>

\* handleFinReliable.
FeedFin(f) ==
  /\ Arrives(f, "FIN")
  /\ hasFin' = TRUE /\ finOffset' = f.offset
  /\ SendAck(CumulativeAck(TRUE, f.offset, readOffset))
  /\ readDone' = (readDone \/ FinReached(TRUE, f.offset, readOffset))
  /\ UNCHANGED <<netVars, readOffset, reorderMap, feeding, rcvFinal,
                 inOrderPackets, ackResolving, ackFired, sndVars, readVars>>

\* DATA or FIN for a finalized channel: dropped unacknowledged.  DATA for one
\* that has left the session's table is answered with a RST.
FeedFinal(f, rst) ==
  /\ f.flag \in {"DATA", "FIN"} /\ ~suspended /\ rcvFinal
  /\ rst => f.flag = "DATA"
  /\ net' = net \union (IF rst THEN {Reset} ELSE {})
  /\ UNCHANGED <<suspended, drops, sndVars, readVars, asmVars, ackVars>>

-----------------------------------------------------------------------------
(* Receiver: application and lifecycle                                     *)

\* Read returns n bytes; buffers that end at or before the new position go.
Read(n) ==
  /\ ~closed /\ consumed + n <= Len(delivered)
  /\ consumed' = consumed + n
  /\ ring' = {e \in ring : e > consumed + n}
  /\ UNCHANGED <<delivered, closed, eof, sndVars, netVars, asmVars, ackVars>>

\* Read returns io.EOF.
ReadEOF ==
  /\ ~closed /\ ~eof /\ ring = {} /\ readDone
  /\ eof' = TRUE
  /\ UNCHANGED <<delivered, ring, consumed, closed, sndVars, netVars, asmVars, ackVars>>

\* Close of the receiving endpoint: unread data goes, a RST stops the sender.
CloseReceiver ==
  /\ CloseEarly /\ ~closed
  /\ closed' = TRUE
  /\ ring' = {}
  /\ net' = IF readDone THEN net ELSE net \union {Reset}
  /\ UNCHANGED <<suspended, drops, delivered, consumed, eof, sndVars, asmVars, ackVars>>

\* maybeFinalize of the receiving endpoint, its own direction being complete.
FinalizeReceiver ==
  /\ readDone /\ ~rcvFinal /\ feeding = 0
  /\ rcvFinal' = TRUE
  /\ reorderMap' = {}
  /\ ackTimer' = FALSE
  /\ UNCHANGED <<readOffset, hasFin, finOffset, feeding, readDone, ackOffset,
                 ackPending, inOrderPackets, ackResolving, ackFired,
                 sndVars, netVars, readVars>>

\* localClose of the receiving endpoint (its close timer, or its own ARQ).
AbortReceiver ==
  /\ CloseEarly /\ ~rcvFinal /\ feeding = 0
  /\ rcvFinal' = TRUE /\ closed' = TRUE /\ readDone' = TRUE
  /\ reorderMap' = {}
  /\ ring' = IF readDone THEN ring ELSE {}
  /\ ackTimer' = FALSE
  /\ UNCHANGED <<readOffset, hasFin, finOffset, feeding, delivered, consumed, eof,
                 ackOffset, ackPending, inOrderPackets, ackResolving, ackFired,
                 sndVars, netVars>>

-----------------------------------------------------------------------------
Sender ==
  \/ \E sz \in 1..MaxFrame : AcquireCredits(sz)
  \/ QueueData
  \/ AppCloseWrite \/ AppClose
  \/ RegisterFin \/ QueueFin \/ ReverseDone \/ SenderAbort
  \/ \E due \in SUBSET DOMAIN unacked : ArqTick(due)

Transport ==
  Disconnect \/ Resume

Deliver ==
  \E f \in net :
    \/ OnAck(f) \/ OnReset(f)
    \/ FeedDuplicate(f) \/ FeedFuture(f) \/ FeedFin(f)
    \/ \E rst \in BOOLEAN : FeedInOrder(f, rst) \/ FeedFinal(f, rst)

Receiver ==
  \/ FeedDrain \/ FeedFinish
  \/ AckTimerFires \/ AckTimerSends \/ ResolveAck \/ WriteAck
  \/ \E n \in 1..Len(Input) : Read(n)
  \/ ReadEOF \/ CloseReceiver \/ FinalizeReceiver \/ AbortReceiver

Next == Sender \/ Transport \/ Deliver \/ Receiver

Spec == Init /\ [][Next]_vars

\* Both runtimes keep scheduling: arqLoop ticks, frames time out, queued
\* closes run, and a dropped transport is resumed (drops are bounded).
Fairness ==
  /\ WF_vars(\E due \in SUBSET DOMAIN unacked : ArqTick(due))
  /\ WF_vars(RegisterFin) /\ WF_vars(QueueFin) /\ WF_vars(QueueData)
  /\ WF_vars(SenderAbort) /\ WF_vars(Resume)

FairSpec == Spec /\ Fairness

-----------------------------------------------------------------------------
(* Properties                                                              *)

Frames == [flag : {"DATA", "FIN", "ACK", "RST"}, offset : Nat, data : Seq(Nat)]
UnackedFrames == [frame : Frames, retransmits : 0..MaxRetransmit+1]

SenderTypes ==
  /\ writeOffset \in 0..Len(Input) /\ granted \in 0..MaxFrame
  /\ writeClosed \in BOOLEAN /\ inARQ \in BOOLEAN
  /\ aborting \in BOOLEAN /\ revDone \in BOOLEAN
  /\ finState \in {"none", "wanted", "registered", "queued"}
  /\ sndState \in {"open", "graceful", "aborted"}
  /\ unacked \in Seq(UnackedFrames)

NetTypes == net \subseteq Frames /\ suspended \in BOOLEAN /\ drops \in 0..MaxDrops

AssemblyTypes ==
  /\ readOffset \in 0..Len(Input) /\ finOffset \in 0..Len(Input)
  /\ feeding \in 0..MaxFrame /\ reorderMap \subseteq Frames
  /\ hasFin \in BOOLEAN /\ readDone \in BOOLEAN /\ rcvFinal \in BOOLEAN

ReaderTypes ==
  /\ delivered \in Seq(Nat) /\ ring \subseteq Nat /\ consumed \in 0..Len(delivered)
  /\ closed \in BOOLEAN /\ eof \in BOOLEAN

AckTypes ==
  /\ ackOffset \in Nat /\ ackFired \in Nat \union {-1}
  /\ inOrderPackets \in 0..AckRatio-1
  /\ ackPending \in BOOLEAN /\ ackResolving \in BOOLEAN /\ ackTimer \in BOOLEAN

\* Every variable stays in its domain: offsets are natural numbers, the frames on
\* the wire, held and unacknowledged are frames of this channel.
TypeOK == SenderTypes /\ NetTypes /\ AssemblyTypes /\ ReaderTypes /\ AckTypes

\* What the reader of the channel is given is a prefix of what was written,
\* whatever is lost, duplicated, reordered or resent (feedReliablePayload).
PrefixDelivered ==
  /\ delivered = SubSeq(Input, 1, Len(delivered))
  /\ Len(delivered) <= writeOffset
  /\ ~closed => Len(delivered) = readOffset

\* The pipe that the two applications see.
Pipe == INSTANCE BytePipe WITH
  written <- SubSeq(Input, 1, writeOffset),
  taken <- SubSeq(delivered, 1, consumed),
  shut <- finState \in {"registered", "queued"},
  ended <- eof

\* Whatever is lost, duplicated, reordered or resent, and however the transport is
\* dropped and resumed, a reliable channel is a pipe: Read returns what was written,
\* in order, and io.EOF only after the last byte before the FIN.
IsPipe == Pipe!Spec

\* feedReliablePayload's default case (a frame that straddles readOffset) is
\* never taken: retransmissions repeat the original segmentation.
NoPartialOverlap ==
  \A f \in net : f.flag = "DATA" => End(f) <= readOffset \/ f.offset >= readOffset

\* No acknowledgement, sent or about to be, covers a byte or a FIN that the
\* receiver has not taken (sendAck, the timer callback, the coalesced offset).
AckSound ==
  LET taken == IF hasFin /\ readOffset >= finOffset THEN finOffset + 1 ELSE readOffset IN
  /\ ackOffset <= taken /\ ackFired <= taken
  /\ \A f \in net : f.flag = "ACK" => f.offset <= taken

\* A channel that finalizes through maybeFinalize, not through localClose, has
\* had every byte and its FIN taken by the peer.
GracefulMeansDelivered ==
  sndState = "graceful" => hasFin /\ finOffset = writeOffset /\ readOffset = writeOffset

\* Read reports io.EOF only after the application has read every byte that was
\* written before the FIN.
EOFComplete ==
  eof => consumed = writeOffset /\ finState \in {"registered", "queued"}

\* A frame is held for reassembly only within maxReorderBytes of readOffset,
\* and never twice for one offset.
ReorderBounded ==
  \A f \in reorderMap :
    /\ f.offset - readOffset \in 0..ReorderBytes
    /\ \A g \in reorderMap : f.offset = g.offset => f = g

\* A channel with something left to acknowledge is visited by arqLoop, and one
\* with nothing left is not.
ArqMembership == inARQ <=> unacked # <<>>

\* The sender is never stuck: every frame registered for retransmission is
\* acknowledged or the channel is given up, even when the peer has gone silent
\* (arqLoop, checkRetransmissions).
DrainsOrAborts == (unacked # <<>>) ~> (unacked = <<>> \/ sndState = "aborted")

=============================================================================
