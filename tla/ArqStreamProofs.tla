-------------------------- MODULE ArqStreamProofs ---------------------------
(* Proofs about ArqStream, for every Input and every value of its limits:  *)
(* the steps of the writer, the wire, the assembly and the reader, what is *)
(* acknowledged and what is kept, the inductive invariant, the theorems,   *)
(* and the refinement of BytePipe.                                         *)
EXTENDS ArqStream, TLAPS, SequenceTheorems

DataIn(S) == {f \in S : f.flag = "DATA"}
FinIn(S) == {f \in S : f.flag = "FIN"}
FinDecided == finState \in {"registered", "queued"}
Taken == IF hasFin /\ readOffset >= finOffset THEN finOffset + 1 ELSE readOffset
SndEnd == IF FinDecided THEN writeOffset + 1 ELSE writeOffset

\* The writer: once the FIN is registered nothing more is written, and a
\* granted chunk lies inside Input.
WriterInv ==
  /\ writeOffset + granted <= Len(Input)
  /\ FinDecided => granted = 0
  /\ finState # "none" => writeClosed

\* Frames on the wire: segments of Input written so far, cut once and for all.
NetInv ==
  /\ \A f \in DataIn(net) : /\ Len(f.data) \in 1..MaxFrame
                            /\ f.offset + Len(f.data) <= writeOffset
                            /\ f.data = Segment(f.offset, Len(f.data))
  /\ \A f, g \in DataIn(net) : f = g \/ End(f) <= g.offset \/ End(g) <= f.offset
  /\ \A f \in FinIn(net) : f.offset = writeOffset /\ FinDecided

\* The receiver has taken whole frames, in order, and nothing unsent.
AssemblyInv ==
  /\ readOffset <= writeOffset
  /\ \A f \in DataIn(net) : End(f) <= readOffset \/ f.offset >= readOffset
  /\ reorderMap \subseteq DataIn(net)
  /\ \A f \in reorderMap : /\ f.offset >= readOffset
                           /\ feeding = 0 => f.offset > readOffset
                           /\ f.offset - readOffset <= ReorderBytes
  /\ hasFin => finOffset = writeOffset /\ FinDecided

\* The reader: the last byte pushed ends a buffer still in the ring, or is read.
ReaderInv ==
  /\ ~closed => consumed = Len(delivered) \/ Len(delivered) \in ring
  /\ readDone /\ ~closed => hasFin /\ readOffset >= finOffset

\* Everything before the first unacknowledged frame has been taken.
UnackedInv ==
  /\ \A i \in 1..Len(unacked) :
       \/ unacked[i].frame \in DataIn(net)
       \/ unacked[i].frame.flag = "FIN" /\ unacked[i].frame.offset = writeOffset /\ FinDecided
  /\ \A i \in 1..Len(unacked) :
       End(unacked[i].frame) = IF i = Len(unacked) THEN SndEnd ELSE unacked[i+1].frame.offset
  /\ sndState # "aborted" =>
       IF unacked = <<>> THEN SndEnd <= Taken ELSE unacked[1].frame.offset <= Taken
  /\ sndState = "graceful" => finState = "queued" /\ unacked = <<>>

IInv == /\ TypeOK /\ WriterInv /\ NetInv /\ AssemblyInv /\ ReaderInv /\ UnackedInv
        /\ PrefixDelivered /\ AckSound /\ EOFComplete
-----------------------------------------------------------------------------
(* Type correctness                                                        *)

\* Every frame of the model is a well-typed record.
LEMMA FrameType ==
  ASSUME NEW flag \in {"DATA", "FIN", "ACK", "RST"}, NEW o \in Nat, NEW d \in Seq(Nat)
  PROVE  Frame(flag, o, d) \in Frames
BY Zenon DEF Frame, Frames

\* So is a control frame, which has an empty payload.
LEMMA ControlType ==
  ASSUME NEW flag \in {"DATA", "FIN", "ACK", "RST"}, NEW o \in Nat
  PROVE  Frame(flag, o, <<>>) \in Frames
<1> DEFINE d == <<>>
<1>1. d \in Seq(Nat)
  OBVIOUS
<1> HIDE DEF d
<1>2. Frame(flag, o, d) \in Frames
  BY <1>1, FrameType, Zenon
<1> QED
  BY <1>2, Zenon DEF d

\* A segment of Input is a sequence of as many bytes as were asked for.
LEMMA SegmentType ==
  ASSUME NEW o \in Nat, NEW n \in Nat, o + n <= Len(Input)
  PROVE  Segment(o, n) \in Seq(Nat) /\ Len(Segment(o, n)) = n
<1>1. Input \in Seq(Nat)
  BY ArqAssumption, Zenon DEF ArqAssumption
<1>2. o + 1 \in 1..Len(Input)+1 /\ o + n \in Nat /\ Len(Input) \in Nat
  BY <1>1
<1> QED
  BY <1>1, <1>2, SubSeqProperties DEF Segment

USE DEF sndVars, netVars, readVars, asmVars, ackVars,
        SenderTypes, NetTypes, AssemblyTypes, ReaderTypes, AckTypes

\* What the invariant says of one DATA frame on the wire.
LEMMA DataFacts ==
  ASSUME TypeOK, NetInv, NEW f \in DataIn(net)
  PROVE  /\ f \in Frames /\ f.flag = "DATA" /\ f.offset \in Nat /\ f.data \in Seq(Nat)
         /\ Len(f.data) \in 1..MaxFrame /\ End(f) = f.offset + Len(f.data)
         /\ End(f) \in 0..Len(Input) /\ End(f) <= writeOffset
         /\ f.data = Segment(f.offset, Len(f.data))
<1>1. f \in Frames /\ f.flag = "DATA"
  BY Zenon DEF DataIn, TypeOK
<1>2. f.offset \in Nat /\ f.data \in Seq(Nat) /\ Len(f.data) \in Nat
  BY <1>1 DEF Frames
<1>3. /\ Len(f.data) \in 1..MaxFrame /\ f.offset + Len(f.data) <= writeOffset
      /\ f.data = Segment(f.offset, Len(f.data))
  BY Zenon DEF NetInv
<1>4. End(f) = f.offset + Len(f.data)
  BY <1>1, Zenon DEF End
<1>5. writeOffset \in 0..Len(Input) /\ Len(Input) \in Nat
  BY ArqAssumption DEF ArqAssumption, TypeOK
<1> HIDE DEF NetInv, TypeOK
<1>6. End(f) \in 0..Len(Input) /\ End(f) <= writeOffset
  BY <1>2, <1>3, <1>4, <1>5
<1> QED
  BY <1>1, <1>2, <1>3, <1>4, <1>6, Zenon

\* The initial state is well typed.
LEMMA InitType == Init => TypeOK
<1> SUFFICES ASSUME Init PROVE TypeOK
  BY Zenon
<1>1. Len(Input) \in Nat
  BY ArqAssumption DEF ArqAssumption
<1>2. unacked \in Seq(UnackedFrames) /\ delivered \in Seq(Nat) /\ Len(delivered) = 0
  BY DEF Init
<1>3. inOrderPackets \in 0..AckRatio-1 /\ drops \in 0..MaxDrops /\ granted \in 0..MaxFrame
  BY ArqAssumption DEF Init, ArqAssumption
<1>4. ackFired \in Nat \union {-1}
  BY Zenon DEF Init
<1>5. net \subseteq Frames /\ reorderMap \subseteq Frames /\ ring \subseteq Nat
  BY Zenon DEF Init
<1>6. writeOffset \in 0..Len(Input) /\ readOffset \in 0..Len(Input) /\ finOffset \in 0..Len(Input)
  BY <1>1 DEF Init
<1>7. feeding \in 0..MaxFrame /\ consumed \in 0..Len(delivered) /\ ackOffset \in Nat
  BY <1>2, ArqAssumption DEF Init, ArqAssumption
<1> QED
  BY <1>1, <1>2, <1>3, <1>4, <1>5, <1>6, <1>7, Zenon DEF Init, TypeOK

\* The sender's steps keep the types: one step per action.
LEMMA SenderType == TypeOK /\ WriterInv /\ Sender => TypeOK'
<1> SUFFICES ASSUME TypeOK, WriterInv, Sender PROVE TypeOK'
  BY Zenon
<1> USE ArqAssumption DEF ArqAssumption
<1>1. ASSUME NEW sz \in 1..MaxFrame, AcquireCredits(sz) PROVE TypeOK'
  BY <1>1 DEF TypeOK, AcquireCredits
<1>2. CASE QueueData
  <2> DEFINE f == Frame("DATA", writeOffset, Segment(writeOffset, granted))
  <2>1. f \in Frames
    BY SegmentType, FrameType DEF TypeOK, WriterInv
  <2>2. Unacked(f) \in UnackedFrames
    BY <2>1 DEF Unacked, UnackedFrames
  <2> QED
    BY <1>2, <2>1, <2>2 DEF TypeOK, WriterInv, QueueData
<1>3. CASE AppCloseWrite
  BY <1>3 DEF TypeOK, AppCloseWrite, CloseWrite
<1>4. CASE AppClose
  BY <1>4 DEF TypeOK, AppClose
<1>5. CASE RegisterFin
  <2> DEFINE f == Frame("FIN", writeOffset, <<>>)
  <2>1. Unacked(f) \in UnackedFrames
    <3>1. f \in Frames
      BY ControlType DEF TypeOK
    <3> QED
      BY <3>1 DEF Unacked, UnackedFrames
  <2> QED
    BY <1>5, <2>1 DEF TypeOK, RegisterFin
<1>6. CASE QueueFin
  <2>1. Frame("FIN", writeOffset, <<>>) \in Frames
    BY ControlType DEF TypeOK
  <2> QED
    BY <1>6, <2>1 DEF TypeOK, QueueFin, MaybeFinalize
<1>7. CASE ReverseDone
  BY <1>7 DEF TypeOK, ReverseDone, MaybeFinalize
<1>8. CASE SenderAbort
  <2>1. unacked' \in Seq(UnackedFrames)
    BY <1>8 DEF SenderAbort
  <2>2. /\ writeClosed' \in BOOLEAN /\ inARQ' \in BOOLEAN
        /\ sndState' \in {"open", "graceful", "aborted"}
        /\ UNCHANGED <<writeOffset, granted, finState, aborting, revDone,
                       netVars, readVars, asmVars, ackVars>>
    BY <1>8, Zenon DEF SenderAbort
  <2> QED
    BY <2>1, <2>2 DEF TypeOK
<1>9. ASSUME NEW due \in SUBSET DOMAIN unacked, ArqTick(due) PROVE TypeOK'
  <2>1. \A i \in DOMAIN unacked : unacked[i] \in UnackedFrames
    BY DEF TypeOK
  <2>2. \A i \in DOMAIN unacked :
          unacked[i].retransmits <= MaxRetransmit =>
            [unacked[i] EXCEPT !.retransmits = @ + 1] \in UnackedFrames
    BY <2>1, SMTT(20) DEF UnackedFrames
  <2>3. unacked' \in Seq(UnackedFrames)
    <3>1. DOMAIN unacked = 1..Len(unacked) /\ Len(unacked) \in Nat
      BY DEF TypeOK
    <3>2. unacked' \in [1..Len(unacked) -> UnackedFrames]
      BY <1>9, <2>1, <2>2, <3>1, Zenon DEF ArqTick
    <3> QED
      BY <3>1, <3>2, SeqDef
  <2>4. net' \subseteq Frames
    BY <1>9, <2>1, Zenon DEF ArqTick, TypeOK, UnackedFrames
  <2>5. aborting' \in BOOLEAN
    BY <1>9, Zenon DEF ArqTick
  <2>6. UNCHANGED <<writeOffset, granted, writeClosed, finState, inARQ, revDone,
                    sndState, suspended, drops, readVars, asmVars, ackVars>>
    BY <1>9, Zenon DEF ArqTick
  <2> QED
    BY <2>3, <2>4, <2>5, <2>6 DEF TypeOK
<1> QED
  BY <1>1, <1>2, <1>3, <1>4, <1>5, <1>6, <1>7, <1>8, <1>9 DEF Sender

\* The transport's steps keep the types.
LEMMA TransportType == TypeOK /\ Transport => TypeOK'
<1> SUFFICES ASSUME TypeOK, Transport PROVE TypeOK'
  BY Zenon
<1>1. CASE Disconnect
  BY <1>1, ArqAssumption DEF ArqAssumption, TypeOK, Disconnect
<1>2. CASE Resume
  <2>1. FramesOf(unacked) \subseteq Frames
    <3>1. \A i \in DOMAIN unacked : unacked[i] \in UnackedFrames
      BY DEF TypeOK
    <3> QED
      BY <3>1, Zenon DEF FramesOf, UnackedFrames
  <2> QED
    <3>1. net' \subseteq Frames
      BY <1>2, <2>1, Zenon DEF TypeOK, Resume
    <3>2. suspended' \in BOOLEAN /\ UNCHANGED <<drops, sndVars, readVars, asmVars, ackVars>>
      BY <1>2, Zenon DEF Resume
    <3> QED
      BY <3>1, <3>2 DEF TypeOK
<1> QED
  BY <1>1, <1>2, Zenon DEF Transport

\* Pushing a payload keeps the reader's part of the state well typed.
LEMMA PushType ==
  ASSUME ReaderTypes, NEW d \in Seq(Nat), Push(d), UNCHANGED <<consumed, closed, eof>>
  PROVE  ReaderTypes'
<1>1. Len(delivered) \in Nat /\ Len(d) \in Nat
  OBVIOUS
<1>2. delivered \o d \in Seq(Nat) /\ Len(delivered \o d) = Len(delivered) + Len(d)
  OBVIOUS
<1>3. CASE closed
  BY <1>3, Zenon DEF Push
<1>4. CASE ~closed
  <2>1. delivered' \in Seq(Nat) /\ Len(delivered') = Len(delivered) + Len(d)
    BY <1>2, <1>4, Zenon DEF Push
  <2>2. ring' = ring \union {Len(delivered) + Len(d)}
    BY <1>4, Zenon DEF Push
  <2>3. ring' \subseteq Nat
    <3> DEFINE x == Len(delivered) + Len(d)
    <3>1. x \in Nat
      BY <1>1
    <3>2. ring' = ring \union {x} /\ ring \subseteq Nat
      BY <2>2, Zenon
    <3> HIDE DEF x, ReaderTypes
    <3> QED
      BY <3>1, <3>2, Zenon
  <2>4. consumed' \in 0..Len(delivered')
    <3> HIDE DEF Push
    <3> QED
      BY <1>1, <2>1
  <2>5. closed' \in BOOLEAN /\ eof' \in BOOLEAN
    BY Zenon
  <2> QED
    BY <2>1, <2>3, <2>4, <2>5, Zenon
<1> QED
  BY <1>3, <1>4, Zenon

\* Frames that arrive keep the types.
LEMMA DeliverType == TypeOK /\ NetInv /\ Deliver => TypeOK'
<1> SUFFICES ASSUME TypeOK, NetInv, NEW f \in net
             PROVE /\ OnAck(f) \/ OnReset(f) \/ FeedDuplicate(f) => TypeOK'
                   /\ FeedFuture(f) \/ FeedFin(f) => TypeOK'
                   /\ \A rst \in BOOLEAN : FeedInOrder(f, rst) \/ FeedFinal(f, rst) => TypeOK'
  BY Zenon DEF Deliver
<1> USE ArqAssumption DEF ArqAssumption
<1>0. /\ f \in Frames /\ f.offset \in Nat /\ f.data \in Seq(Nat) /\ Len(f.data) \in Nat
      /\ Len(Input) \in Nat
  BY DEF TypeOK, Frames
<1>a. CumulativeAck(hasFin, finOffset, readOffset) \in Nat
  BY <1>0 DEF TypeOK, CumulativeAck, FinReached
<1>1. CASE OnAck(f)
  <2>1. PICK n \in 0..Len(unacked) : unacked' = SubSeq(unacked, n + 1, Len(unacked))
    BY <1>1, Zenon DEF OnAck
  <2>2. unacked' \in Seq(UnackedFrames)
    BY <2>1, SubSeqProperties DEF TypeOK
  <2>3. inARQ' \in BOOLEAN /\ sndState' \in {"open", "graceful", "aborted"}
    BY <1>1, Zenon DEF OnAck, MaybeFinalize, TypeOK
  <2>4. UNCHANGED <<writeOffset, granted, writeClosed, finState, aborting, revDone,
                    netVars, readVars, asmVars, ackVars>>
    BY <1>1, Zenon DEF OnAck
  <2> QED
    BY <2>2, <2>3, <2>4 DEF TypeOK
<1>2. CASE OnReset(f)
  <2>1. UNCHANGED <<netVars, readVars, asmVars, ackVars>>
    BY <1>2, Zenon DEF OnReset
  <2>2. SenderTypes'
    BY <1>2, Zenon DEF TypeOK, OnReset, CloseWrite, MaybeFinalize
  <2> QED
    BY <2>1, <2>2 DEF TypeOK
<1>3. CASE FeedDuplicate(f)
  <2>1. UNCHANGED <<sndVars, netVars, readVars, asmVars>>
    BY <1>3, Zenon DEF FeedDuplicate
  <2>2. AckTypes'
    BY <1>3, <1>a, Zenon DEF TypeOK, FeedDuplicate, SendAck
  <2> QED
    BY <2>1, <2>2 DEF TypeOK
<1>4. CASE FeedFuture(f)
  <2>1. UNCHANGED <<sndVars, netVars, readVars>>
    BY <1>4, Zenon DEF FeedFuture
  <2>2. AckTypes'
    BY <1>4, <1>a, Zenon DEF TypeOK, FeedFuture, SendAck
  <2>3. AssemblyTypes'
    BY <1>0, <1>4, Zenon DEF TypeOK, FeedFuture
  <2>4. SenderTypes' /\ NetTypes'
    BY <2>1 DEF TypeOK
  <2>5. ReaderTypes'
    BY <2>1, Zenon DEF TypeOK
  <2> QED
    BY <2>2, <2>3, <2>4, <2>5, Zenon DEF TypeOK
<1>5. CASE FeedFin(f)
  <2>1. f.offset \in 0..Len(Input)
    BY <1>0, <1>5, Zenon DEF FeedFin, Arrives, NetInv, FinIn, TypeOK
  <2>2. CumulativeAck(TRUE, f.offset, readOffset) \in Nat
    BY <1>0 DEF TypeOK, CumulativeAck, FinReached
  <2>3. UNCHANGED <<sndVars, netVars, readVars>>
    BY <1>5, Zenon DEF FeedFin
  <2>4. AckTypes'
    BY <1>5, <2>2, Zenon DEF TypeOK, FeedFin, SendAck
  <2>5. AssemblyTypes'
    BY <1>5, <2>1, Zenon DEF TypeOK, FeedFin
  <2>6. SenderTypes' /\ NetTypes'
    BY <2>3 DEF TypeOK
  <2>7. ReaderTypes'
    BY <2>3, Zenon DEF TypeOK
  <2> QED
    BY <2>4, <2>5, <2>6, <2>7, Zenon DEF TypeOK
<1>6. ASSUME NEW rst \in BOOLEAN, FeedInOrder(f, rst) PROVE TypeOK'
  <2>1. /\ End(f) \in 0..Len(Input) /\ Len(f.data) \in 0..MaxFrame
    <3>1. f \in DataIn(net)
      BY <1>6, Zenon DEF FeedInOrder, Arrives, DataIn
    <3> QED
      BY <3>1, DataFacts
  <2>2. ReaderTypes'
    <3>1. Push(f.data) /\ UNCHANGED <<consumed, closed, eof>>
      BY <1>6, Zenon DEF FeedInOrder
    <3> HIDE DEF ReaderTypes
    <3> QED
      BY <1>0, <3>1, PushType DEF TypeOK
  <2>3. AssemblyTypes'
    BY <1>6, <2>1 DEF TypeOK, FeedInOrder
  <2>4. NetTypes'
    BY <1>6, ControlType, Zenon DEF TypeOK, FeedInOrder, Reset
  <2>5. UNCHANGED <<sndVars, ackVars>>
    BY <1>6, Zenon DEF FeedInOrder
  <2> QED
    BY <2>2, <2>3, <2>4, <2>5, SMTT(20) DEF TypeOK
<1>7. ASSUME NEW rst \in BOOLEAN, FeedFinal(f, rst) PROVE TypeOK'
  <2>1. NetTypes'
    BY <1>7, ControlType DEF TypeOK, FeedFinal, Reset
  <2>2. UNCHANGED <<sndVars, readVars, asmVars, ackVars>>
    BY <1>7, Zenon DEF FeedFinal
  <2> QED
    BY <2>1, <2>2 DEF TypeOK
<1> QED
  BY <1>1, <1>2, <1>3, <1>4, <1>5, <1>6, <1>7, Zenon

\* The receiver's own steps keep the types.
LEMMA ReceiverType == TypeOK /\ NetInv /\ AssemblyInv /\ Receiver => TypeOK'
<1> SUFFICES ASSUME TypeOK, NetInv, AssemblyInv PROVE Receiver => TypeOK'
  BY Zenon
<1> USE ArqAssumption DEF ArqAssumption
<1>a. CumulativeAck(hasFin, finOffset, readOffset) \in Nat
  BY DEF TypeOK, CumulativeAck, FinReached
<1>1. CASE FeedDrain
  <2>1. PICK f \in reorderMap : /\ Push(f.data) /\ readOffset' = End(f)
                                /\ reorderMap' = reorderMap \ {f}
    BY <1>1, Zenon DEF FeedDrain
  <2>2. /\ f \in Frames /\ f.data \in Seq(Nat) /\ End(f) \in 0..Len(Input)
    BY <2>1, DataFacts, Zenon DEF AssemblyInv
  <2>3. UNCHANGED <<hasFin, finOffset, feeding, readDone, rcvFinal,
                    consumed, closed, eof, sndVars, netVars, ackVars>>
    BY <1>1, Zenon DEF FeedDrain
  <2>4. ReaderTypes'
    <3> HIDE DEF ReaderTypes
    <3> QED
      BY <2>1, <2>2, <2>3, PushType, Zenon DEF TypeOK
  <2>5. AssemblyTypes'
    BY <2>1, <2>2, <2>3, Zenon DEF TypeOK
  <2> QED
    BY <2>3, <2>4, <2>5, Zenon DEF TypeOK
<1>2. CASE FeedFinish
  <2>1. (inOrderPackets + 1) % AckRatio \in 0..AckRatio-1
    BY DEF TypeOK
  <2>2. AckTypes'
    BY <1>2, <1>a, <2>1, Zenon DEF TypeOK, FeedFinish, SendAck, ScheduleDelayedAck
  <2>3. AssemblyTypes'
    BY <1>2 DEF TypeOK, FeedFinish
  <2>4. UNCHANGED <<sndVars, netVars, readVars>>
    BY <1>2, Zenon DEF FeedFinish
  <2> QED
    BY <2>2, <2>3, <2>4, Zenon DEF TypeOK
<1>3. CASE AckTimerFires \/ AckTimerSends \/ ResolveAck
  <2>1. UNCHANGED <<sndVars, netVars, readVars, asmVars>>
    BY <1>3, Zenon DEF AckTimerFires, AckTimerSends, ResolveAck
  <2>2. AckTypes'
    BY <1>3, <1>a, Zenon DEF TypeOK, AckTimerFires, AckTimerSends, ResolveAck, SendAck
  <2> QED
    BY <2>1, <2>2, Zenon DEF TypeOK
<1>4. CASE WriteAck
  <2>1. UNCHANGED <<sndVars, readVars, asmVars>>
    BY <1>4, Zenon DEF WriteAck
  <2>2. AckTypes'
    BY <1>4, Zenon DEF TypeOK, WriteAck
  <2>3. NetTypes'
    BY <1>4, ControlType, Zenon DEF TypeOK, WriteAck
  <2> QED
    BY <2>1, <2>2, <2>3, Zenon DEF TypeOK
<1>5. ASSUME NEW n \in 1..Len(Input), Read(n) PROVE TypeOK'
  <2>1. UNCHANGED <<sndVars, netVars, asmVars, ackVars>>
    BY <1>5, Zenon DEF Read
  <2>2. ring' \subseteq Nat
    BY <1>5, Zenon DEF TypeOK, Read
  <2>3. consumed' \in 0..Len(delivered') /\ UNCHANGED <<delivered, closed, eof>>
    BY <1>5 DEF TypeOK, Read
  <2> QED
    BY <2>1, <2>2, <2>3 DEF TypeOK
<1>6. CASE ReadEOF
  BY <1>6, Zenon DEF TypeOK, ReadEOF
<1>7. CASE CloseReceiver
  <2>1. UNCHANGED <<sndVars, asmVars, ackVars>>
    BY <1>7, Zenon DEF CloseReceiver
  <2>2. ReaderTypes'
    BY <1>7, Zenon DEF TypeOK, CloseReceiver
  <2>3. NetTypes'
    BY <1>7, ControlType, Zenon DEF TypeOK, CloseReceiver, Reset
  <2> QED
    BY <2>1, <2>2, <2>3, Zenon DEF TypeOK
<1>8. CASE FinalizeReceiver \/ AbortReceiver
  <2>1. UNCHANGED <<sndVars, netVars>>
    BY <1>8, Zenon DEF FinalizeReceiver, AbortReceiver
  <2>2. ReaderTypes'
    BY <1>8, Zenon DEF TypeOK, FinalizeReceiver, AbortReceiver
  <2>3. AssemblyTypes'
    BY <1>8, Zenon DEF TypeOK, FinalizeReceiver, AbortReceiver
  <2>4. AckTypes'
    BY <1>8, Zenon DEF TypeOK, FinalizeReceiver, AbortReceiver
  <2> QED
    BY <2>1, <2>2, <2>3, <2>4, SMTT(20) DEF TypeOK
<1> QED
  BY <1>1, <1>2, <1>3, <1>4, <1>5, <1>6, <1>7, <1>8, Zenon DEF Receiver

-----------------------------------------------------------------------------
(* The writer, and what a step may put on the wire                         *)

\* A step of the writing channel, its ARQ loop included, leaves the reader alone.
LEMMA SenderKeeps == Sender => UNCHANGED <<suspended, drops, readVars, asmVars, ackVars>>
BY Zenon DEF Sender, AcquireCredits, QueueData, AppCloseWrite, AppClose, RegisterFin, QueueFin,
       ReverseDone, SenderAbort, ArqTick

\* A disconnect or a resume touches no channel.
LEMMA TransportKeeps == Transport => UNCHANGED <<sndVars, readVars, asmVars, ackVars>>
BY Zenon DEF Transport, Disconnect, Resume

\* The receiving end changes nothing of the sending end but through the wire.
LEMMA ReceiverKeeps == Receiver => UNCHANGED sndVars
BY Zenon DEF Receiver, FeedDrain, FeedFinish, AckTimerFires, AckTimerSends, ResolveAck, WriteAck,
       Read, ReadEOF, CloseReceiver, FinalizeReceiver, AbortReceiver

\* Deliver, split into what reaches the sender and what reaches the receiver.
Feed(f) ==
  \/ FeedDuplicate(f) \/ FeedFuture(f) \/ FeedFin(f)
  \/ \E rst \in BOOLEAN : FeedInOrder(f, rst) \/ FeedFinal(f, rst)

\* A delivered frame is an ACK or a reset for the writer, or is fed to the reader.
LEMMA DeliverCases == Deliver => \E f \in net : OnAck(f) \/ OnReset(f) \/ Feed(f)
BY Zenon DEF Deliver, Feed

\* Feeding a frame leaves the sending end alone.
LEMMA FeedKeeps == ASSUME NEW f, Feed(f) PROVE UNCHANGED sndVars
BY Zenon DEF Feed, FeedDuplicate, FeedFuture, FeedFin, FeedInOrder, FeedFinal

\* onAck and peerReset write nothing and leave the receiving end alone.
LEMMA OnKeeps ==
  ASSUME NEW f, OnAck(f) \/ OnReset(f)
  PROVE  UNCHANGED <<writeOffset, granted, netVars, readVars, asmVars, ackVars>>
BY Zenon DEF OnAck, OnReset

\* The writer's invariant: a step never writes past Input or after the FIN.
LEMMA WriterStep == TypeOK /\ WriterInv /\ [Next]_vars => WriterInv'
<1> SUFFICES ASSUME TypeOK, WriterInv PROVE [Next]_vars => WriterInv'
  BY Zenon
<1> USE ArqAssumption DEF ArqAssumption
<1>1. CASE UNCHANGED <<writeOffset, granted, writeClosed, finState>>
  BY <1>1, Zenon DEF WriterInv, FinDecided
<1>2. ASSUME NEW sz \in 1..MaxFrame, AcquireCredits(sz) PROVE WriterInv'
  BY <1>2, Zenon DEF TypeOK, WriterInv, FinDecided, AcquireCredits
<1>3. CASE QueueData
  BY <1>3 DEF TypeOK, WriterInv, FinDecided, QueueData
<1>4. CASE AppCloseWrite
  BY <1>4, Zenon DEF TypeOK, WriterInv, FinDecided, AppCloseWrite, CloseWrite
<1>5. CASE RegisterFin
  BY <1>5, Zenon DEF TypeOK, WriterInv, FinDecided, RegisterFin
<1>6. CASE QueueFin
  BY <1>6, Zenon DEF TypeOK, WriterInv, FinDecided, QueueFin
<1>7. CASE SenderAbort
  BY <1>7, Zenon DEF TypeOK, WriterInv, FinDecided, SenderAbort
<1>8. ASSUME NEW f, OnReset(f) PROVE WriterInv'
  BY <1>8, Zenon DEF TypeOK, WriterInv, FinDecided, OnReset, CloseWrite
<1>9. CASE Sender
  <2>1. CASE AppClose \/ ReverseDone \/ \E due \in SUBSET DOMAIN unacked : ArqTick(due)
    BY <1>1, <2>1, Zenon DEF AppClose, ReverseDone, ArqTick
  <2> QED
    BY <1>2, <1>3, <1>4, <1>5, <1>6, <1>7, <1>9, <2>1 DEF Sender
<1>10. CASE Deliver
  <2>1. PICK f \in net : OnAck(f) \/ OnReset(f) \/ Feed(f)
    BY <1>10, DeliverCases, Zenon
  <2>2. CASE OnAck(f)
    BY <1>1, <2>2, Zenon DEF OnAck
  <2> QED
    BY <1>1, <1>8, <2>1, <2>2, FeedKeeps, Zenon
<1> QED
  BY <1>1, <1>9, <1>10, TransportKeeps, ReceiverKeeps, Zenon DEF Next, vars

\* No step but QueueData puts a new DATA frame on the wire, and a FIN on the
\* wire stands at the end of what was written.
LEMMA WireStep ==
  ASSUME TypeOK, WriterInv, NetInv, UnackedInv, [Next]_vars, ~QueueData
  PROVE  /\ DataIn(net') = DataIn(net) /\ writeOffset' = writeOffset
         /\ net \subseteq net'
         /\ FinDecided => FinDecided'
         /\ \A f \in FinIn(net') : f.offset = writeOffset /\ FinDecided'
<1> USE ArqAssumption DEF ArqAssumption
<1> DEFINE G == /\ DataIn(net') = DataIn(net) /\ writeOffset' = writeOffset
                /\ net \subseteq net'
                /\ FinDecided => FinDecided'
                /\ \A f \in FinIn(net') : f.offset = writeOffset /\ FinDecided'
<1> SUFFICES G
  BY Zenon
<1>1. ASSUME NEW S, writeOffset' = writeOffset, finState' = finState, net' = net \union S,
             \A f \in S : f.flag \in {"ACK", "RST"} \/ f \in DataIn(net)
                          \/ (f.flag = "FIN" /\ f.offset = writeOffset /\ FinDecided)
      PROVE G
  BY <1>1, Zenon DEF DataIn, FinIn, NetInv, FinDecided
<1>2. CASE UNCHANGED <<writeOffset, finState, net>>
  BY <1>2, Zenon DEF DataIn, FinIn, NetInv, FinDecided
<1>3. \A i \in DOMAIN unacked :
        \/ unacked[i].frame \in DataIn(net)
        \/ unacked[i].frame.flag = "FIN" /\ unacked[i].frame.offset = writeOffset /\ FinDecided
  <2>1. DOMAIN unacked = 1..Len(unacked)
    BY DEF TypeOK
  <2> QED
    BY <2>1, Zenon DEF UnackedInv
<1>4. CASE Sender
  <2>1. CASE \E sz \in 1..MaxFrame : AcquireCredits(sz)
    BY <1>2, <2>1, Zenon DEF AcquireCredits
  <2>2. CASE AppCloseWrite \/ RegisterFin
    BY <2>2, Zenon DEF AppCloseWrite, CloseWrite, RegisterFin, DataIn, FinIn, NetInv, FinDecided, WriterInv
  <2>3. CASE AppClose \/ ReverseDone \/ SenderAbort
    BY <1>2, <2>3, Zenon DEF AppClose, ReverseDone, SenderAbort
  <2>4. CASE QueueFin
    BY <2>4 DEF QueueFin, Frame, DataIn, FinIn, NetInv, FinDecided
  <2>5. ASSUME NEW due \in SUBSET DOMAIN unacked, ArqTick(due) PROVE G
    <3>1. PICK sent \in SUBSET DOMAIN unacked : net' = net \union {unacked[i].frame : i \in sent}
      BY <2>5, Zenon DEF ArqTick
    <3>2. UNCHANGED <<writeOffset, finState>>
      BY <2>5, Zenon DEF ArqTick
    <3> DEFINE S == {unacked[i].frame : i \in sent}
    <3>3. \A f \in S : f \in DataIn(net)
                       \/ (f.flag = "FIN" /\ f.offset = writeOffset /\ FinDecided)
      BY <1>3, Zenon
    <3>4. net' = net \union S
      BY <3>1, Zenon
    <3> HIDE DEF G, S
    <3> QED
      BY <1>1, <3>2, <3>3, <3>4, Zenon
  <2> HIDE DEF G
  <2> QED
    BY <1>4, <2>1, <2>2, <2>3, <2>4, <2>5, Zenon DEF Sender
<1>5. CASE Transport
  <2>1. CASE Disconnect
    BY <1>2, <2>1, Zenon DEF Disconnect
  <2>2. CASE Resume /\ sndState = "open"
    <3>1. net' = net \union FramesOf(unacked) /\ UNCHANGED <<writeOffset, finState>>
      BY <2>2, Zenon DEF Resume
    <3>2. \A f \in FramesOf(unacked) : f \in DataIn(net)
                       \/ (f.flag = "FIN" /\ f.offset = writeOffset /\ FinDecided)
      BY <1>3, Zenon DEF FramesOf
    <3> HIDE DEF G
    <3> QED
      BY <1>1, <3>1, <3>2, Zenon
  <2>3. CASE Resume /\ sndState # "open"
    BY <1>2, <2>3, Zenon DEF Resume
  <2> HIDE DEF G
  <2> QED
    BY <1>5, <2>1, <2>2, <2>3, Zenon DEF Transport
<1>6. CASE Deliver
  <2>1. PICK f \in net : OnAck(f) \/ OnReset(f) \/ Feed(f)
    BY <1>6, DeliverCases, Zenon
  <2>2. CASE OnAck(f)
    BY <1>2, <2>2, Zenon DEF OnAck
  <2>3. CASE OnReset(f)
    BY <2>3, Zenon DEF OnReset, CloseWrite, DataIn, FinIn, NetInv, FinDecided, WriterInv
  <2>4. CASE Feed(f)
    <3>1. net' = net \/ net' = net \union {Reset}
      BY <2>4, Zenon DEF Feed, FeedDuplicate, FeedFuture, FeedFin, FeedInOrder, FeedFinal
    <3>2. UNCHANGED <<writeOffset, finState>>
      BY <2>4, FeedKeeps, Zenon
    <3> DEFINE S == {Reset}
    <3>3. \A g \in S : g.flag \in {"ACK", "RST"}
      BY DEF Reset, Frame
    <3>4. net' = net \/ net' = net \union S
      BY <3>1, Zenon
    <3> HIDE DEF G, S
    <3> QED
      BY <1>1, <1>2, <3>2, <3>3, <3>4, Zenon
  <2> HIDE DEF G
  <2> QED
    BY <2>1, <2>2, <2>3, <2>4, Zenon
<1>7. CASE Receiver
  <2>1. UNCHANGED <<writeOffset, finState>>
    BY <1>7, ReceiverKeeps, Zenon
  <2>2. net' = net \/ net' = net \union {Reset} \/ net' = net \union {Frame("ACK", ackOffset, <<>>)}
    BY <1>7, Zenon DEF Receiver, FeedDrain, FeedFinish, AckTimerFires, AckTimerSends, ResolveAck,
         WriteAck, Read, ReadEOF, CloseReceiver, FinalizeReceiver, AbortReceiver
  <2> DEFINE S == {Reset}
             T == {Frame("ACK", ackOffset, <<>>)}
  <2>3. \A g \in S \union T : g.flag \in {"ACK", "RST"}
    BY DEF Reset, Frame
  <2>4. net' = net \/ net' = net \union S \/ net' = net \union T
    BY <2>2, Zenon
  <2> HIDE DEF G, S, T
  <2> QED
    BY <1>1, <1>2, <2>1, <2>3, <2>4, Zenon
<1>8. CASE UNCHANGED vars
  BY <1>2, <1>8, Zenon DEF vars
<1> HIDE DEF G
<1> QED
  BY <1>4, <1>5, <1>6, <1>7, <1>8, Zenon DEF Next

\* Frames on the wire stay segments of Input that do not overlap.
LEMMA NetStep == TypeOK /\ WriterInv /\ NetInv /\ UnackedInv /\ [Next]_vars => NetInv'
<1> SUFFICES ASSUME TypeOK, WriterInv, NetInv, UnackedInv, [Next]_vars PROVE NetInv'
  BY Zenon
<1>1. CASE ~QueueData
  BY <1>1, WireStep, Zenon DEF NetInv
<1>2. CASE QueueData
  <2> DEFINE f == Frame("DATA", writeOffset, Segment(writeOffset, granted))
  <2>1. writeOffset \in Nat /\ granted \in Nat /\ granted \in 1..MaxFrame
    BY <1>2, ArqAssumption DEF ArqAssumption, TypeOK, QueueData
  <2>2. Segment(writeOffset, granted) \in Seq(Nat) /\ Len(Segment(writeOffset, granted)) = granted
    BY <2>1, SegmentType, Zenon DEF WriterInv
  <2>3. /\ f.flag = "DATA" /\ f.offset = writeOffset /\ Len(f.data) = granted
        /\ f.data = Segment(writeOffset, granted) /\ End(f) = writeOffset + granted
    BY <2>2, Zenon DEF Frame, End
  <2>4. net' = net \union {f} /\ writeOffset' = writeOffset + granted /\ finState' = finState
    BY <1>2, Zenon DEF QueueData
  <2> HIDE DEF f
  <2>5. DataIn(net') = DataIn(net) \union {f} /\ FinIn(net') = FinIn(net)
    BY <2>3, <2>4, Zenon DEF DataIn, FinIn
  <2>6. FinIn(net) = {}
    BY <2>1 DEF NetInv, WriterInv
  <2>7. \A g \in DataIn(net) : /\ g.offset \in Nat /\ End(g) \in Nat /\ End(g) <= writeOffset
                               /\ Len(g.data) \in 1..MaxFrame /\ Len(g.data) \in Nat
                               /\ g.offset + Len(g.data) <= writeOffset
                               /\ g.data = Segment(g.offset, Len(g.data))
    <3> SUFFICES ASSUME NEW g \in DataIn(net) PROVE
                 /\ g.offset \in Nat /\ End(g) \in Nat /\ End(g) <= writeOffset
                 /\ Len(g.data) \in 1..MaxFrame /\ Len(g.data) \in Nat
                 /\ g.offset + Len(g.data) <= writeOffset
                 /\ g.data = Segment(g.offset, Len(g.data))
      BY Zenon
    <3> QED
      BY DataFacts
  <2>8. \A g \in DataIn(net') : /\ Len(g.data) \in 1..MaxFrame
                                /\ g.offset + Len(g.data) <= writeOffset'
                                /\ g.data = Segment(g.offset, Len(g.data))
    BY <2>1, <2>3, <2>4, <2>5, <2>7
  <2>9. \A g, h \in DataIn(net') : g = h \/ End(g) <= h.offset \/ End(h) <= g.offset
    BY <2>3, <2>5, <2>7, Zenon DEF NetInv
  <2> QED
    BY <2>5, <2>6, <2>8, <2>9, Zenon DEF NetInv
<1> QED
  BY <1>1, <1>2, Zenon

\* Taking the frame at readOffset passes no other frame.
LEMMA AdvancePast ==
  ASSUME TypeOK, NetInv, AssemblyInv, NEW f \in DataIn(net), f.offset = readOffset,
         NEW g \in DataIn(net)
  PROVE  g = f \/ End(g) <= readOffset \/ g.offset >= End(f)
<1>1. f = g \/ End(f) <= g.offset \/ End(g) <= f.offset
  BY Zenon DEF NetInv
<1>2. /\ f.offset \in Nat /\ End(f) \in Nat /\ g.offset \in Nat /\ End(g) \in Nat
  BY DataFacts
<1> QED
  BY <1>1, <1>2, Zenon

\* Reassembly: one step for each action that moves readOffset, holds a frame
\* or learns the FIN.
LEMMA AssemblyStep ==
  TypeOK /\ WriterInv /\ NetInv /\ UnackedInv /\ AssemblyInv /\ [Next]_vars => AssemblyInv'
<1> SUFFICES ASSUME TypeOK, WriterInv, NetInv, UnackedInv, AssemblyInv, [Next]_vars
             PROVE  AssemblyInv'
  BY Zenon
<1> USE ArqAssumption DEF ArqAssumption
<1>1. CASE QueueData
  <2> DEFINE f == Frame("DATA", writeOffset, Segment(writeOffset, granted))
  <2>1. writeOffset \in Nat /\ granted \in Nat /\ granted > 0 /\ readOffset \in Nat
    BY <1>1 DEF TypeOK, QueueData
  <2>2. f.flag = "DATA" /\ f.offset = writeOffset
    BY Zenon DEF Frame
  <2>3. net' = net \union {f} /\ writeOffset' = writeOffset + granted /\ UNCHANGED asmVars
    BY <1>1, Zenon DEF QueueData
  <2> HIDE DEF f
  <2>4. DataIn(net') = DataIn(net) \union {f}
    BY <2>2, <2>3, Zenon DEF DataIn
  <2>5. ~hasFin
    BY <2>1 DEF AssemblyInv, WriterInv
  <2>6. readOffset <= writeOffset /\ readOffset' = readOffset
    BY <2>3, Zenon DEF AssemblyInv
  <2>7. readOffset' <= writeOffset'
    BY <2>1, <2>3, <2>6
  <2>8. \A g \in DataIn(net') : End(g) <= readOffset' \/ g.offset >= readOffset'
    BY <2>2, <2>4, <2>6, Zenon DEF AssemblyInv
  <2>9. /\ reorderMap' \subseteq DataIn(net') /\ ~hasFin'
        /\ \A g \in reorderMap' : /\ g.offset >= readOffset'
                                  /\ feeding' = 0 => g.offset > readOffset'
                                  /\ g.offset - readOffset' <= ReorderBytes
    BY <2>3, <2>4, <2>5, Zenon DEF AssemblyInv
  <2> QED
    BY <2>7, <2>8, <2>9, Zenon DEF AssemblyInv
<1>2. CASE ~QueueData
  <2>1. /\ DataIn(net') = DataIn(net) /\ writeOffset' = writeOffset
        /\ FinDecided => FinDecided'
        /\ \A f \in FinIn(net') : f.offset = writeOffset /\ FinDecided'
        /\ net \subseteq net'
    BY <1>2, WireStep, Zenon
  <2>2. CASE UNCHANGED asmVars
    BY <2>1, <2>2, Zenon DEF AssemblyInv
  <2>3. ASSUME NEW f \in DataIn(net), f.offset = readOffset, readOffset' = End(f), feeding' # 0,
               reorderMap' \subseteq reorderMap, f \notin reorderMap',
               UNCHANGED <<hasFin, finOffset>>
        PROVE  AssemblyInv'
    <3>1. /\ f.offset \in Nat /\ End(f) \in Nat /\ End(f) <= writeOffset
          /\ End(f) = f.offset + Len(f.data) /\ Len(f.data) \in Nat /\ Len(f.data) > 0
      BY DataFacts
    <3>2. \A g \in DataIn(net) : /\ g = f \/ End(g) <= readOffset \/ g.offset >= End(f)
                                 /\ g.offset \in Nat /\ End(g) > g.offset /\ End(g) \in Nat
      <4> SUFFICES ASSUME NEW g \in DataIn(net)
                   PROVE  /\ g = f \/ End(g) <= readOffset \/ g.offset >= End(f)
                          /\ g.offset \in Nat /\ End(g) > g.offset /\ End(g) \in Nat
        BY Zenon
      <4>1. /\ g.offset \in Nat /\ Len(g.data) \in Nat /\ Len(g.data) > 0
            /\ End(g) = g.offset + Len(g.data)
        BY DataFacts
      <4> QED
        BY <2>3, <4>1, AdvancePast
    <3>3. readOffset \in Nat /\ ReorderBytes \in Nat
      BY DEF TypeOK
    <3>4. \A g \in DataIn(net') : End(g) <= readOffset' \/ g.offset >= readOffset'
      BY <2>1, <2>3, <3>1, <3>2, <3>3
    <3>5. \A g \in reorderMap' : g.offset >= readOffset' /\ g.offset - readOffset' <= ReorderBytes
      <4> SUFFICES ASSUME NEW g \in reorderMap'
                   PROVE  g.offset >= readOffset' /\ g.offset - readOffset' <= ReorderBytes
        BY Zenon
      <4>1. g \in DataIn(net) /\ g # f /\ g.offset >= readOffset
            /\ g.offset - readOffset <= ReorderBytes
        BY <2>3, Zenon DEF AssemblyInv
      <4>2. g.offset >= End(f) /\ g.offset \in Nat
        BY <3>2, <3>3, <4>1
      <4> QED
        BY <2>3, <3>1, <3>3, <4>1, <4>2
    <3> QED
      BY <2>1, <2>3, <3>1, <3>4, <3>5, Zenon DEF AssemblyInv
  <2>4. ASSUME NEW f \in net, NEW rst, FeedInOrder(f, rst) PROVE AssemblyInv'
    <3>1. f \in DataIn(net) /\ f.offset = readOffset /\ readOffset' = End(f)
          /\ feeding' = Len(f.data) /\ UNCHANGED <<reorderMap, hasFin, finOffset>> /\ feeding = 0
      BY <2>4, Zenon DEF FeedInOrder, Arrives, DataIn
    <3>2. Len(f.data) # 0
      BY <3>1, DataFacts
    <3>3. f \notin reorderMap
      BY <3>1 DEF AssemblyInv, TypeOK
    <3> QED
      BY <2>3, <3>1, <3>2, <3>3, Zenon
  <2>5. CASE FeedDrain
    <3>1. PICK f \in reorderMap : /\ feeding > 0 /\ f.offset = readOffset
                                  /\ readOffset' = End(f) /\ reorderMap' = reorderMap \ {f}
                                  /\ UNCHANGED <<hasFin, finOffset, feeding>>
      BY <2>5, Zenon DEF FeedDrain
    <3>2. f \in DataIn(net) /\ feeding # 0
      BY <3>1 DEF AssemblyInv, TypeOK
    <3> QED
      BY <2>3, <3>1, <3>2, Zenon
  <2>6. CASE FeedFinish
    <3>1. /\ \A f \in reorderMap : f.offset # readOffset
          /\ UNCHANGED <<readOffset, reorderMap, hasFin, finOffset>>
      BY <2>6, Zenon DEF FeedFinish
    <3>2. \A f \in reorderMap : f.offset \in Nat
      BY Zenon DEF TypeOK, Frames
    <3>3. \A f \in reorderMap : f.offset > readOffset
      BY <3>1, <3>2 DEF AssemblyInv, TypeOK
    <3> QED
      BY <2>1, <3>1, <3>3, Zenon DEF AssemblyInv
  <2>7. ASSUME NEW f \in net, FeedFuture(f) PROVE AssemblyInv'
    <3>1. /\ f \in DataIn(net) /\ f.offset > readOffset
          /\ UNCHANGED <<readOffset, hasFin, finOffset, feeding>>
          /\ reorderMap' = reorderMap \/ (~TooFar(f.offset) /\ reorderMap' = reorderMap \union {f})
      BY <2>7, Zenon DEF FeedFuture, Arrives, DataIn
    <3>2. f.offset \in Nat /\ readOffset \in Nat
      BY <3>1, DataFacts DEF TypeOK
    <3>3. ~TooFar(f.offset) => f.offset - readOffset <= ReorderBytes
      BY <3>2 DEF TooFar
    <3> QED
      BY <2>1, <3>1, <3>2, <3>3 DEF AssemblyInv
  <2>8. ASSUME NEW f \in net, FeedFin(f) PROVE AssemblyInv'
    <3>1. /\ f \in FinIn(net') /\ finOffset' = f.offset
          /\ UNCHANGED <<readOffset, reorderMap, feeding>>
      BY <2>1, <2>8, Zenon DEF FeedFin, Arrives, FinIn
    <3> QED
      BY <2>1, <3>1, Zenon DEF AssemblyInv
  <2>9. CASE FinalizeReceiver \/ AbortReceiver
    BY <2>1, <2>9 DEF FinalizeReceiver, AbortReceiver, AssemblyInv
  <2>10. CASE Deliver
    <3>1. PICK f \in net : OnAck(f) \/ OnReset(f) \/ Feed(f)
      BY <2>10, DeliverCases, Zenon
    <3>2. CASE FeedDuplicate(f) \/ \E rst \in BOOLEAN : FeedFinal(f, rst)
      BY <2>2, <3>2, Zenon DEF FeedDuplicate, FeedFinal
    <3> QED
      BY <2>2, <2>4, <2>7, <2>8, <3>1, <3>2, OnKeeps, Zenon DEF Feed
  <2>11. CASE Receiver
    <3>1. CASE \/ AckTimerFires \/ AckTimerSends \/ ResolveAck \/ WriteAck
               \/ ReadEOF \/ CloseReceiver \/ \E n \in 1..Len(Input) : Read(n)
      BY <2>2, <3>1, Zenon DEF AckTimerFires, AckTimerSends, ResolveAck, WriteAck, ReadEOF,
                        CloseReceiver, Read
    <3> QED
      BY <2>5, <2>6, <2>9, <2>11, <3>1, Zenon DEF Receiver
  <2> QED
    BY <2>2, <2>10, <2>11, SenderKeeps, TransportKeeps, Zenon DEF Next, vars
<1> QED
  BY <1>1, <1>2, Zenon

-----------------------------------------------------------------------------
(* What the reader sees, and what is acknowledged                          *)

\* Pushing the frame at readOffset extends the prefix by that frame.
LEMMA PushPrefix ==
  ASSUME TypeOK, NetInv, AssemblyInv, PrefixDelivered, NEW f \in DataIn(net),
         f.offset = readOffset, Push(f.data), readOffset' = End(f),
         writeOffset' = writeOffset, closed' = closed
  PROVE  PrefixDelivered'
<1>1. /\ f.data = Segment(f.offset, Len(f.data)) /\ Len(f.data) \in Nat
      /\ End(f) = f.offset + Len(f.data) /\ End(f) <= writeOffset /\ f.data \in Seq(Nat)
      /\ f.offset \in Nat
  BY DataFacts
<1>2. CASE closed
  BY <1>2, Zenon DEF Push, PrefixDelivered
<1>3. CASE ~closed
  <2>1. delivered' = delivered \o f.data /\ ~closed'
    BY <1>3, Zenon DEF Push
  <2>2. /\ delivered = SubSeq(Input, 1, readOffset) /\ Len(delivered) = readOffset
        /\ delivered \in Seq(Nat)
    BY <1>3, Zenon DEF PrefixDelivered, TypeOK
  <2>3. /\ readOffset \in Nat /\ writeOffset \in Nat /\ writeOffset <= Len(Input)
        /\ Len(Input) \in Nat /\ Input \in Seq(Nat)
    BY ArqAssumption DEF ArqAssumption, TypeOK
  <2> DEFINE n == readOffset + Len(f.data)
  <2>4. n \in readOffset..Len(Input) /\ n = End(f)
    BY <1>1, <2>3
  <2>5. f.data = SubSeq(Input, readOffset + 1, n)
    BY <1>1, Zenon DEF Segment
  <2> HIDE DEF n
  <2>6. SubSeq(Input, 1, readOffset) \o SubSeq(Input, readOffset + 1, n) = SubSeq(Input, 1, n)
    <3> DEFINE m == 1
    <3>1. m \in 1..Len(Input)+1 /\ readOffset \in m-1..Len(Input)
      BY <2>3, <2>4
    <3> HIDE DEF m
    <3>2. SubSeq(Input, m, readOffset) \o SubSeq(Input, readOffset + 1, n) = SubSeq(Input, m, n)
      BY <2>3, <2>4, <3>1, ConcatAdjacentSubSeq, Zenon
    <3> QED
      BY <3>2, Zenon DEF m
  <2>7. delivered' = SubSeq(Input, 1, n)
    BY <2>1, <2>2, <2>5, <2>6, Zenon
  <2>8. Len(delivered') = n
    BY <1>1, <2>1, <2>2, ConcatProperties DEF n
  <2> QED
    BY <1>1, <2>1, <2>4, <2>7, <2>8, Zenon DEF PrefixDelivered
<1> QED
  BY <1>2, <1>3, Zenon

\* Each step that pushes takes one frame of the wire at readOffset.
LEMMA PushStep ==
  ASSUME TypeOK, AssemblyInv, FeedDrain \/ \E f \in net, rst \in BOOLEAN : FeedInOrder(f, rst)
  PROVE  \E f \in DataIn(net) : /\ f.offset = readOffset /\ Push(f.data) /\ readOffset' = End(f)
                                /\ UNCHANGED <<writeOffset, closed, hasFin, finOffset, readDone,
                                               consumed, eof, ackVars, finState>>
<1>1. CASE FeedDrain
  BY <1>1, Zenon DEF FeedDrain, AssemblyInv
<1>2. ASSUME NEW f \in net, NEW rst \in BOOLEAN, FeedInOrder(f, rst)
      PROVE  \E g \in DataIn(net) : /\ g.offset = readOffset /\ Push(g.data) /\ readOffset' = End(g)
                                    /\ UNCHANGED <<writeOffset, closed, hasFin, finOffset, readDone,
                                                   consumed, eof, ackVars, finState>>
  <2>1. f \in DataIn(net)
    BY <1>2, Zenon DEF FeedInOrder, Arrives, DataIn
  <2> QED
    BY <1>2, <2>1, Zenon DEF FeedInOrder
<1> QED
  BY <1>1, <1>2, Zenon

\* The steps that push nothing: delivered stays, and readOffset with it.
LEMMA NoPushStep ==
  ASSUME [Next]_vars, ~FeedDrain, ~\E f \in net, rst \in BOOLEAN : FeedInOrder(f, rst)
  PROVE  UNCHANGED <<delivered, readOffset>> /\ closed' \in {closed, TRUE}
<1>1. CASE Deliver
  <2>1. PICK f \in net : OnAck(f) \/ OnReset(f) \/ Feed(f)
    BY <1>1, DeliverCases, Zenon
  <2>2. CASE FeedDuplicate(f) \/ FeedFuture(f) \/ FeedFin(f)
    BY <2>2, Zenon DEF FeedDuplicate, FeedFuture, FeedFin
  <2>3. CASE \E rst \in BOOLEAN : FeedFinal(f, rst)
    BY <2>3, Zenon DEF FeedFinal
  <2> QED
    BY <2>1, <2>2, <2>3, OnKeeps, Zenon DEF Feed
<1>2. CASE Receiver
  BY <1>2, Zenon DEF Receiver, FeedFinish, AckTimerFires, AckTimerSends, ResolveAck, WriteAck,
              Read, ReadEOF, CloseReceiver, FinalizeReceiver, AbortReceiver
<1> QED
  BY <1>1, <1>2, SenderKeeps, TransportKeeps, Zenon DEF Next, vars

\* What is delivered stays a prefix of Input.
LEMMA PrefixStep ==
  TypeOK /\ NetInv /\ AssemblyInv /\ PrefixDelivered /\ [Next]_vars
    /\ writeOffset' >= writeOffset /\ TypeOK' => PrefixDelivered'
<1> SUFFICES ASSUME TypeOK, NetInv, AssemblyInv, PrefixDelivered, [Next]_vars,
                    writeOffset' >= writeOffset, TypeOK'
             PROVE  PrefixDelivered'
  BY Zenon
<1>1. CASE FeedDrain \/ \E f \in net, rst \in BOOLEAN : FeedInOrder(f, rst)
  BY <1>1, PushStep, PushPrefix, Zenon
<1>2. CASE ~(FeedDrain \/ \E f \in net, rst \in BOOLEAN : FeedInOrder(f, rst))
  <2>1. UNCHANGED <<delivered, readOffset>> /\ closed' \in {closed, TRUE}
    BY <1>2, NoPushStep, Zenon
  <2>2. writeOffset \in Nat /\ writeOffset' \in Nat /\ Len(delivered) \in Nat
    BY ArqAssumption DEF ArqAssumption, TypeOK
  <2>3. Len(delivered) <= writeOffset'
    BY <2>2 DEF PrefixDelivered
  <2> QED
    BY <2>1, <2>3, Zenon DEF PrefixDelivered, TypeOK
<1> QED
  BY <1>1, <1>2, Zenon

\* Nothing already written is unwritten.
LEMMA WriteMonotone ==
  ASSUME TypeOK, WriterInv, NetInv, UnackedInv, [Next]_vars
  PROVE  writeOffset' >= writeOffset
<1>1. writeOffset \in Nat /\ granted \in Nat
  BY ArqAssumption DEF ArqAssumption, TypeOK
<1>2. CASE QueueData
  BY <1>1, <1>2 DEF QueueData
<1>3. CASE ~QueueData
  <2>1. writeOffset' = writeOffset
    BY <1>3, WireStep, Zenon
  <2> QED
    BY <1>1, <2>1
<1> QED
  BY <1>2, <1>3, Zenon

\* The receiver never gives back what it has taken.
LEMMA TakenMonotone ==
  ASSUME TypeOK, WriterInv, NetInv, AssemblyInv, UnackedInv, [Next]_vars, TypeOK', AssemblyInv'
  PROVE  Taken' >= Taken /\ Taken \in Nat /\ Taken' \in Nat
<1>1. /\ readOffset \in Nat /\ finOffset \in Nat /\ readOffset' \in Nat /\ finOffset' \in Nat
      /\ writeOffset \in Nat /\ writeOffset' \in Nat
  BY ArqAssumption DEF ArqAssumption, TypeOK
<1>2. readOffset' >= readOffset
  <2>1. CASE FeedDrain \/ \E f \in net, rst \in BOOLEAN : FeedInOrder(f, rst)
    <3>1. PICK f \in DataIn(net) : f.offset = readOffset /\ readOffset' = End(f)
      BY <2>1, PushStep, Zenon
    <3>2. End(f) = f.offset + Len(f.data) /\ Len(f.data) \in Nat
      BY DataFacts
    <3> QED
      BY <1>1, <3>1, <3>2
  <2> QED
    <3>1. CASE ~(FeedDrain \/ \E f \in net, rst \in BOOLEAN : FeedInOrder(f, rst))
      <4>1. readOffset' = readOffset
        BY <3>1, NoPushStep, Zenon
      <4> QED
        BY <1>1, <4>1
    <3> QED
      BY <2>1, <3>1, Zenon
<1>3. hasFin => hasFin' /\ finOffset' = writeOffset'
  <2>1. hasFin => hasFin'
    <3>1. CASE Deliver
      BY <3>1, Zenon DEF Deliver, OnAck, OnReset, FeedDuplicate, FeedFuture, FeedFin, FeedFinal, FeedInOrder
    <3>2. CASE Receiver
      BY <3>2, Zenon DEF Receiver, FeedDrain, FeedFinish, AckTimerFires, AckTimerSends, ResolveAck,
                  WriteAck, Read, ReadEOF, CloseReceiver, FinalizeReceiver, AbortReceiver
    <3> QED
      BY <3>1, <3>2, SenderKeeps, TransportKeeps, Zenon DEF Next, vars
  <2> QED
    BY <2>1, Zenon DEF AssemblyInv
<1>4. hasFin => writeOffset' = writeOffset /\ finOffset = writeOffset
  <2>1. ASSUME hasFin PROVE ~QueueData
    BY <2>1 DEF AssemblyInv, WriterInv, QueueData
  <2> QED
    BY <2>1, WireStep, Zenon DEF AssemblyInv
<1>5. /\ hasFin' => finOffset' = writeOffset'
      /\ readOffset' <= writeOffset' /\ readOffset <= writeOffset
  BY Zenon DEF AssemblyInv
<1> HIDE DEF AssemblyInv, TypeOK
<1>6. CASE hasFin
  BY <1>1, <1>2, <1>3, <1>4, <1>5, <1>6 DEF Taken
<1>7. CASE ~hasFin
  <2>1. Taken = readOffset
    BY <1>7, Zenon DEF Taken
  <2>2. CASE hasFin' /\ readOffset' >= finOffset'
    <3>1. Taken' = finOffset' + 1
      BY <2>2, Zenon DEF Taken
    <3>2. finOffset' >= readOffset'
      BY <1>1, <1>5, <2>2, Zenon
    <3>3. finOffset' + 1 >= readOffset /\ finOffset' + 1 \in Nat
      <4>1. ASSUME NEW a \in Nat, NEW b \in Nat, NEW c \in Nat, b >= a, c >= b
            PROVE  c + 1 >= a /\ c + 1 \in Nat
        BY <4>1
      <4> QED
        BY <1>1, <1>2, <3>2, <4>1, Zenon
    <3> QED
      BY <1>1, <2>1, <3>1, <3>3, Zenon
  <2>3. CASE ~(hasFin' /\ readOffset' >= finOffset')
    <3>1. Taken' = readOffset'
      BY <2>3, Zenon DEF Taken
    <3> QED
      BY <1>1, <1>2, <2>1, <3>1, Zenon
  <2> QED
    BY <2>2, <2>3, Zenon
<1> QED
  BY <1>6, <1>7, Zenon

-----------------------------------------------------------------------------
(* What is acknowledged, and what the reader is told                       *)

\* Where an acknowledged offset can come from: the published one, the timer's,
\* or cumulativeAckLocked before or after the step.
LEMMA AckSources ==
  ASSUME TypeOK, UnackedInv, [Next]_vars
  PROVE  /\ ackOffset' \in {ackOffset, Taken, Taken'} \/ (ackFired # -1 /\ ackOffset' = ackFired)
         /\ ackFired' \in {ackFired, -1, Taken}
         /\ \A f \in net' : f.flag = "ACK" => f \in net \/ f.offset = ackOffset
<1> DEFINE G == /\ ackOffset' \in {ackOffset, Taken, Taken'} \/ (ackFired # -1 /\ ackOffset' = ackFired)
                /\ ackFired' \in {ackFired, -1, Taken}
                /\ \A f \in net' : f.flag = "ACK" => f \in net \/ f.offset = ackOffset
<1> SUFFICES G
  BY Zenon
<1>0. CumulativeAck(hasFin, finOffset, readOffset) = Taken
  BY Zenon DEF CumulativeAck, FinReached, Taken
<1>1. \A i \in DOMAIN unacked : unacked[i].frame.flag # "ACK"
  <2>1. DOMAIN unacked = 1..Len(unacked)
    BY DEF TypeOK
  <2> QED
    BY <2>1, Zenon DEF UnackedInv, DataIn
<1>2. CASE Sender
  <2>1. UNCHANGED ackVars
    BY <1>2, SenderKeeps, Zenon
  <2>2. \A f \in net' : f.flag = "ACK" => f \in net
    <3>1. ASSUME NEW g, net' = net \union {g}, g.flag # "ACK"
          PROVE  \A f \in net' : f.flag = "ACK" => f \in net
      BY <3>1, Zenon
    <3>4. CASE QueueData
      <4> DEFINE g == Frame("DATA", writeOffset, Segment(writeOffset, granted))
      <4>1. net' = net \union {g} /\ g.flag # "ACK"
        BY <3>4, Zenon DEF QueueData, Frame
      <4> HIDE DEF g
      <4> QED
        BY <3>1, <4>1, Zenon
    <3>5. CASE QueueFin
      <4> DEFINE g == Frame("FIN", writeOffset, <<>>)
      <4>1. net' = net \union {g} /\ g.flag # "ACK"
        BY <3>5, Zenon DEF QueueFin, Frame
      <4> HIDE DEF g
      <4> QED
        BY <3>1, <4>1, Zenon
    <3>2. CASE \E due \in SUBSET DOMAIN unacked : ArqTick(due)
      BY <1>1, <3>2 DEF ArqTick
    <3>3. CASE \/ \E sz \in 1..MaxFrame : AcquireCredits(sz)
               \/ AppCloseWrite \/ AppClose \/ RegisterFin \/ ReverseDone \/ SenderAbort
      BY <3>3, Zenon DEF AcquireCredits, AppCloseWrite, AppClose, RegisterFin, ReverseDone, SenderAbort
    <3> QED
      BY <1>2, <3>2, <3>3, <3>4, <3>5, Zenon DEF Sender
  <2> QED
    BY <2>1, <2>2, Zenon
<1>3. CASE Transport
  <2>1. UNCHANGED ackVars
    BY <1>3, TransportKeeps, Zenon
  <2>2. \A f \in net' : f.flag = "ACK" => f \in net
    BY <1>1, <1>3, Zenon DEF Transport, Disconnect, Resume, FramesOf
  <2> QED
    BY <2>1, <2>2, Zenon
<1>4. CASE Deliver
  <2>1. PICK f \in net : OnAck(f) \/ OnReset(f) \/ Feed(f)
    BY <1>4, DeliverCases, Zenon
  <2>2. CASE OnAck(f) \/ OnReset(f)
    BY <2>2, OnKeeps, Zenon
  <2>3. CASE FeedDuplicate(f) \/ FeedFuture(f)
    BY <1>0, <2>3, Zenon DEF FeedDuplicate, FeedFuture, SendAck
  <2>4. CASE FeedFin(f)
    BY <2>4, Zenon DEF FeedFin, SendAck, CumulativeAck, FinReached, Taken
  <2>5. CASE \E rst \in BOOLEAN : FeedInOrder(f, rst) \/ FeedFinal(f, rst)
    BY <2>5 DEF FeedInOrder, FeedFinal, Reset, Frame
  <2> QED
    BY <2>1, <2>2, <2>3, <2>4, <2>5, Zenon DEF Feed
<1>5. CASE Receiver
  <2>1. CASE FeedDrain
    BY <2>1, Zenon DEF FeedDrain
  <2>2. CASE FeedFinish
    BY <1>0, <2>2, Zenon DEF FeedFinish, SendAck, ScheduleDelayedAck
  <2>3. CASE AckTimerFires \/ AckTimerSends
    BY <1>0, <2>3, Zenon DEF AckTimerFires, AckTimerSends, SendAck
  <2>4. CASE ResolveAck
    BY <2>4, Zenon DEF ResolveAck
  <2>5. CASE WriteAck
    BY <2>5 DEF WriteAck, Frame
  <2>6. CASE ReadEOF \/ CloseReceiver \/ \E n \in 1..Len(Input) : Read(n)
    BY <2>6 DEF ReadEOF, CloseReceiver, Read, Reset, Frame
  <2>7. CASE FinalizeReceiver \/ AbortReceiver
    BY <2>7, Zenon DEF FinalizeReceiver, AbortReceiver
  <2> HIDE DEF G
  <2> QED
    BY <1>5, <2>1, <2>2, <2>3, <2>4, <2>5, <2>6, <2>7, Zenon DEF Receiver
<1>6. CASE UNCHANGED vars
  BY <1>6, Zenon DEF vars
<1> HIDE DEF G
<1> QED
  BY <1>2, <1>3, <1>4, <1>5, <1>6, Zenon DEF Next

\* No acknowledgement gets ahead of what the receiver has taken.
LEMMA AckStep ==
  ASSUME TypeOK, UnackedInv, AckSound, [Next]_vars, TypeOK',
         Taken' >= Taken, Taken \in Nat, Taken' \in Nat
  PROVE  AckSound'
<1>1. /\ ackOffset <= Taken /\ ackFired <= Taken
      /\ \A f \in net : f.flag = "ACK" => f.offset <= Taken
  BY Zenon DEF AckSound, Taken
<1>2. ackOffset \in Nat /\ ackFired \in Int
  BY DEF TypeOK
<1>3. \A f \in net : f.offset \in Nat
  BY Zenon DEF TypeOK, Frames
<1> HIDE DEF TypeOK
<1>4. ackOffset' <= Taken'
  BY <1>1, <1>2, AckSources
<1>5. ackFired' <= Taken'
  BY <1>1, <1>2, AckSources
<1>6. \A f \in net' : f.flag = "ACK" => f.offset <= Taken'
  <2> SUFFICES ASSUME NEW f \in net', f.flag = "ACK" PROVE f.offset <= Taken'
    BY Zenon
  <2>1. f \in net \/ f.offset = ackOffset
    BY AckSources, Zenon
  <2> QED
    BY <1>1, <1>2, <1>3, <2>1
<1> QED
  BY <1>4, <1>5, <1>6, Zenon DEF AckSound, Taken

\* The reader's bookkeeping follows every push and every Read.
LEMMA ReaderStep ==
  ASSUME TypeOK, NetInv, AssemblyInv, PrefixDelivered, ReaderInv, [Next]_vars, TypeOK'
  PROVE  ReaderInv'
<1>1. CASE UNCHANGED <<delivered, ring, consumed, closed, readDone, hasFin, finOffset, readOffset>>
  BY <1>1, Zenon DEF ReaderInv
<1>2. CASE FeedDrain \/ \E f \in net, rst \in BOOLEAN : FeedInOrder(f, rst)
  <2>1. PICK f \in DataIn(net) :
          /\ f.offset = readOffset /\ Push(f.data) /\ readOffset' = End(f)
          /\ UNCHANGED <<closed, hasFin, finOffset, readDone, consumed>>
    BY <1>2, PushStep, Zenon
  <2>2. f.data \in Seq(Nat) /\ Len(f.data) \in Nat /\ End(f) = readOffset + Len(f.data)
    BY <2>1, DataFacts
  <2>5. delivered \in Seq(Nat) /\ readOffset \in Nat /\ finOffset \in Nat
    BY ArqAssumption DEF ArqAssumption, TypeOK
  <2>3. ~closed => Len(delivered') \in ring'
    <3>1. Len(delivered \o f.data) = Len(delivered) + Len(f.data)
      BY <2>2, <2>5, ConcatProperties, Zenon
    <3> QED
      BY <2>1, <3>1, Zenon DEF Push
  <2>4. hasFin /\ readOffset >= finOffset => hasFin' /\ readOffset' >= finOffset'
    BY <2>1, <2>2, <2>5
  <2> QED
    BY <2>1, <2>3, <2>4, Zenon DEF ReaderInv
<1>3. CASE FeedFinish
  BY <1>3, Zenon DEF FeedFinish, FinReached, ReaderInv
<1>4. ASSUME NEW f \in net, FeedFin(f) PROVE ReaderInv'
  <2>1. /\ hasFin' /\ finOffset' = f.offset /\ readOffset' = readOffset
        /\ readDone' = (readDone \/ readOffset >= f.offset)
        /\ UNCHANGED <<delivered, ring, consumed, closed>>
    BY <1>4, Zenon DEF FeedFin, FinReached
  <2>2. f.offset = writeOffset
    BY <1>4, Zenon DEF FeedFin, Arrives, NetInv, FinIn
  <2> QED
    BY <2>1, <2>2, Zenon DEF ReaderInv, AssemblyInv
<1>5. ASSUME NEW n \in 1..Len(Input), Read(n) PROVE ReaderInv'
  <2>1. /\ ~closed /\ consumed' = consumed + n /\ ring' = {e \in ring : e > consumed + n}
        /\ UNCHANGED <<delivered, closed, readDone, hasFin, finOffset, readOffset>>
        /\ consumed + n <= Len(delivered)
    BY <1>5, Zenon DEF Read
  <2>2. consumed \in Nat /\ n \in Nat /\ n > 0 /\ Len(delivered) \in Nat
    <3>1. Len(Input) \in Nat
      BY ArqAssumption DEF ArqAssumption
    <3>2. delivered \in Seq(Nat) /\ consumed \in 0..Len(delivered)
      BY Zenon DEF TypeOK
    <3> HIDE DEF TypeOK
    <3> QED
      BY <3>1, <3>2
  <2>3. Len(delivered) \in ring
    BY <2>1, <2>2 DEF ReaderInv
  <2>4. consumed' = Len(delivered') \/ Len(delivered') \in ring'
    BY <2>1, <2>2, <2>3
  <2> QED
    BY <2>1, <2>4, Zenon DEF ReaderInv
<1>6. CASE CloseReceiver \/ AbortReceiver
  BY <1>6, Zenon DEF CloseReceiver, AbortReceiver, ReaderInv
<1>7. CASE Deliver
  <2>1. PICK f \in net : OnAck(f) \/ OnReset(f) \/ Feed(f)
    BY <1>7, DeliverCases, Zenon
  <2>2. CASE FeedDuplicate(f) \/ FeedFuture(f) \/ \E rst \in BOOLEAN : FeedFinal(f, rst)
    BY <1>1, <2>2, Zenon DEF FeedDuplicate, FeedFuture, FeedFinal
  <2>3. CASE OnAck(f) \/ OnReset(f)
    BY <1>1, <2>3, OnKeeps, Zenon
  <2> QED
    BY <1>2, <1>4, <2>1, <2>2, <2>3, Zenon DEF Feed
<1>8. CASE Receiver
  <2>1. CASE \/ AckTimerFires \/ AckTimerSends \/ ResolveAck \/ WriteAck \/ ReadEOF
             \/ FinalizeReceiver
    BY <1>1, <2>1, Zenon DEF AckTimerFires, AckTimerSends, ResolveAck, WriteAck, ReadEOF, FinalizeReceiver
  <2> QED
    BY <1>2, <1>3, <1>5, <1>6, <1>8, <2>1, Zenon DEF Receiver
<1> QED
  BY <1>1, <1>7, <1>8, SenderKeeps, TransportKeeps, Zenon DEF Next, vars

\* Once io.EOF was returned nothing is written and nothing is left to read.
LEMMA EOFStep ==
  ASSUME TypeOK, WriterInv, NetInv, AssemblyInv, ReaderInv, UnackedInv, PrefixDelivered,
         EOFComplete, [Next]_vars
  PROVE  EOFComplete'
<1>1. /\ writeOffset \in Nat /\ readOffset \in Nat /\ finOffset \in Nat /\ Len(delivered) \in Nat
      /\ consumed \in Nat
  <2>1. Len(Input) \in Nat /\ delivered \in Seq(Nat)
    BY ArqAssumption DEF ArqAssumption, TypeOK
  <2>2. Len(delivered) \in Nat
    BY <2>1
  <2> QED
    BY <2>1, <2>2 DEF TypeOK
<1>2. CASE ReadEOF
  <2>1. /\ ~closed /\ ring = {} /\ readDone
        /\ UNCHANGED <<consumed, writeOffset, finState>>
    BY <1>2, Zenon DEF ReadEOF
  <2>2. consumed = readOffset
    BY <2>1, Zenon DEF ReaderInv, PrefixDelivered
  <2>3. readOffset = writeOffset /\ FinDecided
    BY <1>1, <2>1 DEF ReaderInv, AssemblyInv
  <2> QED
    BY <2>1, <2>2, <2>3, Zenon DEF EOFComplete, FinDecided
<1>3. CASE ~ReadEOF /\ eof
  <2>1. consumed = writeOffset /\ FinDecided
    BY <1>3, Zenon DEF EOFComplete, FinDecided
  <2>2. ~QueueData
    BY <2>1 DEF WriterInv, QueueData
  <2>3. writeOffset' = writeOffset /\ FinDecided'
    BY <2>1, <2>2, WireStep, Zenon
  <2>4. ASSUME NEW n \in 1..Len(Input), Read(n) PROVE FALSE
    <3>1. consumed + n <= Len(delivered) /\ n \in Nat /\ n > 0
      BY <2>4, ArqAssumption DEF Read, ArqAssumption
    <3>2. Len(delivered) <= consumed
      BY <2>1, Zenon DEF PrefixDelivered
    <3> HIDE DEF TypeOK
    <3> QED
      BY <1>1, <3>1, <3>2
  <2>5. consumed' = consumed
    <3>1. CASE Deliver
      BY <3>1, Zenon DEF Deliver, OnAck, OnReset, FeedDuplicate, FeedFuture, FeedFin, FeedFinal, FeedInOrder
    <3>2. CASE Receiver
      BY <1>3, <2>4, <3>2, Zenon DEF Receiver, FeedDrain, FeedFinish, AckTimerFires, AckTimerSends,
           ResolveAck, WriteAck, CloseReceiver, FinalizeReceiver, AbortReceiver
    <3> QED
      BY <3>1, <3>2, SenderKeeps, TransportKeeps, Zenon DEF Next, vars
  <2> QED
    BY <2>1, <2>3, <2>5, Zenon DEF EOFComplete, FinDecided
<1>4. CASE ~ReadEOF /\ ~eof
  <2>1. eof' = eof
    <3>1. CASE Deliver
      BY <3>1, Zenon DEF Deliver, OnAck, OnReset, FeedDuplicate, FeedFuture, FeedFin, FeedFinal, FeedInOrder
    <3>2. CASE Receiver
      BY <1>4, <3>2, Zenon DEF Receiver, FeedDrain, FeedFinish, AckTimerFires, AckTimerSends, Read,
           ResolveAck, WriteAck, CloseReceiver, FinalizeReceiver, AbortReceiver
    <3> QED
      BY <3>1, <3>2, SenderKeeps, TransportKeeps, Zenon DEF Next, vars
  <2> QED
    BY <1>4, <2>1, Zenon DEF EOFComplete
<1> QED
  BY <1>2, <1>3, <1>4, Zenon

-----------------------------------------------------------------------------
(* The frames kept for retransmission                                      *)

\* After the step, f is a DATA frame on the wire or the FIN.
KeptNext(f) == f \in DataIn(net') \/ (f.flag = "FIN" /\ f.offset = writeOffset' /\ FinDecided')

\* A step that leaves the kept frames as they are, and finalizes only when
\* maybeFinalize may, keeps the invariant.
LEMMA SameUnacked ==
  ASSUME TypeOK, TypeOK', UnackedInv, Taken' >= Taken, Taken \in Nat, Taken' \in Nat,
         Len(unacked') = Len(unacked),
         \A i \in 1..Len(unacked) : unacked'[i].frame = unacked[i].frame /\ KeptNext(unacked[i].frame),
         SndEnd' = SndEnd, SndEnd \in Nat,
         sndState = "aborted" => sndState' = "aborted",
         sndState' = "graceful" => finState' = "queued" /\ unacked' = <<>>
  PROVE  UnackedInv'
<1>1. Len(unacked) \in Nat /\ unacked \in Seq(UnackedFrames) /\ unacked' \in Seq(UnackedFrames)
  BY DEF TypeOK
<1>2. \A i \in 1..Len(unacked') :
       \/ unacked'[i].frame \in DataIn(net')
       \/ unacked'[i].frame.flag = "FIN" /\ unacked'[i].frame.offset = writeOffset' /\ FinDecided'
  BY Zenon DEF KeptNext
<1>3. \A i \in 1..Len(unacked') :
       End(unacked'[i].frame) = IF i = Len(unacked') THEN SndEnd' ELSE unacked'[i+1].frame.offset
  <2> SUFFICES ASSUME NEW i \in 1..Len(unacked)
               PROVE  End(unacked'[i].frame) =
                        IF i = Len(unacked) THEN SndEnd ELSE unacked'[i+1].frame.offset
    BY Zenon
  <2>1. End(unacked[i].frame) = IF i = Len(unacked) THEN SndEnd ELSE unacked[i+1].frame.offset
    BY Zenon DEF UnackedInv
  <2>2. i # Len(unacked) => i + 1 \in 1..Len(unacked)
    BY <1>1
  <2> QED
    BY <2>1, <2>2, Zenon
<1>4. (unacked' = <<>>) <=> (unacked = <<>>)
  BY <1>1, EmptySeq, Zenon
<1>5. unacked # <<>> => 1 \in 1..Len(unacked)
  BY <1>1, EmptySeq
<1>6. ASSUME sndState' # "aborted"
      PROVE  IF unacked' = <<>> THEN SndEnd' <= Taken' ELSE unacked'[1].frame.offset <= Taken'
  <2>1. IF unacked = <<>> THEN SndEnd <= Taken ELSE unacked[1].frame.offset <= Taken
    BY <1>6, Zenon DEF UnackedInv
  <2>2. CASE unacked = <<>>
    BY <1>4, <2>1, <2>2
  <2>3. CASE unacked # <<>>
    <3>1. unacked[1] \in UnackedFrames
      BY <1>1, <1>5, <2>3
    <3>2. unacked[1].frame.offset \in Nat
      BY <3>1, Zenon DEF UnackedFrames, Frames
    <3>3. unacked'[1].frame = unacked[1].frame
      BY <1>5, <2>3, Zenon
    <3> QED
      BY <1>4, <2>1, <2>3, <3>2, <3>3
  <2> QED
    BY <2>2, <2>3, Zenon
<1> QED
  BY <1>2, <1>3, <1>6, Zenon DEF UnackedInv

\* Registering one more frame, which starts where the kept ones end.
LEMMA AppendUnacked ==
  ASSUME TypeOK, UnackedInv, Taken' >= Taken, Taken \in Nat, Taken' \in Nat,
         NEW f \in Frames, unacked' = Append(unacked, Unacked(f)),
         f.offset = SndEnd, End(f) = SndEnd', SndEnd \in Nat, KeptNext(f),
         \A i \in 1..Len(unacked) : KeptNext(unacked[i].frame),
         sndState' = sndState, sndState # "graceful"
  PROVE  UnackedInv'
<1> DEFINE N == Len(unacked)
<1>1. unacked \in Seq(UnackedFrames) /\ N \in Nat
  BY DEF TypeOK
<1>2. Unacked(f) \in UnackedFrames /\ Unacked(f).frame = f
  BY ArqAssumption DEF ArqAssumption, Unacked, UnackedFrames
<1>3. /\ Len(unacked') = N + 1 /\ unacked' # <<>>
      /\ \A i \in 1..N : unacked'[i] = unacked[i]
      /\ unacked'[N+1] = Unacked(f)
  BY <1>1, <1>2, AppendProperties
<1>4. unacked'[N+1].frame = f
  BY <1>2, <1>3, Zenon
<1> HIDE DEF N
<1>10. \A i \in 1..N+1 : i = N + 1 \/ i = N \/ (i \in 1..N /\ i # N)
  <2>1. N \in Nat
    BY <1>1, Zenon
  <2> HIDE DEF TypeOK
  <2> QED
    BY <2>1
<1>11. \A i \in 1..N+1 : i = N + 1 \/ i \in 1..N
  <2>1. N \in Nat
    BY <1>1, Zenon
  <2> QED
    BY <2>1
<1>5. \A i \in 1..N+1 : KeptNext(unacked'[i].frame)
  <2> SUFFICES ASSUME NEW i \in 1..N+1 PROVE KeptNext(unacked'[i].frame)
    BY Zenon
  <2>1. CASE i = N + 1
    BY <1>4, <2>1, Zenon DEF KeptNext
  <2>2. CASE i \in 1..N
    BY <1>3, <2>2, Zenon DEF KeptNext, N
  <2> QED
    BY <1>11, <2>1, <2>2, Zenon
<1>6. \A i \in 1..N+1 :
        End(unacked'[i].frame) = IF i = N + 1 THEN SndEnd' ELSE unacked'[i+1].frame.offset
  <2> SUFFICES ASSUME NEW i \in 1..N+1
               PROVE  End(unacked'[i].frame) = IF i = N + 1 THEN SndEnd' ELSE unacked'[i+1].frame.offset
    BY Zenon
  <2>1. CASE i = N + 1
    BY <1>4, <2>1, Zenon
  <2>2. CASE i = N
    <3>1. i \in 1..N /\ i # N + 1
      BY <1>1, <2>2
    <3>2. End(unacked[i].frame) = SndEnd
      BY <2>2, <3>1, Zenon DEF UnackedInv, N
    <3>3. unacked'[i+1].frame.offset = SndEnd /\ unacked'[i] = unacked[i]
      BY <1>3, <1>4, <2>2, <3>1, Zenon
    <3> QED
      BY <3>1, <3>2, <3>3, Zenon
  <2>3. CASE i \in 1..N /\ i # N
    <3>1. i + 1 \in 1..N /\ i # N + 1
      BY <1>1, <2>3
    <3>2. End(unacked[i].frame) = unacked[i+1].frame.offset
      BY <2>3, Zenon DEF UnackedInv, N
    <3>3. unacked'[i+1] = unacked[i+1] /\ unacked'[i] = unacked[i]
      BY <1>3, <2>3, <3>1, Zenon
    <3> QED
      BY <3>1, <3>2, <3>3, Zenon
  <2> QED
    BY <1>10, <2>1, <2>2, <2>3, Zenon
<1>7. ASSUME sndState' # "aborted" PROVE unacked'[1].frame.offset <= Taken'
  <2>1. IF unacked = <<>> THEN SndEnd <= Taken ELSE unacked[1].frame.offset <= Taken
    BY <1>7, Zenon DEF UnackedInv
  <2>2. CASE unacked = <<>>
    <3>1. N = 0
      BY <2>2, Zenon DEF N
    <3>2. unacked'[1].frame.offset = SndEnd
      BY <1>4, <3>1
    <3> QED
      BY <2>1, <2>2, <3>2
  <2>3. CASE unacked # <<>>
    <3>1. 1 \in 1..N
      BY <1>1, <2>3, EmptySeq DEF N
    <3>2. unacked'[1] = unacked[1] /\ unacked[1] \in UnackedFrames
      BY <1>1, <1>3, <3>1 DEF N
    <3>3. unacked[1].frame.offset \in Nat
      BY <3>2, Zenon DEF UnackedFrames, Frames
    <3> QED
      BY <2>1, <2>3, <3>2, <3>3
  <2> QED
    BY <2>2, <2>3, Zenon
<1>8. \A i \in 1..Len(unacked') :
       \/ unacked'[i].frame \in DataIn(net')
       \/ unacked'[i].frame.flag = "FIN" /\ unacked'[i].frame.offset = writeOffset' /\ FinDecided'
  BY <1>3, <1>5, Zenon DEF KeptNext
<1>9. sndState' # "graceful"
  BY Zenon
<1> QED
  BY <1>3, <1>6, <1>7, <1>8, <1>9, Zenon DEF UnackedInv

\* onAck drops a prefix of the kept frames, all of it taken by the receiver.
LEMMA AckedUnacked ==
  ASSUME TypeOK, TypeOK', UnackedInv, AckSound, NEW f \in net, OnAck(f), SndEnd \in Nat,
         Taken \in Nat
  PROVE  UnackedInv'
<1> DEFINE N == Len(unacked)
<1>1. unacked \in Seq(UnackedFrames) /\ N \in Nat /\ unacked' \in Seq(UnackedFrames)
  BY DEF TypeOK
<1>2. PICK n \in 0..N :
        /\ f.flag = "ACK" /\ sndState = "open"
        /\ \A i \in 1..n : End(unacked[i].frame) <= f.offset
        /\ unacked' = SubSeq(unacked, n + 1, N)
        /\ MaybeFinalize(n > 0 /\ finState = "queued", revDone, unacked')
        /\ UNCHANGED <<writeOffset, finState, net, readOffset, hasFin, finOffset>>
  BY Zenon DEF OnAck
<1>3. f.offset <= Taken /\ f.offset \in Nat
  BY <1>2, Zenon DEF AckSound, Taken, TypeOK, Frames
<1> HIDE DEF N
<1>4. n \in Nat /\ N - n \in Nat /\ n <= N
  BY <1>1, <1>2
<1>5. Len(unacked') = N - n /\ \A i \in 1..N-n : unacked'[i] = unacked[n+i]
  <2>1. n + 1 \in Int /\ N \in Int /\ \A i \in n+1..N : unacked[i] \in UnackedFrames
    BY <1>1, <1>4 DEF N
  <2>2. /\ Len(unacked') = IF n + 1 <= N THEN N - (n+1) + 1 ELSE 0
        /\ \A i \in 1..N-(n+1)+1 : unacked'[i] = unacked[n+1+i-1]
    BY <1>2, <2>1, SubSeqProperties
  <2> QED
    BY <1>1, <1>4, <2>2
<1>6. SndEnd' = SndEnd /\ Taken' = Taken /\ FinDecided' = FinDecided /\ DataIn(net') = DataIn(net)
  BY <1>2, Zenon DEF SndEnd, Taken, FinDecided, DataIn
<1>7. \A i \in 1..Len(unacked') :
       /\ \/ unacked'[i].frame \in DataIn(net')
          \/ unacked'[i].frame.flag = "FIN" /\ unacked'[i].frame.offset = writeOffset' /\ FinDecided'
       /\ End(unacked'[i].frame) = IF i = Len(unacked') THEN SndEnd' ELSE unacked'[i+1].frame.offset
  <2> SUFFICES ASSUME NEW i \in 1..N-n
               PROVE  /\ \/ unacked'[i].frame \in DataIn(net)
                         \/ unacked'[i].frame.flag = "FIN" /\ unacked'[i].frame.offset = writeOffset /\ FinDecided
                      /\ End(unacked'[i].frame) = IF i = N-n THEN SndEnd ELSE unacked'[i+1].frame.offset
    BY <1>2, <1>5, <1>6, Zenon
  <2>1. n + i \in 1..N /\ (i # N - n => i + 1 \in 1..N-n) /\ n + (i + 1) = (n + i) + 1
        /\ (i = N - n <=> n + i = N)
    BY <1>1, <1>4
  <2>2. unacked'[i] = unacked[n+i] /\ (i # N - n => unacked'[i+1] = unacked[(n+i)+1])
    BY <1>5, <2>1
  <2>3. /\ \/ unacked[n+i].frame \in DataIn(net)
           \/ unacked[n+i].frame.flag = "FIN" /\ unacked[n+i].frame.offset = writeOffset /\ FinDecided
        /\ End(unacked[n+i].frame) = IF n+i = N THEN SndEnd ELSE unacked[(n+i)+1].frame.offset
    BY <2>1, Zenon DEF UnackedInv, N
  <2> QED
    BY <2>1, <2>2, <2>3, Zenon
<1>8. IF unacked' = <<>> THEN SndEnd' <= Taken' ELSE unacked'[1].frame.offset <= Taken'
  <2>1. IF unacked = <<>> THEN SndEnd <= Taken ELSE unacked[1].frame.offset <= Taken
    BY <1>2, Zenon DEF UnackedInv
  <2>2. (unacked' = <<>> <=> n = N) /\ (unacked = <<>> <=> N = 0)
    BY <1>1, <1>4, <1>5, EmptySeq DEF N
  <2>3. CASE n = 0
    <3>1. n # N => unacked'[1] = unacked[1]
      BY <1>1, <1>4, <1>5, <2>3
    <3> QED
      BY <1>6, <2>1, <2>2, <2>3, <3>1, Zenon
  <2>4. CASE n # 0
    <3>1. n \in 1..n /\ n \in 1..N
      BY <1>1, <1>4, <2>4
    <3>2. End(unacked[n].frame) <= f.offset
      BY <1>2, <3>1, Zenon
    <3>3. End(unacked[n].frame) = IF n = N THEN SndEnd ELSE unacked[n+1].frame.offset
      BY <3>1, Zenon DEF UnackedInv, N
    <3>4. CASE n = N
      BY <1>3, <1>6, <2>2, <3>2, <3>3, <3>4
    <3>5. CASE n # N
      <4>1. 1 \in 1..N-n /\ n + 1 \in 1..N
        BY <1>1, <1>4, <3>5
      <4>2. unacked'[1] = unacked[n+1] /\ unacked[n+1] \in UnackedFrames
        BY <1>1, <1>5, <4>1 DEF N
      <4>3. unacked[n+1].frame.offset \in Nat
        BY <4>2, Zenon DEF UnackedFrames, Frames
      <4> QED
        BY <1>3, <1>6, <2>2, <3>2, <3>3, <3>5, <4>2, <4>3
    <3> QED
      BY <3>4, <3>5, Zenon
  <2> QED
    BY <2>3, <2>4, Zenon
<1>9. sndState' = "graceful" => finState' = "queued" /\ unacked' = <<>>
  BY <1>2, Zenon DEF MaybeFinalize
<1> QED
  BY <1>7, <1>8, <1>9, Zenon DEF UnackedInv

\* The frames kept for retransmission: one step per action that touches them.
LEMMA UnackedStep ==
  ASSUME TypeOK, WriterInv, NetInv, AssemblyInv, UnackedInv, AckSound, [Next]_vars,
         TypeOK', NetInv', Taken' >= Taken, Taken \in Nat, Taken' \in Nat
  PROVE  UnackedInv'
<1>1. writeOffset \in Nat /\ granted \in Nat /\ SndEnd \in Nat /\ Len(unacked) \in Nat
  <2>1. Len(Input) \in Nat /\ MaxFrame \in Nat
    BY ArqAssumption DEF ArqAssumption
  <2>2. writeOffset \in Nat /\ granted \in Nat /\ Len(unacked) \in Nat
    BY <2>1 DEF TypeOK
  <2> QED
    BY <2>2 DEF SndEnd
<1>2. CASE QueueData
  <2> DEFINE f == Frame("DATA", writeOffset, Segment(writeOffset, granted))
  <2>1. granted > 0 /\ ~FinDecided /\ granted \in 1..MaxFrame
    BY <1>1, <1>2 DEF QueueData, WriterInv, TypeOK
  <2>2. Segment(writeOffset, granted) \in Seq(Nat) /\ Len(Segment(writeOffset, granted)) = granted
    BY <1>1, SegmentType, Zenon DEF WriterInv
  <2>3. /\ f.flag = "DATA" /\ f.offset = writeOffset /\ End(f) = writeOffset + granted
        /\ f \in Frames
    BY <1>1, <2>2, FrameType, Zenon DEF Frame, End
  <2>4. /\ net' = net \union {f} /\ writeOffset' = writeOffset + granted
        /\ unacked' = Append(unacked, Unacked(f)) /\ UNCHANGED <<finState, sndState>>
    BY <1>2, Zenon DEF QueueData
  <2> HIDE DEF f
  <2>5. SndEnd = writeOffset /\ SndEnd' = writeOffset + granted /\ ~FinDecided'
    BY <2>1, <2>4, Zenon DEF SndEnd, FinDecided
  <2>6. f \in DataIn(net') /\ DataIn(net) \subseteq DataIn(net')
    BY <2>3, <2>4, Zenon DEF DataIn
  <2>7. \A i \in 1..Len(unacked) : KeptNext(unacked[i].frame)
    BY <2>1, <2>6, Zenon DEF UnackedInv, KeptNext
  <2>8. sndState # "graceful"
    BY <2>1, Zenon DEF UnackedInv, FinDecided
  <2>9. KeptNext(f)
    BY <2>6, Zenon DEF KeptNext
  <2> QED
    BY <1>1, <2>3, <2>4, <2>5, <2>7, <2>8, <2>9, AppendUnacked
<1>3. CASE ~QueueData
  <2>1. /\ DataIn(net') = DataIn(net) /\ writeOffset' = writeOffset
        /\ FinDecided => FinDecided'
    BY <1>3, WireStep, Zenon
  <2>2. \A i \in 1..Len(unacked) : KeptNext(unacked[i].frame)
    BY <2>1, Zenon DEF UnackedInv, KeptNext
  <2>3. CASE RegisterFin
    <3> DEFINE f == Frame("FIN", writeOffset, <<>>)
    <3>1. f \in Frames /\ f.flag = "FIN" /\ f.offset = writeOffset /\ End(f) = writeOffset + 1
      BY <1>1, ControlType, Zenon DEF Frame, End
    <3>2. /\ unacked' = Append(unacked, Unacked(f)) /\ UNCHANGED sndState
          /\ finState = "wanted" /\ finState' = "registered"
      BY <2>3, Zenon DEF RegisterFin
    <3> HIDE DEF f
    <3>3. SndEnd = writeOffset /\ SndEnd' = writeOffset + 1 /\ FinDecided'
      BY <2>1, <3>2, Zenon DEF SndEnd, FinDecided
    <3>4. sndState # "graceful"
      BY <3>2, Zenon DEF UnackedInv
    <3>5. KeptNext(f)
      BY <2>1, <3>1, <3>3, Zenon DEF KeptNext
    <3> QED
      BY <1>1, <2>2, <3>1, <3>2, <3>3, <3>4, <3>5, AppendUnacked
  <2>4. ASSUME Len(unacked') = Len(unacked),
               \A i \in 1..Len(unacked) : unacked'[i].frame = unacked[i].frame,
               (FinDecided' <=> FinDecided),
               sndState = "aborted" => sndState' = "aborted",
               sndState' = "graceful" => finState' = "queued" /\ unacked' = <<>>
        PROVE  UnackedInv'
    <3>1. SndEnd' = SndEnd
      BY <2>1, <2>4, Zenon DEF SndEnd
    <3> QED
      BY <1>1, <2>2, <2>4, <3>1, SameUnacked
  <2>5. ASSUME UNCHANGED <<unacked, finState, sndState>> PROVE UnackedInv'
    <3>1. (FinDecided' <=> FinDecided)
      BY <2>5, Zenon DEF FinDecided
    <3> QED
      BY <2>4, <2>5, <3>1, Zenon DEF UnackedInv
  <2>6. ASSUME NEW due \in SUBSET DOMAIN unacked, ArqTick(due) PROVE UnackedInv'
    <3>1. unacked \in Seq(UnackedFrames) /\ DOMAIN unacked = 1..Len(unacked)
      BY DEF TypeOK
    <3>2. /\ DOMAIN unacked' = DOMAIN unacked
          /\ \A i \in DOMAIN unacked : \/ unacked'[i] = unacked[i]
                                       \/ unacked'[i] = [unacked[i] EXCEPT !.retransmits = @ + 1]
          /\ UNCHANGED <<finState, sndState>> /\ due # {}
      BY <2>6, Zenon DEF ArqTick
    <3>3. \A i \in 1..Len(unacked) : unacked[i] \in [frame : Frames, retransmits : 0..MaxRetransmit+1]
      <4>1. \A i \in 1..Len(unacked) : unacked[i] \in UnackedFrames
        BY <3>1
      <4> QED
        BY <4>1, Zenon DEF UnackedFrames
    <3>4. \A i \in 1..Len(unacked) : unacked'[i].frame = unacked[i].frame
      BY <3>1, <3>2, <3>3, Zenon
    <3>5. unacked' \in Seq(UnackedFrames)
      BY Zenon DEF TypeOK
    <3>6. Len(unacked') = Len(unacked)
      BY <1>1, <3>1, <3>2, <3>5, LenProperties
    <3>7. (FinDecided' <=> FinDecided)
      BY <3>2, Zenon DEF FinDecided
    <3>8. unacked # <<>>
      BY <3>1, <3>2
    <3>9. sndState' # "graceful"
      BY <3>2, <3>8, Zenon DEF UnackedInv
    <3> QED
      BY <2>4, <3>2, <3>4, <3>6, <3>7, <3>9, Zenon
  <2>7. CASE SenderAbort
    <3>1. unacked' = <<>> /\ sndState' = "aborted"
      BY <2>7, Zenon DEF SenderAbort
    <3>2. Len(unacked') = 0
      BY <3>1, Zenon
    <3> QED
      BY <3>1, <3>2 DEF UnackedInv
  <2>8. ASSUME unacked' = unacked, (FinDecided' <=> FinDecided), NEW q, NEW d,
               MaybeFinalize(q, d, unacked), q => finState' = "queued",
               sndState = "graceful" => finState' = "queued"
        PROVE  UnackedInv'
    <3>1. /\ sndState = "aborted" => sndState' = "aborted"
          /\ sndState' = "graceful" => finState' = "queued" /\ unacked' = <<>>
      BY <2>8, Zenon DEF MaybeFinalize, UnackedInv
    <3> QED
      BY <2>4, <2>8, <3>1, Zenon
  <2>9. CASE QueueFin
    <3>1. /\ unacked' = unacked /\ MaybeFinalize(TRUE, revDone, unacked) /\ finState' = "queued"
          /\ (FinDecided' <=> FinDecided)
      BY <2>9, Zenon DEF QueueFin, FinDecided
    <3> QED
      BY <2>8, <3>1, Zenon
  <2>10. CASE ReverseDone
    <3>1. /\ unacked' = unacked /\ MaybeFinalize(finState = "queued", TRUE, unacked)
          /\ finState' = finState /\ (FinDecided' <=> FinDecided)
      BY <2>10, Zenon DEF ReverseDone, FinDecided
    <3> QED
      BY <2>8, <3>1, Zenon DEF UnackedInv
  <2>11. ASSUME NEW f, OnReset(f) PROVE UnackedInv'
    <3>1. /\ unacked' = unacked /\ MaybeFinalize(finState = "queued", revDone, unacked)
          /\ CloseWrite
      BY <2>11, Zenon DEF OnReset
    <3>2. /\ finState = "queued" => finState' = "queued"
          /\ (FinDecided' <=> FinDecided)
      BY <3>1, Zenon DEF CloseWrite, WriterInv, FinDecided, TypeOK
    <3> QED
      BY <2>8, <3>1, <3>2, Zenon DEF UnackedInv
  <2>12. CASE AppCloseWrite
    <3>1. UNCHANGED <<unacked, sndState>> /\ CloseWrite /\ sndState = "open"
      BY <2>12, Zenon DEF AppCloseWrite
    <3>2. (FinDecided' <=> FinDecided)
      BY <3>1, Zenon DEF CloseWrite, WriterInv, FinDecided, TypeOK
    <3> QED
      BY <2>4, <3>1, <3>2, Zenon
  <2>13. CASE Sender
    <3>1. CASE AppClose \/ \E sz \in 1..MaxFrame : AcquireCredits(sz)
      BY <2>5, <3>1, Zenon DEF AppClose, AcquireCredits
    <3> QED
      BY <1>3, <2>3, <2>6, <2>7, <2>9, <2>10, <2>12, <2>13, <3>1 DEF Sender
  <2>14. CASE Deliver
    <3>1. PICK f \in net : OnAck(f) \/ OnReset(f) \/ Feed(f)
      BY <2>14, DeliverCases, Zenon
    <3>2. CASE OnAck(f)
      BY <1>1, <3>2, AckedUnacked, Zenon
    <3>3. CASE Feed(f)
      BY <2>5, <3>3, FeedKeeps, Zenon
    <3> QED
      BY <2>11, <3>1, <3>2, <3>3, Zenon
  <2> QED
    BY <2>5, <2>13, <2>14, TransportKeeps, ReceiverKeeps, Zenon DEF Next, vars
<1> QED
  BY <1>2, <1>3, Zenon

-----------------------------------------------------------------------------
(* The theorems                                                            *)

\* The inductive invariant holds initially ...
LEMMA InitInv == Init => IInv
<1> SUFFICES ASSUME Init PROVE IInv
  BY Zenon
<1>1. TypeOK
  BY InitType, Zenon
<1>2. Len(Input) \in Nat /\ Input \in Seq(Nat)
  BY ArqAssumption DEF ArqAssumption
<1>3. WriterInv /\ NetInv
  BY <1>2 DEF Init, WriterInv, NetInv, FinDecided, DataIn, FinIn
<1>4. AssemblyInv /\ ReaderInv /\ EOFComplete
  BY <1>2 DEF Init, AssemblyInv, ReaderInv, DataIn, EOFComplete
<1>5. UnackedInv
  BY DEF Init, UnackedInv, SndEnd, FinDecided, Taken
<1>6. PrefixDelivered
  <2>1. SubSeq(Input, 1, 0) = <<>>
    BY <1>2, SubSeqEmpty
  <2>2. delivered = <<>> /\ Len(delivered) = 0 /\ writeOffset = 0 /\ readOffset = 0
    BY Zenon DEF Init
  <2> QED
    BY <2>1, <2>2 DEF PrefixDelivered
<1>7. AckSound
  BY DEF Init, AckSound
<1> QED
  BY <1>1, <1>3, <1>4, <1>5, <1>6, <1>7, Zenon DEF IInv

\* ... and every step preserves it.
LEMMA StepInv == IInv /\ [Next]_vars => IInv'
<1> SUFFICES ASSUME IInv, [Next]_vars PROVE IInv'
  BY Zenon
<1> USE DEF IInv
<1>1. TypeOK'
  <2>1. CASE UNCHANGED vars
    BY <2>1 DEF vars, TypeOK
  <2> QED
    BY <2>1, SenderType, TransportType, DeliverType, ReceiverType, Zenon DEF Next
<1>2. WriterInv'
  BY WriterStep, Zenon
<1>3. NetInv'
  BY NetStep, Zenon
<1>4. AssemblyInv'
  BY AssemblyStep, Zenon
<1>5. PrefixDelivered'
  BY <1>1, PrefixStep, WriteMonotone, Zenon
<1>6. Taken' >= Taken /\ Taken \in Nat /\ Taken' \in Nat
  BY <1>1, <1>4, TakenMonotone, Zenon
<1>7. AckSound'
  BY <1>1, <1>6, AckStep, Zenon
<1>8. ReaderInv'
  BY <1>1, ReaderStep, Zenon
<1>9. EOFComplete'
  BY EOFStep, Zenon
<1>10. UnackedInv'
  BY <1>1, <1>3, <1>6, UnackedStep, Zenon
<1> QED
  BY <1>1, <1>2, <1>3, <1>4, <1>5, <1>7, <1>8, <1>9, <1>10

\* The inductive invariant is an invariant.
THEOREM Invariance == Spec => []IInv
BY InitInv, StepInv, PTL DEF Spec

\* Every variable of the reliable channel keeps its type.
THEOREM TypeCorrect == Spec => []TypeOK
<1>1. IInv => TypeOK
  BY Zenon DEF IInv
<1> QED
  BY <1>1, Invariance, PTL

\* However the transport loses, repeats and reorders, and however often it is
\* resumed, the bytes pushed to the reader are a prefix of the bytes written
\* (feedReliablePayload).
THEOREM PrefixTheorem == Spec => []PrefixDelivered
<1>1. IInv => PrefixDelivered
  BY Zenon DEF IInv
<1> QED
  BY <1>1, Invariance, PTL

\* No acknowledgement in flight, published or computed by the delayed-ACK timer
\* covers something the receiver has not taken (sendAck).
THEOREM AckTheorem == Spec => []AckSound
<1>1. IInv => AckSound
  BY Zenon DEF IInv
<1> QED
  BY <1>1, Invariance, PTL

\* io.EOF is returned only when every byte before the FIN was read (Read).
THEOREM EOFTheorem == Spec => []EOFComplete
<1>1. IInv => EOFComplete
  BY Zenon DEF IInv
<1> QED
  BY <1>1, Invariance, PTL

\* The default case of feedReliablePayload, a frame across readOffset, is dead.
THEOREM OverlapTheorem == Spec => []NoPartialOverlap
<1>1. IInv => NoPartialOverlap
  BY Zenon DEF IInv, AssemblyInv, DataIn, NoPartialOverlap
<1> QED
  BY <1>1, Invariance, PTL

\* A channel that maybeFinalize ends has had all it wrote, and its FIN, taken.
THEOREM GracefulTheorem == Spec => []GracefulMeansDelivered
<1>1. IInv => GracefulMeansDelivered
  <2> SUFFICES ASSUME IInv, sndState = "graceful"
               PROVE  hasFin /\ finOffset = writeOffset /\ readOffset = writeOffset
    BY Zenon DEF GracefulMeansDelivered
  <2>1. writeOffset \in Nat /\ readOffset \in Nat /\ finOffset \in Nat
    BY ArqAssumption DEF ArqAssumption, IInv, TypeOK
  <2>2. SndEnd = writeOffset + 1 /\ SndEnd <= Taken
    BY Zenon DEF IInv, UnackedInv, SndEnd, FinDecided
  <2>3. readOffset <= writeOffset /\ (hasFin => finOffset = writeOffset)
    BY Zenon DEF IInv, AssemblyInv
  <2>4. hasFin /\ readOffset >= finOffset
    BY <2>1, <2>2, <2>3 DEF Taken
  <2> QED
    BY <2>1, <2>3, <2>4
<1> QED
  BY <1>1, Invariance, PTL

\* The reorder buffer stays within maxReorderBytes of readOffset and holds one
\* frame per offset.
THEOREM ReorderTheorem == Spec => []ReorderBounded
<1>1. IInv => ReorderBounded
  <2> SUFFICES ASSUME IInv, NEW f \in reorderMap
               PROVE  /\ f.offset - readOffset \in 0..ReorderBytes
                      /\ \A g \in reorderMap : f.offset = g.offset => f = g
    BY Zenon DEF ReorderBounded
  <2>1. TypeOK /\ NetInv /\ AssemblyInv
    BY Zenon DEF IInv
  <2>2. /\ f \in DataIn(net) /\ f.offset >= readOffset /\ f.offset - readOffset <= ReorderBytes
        /\ reorderMap \subseteq DataIn(net)
    BY <2>1, Zenon DEF AssemblyInv
  <2>3. readOffset \in Nat /\ ReorderBytes \in Nat
    BY <2>1, ArqAssumption DEF ArqAssumption, TypeOK
  <2>4. f.offset \in Nat
    BY <2>1, <2>2, DataFacts, Zenon
  <2>5. f.offset - readOffset \in 0..ReorderBytes
    BY <2>2, <2>3, <2>4
  <2>6. ASSUME NEW g \in reorderMap, f.offset = g.offset PROVE f = g
    <3>1. g \in DataIn(net)
      BY <2>2, Zenon
    <3>2. /\ Len(f.data) \in 1..MaxFrame /\ End(f) = f.offset + Len(f.data)
          /\ Len(g.data) \in 1..MaxFrame /\ End(g) = g.offset + Len(g.data)
      BY <2>1, <2>2, <3>1, DataFacts, Zenon
    <3>3. f = g \/ End(f) <= g.offset \/ End(g) <= f.offset
      BY <2>1, <2>2, <3>1, Zenon DEF NetInv
    <3> QED
      BY <2>4, <2>6, <3>2, <3>3
  <2> QED
    BY <2>5, <2>6, Zenon
<1> QED
  BY <1>1, Invariance, PTL

\* Each step keeps the channel in the ARQ set exactly while something is unacknowledged.
LEMMA MembershipStep == TypeOK /\ ArqMembership /\ [Next]_vars => ArqMembership'
<1> SUFFICES ASSUME TypeOK, ArqMembership, [Next]_vars PROVE ArqMembership'
  BY Zenon
<1>1. unacked \in Seq(UnackedFrames) /\ Len(unacked) \in Nat /\ inARQ \in BOOLEAN
  BY DEF TypeOK
<1>2. CASE UNCHANGED <<unacked, inARQ>>
  BY <1>2, Zenon DEF ArqMembership
<1>3. ASSUME NEW e, unacked' = Append(unacked, e), inARQ' = TRUE PROVE ArqMembership'
  <2>1. Append(unacked, e) # <<>>
    BY <1>1
  <2> QED
    BY <1>3, <2>1, Zenon DEF ArqMembership
<1>4. CASE QueueData \/ RegisterFin
  BY <1>3, <1>4, Zenon DEF QueueData, RegisterFin
<1>5. CASE SenderAbort
  BY <1>5, Zenon DEF SenderAbort, ArqMembership
<1>6. ASSUME NEW due \in SUBSET DOMAIN unacked, ArqTick(due) PROVE ArqMembership'
  <2>1. inARQ /\ inARQ' = inARQ /\ DOMAIN unacked' = DOMAIN unacked
    BY <1>6, Zenon DEF ArqTick
  <2>2. DOMAIN unacked = 1..Len(unacked) /\ Len(unacked) # 0
    BY <1>1, <2>1, EmptySeq DEF ArqMembership
  <2>3. unacked' # <<>>
    <3>1. 1 \in DOMAIN unacked'
      BY <1>1, <2>1, <2>2
    <3>2. 1 \notin DOMAIN <<>>
      OBVIOUS
    <3> QED
      BY <3>1, <3>2, Zenon
  <2> QED
    BY <2>1, <2>3, Zenon DEF ArqMembership
<1>7. ASSUME NEW f, OnAck(f) PROVE ArqMembership'
  <2>1. PICK n \in 0..Len(unacked) :
          /\ unacked' = SubSeq(unacked, n + 1, Len(unacked))
          /\ inARQ' = (inARQ /\ (n = 0 \/ n < Len(unacked)))
    BY <1>7, Zenon DEF OnAck
  <2>2. CASE n = Len(unacked)
    <3> DEFINE m == Len(unacked)
    <3>1. m \in Int /\ m + 1 \in Int /\ m < m + 1
      BY <1>1
    <3> HIDE DEF m
    <3>2. SubSeq(unacked, m + 1, m) = <<>>
      BY <3>1, SubSeqEmpty, Zenon
    <3>3. unacked' = <<>>
      BY <2>1, <2>2, <3>2, Zenon DEF m
    <3>4. ~inARQ'
      <4>1. n = 0 => unacked = <<>>
        BY <1>1, <2>2, EmptySeq, Zenon
      <4>2. n = 0 => ~inARQ
        BY <4>1, Zenon DEF ArqMembership
      <4>3. ~(n < Len(unacked))
        BY <1>1, <2>2
      <4> QED
        BY <2>1, <4>2, <4>3, Zenon
    <3> QED
      BY <3>3, <3>4, Zenon DEF ArqMembership
  <2>3. CASE n < Len(unacked)
    <3>1. unacked # <<>> /\ inARQ
      BY <1>1, <2>1, <2>3 DEF ArqMembership
    <3>2. Len(unacked') = Len(unacked) - n
      BY <1>1, <2>1, <2>3
    <3>3. Len(unacked') # 0
      BY <1>1, <2>1, <2>3, <3>2
    <3>4. unacked' # <<>>
      BY <3>3
    <3> QED
      BY <2>1, <2>3, <3>1, <3>4, Zenon DEF ArqMembership
  <2> QED
    BY <1>1, <2>1, <2>2, <2>3
<1>8. CASE Sender
  <2>1. CASE \/ AppClose \/ AppCloseWrite \/ QueueFin \/ ReverseDone
             \/ \E sz \in 1..MaxFrame : AcquireCredits(sz)
    BY <1>2, <2>1, Zenon DEF AppClose, AppCloseWrite, QueueFin, ReverseDone, AcquireCredits
  <2> QED
    BY <1>4, <1>5, <1>6, <1>8, <2>1, Zenon DEF Sender
<1>9. CASE Deliver
  <2>1. PICK f \in net : OnAck(f) \/ OnReset(f) \/ Feed(f)
    BY <1>9, DeliverCases, Zenon
  <2>2. CASE OnReset(f)
    BY <1>2, <2>2, Zenon DEF OnReset
  <2>3. CASE Feed(f)
    BY <1>2, <2>3, FeedKeeps, Zenon
  <2> QED
    BY <1>7, <2>1, <2>2, <2>3, Zenon
<1> QED
  BY <1>2, <1>8, <1>9, TransportKeeps, ReceiverKeeps, Zenon DEF Next, vars

\* arqLoop visits a channel exactly while it has something to send again: no frame
\* is forgotten and no finished channel is visited (addToARQ, onAck, localClose).
THEOREM MembershipTheorem == Spec => []ArqMembership
<1>1. Init => ArqMembership
  BY Zenon DEF Init, ArqMembership
<1> QED
  BY <1>1, MembershipStep, TypeCorrect, PTL DEF Spec

-----------------------------------------------------------------------------
(* ArqStream implements BytePipe: what the reader has taken is the part of *)
(* Input before consumed, so each step is one of the pipe's or leaves the  *)
(* pipe alone.                                                             *)

\* A prefix of a prefix of Input is a prefix of Input.
LEMMA PrefixOfPrefix ==
  ASSUME NEW n \in 0..Len(Input), NEW m \in 0..n
  PROVE  SubSeq(SubSeq(Input, 1, n), 1, m) = SubSeq(Input, 1, m)
<1>1. Input \in Seq(Nat) /\ Len(Input) \in Nat
  BY ArqAssumption DEF ArqAssumption
<1>2. CASE m = 0
  BY <1>2, SubSeqEmpty
<1>3. CASE m # 0
  <2> DEFINE i == 1
  <2>1. i \in 1..Len(Input) /\ n \in 1..Len(Input) /\ i \in 1..n-i+1 /\ m \in 1..n-i+1
    BY <1>1, <1>3
  <2>2. i + i - 1 = 1 /\ i + m - 1 = m
    BY <1>1
  <2> HIDE DEF i
  <2>3. SubSeq(SubSeq(Input, i, n), i, m) = SubSeq(Input, i + i - 1, i + m - 1)
    BY <1>1, <2>1, SubSeqOfSubSeq
  <2> QED
    BY <2>2, <2>3, Zenon DEF i
<1> QED
  BY <1>2, <1>3, Zenon

\* The prefixes of Input are ordered by their lengths.
LEMMA InputPrefix ==
  ASSUME NEW n \in 0..Len(Input), NEW m \in 0..n
  PROVE  Pipe!Prefix(SubSeq(Input, 1, m), SubSeq(Input, 1, n))
<1>1. Input \in Seq(Nat) /\ Len(Input) \in Nat
  BY ArqAssumption DEF ArqAssumption
<1>2. ASSUME NEW k \in 0..Len(Input) PROVE Len(SubSeq(Input, 1, k)) = k
  BY <1>1
<1>3. Len(SubSeq(Input, 1, m)) = m /\ Len(SubSeq(Input, 1, n)) = n
  BY <1>1, <1>2
<1> QED
  BY <1>3, PrefixOfPrefix DEF Pipe!Prefix

\* What the application has read is what was written before consumed.
ReadIsWritten ==
  /\ SubSeq(delivered, 1, consumed) = SubSeq(Input, 1, consumed)
  /\ consumed \in 0..writeOffset /\ writeOffset \in 0..Len(Input)

\* The inductive invariant says so: consumed stays within delivered, a prefix of Input.
LEMMA TakenIsInput == IInv => ReadIsWritten
<1> SUFFICES ASSUME IInv PROVE ReadIsWritten
  BY Zenon
<1>1. /\ consumed \in 0..Len(delivered) /\ delivered \in Seq(Nat)
      /\ writeOffset \in 0..Len(Input) /\ Len(Input) \in Nat
  BY ArqAssumption DEF ArqAssumption, IInv, TypeOK
<1>2. delivered = SubSeq(Input, 1, Len(delivered)) /\ Len(delivered) <= writeOffset
  BY Zenon DEF IInv, PrefixDelivered
<1>3. Len(delivered) \in 0..Len(Input)
  BY <1>1, <1>2
<1>4. SubSeq(SubSeq(Input, 1, Len(delivered)), 1, consumed) = SubSeq(Input, 1, consumed)
  BY <1>1, <1>3, PrefixOfPrefix, Zenon
<1> QED
  BY <1>1, <1>2, <1>4 DEF ReadIsWritten

\* Only Read moves the reader, and only Read reports the end.
LEMMA ReadersOnly ==
  ASSUME [Next]_vars, ~\E n \in 1..Len(Input) : Read(n), ~ReadEOF
  PROVE  UNCHANGED <<consumed, eof>>
<1>1. CASE Deliver
  <2>1. PICK f \in net : OnAck(f) \/ OnReset(f) \/ Feed(f)
    BY <1>1, DeliverCases, Zenon
  <2>2. CASE Feed(f)
    BY <2>2, Zenon DEF Feed, FeedDuplicate, FeedFuture, FeedFin, FeedInOrder, FeedFinal
  <2> QED
    BY <2>1, <2>2, OnKeeps, Zenon
<1>2. CASE Receiver
  BY <1>2, Zenon DEF Receiver, FeedDrain, FeedFinish, AckTimerFires, AckTimerSends, ResolveAck,
              WriteAck, CloseReceiver, FinalizeReceiver, AbortReceiver
<1> QED
  BY <1>1, <1>2, SenderKeeps, TransportKeeps, Zenon DEF Next, vars

\* An untouched channel is an untouched pipe.
LEMMA PipeInit == Init => Pipe!Init
<1> SUFFICES ASSUME Init PROVE Pipe!Init
  BY Zenon
<1>1. SubSeq(Input, 1, 0) = <<>> /\ SubSeq(delivered, 1, 0) = <<>>
  BY SubSeqEmpty
<1> QED
  BY <1>1 DEF Init, Pipe!Init

\* Each step of the channel is a step of the pipe or leaves it alone.
LEMMA PipeStep ==
  ASSUME IInv, IInv', [Next]_vars
  PROVE  [Pipe!Next]_<<SubSeq(Input, 1, writeOffset), SubSeq(delivered, 1, consumed),
                       finState \in {"registered", "queued"}, eof>>
<1> DEFINE w == SubSeq(Input, 1, writeOffset)
           t == SubSeq(delivered, 1, consumed)
<1>1. /\ t = SubSeq(Input, 1, consumed) /\ t' = SubSeq(Input, 1, consumed')
      /\ consumed \in 0..writeOffset /\ writeOffset \in 0..Len(Input)
      /\ consumed' \in 0..writeOffset' /\ writeOffset' \in 0..Len(Input)
  <2>1. ReadIsWritten /\ ReadIsWritten'
    BY TakenIsInput, PTL
  <2> QED
    BY <2>1, Zenon DEF ReadIsWritten
<1>2. Len(Input) \in Nat
  BY ArqAssumption DEF ArqAssumption
<1>3. CASE QueueData
  <2>1. /\ writeOffset' = writeOffset + granted /\ granted > 0
        /\ UNCHANGED <<delivered, consumed, finState, eof>>
    BY <1>3, Zenon DEF QueueData
  <2>2. finState \notin {"registered", "queued"} /\ granted \in Nat
    BY <2>1, ArqAssumption DEF ArqAssumption, IInv, WriterInv, FinDecided, TypeOK
  <2>3. writeOffset \in 0..writeOffset'
    BY <1>1, <1>2, <2>1, <2>2
  <2>4. Pipe!Prefix(w, w')
    BY <1>1, <2>3, InputPrefix, Zenon
  <2> QED
    BY <2>1, <2>2, <2>4, Zenon DEF Pipe!Next, Pipe!Write
<1>4. CASE \E n \in 1..Len(Input) : Read(n)
  <2>1. PICK n \in 1..Len(Input) : Read(n)
    BY <1>4, Zenon
  <2>2. consumed' = consumed + n /\ UNCHANGED <<writeOffset, finState, eof>>
    BY <2>1, Zenon DEF Read
  <2>3. consumed \in 0..consumed' /\ consumed' \in 0..writeOffset /\ consumed' \in 0..Len(Input)
    BY <1>1, <1>2, <2>2
  <2>4. Pipe!Prefix(t, t') /\ Pipe!Prefix(t', w)
    BY <1>1, <2>3, InputPrefix, Zenon
  <2> QED
    BY <2>2, <2>4, Zenon DEF Pipe!Next, Pipe!Take
<1>5. CASE ReadEOF
  <2>1. UNCHANGED <<writeOffset, delivered, consumed, finState>> /\ eof' = TRUE
    BY <1>5, Zenon DEF ReadEOF
  <2>2. consumed' = writeOffset' /\ finState' \in {"registered", "queued"}
    BY <2>1, Zenon DEF IInv, EOFComplete
  <2>3. t = w
    BY <1>1, <2>1, <2>2, Zenon
  <2> QED
    BY <2>1, <2>2, <2>3, Zenon DEF Pipe!Next, Pipe!End
<1>6. CASE ~QueueData /\ ~ReadEOF /\ ~\E n \in 1..Len(Input) : Read(n)
  <2>1. UNCHANGED <<consumed, eof>>
    BY <1>6, ReadersOnly, Zenon
  <2>2. writeOffset' = writeOffset /\ (FinDecided => FinDecided')
    BY <1>6, WireStep, Zenon DEF IInv
  <2>3. w' = w /\ t' = t
    BY <1>1, <2>1, <2>2, Zenon
  <2> DEFINE s == finState \in {"registered", "queued"}
  <2>4. s \in BOOLEAN /\ s' \in BOOLEAN /\ (s => s')
    BY <2>2 DEF FinDecided
  <2>5. s' = s \/ s' = TRUE
    BY <2>4, Zenon
  <2>6. CASE s' = s
    BY <2>1, <2>3, <2>6, Zenon
  <2>7. CASE s' = TRUE
    BY <2>1, <2>3, <2>7, Zenon DEF Pipe!Next, Pipe!Shut
  <2> QED
    BY <2>5, <2>6, <2>7, Zenon
<1> QED
  BY <1>3, <1>4, <1>5, <1>6, Zenon

\* A reliable channel implements the pipe, whatever the transport loses, repeats or
\* reorders and however often it is resumed: Read returns the bytes written, in
\* order, and io.EOF after the last of them (feedReliablePayload, Read).
THEOREM PipeTheorem == Spec => IsPipe
BY PipeInit, PipeStep, Invariance, PTL DEF Spec, IsPipe, Pipe!Spec

=============================================================================
