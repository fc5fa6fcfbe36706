------------------------------- MODULE Framing -------------------------------
(***************************************************************************)
(* From a batch of queued frames to the frames the peer handles: merging   *)
(* control frames (compactAndResolveControlFrames), writing them to a      *)
(* stream or packing them into datagrams (writeBatch, flushDatagrams), and *)
(* the framing part of streamReadLoop and datagramReadLoop.                *)
(*                                                                         *)
(* A frame is its header: flag, channel id, length and offset.  What is    *)
(* sent is a sequence of cells; cell i of a frame is a part of its header  *)
(* when i <= HeaderLen and of its payload otherwise, so a reader that has  *)
(* lost its place can be told from one that has not.  A stream keeps order *)
(* and loses nothing; datagrams are reordered, lost and duplicated.        *)
(***************************************************************************)
EXTENDS Integers, Sequences, FiniteSets, FiniteSetsExt, SequencesExt

CONSTANTS
  HeaderLen,    \* cells of a header (17 bytes)
  MaxDatagram,  \* datagramWriter.maxDatagramSize
  Frames,       \* the frames that may be queued
  MaxBatch      \* bound: frames of a batch

ASSUME FramingAssumption ==
  /\ HeaderLen \in Nat \ {0} /\ MaxDatagram \in Nat /\ MaxBatch \in Nat

VARIABLES
  stream,   \* whether the transport is a stream, for the whole session
  batch,    \* the frames writeLoop has collected
  sent,     \* what compaction left of them
  wire,     \* stream: one sequence of cells; datagrams: a sequence of them
  got,      \* frames the reader has recognised, in order
  garbled,  \* the reader has taken other cells for a header
  copies,   \* bound: datagrams the network may still duplicate
  packets   \* history: the datagrams that were read

vars == <<stream, batch, sent, wire, got, garbled, copies, packets>>

Init ==
  /\ stream \in BOOLEAN
  /\ batch = <<>> /\ sent = <<>> /\ wire = <<>> /\ got = <<>> /\ garbled = FALSE /\ copies = 1
  /\ packets = <<>>

-----------------------------------------------------------------------------
(* The writer                                                              *)

\* Mutant: the later of two updates replaces the earlier one.
CompactReplaces(out, f) ==
  LET same == {j \in DOMAIN out : out[j].flag = f.flag /\ out[j].ch = f.ch} IN
  IF f.flag \in {"ACK", "UPD"} /\ same # {} THEN [out EXCEPT ![Min(same)] = f]
  ELSE Append(out, f)

\* One frame of compactAndResolveControlFrames: an update without credit is
\* dropped, an ACK or UPD is merged into an earlier one of its channel.
CompactOne(out, f) ==
  LET same == {j \in DOMAIN out : out[j].flag = f.flag /\ out[j].ch = f.ch} IN
  IF f.flag = "UPD" /\ f.len = 0 THEN out
  ELSE IF same = {} THEN Append(out, f)
  ELSE CASE f.flag = "ACK" -> [out EXCEPT ![Min(same)].off = Max({@, f.off})]
         [] f.flag = "UPD" -> [out EXCEPT ![Min(same)].len = @ + f.len]
         [] OTHER -> Append(out, f)

Compact(b) == FoldLeft(CompactOne, <<>>, b)

\* A frame has a payload, as long as its length says, only if it has a buffer.
PayloadLen(f) == IF f.flag = "DATA" THEN f.len ELSE 0

\* putHeader and the payload.
Cells(f) == [i \in 1..HeaderLen + PayloadLen(f) |-> [frame |-> f, i |-> i]]

CellsOf(fs) == FlattenSeq([i \in DOMAIN fs |-> Cells(fs[i])])

\* One frame of flushDatagrams: flush first if it does not fit; a frame that is too
\* large for any datagram goes out in one of its own.
PackOne(acc, f) ==
  LET need == Len(Cells(f))
      max == Max({MaxDatagram, HeaderLen})
      full == Len(CellsOf(acc.buf)) + need > max
      flushed == acc.out \o IF acc.buf = <<>> THEN <<>> ELSE <<acc.buf>>
  IN IF need > max THEN [out |-> Append(flushed, <<f>>), buf |-> <<>>]
     ELSE IF full THEN [out |-> flushed, buf |-> <<f>>]
     ELSE [acc EXCEPT !.buf = Append(@, f)]

\* flushDatagrams: the frames of each datagram.
Pack(fs) ==
  LET last == FoldLeft(PackOne, [out |-> <<>>, buf |-> <<>>], fs)
  IN last.out \o IF last.buf = <<>> THEN <<>> ELSE <<last.buf>>

\* Mutant: a UPD is followed by as many cells as its length says.
WritePadded(b) ==
  /\ batch = <<>> /\ batch' = b /\ sent' = Compact(b)
  /\ wire' = IF ~stream THEN Pack(Compact(b))
             ELSE FlattenSeq([i \in DOMAIN Compact(b) |->
                    [k \in 1..HeaderLen + Compact(b)[i].len |->
                       [frame |-> Compact(b)[i], i |-> k]]])
  /\ UNCHANGED <<got, garbled, copies, packets>>

\* writeBatch: one writev, or the datagrams.
WriteBatch(b) ==
  /\ batch = <<>> /\ batch' = b /\ sent' = Compact(b)
  /\ wire' = IF stream THEN CellsOf(Compact(b)) ELSE Pack(Compact(b))
  /\ UNCHANGED <<got, garbled, copies, packets>>

-----------------------------------------------------------------------------
(* The reader                                                              *)

\* The header at the start of cells is one that was written.
AtHeader(cells) == \A i \in 1..HeaderLen : cells[i] = [frame |-> cells[1].frame, i |-> i]

\* One turn of streamReadLoop: ReadFull for a header, and for a payload of DATA.
StreamRead ==
  /\ stream /\ ~garbled /\ Len(wire) >= HeaderLen
  /\ IF AtHeader(wire)
       THEN LET f == wire[1].frame
                size == HeaderLen + IF f.flag = "DATA" THEN f.len ELSE 0
            IN /\ Len(wire) >= size
               /\ wire' = SubSeq(wire, size + 1, Len(wire))
               /\ got' = Append(got, f) /\ UNCHANGED garbled
       ELSE garbled' = TRUE /\ UNCHANGED <<wire, got>>
  /\ UNCHANGED <<batch, sent, copies, packets>>

\* What cells that are not a header are taken for.
Unreadable == [flag |-> "?", ch |-> 0, len |-> 0, off |-> 0]

\* Mutant: the loop steps over the header only.
ParseHeaders(data) ==
  LET At[pos \in 0..Len(data)] ==
        IF pos + HeaderLen > Len(data) THEN <<>>
        ELSE IF ~AtHeader(SubSeq(data, pos + 1, Len(data))) THEN <<Unreadable>>
        ELSE <<data[pos + 1].frame>> \o At[pos + HeaderLen]
  IN At[0]

\* The frames datagramReadLoop finds in a datagram: it stops at one that is said to
\* go beyond the end, whatever its flag.
Parse(data) ==
  LET At[pos \in 0..Len(data)] ==
        IF pos + HeaderLen > Len(data) THEN <<>>
        ELSE IF ~AtHeader(SubSeq(data, pos + 1, Len(data))) THEN <<Unreadable>>
        ELSE LET f == data[pos + 1].frame
                 frameEnd == pos + HeaderLen + f.len
             IN IF frameEnd > Len(data) THEN <<>> ELSE <<f>> \o At[frameEnd]
  IN At[0]

\* ReadPacket and the loop over its frames; datagrams arrive in any order, and one
\* may arrive twice.
ReadPacket ==
  /\ ~stream
  /\ \E i \in DOMAIN wire :
       /\ LET found == Parse(CellsOf(wire[i])) IN
          /\ got' = got \o SelectSeq(found, LAMBDA f : f # Unreadable)
          /\ garbled' = (garbled \/ \E k \in DOMAIN found : found[k] = Unreadable)
       /\ packets' = Append(packets, wire[i])
       /\ \/ wire' = RemoveAt(wire, i) /\ UNCHANGED copies
          \/ copies > 0 /\ copies' = copies - 1 /\ UNCHANGED wire
  /\ UNCHANGED <<batch, sent>>

Lose ==
  /\ ~stream
  /\ \E i \in DOMAIN wire : wire' = RemoveAt(wire, i)
  /\ UNCHANGED <<batch, sent, got, garbled, copies, packets>>

-----------------------------------------------------------------------------
Next ==
  /\ \/ \E n \in 1..MaxBatch : \E b \in [1..n -> Frames] : WriteBatch(b)
     \/ StreamRead \/ ReadPacket \/ Lose
  /\ UNCHANGED stream

Spec == Init /\ [][Next]_vars

-----------------------------------------------------------------------------
(* Properties                                                              *)

Credit(fs, ch) ==
  FoldSeq(LAMBDA f, s : s + IF f.flag = "UPD" /\ f.ch = ch THEN f.len ELSE 0, 0, fs)
Acked(fs, ch) ==
  Max({0} \union {fs[i].off : i \in {j \in DOMAIN fs : fs[j].flag = "ACK" /\ fs[j].ch = ch}})
Others(fs) == SelectSeq(fs, LAMBDA f : f.flag \notin {"ACK", "UPD"})

\* Merging control frames keeps what the batch says: the credit granted to each
\* window, the highest ACK of each channel, and the other frames in their order;
\* and it leaves one update and one ACK for each channel.
CompactionFaithful ==
  /\ \A ch \in {f.ch : f \in Frames} : /\ Credit(sent, ch) = Credit(batch, ch)
                                       /\ Acked(sent, ch) = Acked(batch, ch)
  /\ Others(sent) = Others(batch)
  /\ \A i, j \in DOMAIN sent : sent[i].flag \in {"ACK", "UPD"} /\ sent[i].flag = sent[j].flag
                                /\ sent[i].ch = sent[j].ch => i = j

\* streamReadLoop stays in step with the writer: it recognises the frames that were
\* written, in order, and takes nothing else for a header.
StreamInStep == stream => ~garbled /\ IsPrefix(got, sent)

\* "one or more whole frames go in each datagram, which must fit the MTU": only a
\* frame that is too large by itself exceeds the limit, nothing is left out or moved,
\* and as long as no window update is sent datagramReadLoop finds exactly the frames
\* of every datagram that arrives, whatever is lost, repeated or late.
DatagramWhole ==
  ~stream =>
    /\ \A i \in DOMAIN wire : Len(wire[i]) = 1 \/ Len(CellsOf(wire[i])) <= MaxDatagram
    /\ Len(FlattenSeq(wire)) = Len(sent) => FlattenSeq(wire) = sent
    /\ (\A i \in DOMAIN sent : sent[i].flag # "UPD") => ~garbled /\ got = FlattenSeq(packets)

=============================================================================
