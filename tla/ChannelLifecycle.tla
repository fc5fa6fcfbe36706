-------------------------- MODULE ChannelLifecycle --------------------------
(***************************************************************************)
(* Opening, half-closing, closing, resetting and re-opening one label at   *)
(* the two ends of a non-reliable session over an ordered transport        *)
(* (channel.go, and the parts of session.go that find, stash and remove a  *)
(* channel).                                                               *)
(*                                                                         *)
(* The k-th channel an end opens under the label is its incarnation k.     *)
(* Frames carry the incarnation that sent them, which the program cannot   *)
(* see.  An end with no live incarnation has no entry in session.channels. *)
(***************************************************************************)
EXTENDS Integers, Sequences, FiniteSets, SequencesExt

CONSTANTS
  Ends,           \* the two ends of the session
  MaxOpens,       \* bound: incarnations per end
  CtrlDepth,      \* capacity of writeScheduler.ctrlQueue
  Settings        \* the settings a session may have (variable setting)

ASSUME LifecycleAssumption ==
  /\ Cardinality(Ends) = 2 /\ MaxOpens \in Nat \ {0} /\ CtrlDepth \in Nat \ {0}
  /\ \A s \in Settings : s.opens \in 1..MaxOpens /\ s.writes \in [Ends -> Nat]
                         /\ s.depth \in Nat \ {0} /\ s.early \in Nat /\ s.timeouts \in BOOLEAN

VARIABLES
  setting, \* opens: bound, incarnations per end; writes: bound, DATA frames per
           \* incarnation; depth: capacity of writeScheduler.writes; early:
           \* Config.MaxPendingEarlyFramesPerSession; timeouts: bound,
           \* ChannelCloseTimeout and PendingEarlyFramesTTL may elapse
  opens,   \* per end: incarnations opened so far
  ch,      \* per end and incarnation: the Channel
  writes,  \* per end: frames in writeScheduler.writes
  ctrl,    \* per end: RST frames in writeScheduler.ctrlQueue
  wire,    \* per end: frames it has written to the transport
  stash,   \* per end: session.pending for the label
  lapses,  \* history: what has happened that breaks the pairing of incarnations
  sent,    \* per end and incarnation: DATA frames queued
  got      \* per end and incarnation: DATA and FIN frames it was given

vars == <<setting, opens, ch, writes, ctrl, wire, stash, lapses, sent, got>>

Peer(e) == CHOOSE d \in Ends : d # e
Incarnations == 1..MaxOpens
Frame(flag, k, n) == [flag |-> flag, inc |-> k, n |-> n]

\* newChannel.  write: the Write that holds writeMu waits for credit, or for the
\* queue.  fin: wanted by a goroutine that waits for writeMu, async in one that waits
\* for the queue, or sent.  final: finalizeOnce has begun and waits for readMu, or is
\* done.  inLoop: readLoop called maybeFinalize and is not back before that.
NewChannel ==
  [write |-> "no", writeClosed |-> FALSE, fin |-> "none", finQueued |-> FALSE, readDone |-> FALSE,
   closed |-> FALSE, resetByPeer |-> FALSE, timer |-> FALSE, final |-> "no", inLoop |-> FALSE]

Init ==
  /\ setting \in Settings
  /\ opens = [e \in Ends |-> 0]
  /\ ch = [e \in Ends |-> [k \in Incarnations |-> NewChannel]]
  /\ writes = [e \in Ends |-> <<>>] /\ ctrl = [e \in Ends |-> <<>>]
  /\ wire = [e \in Ends |-> <<>>] /\ stash = [e \in Ends |-> <<>>]
  /\ lapses = {}
  /\ sent = [e \in Ends |-> [k \in Incarnations |-> 0]]
  /\ got = [e \in Ends |-> [k \in Incarnations |-> <<>>]]

\* getChannel: the latest incarnation is in session.channels until removeChannelIf.
Live(e) == opens[e] > 0 /\ ch[e][opens[e]].final # "done"
Room(e) == Len(writes[e]) < setting.depth
Lapse(cond, what) == lapses' = IF cond THEN lapses \union {what} ELSE lapses

\* maybeFinalize: when both directions are over, finalize stops the timer and asks
\* for readMu.
Over(c) == c.finQueued /\ c.readDone
MaybeFinalize(c) ==
  IF Over(c) /\ c.final = "no" THEN [c EXCEPT !.final = "wait", !.timer = FALSE] ELSE c

\* maybeFinalize on readLoop's goroutine, which waits there for finalizeOnce.
LoopFinalize(c) == [MaybeFinalize(c) EXCEPT !.inLoop = Over(c)]

\* sendFinLocked: the FIN is queued, or handed to a goroutine if the queue is full.
\* (finQueued is set first: what can happen before the FIN is queued is what can
\* happen before the goroutine queues it.)
SendFin(e, c) == [c EXCEPT !.finQueued = TRUE, !.fin = IF Room(e) THEN "sent" ELSE "async"]

\* Mutant: the FIN does not wait for a Write in progress.
CloseWriteUnlocked(e, c) ==
  IF c.writeClosed THEN c ELSE SendFin(e, [c EXCEPT !.writeClosed = TRUE])

\* closeWrite, once per channel: sends the FIN, or leaves it to a goroutine while
\* a Write holds writeMu.
CloseWrite(e, c) ==
  IF c.writeClosed THEN c
  ELSE LET d == [c EXCEPT !.writeClosed = TRUE] IN
       IF c.write # "no" THEN [d EXCEPT !.fin = "wanted"] ELSE SendFin(e, d)

\* The FIN frame, if any, that turning channel k of e from c into d puts in writes.
FinOf(e, k, c, d) ==
  IF d.fin = "sent" /\ c.fin # "sent" THEN <<Frame("FIN", k, 0)>> ELSE <<>>

\* Channel k of end e becomes d, and its FIN is queued if d sent one.
Becomes(e, k, d) ==
  /\ ch' = [ch EXCEPT ![e][k] = d]
  /\ writes' = [writes EXCEPT ![e] = @ \o FinOf(e, k, ch[e][k], d)]

\* resetPeer and sendReset: nothing once the peer's FIN is in; dropped if the
\* control queue is full.
ResetPeer(e, k) ==
  ctrl' = IF ch[e][k].readDone \/ Len(ctrl[e]) >= CtrlDepth THEN ctrl
          ELSE [ctrl EXCEPT ![e] = Append(@, Frame("RST", k, 0))]

-----------------------------------------------------------------------------
(* The applications                                                        *)

\* Mutant: the stash is fed to the new channel but not deleted.
OpenKeepsStash(e) ==
  LET k == opens[e] + 1 IN
  /\ ~Live(e) /\ k <= setting.opens
  /\ opens' = [opens EXCEPT ![e] = k]
  /\ Becomes(e, k, [NewChannel EXCEPT !.readDone = \E f \in Range(stash[e]) : f.flag = "FIN"])
  /\ got' = [got EXCEPT ![e][k] = SelectSeq(stash[e], LAMBDA f : f.flag # "RST")]
  /\ Lapse(\E j \in 1..opens[e] : ch[e][j].fin # "sent", "overtaken")
  /\ UNCHANGED <<setting, stash, ctrl, wire, sent>>

\* OpenChannel: frames stashed for the label are fed to the new channel.
OpenChannel(e) ==
  LET k == opens[e] + 1
      flags == {f.flag : f \in Range(stash[e])}
      c == [NewChannel EXCEPT !.readDone = "FIN" \in flags, !.resetByPeer = "RST" \in flags]
  IN
  /\ ~Live(e) /\ k <= setting.opens
  /\ opens' = [opens EXCEPT ![e] = k]
  /\ Becomes(e, k, IF c.resetByPeer THEN MaybeFinalize(CloseWrite(e, c)) ELSE c)
  /\ got' = [got EXCEPT ![e][k] = SelectSeq(stash[e], LAMBDA f : f.flag # "RST")]
  /\ stash' = [stash EXCEPT ![e] = <<>>]
  /\ Lapse(\E j \in 1..opens[e] : ch[e][j].fin # "sent", "overtaken")
  /\ UNCHANGED <<setting, ctrl, wire, sent>>

\* Write takes writeMu ...
Write(e, k) ==
  /\ k <= opens[e] /\ sent[e][k] < setting.writes[e]
  /\ ch[e][k].write = "no" /\ ~ch[e][k].closed /\ ~ch[e][k].writeClosed
  /\ ch' = [ch EXCEPT ![e][k].write = "credit"]
  /\ UNCHANGED <<setting, opens, writes, ctrl, wire, stash, lapses, sent, got>>

\* ... acquires credit, or fails in AcquireCredits once writeClosed is set ...
WriteAcquires(e, k) ==
  /\ ch[e][k].write = "credit"
  /\ \/ ch' = [ch EXCEPT ![e][k].write = "queue"]
     \/ ch[e][k].writeClosed /\ ch' = [ch EXCEPT ![e][k].write = "no"]
  /\ UNCHANGED <<setting, opens, writes, ctrl, wire, stash, lapses, sent, got>>

\* ... and queues the frame, whatever has been closed meanwhile, when there is room.
WriteQueues(e, k) ==
  /\ ch[e][k].write = "queue" /\ Room(e)
  /\ ch' = [ch EXCEPT ![e][k].write = "no"]
  /\ sent' = [sent EXCEPT ![e][k] = @ + 1]
  /\ writes' = [writes EXCEPT ![e] = Append(@, Frame("DATA", k, sent[e][k] + 1))]
  /\ UNCHANGED <<setting, opens, ctrl, wire, stash, lapses, got>>

\* Channel.CloseWrite.
AppCloseWrite(e, k) ==
  /\ k <= opens[e] /\ ~ch[e][k].writeClosed
  /\ Becomes(e, k, MaybeFinalize(CloseWrite(e, ch[e][k])))
  /\ UNCHANGED <<setting, opens, ctrl, wire, stash, lapses, sent, got>>

\* Mutant: Close does not arm the timer.
CloseUntimed(e, k) ==
  LET c == ch[e][k] IN
  /\ k <= opens[e] /\ ~c.closed
  /\ Becomes(e, k, MaybeFinalize([CloseWrite(e, c) EXCEPT !.closed = TRUE]))
  /\ ResetPeer(e, k)
  /\ UNCHANGED <<setting, opens, wire, stash, lapses, sent, got>>

\* Channel.Close: closeWrite, then the RST and the timer unless the peer is done.
Close(e, k) ==
  LET c == ch[e][k] IN
  /\ k <= opens[e] /\ ~c.closed
  /\ Becomes(e, k, MaybeFinalize([CloseWrite(e, c) EXCEPT !.closed = TRUE, !.timer = ~c.readDone]))
  /\ ResetPeer(e, k)
  /\ UNCHANGED <<setting, opens, wire, stash, lapses, sent, got>>

-----------------------------------------------------------------------------
(* Goroutines and timers                                                   *)

\* closeWrite's goroutine gets writeMu.
LateFin(e, k) ==
  /\ ch[e][k].fin = "wanted" /\ ch[e][k].write = "no"
  /\ Becomes(e, k, MaybeFinalize(SendFin(e, ch[e][k])))
  /\ UNCHANGED <<setting, opens, ctrl, wire, stash, lapses, sent, got>>

\* sendFinLocked's goroutine finds room in the queue.
AsyncFin(e, k) ==
  /\ ch[e][k].fin = "async" /\ Room(e)
  /\ Becomes(e, k, [ch[e][k] EXCEPT !.fin = "sent"])
  /\ UNCHANGED <<setting, opens, ctrl, wire, stash, lapses, sent, got>>

\* finalize gets readMu, when the Read or WriteTo that holds it is over, and removes
\* the channel.
Finalize(e, k) ==
  /\ ch[e][k].final = "wait"
  /\ ch' = [ch EXCEPT ![e][k] = [@ EXCEPT !.final = "done", !.inLoop = FALSE]]
  /\ UNCHANGED <<setting, opens, writes, ctrl, wire, stash, lapses, sent, got>>

\* The close timer fires: localClose, which goes straight to finalize.
CloseTimer(e, k) ==
  /\ setting.timeouts /\ ch[e][k].timer
  /\ ch' = [ch EXCEPT ![e][k] = [@ EXCEPT !.finQueued = TRUE, !.readDone = TRUE,
                                         !.timer = FALSE, !.final = "wait"]]
  /\ Lapse(~ch[e][k].readDone, "timeout")
  /\ UNCHANGED <<setting, opens, writes, ctrl, wire, stash, sent, got>>

\* pruneLocked: the stash has expired.
ExpireStash(e) ==
  /\ setting.timeouts /\ stash[e] # <<>>
  /\ stash' = [stash EXCEPT ![e] = <<>>]
  /\ Lapse(TRUE, "dropped")
  /\ UNCHANGED <<setting, opens, ch, writes, ctrl, wire, sent, got>>

\* writeLoop and collect take frames from either queue.
WriteLoop(e) ==
  /\ \/ /\ writes[e] # <<>>
        /\ wire' = [wire EXCEPT ![e] = Append(@, Head(writes[e]))]
        /\ writes' = [writes EXCEPT ![e] = Tail(@)]
        /\ UNCHANGED ctrl
     \/ /\ ctrl[e] # <<>>
        /\ wire' = [wire EXCEPT ![e] = Append(@, Head(ctrl[e]))]
        /\ ctrl' = [ctrl EXCEPT ![e] = Tail(@)]
        /\ UNCHANGED writes
  /\ UNCHANGED <<setting, opens, ch, stash, lapses, sent, got>>

-----------------------------------------------------------------------------
(* readLoop                                                                *)

\* readLoop is not in a finalize, the next frame on the wire is f, and e takes it.
Takes(e, f) ==
  /\ \A k \in Incarnations : ~ch[e][k].inLoop
  /\ wire[Peer(e)] # <<>> /\ f = Head(wire[Peer(e)])
  /\ wire' = [wire EXCEPT ![Peer(e)] = Tail(@)]
  /\ UNCHANGED <<setting, opens, sent>>

\* f goes to channel k, astray if that is only waiting to be removed.
Give(e, k, f) ==
  /\ got' = [got EXCEPT ![e][k] = Append(@, f)]
  /\ Lapse(ch[e][k].final = "wait", "strayed")

\* FLG_DATA for a live channel: feed.  A closed one repeats its RST, but not
\* within RetransmitTimeout of the last one.
FeedData(e, f, recent) ==
  LET k == opens[e] IN
  /\ Takes(e, f) /\ f.flag = "DATA" /\ Live(e)
  /\ IF ch[e][k].closed
       THEN /\ IF recent THEN UNCHANGED ctrl ELSE ResetPeer(e, k)
            /\ Lapse(ch[e][k].final = "wait", "strayed")
            /\ UNCHANGED got
       ELSE Give(e, k, f) /\ UNCHANGED ctrl
  /\ UNCHANGED <<ch, writes, stash>>

\* FLG_FIN for a live channel: remoteClose.
FeedFin(e, f) ==
  LET k == opens[e] IN
  /\ Takes(e, f) /\ f.flag = "FIN" /\ Live(e)
  /\ Becomes(e, k, LoopFinalize([ch[e][k] EXCEPT !.readDone = TRUE]))
  /\ Give(e, k, f)
  /\ UNCHANGED <<ctrl, stash>>

\* FLG_RST for a live channel: peerReset.
FeedReset(e, f) ==
  LET k == opens[e] IN
  /\ Takes(e, f) /\ f.flag = "RST" /\ Live(e)
  /\ Becomes(e, k, LoopFinalize(CloseWrite(e, [ch[e][k] EXCEPT !.resetByPeer = TRUE])))
  /\ UNCHANGED <<ctrl, stash, lapses, got>>

\* A frame for a label that is not open: stashLocked.  An RST is kept only behind
\* other frames; what exceeds the limit is dropped.
Stash(e, f) ==
  LET full == Len(stash[e]) >= setting.early IN
  /\ Takes(e, f) /\ ~Live(e)
  /\ stash' = IF full \/ (f.flag = "RST" /\ stash[e] = <<>>) THEN stash
              ELSE [stash EXCEPT ![e] = Append(@, f)]
  /\ Lapse(full, "dropped")
  /\ UNCHANGED <<ch, writes, ctrl, got>>

-----------------------------------------------------------------------------
App(e) ==
  \/ OpenChannel(e)
  \/ \E k \in Incarnations : Write(e, k) \/ AppCloseWrite(e, k) \/ Close(e, k)

ReadLoop(e) ==
  \E f \in Range(wire[Peer(e)]) :
    \/ \E recent \in BOOLEAN : FeedData(e, f, recent)
    \/ FeedFin(e, f) \/ FeedReset(e, f) \/ Stash(e, f)

\* The channel's own calls, goroutines and timer.
Own(e, k) ==
  \/ WriteAcquires(e, k) \/ LateFin(e, k) \/ AsyncFin(e, k)
  \/ Finalize(e, k) \/ CloseTimer(e, k)

Next ==
  \E e \in Ends :
    \/ App(e) \/ ExpireStash(e) \/ WriteLoop(e) \/ ReadLoop(e)
    \/ \E k \in Incarnations : WriteQueues(e, k) \/ Own(e, k)

Spec == Init /\ [][Next]_vars

\* The channels' own steps are taken: Writes get credit and, when there is room, their
\* place in the queue, goroutines run, timers fire, and the application's readers give
\* readMu back.  Applications, the loops and the transport do as they like.
Fairness == WF_vars(\E e \in Ends, k \in Incarnations : WriteQueues(e, k) \/ Own(e, k))

FairSpec == Spec /\ Fairness

-----------------------------------------------------------------------------
(* Properties                                                              *)

\* What incarnation k of one end is given was sent by incarnation k of the other:
\* re-opening a label never mixes the two channels' data or FINs, as long as no FIN
\* was overtaken by a re-opening of its label (sendFinLocked's goroutine, channel.go
\* 805), no close time-out cut a channel off, no frame was dropped from the stash,
\* and none came for a channel that finalize had not removed yet (861-866).
Paired ==
  lapses = {} => \A e \in Ends, k \in Incarnations : \A f \in Range(got[e][k]) : f.inc = k

\* But for the same lapses, a channel that is still open for reading has lost nothing
\* when it sees the end of the stream: all that the peer's Write accepted is there,
\* in order.
EndMeansAll ==
  lapses = {} => \A e \in Ends, k \in Incarnations :
    ch[e][k].readDone /\ ~ch[e][k].closed =>
      got[e][k] = [i \in 1..sent[Peer(e)][k] |-> Frame("DATA", k, i)] \o <<Frame("FIN", k, 0)>>

\* A Write of channel k that has credit waits for a queue that stays full, and the
\* channel has no timer: Close found that the peer had finished.
Stuck(e, k) == ch[e][k].write = "queue" /\ ~Room(e) /\ ~ch[e][k].timer

\* Where the close time-out may elapse, every closed channel is finalized in the end,
\* whatever the peer does, unless a Write holds up its FIN because the transport takes
\* nothing any more (closeWrite's goroutine waits for writeMu, channel.go 778).
CloseCompletes ==
  <>[]\A e \in Ends, k \in Incarnations :
        setting.timeouts /\ ch[e][k].closed => ch[e][k].final = "done" \/ Stuck(e, k)

=============================================================================
