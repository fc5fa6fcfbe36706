----------------------------- MODULE FlowControl -----------------------------
(***************************************************************************)
(* Credit flow control (flow.go) of a non-reliable session over a lossless *)
(* transport: writers of several channels at one end spend stream and      *)
(* session credit, readers at the other end give it back in coalesced UPD  *)
(* frames.  Every atomic load, store, swap and compare-and-swap of the     *)
(* code is a step of its own.                                              *)
(*                                                                         *)
(* Payload is counted in bytes.  The cuts between the DATA frames of one   *)
(* channel and between the UPD frames of one flow are forgotten: bytes on  *)
(* the wire may arrive in any portions, which only adds behaviours.        *)
(***************************************************************************)
EXTENDS Integers, FiniteSets, Functions

CONSTANTS
  Channels,       \* the open channels
  Session,        \* the SessionFlow (chID 0), a value outside Channels
  Loop,           \* the receiving readLoop, a value outside Channels
  StreamWindow,   \* Config.InitialStreamWindow
  SessionWindow,  \* Config.InitialSessionWindow; 0 disables the session flow
  UpdateRatio,    \* DefaultWindowUpdateRatio
  MaxFrame,       \* Config.MaxFrameDataSize
  MayClose        \* bound: channels either application may close

ASSUME FlowAssumption ==
  /\ IsFiniteSet(Channels)
  /\ Session \notin Channels /\ Loop \notin Channels
  /\ StreamWindow \in Nat \ {0} /\ SessionWindow \in Nat
  /\ UpdateRatio \in Nat \ {0} /\ MaxFrame \in Nat \ {0}
  /\ MayClose \subseteq Channels

Flows == Channels \union {Session}
Actors == Channels \union {Loop}  \* holders of one readMu each, and readLoop
Enabled == SessionWindow > 0
Window(f) == IF f = Session THEN SessionWindow ELSE StreamWindow
Threshold(f) == IF Window(f) \div UpdateRatio <= 0 THEN 1 ELSE Window(f) \div UpdateRatio

VARIABLES
  \* sending end
  sendCredits,   \* per flow
  winNotify,     \* per channel: the one-slot wake-up channel is full
  writeClosed,   \* per channel
  writer,        \* per channel: idle, load, wait, deduct, or taken (session paid)
  take,          \* per channel: the local cAvail, then take, of AcquireCredits
  waking,        \* channels the sending readLoop still has to wake
  \* transport
  dataWire,      \* per channel: payload bytes on the way
  updWire,       \* per flow: credit on the way back
  \* receiving end
  feeding,       \* per channel: bytes that passed feed's check, not yet pushed
  ring,          \* per channel: unread bytes
  closed,        \* per channel: Channel.closed
  drained,       \* per channel: no, popped (drainRing's loop is over), closed
  gone,          \* per channel: bytes that no reader will ever read
  lost,          \* how many of those gave no session credit back
  consumed, unflushed, updPending,  \* per flow
  actor,         \* per actor: where it is in OnRead
  \* the receiving end's write scheduler
  queued,        \* flows with an UPD frame in ctrlQueue
  resolving      \* per flow: delta swapped out while updPending is still set

sndVars == <<sendCredits, winNotify, writeClosed, writer, take, waking>>
rcvVars == <<feeding, ring, closed, drained, gone, lost>>
updVars == <<consumed, unflushed, updPending, actor>>
schVars == <<queued, resolving>>
vars == <<sndVars, dataWire, updWire, rcvVars, updVars, schVars>>

NoOp == [pc |-> "idle", flow |-> Session, n |-> 0, of |-> 0]
NoDelta == -1
Lesser(m, n) == IF m < n THEN m ELSE n

Init ==
  /\ sendCredits = [f \in Flows |-> Window(f)]
  /\ winNotify = [c \in Channels |-> FALSE]
  /\ writeClosed = [c \in Channels |-> FALSE]
  /\ writer = [c \in Channels |-> "idle"]
  /\ take = [c \in Channels |-> 0]
  /\ waking = {}
  /\ dataWire = [c \in Channels |-> 0]
  /\ updWire = [f \in Flows |-> 0]
  /\ feeding = [c \in Channels |-> 0]
  /\ ring = [c \in Channels |-> 0]
  /\ closed = [c \in Channels |-> FALSE]
  /\ drained = [c \in Channels |-> "no"]
  /\ gone = [c \in Channels |-> 0]
  /\ lost = 0
  /\ consumed = [f \in Flows |-> 0]
  /\ unflushed = [f \in Flows |-> 0]
  /\ updPending = [f \in Flows |-> FALSE]
  /\ actor = [a \in Actors |-> NoOp]
  /\ queued = {}
  /\ resolving = [f \in Flows |-> NoDelta]

-----------------------------------------------------------------------------
(* Sending end: AcquireCredits, one call per channel at a time (writeMu)   *)

\* The entry of the loop: closed channels fail, else load the stream credit.
LoadStream(c) ==
  /\ writer[c] = "idle"
  /\ ~writeClosed[c]
  /\ take' = [take EXCEPT ![c] = sendCredits[c]]
  /\ writer' = [writer EXCEPT ![c] = "load"]
  /\ UNCHANGED <<sendCredits, winNotify, writeClosed, waking, dataWire, updWire,
                 rcvVars, updVars, schVars>>

\* Load the session credit, then block or decide how much to take.
LoadSession(c, desired) ==
  LET avail == IF Enabled THEN Lesser(take[c], sendCredits[Session]) ELSE take[c] IN
  /\ writer[c] = "load"
  /\ IF avail <= 0
       THEN /\ writer' = [writer EXCEPT ![c] = "wait"]
            /\ take' = [take EXCEPT ![c] = 0]
       ELSE /\ writer' = [writer EXCEPT ![c] = IF Enabled THEN "deduct" ELSE "taken"]
            /\ take' = [take EXCEPT ![c] = Lesser(desired, avail)]
  /\ UNCHANGED <<sendCredits, winNotify, writeClosed, waking, dataWire, updWire,
                 rcvVars, updVars, schVars>>

\* Mutant: the session is charged without looking at what is left.
DeductBlindly(c) ==
  /\ writer[c] = "deduct"
  /\ sendCredits' = [sendCredits EXCEPT ![Session] = @ - take[c]]
  /\ writer' = [writer EXCEPT ![c] = "taken"]
  /\ UNCHANGED <<take, winNotify, writeClosed, waking, dataWire, updWire,
                 rcvVars, updVars, schVars>>

\* SessionFlow.TryDeduct; on failure the loop starts again.
DeductSession(c) ==
  /\ writer[c] = "deduct"
  /\ IF sendCredits[Session] >= take[c]
       THEN /\ sendCredits' = [sendCredits EXCEPT ![Session] = @ - take[c]]
            /\ writer' = [writer EXCEPT ![c] = "taken"]
            /\ UNCHANGED take
       ELSE /\ writer' = [writer EXCEPT ![c] = "idle"]
            /\ take' = [take EXCEPT ![c] = 0]
            /\ UNCHANGED sendCredits
  /\ UNCHANGED <<winNotify, writeClosed, waking, dataWire, updWire,
                 rcvVars, updVars, schVars>>

\* StreamFlow.TryDeduct, then queueDataLocked: the bytes are on their way.  On
\* failure the session is refunded, all writers are woken, the loop restarts.
DeductStream(c) ==
  /\ writer[c] = "taken"
  /\ IF sendCredits[c] >= take[c]
       THEN /\ sendCredits' = [sendCredits EXCEPT ![c] = @ - take[c]]
            /\ dataWire' = [dataWire EXCEPT ![c] = @ + take[c]]
            /\ UNCHANGED winNotify
       ELSE /\ sendCredits' = [sendCredits EXCEPT ![Session] = @ + take[c]]
            /\ winNotify' = [d \in Channels |-> TRUE]
            /\ UNCHANGED dataWire
  /\ writer' = [writer EXCEPT ![c] = "idle"]
  /\ take' = [take EXCEPT ![c] = 0]
  /\ UNCHANGED <<writeClosed, waking, updWire, rcvVars, updVars, schVars>>

\* A blocked writer takes the token and looks again.
TakeNotify(c) ==
  /\ writer[c] = "wait" /\ winNotify[c]
  /\ winNotify' = [winNotify EXCEPT ![c] = FALSE]
  /\ writer' = [writer EXCEPT ![c] = "idle"]
  /\ UNCHANGED <<sendCredits, writeClosed, take, waking, dataWire, updWire,
                 rcvVars, updVars, schVars>>

\* Mutant: closeWrite does not wake the writer.
CloseWriteSilent(c) ==
  /\ c \in MayClose /\ ~writeClosed[c]
  /\ writeClosed' = [writeClosed EXCEPT ![c] = TRUE]
  /\ UNCHANGED <<sendCredits, winNotify, writer, take, waking, dataWire, updWire,
                 rcvVars, updVars, schVars>>

\* closeWrite at the sending end: by the application or on the peer's RST.
CloseWrite(c) ==
  /\ c \in MayClose /\ ~writeClosed[c]
  /\ writeClosed' = [writeClosed EXCEPT ![c] = TRUE]
  /\ winNotify' = [winNotify EXCEPT ![c] = TRUE]
  /\ UNCHANGED <<sendCredits, writer, take, waking, dataWire, updWire,
                 rcvVars, updVars, schVars>>

\* readLoop, FLG_UPD: AddCredits adds first ...
AddCredits(f, n) ==
  /\ waking = {} /\ n <= updWire[f]
  /\ updWire' = [updWire EXCEPT ![f] = @ - n]
  /\ sendCredits' = [sendCredits EXCEPT ![f] = @ + n]
  /\ waking' = IF f = Session THEN Channels ELSE {f}
  /\ UNCHANGED <<winNotify, writeClosed, writer, take, dataWire, rcvVars, updVars, schVars>>

\* ... then WakeWriter, for every channel when the credit is the session's.
WakeWriter(c) ==
  /\ c \in waking
  /\ waking' = waking \ {c}
  /\ winNotify' = [winNotify EXCEPT ![c] = TRUE]
  /\ UNCHANGED <<sendCredits, writeClosed, writer, take, dataWire, updWire,
                 rcvVars, updVars, schVars>>

-----------------------------------------------------------------------------
(* Receiving end: OnRead and flushUpdate.  actor[a].n is what a carries:   *)
(* the bytes read until Add, the swapped-out credit until it is unflushed. *)
(* actor[a].of is what StreamFlow.OnRead will hand to SessionFlow.OnRead.  *)

Begin(f, n, m) == [pc |-> "add", flow |-> f, n |-> n, of |-> m]
Moves(a, pc, n) == [actor[a] EXCEPT !.pc = pc, !.n = n]

\* The end of one OnRead: the stream's goes on with the session's.
Finish(a) ==
  IF Enabled /\ actor[a].flow # Session THEN Begin(Session, actor[a].of, 0) ELSE NoOp

\* consumed.Add: below the threshold nothing more happens.
AddConsumed(a) ==
  LET f == actor[a].flow
      sum == consumed[f] + actor[a].n
  IN
  /\ actor[a].pc = "add"
  /\ consumed' = [consumed EXCEPT ![f] = sum]
  /\ actor' = [actor EXCEPT ![a] = IF sum >= Threshold(f) THEN Moves(a, "swap", 0) ELSE Finish(a)]
  /\ UNCHANGED <<unflushed, updPending, sndVars, dataWire, updWire, rcvVars, schVars>>

\* consumed.Swap(0).
SwapConsumed(a) ==
  LET f == actor[a].flow IN
  /\ actor[a].pc = "swap"
  /\ consumed' = [consumed EXCEPT ![f] = 0]
  /\ actor' = [actor EXCEPT ![a] = IF consumed[f] <= 0 THEN Finish(a)
                                                      ELSE Moves(a, "unflush", consumed[f])]
  /\ UNCHANGED <<unflushed, updPending, sndVars, dataWire, updWire, rcvVars, schVars>>

\* unflushed.Add.
AddUnflushed(a) ==
  /\ actor[a].pc = "unflush"
  /\ unflushed' = [unflushed EXCEPT ![actor[a].flow] = @ + actor[a].n]
  /\ actor' = [actor EXCEPT ![a] = Moves(a, "cas", 0)]
  /\ UNCHANGED <<consumed, updPending, sndVars, dataWire, updWire, rcvVars, schVars>>

\* updPending.CompareAndSwap; the winner's UPD frame goes to ctrlQueue.
QueueUpdate(a) ==
  LET f == actor[a].flow IN
  /\ actor[a].pc = "cas"
  /\ updPending' = [updPending EXCEPT ![f] = TRUE]
  /\ queued' = IF updPending[f] THEN queued ELSE queued \union {f}
  /\ actor' = [actor EXCEPT ![a] = Finish(a)]
  /\ UNCHANGED <<consumed, unflushed, sndVars, dataWire, updWire, rcvVars, resolving>>

\* Mutant: the whole ring is credited, not the bytes copied.
ReadCreditsAll(c, n) ==
  /\ actor[c].pc = "idle" /\ drained[c] = "no" /\ n <= ring[c]
  /\ ring' = [ring EXCEPT ![c] = @ - n]
  /\ actor' = [actor EXCEPT ![c] = Begin(c, ring[c], ring[c])]
  /\ UNCHANGED <<feeding, closed, drained, gone, lost, consumed, unflushed, updPending,
                 sndVars, dataWire, updWire, schVars>>

\* Read and WriteTo: n bytes of the ring, then OnRead of both flows.  A Read
\* that began before Close may still take what it finds.
Read(c, n) ==
  /\ actor[c].pc = "idle" /\ drained[c] = "no" /\ n <= ring[c]
  /\ ring' = [ring EXCEPT ![c] = @ - n]
  /\ actor' = [actor EXCEPT ![c] = Begin(c, n, n)]
  /\ UNCHANGED <<feeding, closed, drained, gone, lost, consumed, unflushed, updPending,
                 sndVars, dataWire, updWire, schVars>>

\* Mutant: refused bytes are not credited to the session.
FeedUncredited(c, n) ==
  /\ actor[Loop].pc = "idle" /\ \A d \in Channels : feeding[d] = 0
  /\ n <= dataWire[c]
  /\ dataWire' = [dataWire EXCEPT ![c] = @ - n]
  /\ gone' = [gone EXCEPT ![c] = @ + IF closed[c] THEN n ELSE 0]
  /\ feeding' = [feeding EXCEPT ![c] = IF closed[c] THEN 0 ELSE n]
  /\ UNCHANGED <<ring, closed, drained, lost, updVars, sndVars, updWire, schVars>>

\* readLoop, FLG_DATA: feed checks closed; what a closed channel refuses is
\* credited to the session by creditDiscarded.
FeedCheck(c, n) ==
  /\ actor[Loop].pc = "idle" /\ \A d \in Channels : feeding[d] = 0
  /\ n <= dataWire[c]
  /\ dataWire' = [dataWire EXCEPT ![c] = @ - n]
  /\ IF closed[c]
       THEN /\ gone' = [gone EXCEPT ![c] = @ + n]
            /\ actor' = [actor EXCEPT ![Loop] = IF Enabled THEN Begin(Session, n, 0) ELSE NoOp]
            /\ UNCHANGED feeding
       ELSE /\ feeding' = [feeding EXCEPT ![c] = n]
            /\ UNCHANGED <<gone, actor>>
  /\ UNCHANGED <<ring, closed, drained, lost, consumed, unflushed, updPending,
                 sndVars, updWire, schVars>>

\* ring.Push; a closed ring drops the buffer and feed does not notice.
FeedPush(c) ==
  /\ feeding[c] > 0
  /\ feeding' = [feeding EXCEPT ![c] = 0]
  /\ IF drained[c] = "closed"
       THEN /\ gone' = [gone EXCEPT ![c] = @ + feeding[c]]
            /\ lost' = lost + feeding[c]
            /\ UNCHANGED ring
       ELSE /\ ring' = [ring EXCEPT ![c] = @ + feeding[c]]
            /\ UNCHANGED <<gone, lost>>
  /\ UNCHANGED <<closed, drained, updVars, sndVars, dataWire, updWire, schVars>>

\* Close of the receiving channel sets the flag ...
Close(c) ==
  /\ c \in MayClose /\ ~closed[c]
  /\ closed' = [closed EXCEPT ![c] = TRUE]
  /\ UNCHANGED <<feeding, ring, drained, gone, lost, updVars, sndVars, dataWire, updWire, schVars>>

\* ... and the closer or the last reader, with readMu, empties the ring into
\* the session's OnRead (drainRing, once) ...
DrainRing(c) ==
  /\ closed[c] /\ drained[c] = "no" /\ actor[c].pc = "idle"
  /\ drained' = [drained EXCEPT ![c] = "popped"]
  /\ ring' = [ring EXCEPT ![c] = 0]
  /\ gone' = [gone EXCEPT ![c] = @ + ring[c]]
  /\ actor' = [actor EXCEPT ![c] = IF Enabled /\ ring[c] > 0 THEN Begin(Session, ring[c], 0) ELSE NoOp]
  /\ UNCHANGED <<feeding, closed, lost, consumed, unflushed, updPending,
                 sndVars, dataWire, updWire, schVars>>

\* ... and closes the ring.  finalize closes it too, drained or not: after the close
\* time-out it may get readMu before the reader that was to drain the ring.
CloseRing(c) ==
  /\ actor[c].pc = "idle"
  /\ drained[c] = "popped" \/ (closed[c] /\ drained[c] = "no")
  /\ drained' = [drained EXCEPT ![c] = "closed"]
  /\ ring' = [ring EXCEPT ![c] = 0]
  /\ gone' = [gone EXCEPT ![c] = @ + ring[c]]
  /\ lost' = lost + ring[c]
  /\ UNCHANGED <<feeding, closed, updVars, sndVars, dataWire, updWire, schVars>>

-----------------------------------------------------------------------------
(* The receiving end's write scheduler: compactAndResolveControlFrames     *)

\* unflushed.Swap(0) ...
ResolveSwap(f) ==
  /\ f \in queued /\ \A g \in Flows : resolving[g] = NoDelta
  /\ queued' = queued \ {f}
  /\ resolving' = [resolving EXCEPT ![f] = unflushed[f]]
  /\ unflushed' = [unflushed EXCEPT ![f] = 0]
  /\ UNCHANGED <<consumed, updPending, actor, sndVars, dataWire, updWire, rcvVars>>

\* Mutant: updPending is never cleared.
ResolveOnce(f) ==
  /\ resolving[f] # NoDelta
  /\ resolving' = [resolving EXCEPT ![f] = NoDelta]
  /\ updWire' = [updWire EXCEPT ![f] = @ + resolving[f]]
  /\ UNCHANGED <<updVars, sndVars, dataWire, rcvVars, queued>>

\* ... then updPending.Store(false), and an UPD with a delta is written.
ResolveClear(f) ==
  /\ resolving[f] # NoDelta
  /\ resolving' = [resolving EXCEPT ![f] = NoDelta]
  /\ updPending' = [updPending EXCEPT ![f] = FALSE]
  /\ updWire' = [updWire EXCEPT ![f] = @ + resolving[f]]
  /\ UNCHANGED <<consumed, unflushed, actor, sndVars, dataWire, rcvVars, queued>>

-----------------------------------------------------------------------------
Writing(c) ==
  \/ LoadStream(c) \/ \E n \in 1..MaxFrame : LoadSession(c, n)
  \/ DeductSession(c) \/ DeductStream(c) \/ TakeNotify(c)

Crediting ==
  \/ \E f \in Flows : \E n \in 1..updWire[f] : AddCredits(f, n)
  \/ \E c \in Channels : WakeWriter(c)

Consuming(a) ==
  AddConsumed(a) \/ SwapConsumed(a) \/ AddUnflushed(a) \/ QueueUpdate(a)

Draining(c) == DrainRing(c) \/ CloseRing(c)

Reading(c) == \E n \in 1..ring[c] : Read(c, n)

Feeding(c) == FeedPush(c) \/ \E n \in 1..dataWire[c] : FeedCheck(c, n)

Resolving == \E f \in Flows : ResolveSwap(f) \/ ResolveClear(f)

Next ==
  \/ \E c \in Channels : \/ Writing(c) \/ CloseWrite(c) \/ Reading(c)
                         \/ Feeding(c) \/ Close(c) \/ Draining(c)
  \/ \E a \in Actors : Consuming(a)
  \/ Crediting \/ Resolving

Spec == Init /\ [][Next]_vars

\* Goroutines run, the transport delivers, and applications keep reading.
Fairness ==
  /\ \A c \in Channels : /\ WF_vars(Writing(c)) /\ WF_vars(Reading(c))
                          /\ WF_vars(Feeding(c)) /\ WF_vars(Draining(c))
  /\ \A a \in Actors : WF_vars(Consuming(a))
  /\ WF_vars(Crediting) /\ WF_vars(Resolving)

FairSpec == Spec /\ Fairness

-----------------------------------------------------------------------------
(* Properties                                                              *)

\* Credits, counts and program positions stay in their domains; above all no
\* window is overdrawn, though AcquireCredits loads, compares and deducts in steps.
TypeOK ==
  /\ sendCredits \in [Flows -> Nat] /\ winNotify \in [Channels -> BOOLEAN]
  /\ writeClosed \in [Channels -> BOOLEAN]
  /\ writer \in [Channels -> {"idle", "load", "wait", "deduct", "taken"}]
  /\ take \in [Channels -> Nat] /\ waking \subseteq Channels
  /\ dataWire \in [Channels -> Nat] /\ updWire \in [Flows -> Nat]
  /\ feeding \in [Channels -> Nat] /\ ring \in [Channels -> Nat]
  /\ closed \in [Channels -> BOOLEAN] /\ drained \in [Channels -> {"no", "popped", "closed"}]
  /\ gone \in [Channels -> Nat] /\ lost \in Nat
  /\ consumed \in [Flows -> Nat] /\ unflushed \in [Flows -> Nat]
  /\ updPending \in [Flows -> BOOLEAN]
  /\ actor \in [Actors -> [pc : {"idle", "add", "swap", "unflush", "cas"}, flow : Flows,
                           n : Nat, of : Nat]]
  /\ queued \subseteq Flows /\ resolving \in [Flows -> Nat \union {NoDelta}]

\* The swapped-out credit the scheduler holds for flow f.
Resolved(f) == IF resolving[f] = NoDelta THEN 0 ELSE resolving[f]

\* Credit an actor carries for flow f.
Carried(a, f) ==
  IF actor[a].flow = f THEN actor[a].n ELSE IF f = Session THEN actor[a].of ELSE 0

\* A channel's window is neither minted nor leaked: credit, bytes on the way,
\* bytes unread, and credit on its way back add up to InitialStreamWindow.
StreamConserved ==
  \A c \in Channels :
    sendCredits[c] + dataWire[c] + feeding[c] + ring[c] + gone[c] + Carried(c, c)
      + consumed[c] + unflushed[c] + Resolved(c) + updWire[c] = StreamWindow

\* Session credit a channel has in use: taken by its writer, on the way, or unread.
InUse(c) ==
  dataWire[c] + feeding[c] + ring[c] + IF writer[c] = "taken" THEN take[c] ELSE 0

\* The session's window adds up the same way over all channels, but for the
\* bytes counted in lost.
SessionConserved ==
  Enabled =>
    sendCredits[Session] + lost + consumed[Session] + unflushed[Session] + Resolved(Session)
      + updWire[Session] + SumFunction([c \in Channels |-> InUse(c)])
      + SumFunction([a \in Actors |-> Carried(a, Session)]) = SessionWindow

\* AcquireCredits never sleeps through its wake-up: a blocked writer that could
\* go on, or must fail, has a token or is about to get one.
NoLostWakeup ==
  \A c \in Channels :
    writer[c] = "wait" /\ (writeClosed[c] \/ (sendCredits[c] > 0 /\ (Enabled => sendCredits[Session] > 0)))
      => winNotify[c] \/ c \in waking

\* The refund path of AcquireCredits is dead: nobody else spends the stream
\* credit a writer has seen.
StreamDeductSucceeds ==
  \A c \in Channels : writer[c] \in {"deduct", "taken"} => sendCredits[c] >= take[c]

\* Credit that was flushed, that no UPD frame is going to carry, and that no reader
\* in flushUpdate is about to queue one for.
Stranded(f) ==
  /\ unflushed[f] > 0 /\ ~updPending[f]
  /\ \A a \in Actors : ~(actor[a].pc = "cas" /\ actor[a].flow = f)

\* While the peer keeps reading, a blocked writer is released, or its credit or the
\* session's stays stranded for ever: flushUpdate racing with the scheduler (flow.go
\* 168-172) is the only way in which credit that was read back fails to arrive.
ReleasedOrStranded ==
  \A c \in Channels :
    (writer[c] = "wait") ~> (writer[c] # "wait" \/ []Stranded(c) \/ []Stranded(Session))

=============================================================================
