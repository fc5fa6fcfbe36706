# A TLA+ verification of muxocket

muxocket multiplexes labelled channels over one transport (TCP, Unix sockets,
UDP, raw IP). This directory models its protocol and its concurrency in TLA+,
checks the models with TLC on small instances, and proves the central properties
of seven of them with TLAPS for all values of the constants.

`PROJECT.json` is the machine-readable index: components, runs, mutants (a
plausible bug for each property that TLC must catch), the map from definitions to
source lines, findings, hazards and theorems.

## The system

| part | source | modelled in |
|---|---|---|
| reliable delivery (ARQ): retransmission, reassembly, ACKs | `channel.go`, `session.go` (arqLoop), `write_scheduler.go` | `ArqStream` |
| credit flow control, per stream and per session | `flow.go`, `write_scheduler.go` (compaction) | `FlowControl` |
| life of a channel: open, half-close, Close, RST, finalize, re-open | `channel.go`, `session.go` | `ChannelLifecycle` |
| reading: Read/WriteTo against readLoop, Close and finalize | `channel.go` | `ChannelRead` |
| the transport of a session: loss, grace period, resumption, Close | `session.go`, `dialer.go`, `listener.go`, `write_scheduler.go` | `SessionLink` |
| frames for labels that are not open; closed-channel markers | `session.go` | `EarlyFrames` |
| batching, merging, datagram packing, frame parsing | `write_scheduler.go`, `session.go` | `Framing` |
| ring buffer of chunks | `ringbuffer.go` | `RingBuffer` (a queue elsewhere) |
| packet listener: a sub-connection and its wake-ups | `packetListener.go` | `PacketConn` on `RingBuffer` |
| listener: accept loops, demultiplexing, handshakes, session table, Close | `listener.go`, `packetListener.go` | `Listener` |
| dialer: fresh handshake, negotiated configuration, datagram adapter | `dialer.go` | not modelled (resumption is in `SessionLink`) |
| allocator, label codec | `allocator.go`, `session.go` | not modelled |

`BytePipe` and `Fifo` are abstract specifications: what a reliable channel and the
ring buffer promise. `ArqStream` is shown to implement the first, and `RingBuffer` as
used by `PacketConn` the second, both by TLC and by proof.

How they interact: `Channel.Write` takes credit (FlowControl), registers the frame
for retransmission (ArqStream) and queues it; `writeLoop` merges and writes
batches (Framing) to the session's current transport (SessionLink); the peer's
`readLoop` finds the channel or stashes the frame (EarlyFrames), reassembles it
(ArqStream) and pushes it into the ring (RingBuffer) that `Read` empties
(ChannelRead), which gives the credit back (FlowControl). Closing runs through all of them
(ChannelLifecycle for the protocol, ChannelRead for the local races, SessionLink
for the session, Listener for all sessions of a listener). Each module takes its neighbours' contribution as input: for
example ArqStream lets `AcquireCredits` grant any amount, and FlowControl counts
bytes.

## Conventions

Variables keep the names of the fields they stand for. A step is a piece of code
that other goroutines see as one: a mutex section, or a single atomic access where
the code has no lock (FlowControl, ChannelRead, the ACK state of ArqStream, the
tests of SessionLink). Operators headed `Mutant:` are wrong on purpose: each
stands for a plausible bug and shows that a property would notice it; the
specifications do not use them. An `MC` module only names constants for TLC.
Where a session's configuration selects between code paths (resumption,
Reliability, stream or datagram), it is a variable that the initial state chooses and
nothing changes, so one run covers all of them.
`CHECK_DEADLOCK FALSE` is in every configuration because every one of these
systems may stop: applications finish, sessions close, bounds are reached.

## The modules

**ArqStream.** One direction of a reliable channel. The network is the set `net` of
all frames ever written, so a frame may arrive late, repeatedly or never.
`AcquireCredits`/`QueueData` are the two halves of Write, `RegisterFin`/`QueueFin`
those of `sendFinLocked`; `ArqTick` is an arqLoop visit with any set of frames
timed out; the `Feed...` actions are the cases of `feedReliablePayload`, whose
drain loop runs frame by frame; `SendAck`, `ScheduleDelayedAck`, `AckTimer...`,
`ResolveAck`/`WriteAck` are the coalesced and delayed ACKs. `Disconnect` and
`Resume` drop and resume the transport. The other direction appears as `revDone`.

**FlowControl.** Any set of channels in one direction with a stream window each and
a session window. Every atomic operation of `AcquireCredits`, `AddCredits`,
`OnRead`, `flushUpdate` and of the scheduler's resolution of UPD frames is a step
(`LoadStream` ... `ResolveClear`); `actor` holds where each goroutine is inside
`OnRead`. `CloseRing` is the end of drainRing, or finalize closing a ring that nobody
drained, whose bytes are then counted as lost. The transport delivers.

**ChannelLifecycle.** Both ends of one label without Reliability, over an ordered
transport, with bounded `writes` and `ctrlQueue`, asynchronous FINs, close timers,
the stash for a label that is not open, and a second incarnation of the label. A Write
takes `writeMu`, acquires credit (or fails because the channel was closed for writing)
and queues its frame in three steps, so a FIN can be wanted at each of them. finalize
waits for `readMu` while the channel is still in the table; where readLoop called it,
readLoop waits too (`inLoop`). Four things break the pairing of the two ends'
incarnations, and the history variable `lapses` records them: a label is opened again
while the FIN of its last channel waits in a goroutine (`overtaken`), the close timer
cuts a channel off before the peer's FIN (`timeout`), the stash drops frames (`dropped`),
and a frame comes for a channel that finalize is about to remove (`strayed`). `Paired` and
`EndMeansAll` are about behaviours without them. So with these four excluded, there is no
fifth way for data to reach the wrong channel, or for an end to come early.

**ChannelRead.** One channel's reading end, flag by flag: a reader in Read or
WriteTo, readLoop with DATA, FIN or GOAWAY, CloseWrite/Close, Session.Close, and
finalize, which waits for `readMu`. `EOFComplete` looks at the step in which io.EOF is
answered, before that Read closes the ring: what a Read throws away afterwards is not
counted as read.

**SessionLink.** Two ends, numbered transports that break without notice, the
session's and the writer's transport, grace timers by epoch, keep-alive, GOAWAY,
and the resumption handshake (requests may be repeated and delayed; nonces). Each end
has its own `AllowConnectionResumption`: the listener's is its configuration's
(`listener.go:338`), and the dialer's is on only if the response says so
(`dialer.go:164`), so the dialer's implies the listener's.

**EarlyFrames.** One end's `channels`, `pending`, `closedIDs`, with expiry instead of
a clock, OpenChannel in its three stages, both read loops. A closed channel (`shut`)
refuses data until it is removed: streamReadLoop credits the bytes, datagramReadLoop
does not (`lost`). A removal follows the delivery of early frames, since the application
closes what OpenChannel has returned, or a FIN and a RST that come during the delivery.
A label is opened again only when its last OpenChannel has returned.

**Framing.** Batches of frames, merged, written to a stream or packed into
datagrams as cells (header or payload parts), and parsed again. The operators
`Compact`, `Pack` and `Parse` are the pure algorithms; TLC compares them with what
they should give for every batch of up to three frames.

**RingBuffer** has the fields of the ring and of its chunks. Every access to a field
that producer and consumer share is a step (`PushLength` ... `PushCount`, `TakeTail`
... `TakeCount`, `CloseDetach`, `CloseWalk`); the pool of chunks is shared with other
rings. **PacketConn** composes it with a sub-connection: packetReadLoop feeds,
the session's goroutine calls Read during the handshake and ReadPacket afterwards,
and Close takes `readMu` twice, once to drain and once to close the ring. A Read may
find its deadline over at once (`ReadLock`) or while it waits (`ReadExpires`).

**Listener.** A stream or packet listener: its loop, one handshake goroutine for each
connection (request read, nonce compared and swapped, answer written, session saved,
hook added, session offered), sessions that drop, resume and close, Accept, and the
stages of Listener.Close. A resumed session is offered to Accept or not, as
TransparentResumption says at that moment (an exported field, read after the handshake). A closed sub-connection leaves the map in a later step.

**BytePipe** has what was written, what was read, and whether the end was written
and reported. ArqStream maps `written` to the first `writeOffset` bytes of its input,
`taken` to the first `consumed` bytes delivered, `shut` to the registration of the FIN
and `ended` to `eof`. **Fifo** has a queue of buffers, a flag, and the result of the
consumer's call; PacketConn maps the queue to the slots from `cHead` on through all
linked chunks (`Contents`).

## The runs

Bounds are small because the interesting cases need few objects; what each must
reach is said here.

| run | what it asks | bounds |
|---|---|---|
| `arq_delivery` | ArqStream implements BytePipe (`IsPipe`), bounded reassembly, ARQ set exact | 3 bytes in frames of 1 or 2, so boundaries differ; one byte of reordering allowed, so frames are both held and refused; small frames are acknowledged by ratio, large ones at once |
| `arq_live` | ACKs sound, graceful means delivered, the sender drains or gives up | 1 frame and FIN, delayed ACKs, one retransmission before giving up, one drop of the transport, either application may close early |
| `flow_close` | conservation and wake-ups with closes at both ends | one channel, windows of 2, reads and writes of 1 or 2 |
| `flow_live` | two writers on one session window; a blocked writer is released or its credit is stranded | two channels, windows 1 and 2; nobody closes, since credit lost in a race with Close (below) can stall the other channel |
| `life` | half-close, Close, RST; Close completes; incarnations do not mix | queues of one, so FINs go through goroutines and RSTs are dropped; one incarnation with two writes and time-outs, or two incarnations with one write each and none |
| `read` | wake-ups, io.EOF, no data thrown away; Read returns, finalize completes | one frame, one Read or WriteTo, FIN or GOAWAY, any close |
| `link` | writer and session agree, writer wakes, stale failure reports, both ends close | one nonce, so one resumption, whose request may be delayed and repeated, and a further attempt that is refused; the first transport breaks without notice; keep-alive; the dialer may close; either end's setting of resumption. Overlapping resumptions are left to the proofs, and to `listener` for the nonces |
| `early` | limits, order, credit, marker table | two labels opened twice, room for one stashed label, two frames, one byte and one marker, so every limit is met; with and without Reliability, stream and datagram |
| `framing` | merging, framing, packing, parsing | all batches of up to three frames; one payload is too large for a datagram; stream and datagram |
| `packet` | the ring implements Fifo (`IsQueue`), owns its chunks, buffers are released once; datagrams are read; Close completes | three datagrams in chunks of one or two slots and a free list for chunks of one, so chunks fill, grow, and pass through the free list and the pool; reads larger than a datagram |
| `listener` | session table, sub-connection map, nonces; shutdown | three connections from one address, one fresh session, two nonces, so two resumptions overlap and a sub-connection is replaced; resumed sessions offered or not; backlog of one, so offers block |

`read_graceful` ends in a counterexample on purpose. It states what the comment at
`halfclose_test.go:175` says, that data sent before the peer closed stays readable,
and shows that between Session.Close setting `closed` and peerGone setting
`drainable` a reader takes the GOAWAY for an abort and discards the buffered tail.

### Where the code departs from its comments

The models also contain these behaviours, found while the properties were written.
The passing properties are stated so that they hold beside them.

* A Write or FIN that registers its frame late leaves it in `unacked`, and the
  channel in the ARQ set, after finalize (`channel.go:159`).
* `scheduleDelayedAck` counts the frame just pushed as "more data queued", so the
  last frames of a burst can be left without ACK and timer until a retransmission
  (`channel.go:505`).
* A frame pushed into a ring that Close has closed since the check is dropped and
  its session credit is not returned (`channel.go:642`). `SessionConserved` counts
  it as lost.
* RingBuffer.Close recycles the chunk that a Push in progress still writes to, so
  another ring can be given it (`ringbuffer.go:104`). `OwnChunks` and `IsQueue` speak of
  a ring that is not closed.
* ReadPacket does not look at the ring again after it has set `waitState`
  (`packetListener.go:385`): a datagram that comes in between waits for the next one, or
  for Close. `Served` names the case, and says that the next one does wake the call.
* packetSubConn.Close deletes the entries of its address even when they are a newer
  sub-connection's (`packetListener.go:456`), and Listener.Close empties `peerConns` but
  not the maps of UDP and IP addresses. `MapClean` says that no dead entry stays.
* A handshake that saves its session after Listener.Close has collected the table can
  leave it open, and in acceptChan (`listener.go:117`). `OnlyLateSurvive` says that it is
  the only one.
* Credit added between the scheduler's `Swap(0)` and `Store(false)` is carried by no
  UPD until more is read (`write_scheduler.go:158`); `ReleasedOrStranded` names the
  case.
* Close after CloseWrite sends a RST behind the FIN. A late RST, or a FIN that waits
  in a goroutine for room in the queue, can meet a re-opened label
  (`session.go:695`, `channel.go:805`). The FIN is a lapse (`overtaken`) in
  ChannelLifecycle; the RST stops the writing of the wrong channel, which no property
  excludes.
* A frame of the peer's next channel can reach one that finalize has not removed yet,
  because the reader holds `readMu` (`channel.go:860`); this is the lapse `strayed`.
* A Write that has credit and waits for a queue that the transport does not empty holds
  `writeMu`, so the FIN of a Close waits with it. If the peer had finished, no close timer
  runs and the channel stays (`channel.go:778`, `824`). `CloseCompletes` names the case
  (`Stuck`).
* `datagramReadLoop` ignores the answer of `feed` (`session.go:797`, `810`): bytes for a
  channel that is closed and not yet removed are not credited, although the comment at
  `session.go:534` says that the session then eventually stalls. `BytesAccounted` says
  that these are the only ones.
* Close can leave the ring to finalize, and finalize to the reader
  (`channel.go:821`).
* A check followed by an action, with a resumption or a Close in between: the grace
  timer can close a session just resumed (`session.go:972`), and a resumption can
  install a transport in a session just closed (`dialer.go:260`).
* The limit on early frames is per label, not per session (`session.go:1148`), and
  OpenChannel clears the marker that keeps stragglers out (`session.go:332`).
* `datagramReadLoop` takes the credit in a UPD's length field for a payload length
  (`session.go:768`), so a listener on a datagram transport loses window updates.
  `DatagramWhole` is about batches without them.

### Fairness

Liveness is checked only under weak fairness of goroutines that have something to
do, of timers and of the transport where the code depends on it:

* ArqStream: arqLoop ticks and frames time out, deferred FINs and closes run, a
  dropped transport comes back (drops are bounded). Nothing is assumed of delivery
  or of the peer.
* FlowControl: the transport delivers and the peer's application keeps reading.
* ChannelLifecycle: a channel's own goroutines and timers run, a Write gets credit and,
  when there is room, its place in the queue, and the application's readers give `readMu`
  back; nothing is assumed of the peer, the write loops, the transport or the
  applications. One weak fairness of all these steps together is enough, since each
  channel takes finitely many.
* ChannelRead: goroutines that have begun an operation go on, `w.Write` returns, and
  waiting for `readMu` is strongly fair, as Go's mutexes hand over to a waiter that
  starves.
* SessionLink: read loops, grace timers, closes that have begun and keep-alive go on;
  nobody has to resume.
* PacketConn: goroutines go on, the session's keeps reading, and a failed handshake or
  Listener.Close closes the connection. That one of them moves while one can is all that
  is assumed: the datagrams are bounded, so none can keep the others from `readMu` for
  ever.
* Listener: handshakes (which time out), closes and hooks in progress go on, and a
  blocked Accept returns when it can; nothing is assumed of clients or of the loops.

## Proofs

TLAPS checks the proofs of eight modules: `ArqStreamProofs`, `FlowControlProofs`,
`SessionLinkProofs`, `ListenerProofs`, `ChannelReadProofs`, `PacketConnProofs` and
`EarlyFramesProofs`, each about the module it is named after, and `FiniteSums`, the
lemmas about sums over finite sets that two of them need. They use only the named
assumptions `ArqAssumption`, `FlowAssumption`, `ListenerAssumption`, `ReadAssumption`,
`RingAssumption`, `PacketAssumption` and `EarlyAssumption` (types of the constants, a
positive frame size, finitely many channels, chunks that hold something, limits of the
stash that are not 0), which TLC evaluates on its instances. The last is what
NewSessionWithID provides: it gives a default to a limit of 0 (`session.go:262`).
Without it `StashAccounted` would be false, since stashLocked does not look at the
frame limit for the first frame of a queue.

*ArqStream.* `IInv` strengthens the properties with five facts: a granted chunk
lies in the input and the FIN ends the writing (`WriterInv`); frames on the
network are segments of the input that never partly overlap (`NetInv`); the
receiver has taken whole frames, the held ones are ahead of it, and a known FIN
offset is the final length (`AssemblyInv`); the last byte pushed is in the ring or
read (`ReaderInv`); unacknowledged frames are contiguous up to the end and
everything before them was taken (`UnackedInv`). `NetInv` is what makes
`PrefixDelivered` inductive: without it a frame cut differently on retransmission
could straddle `readOffset`. `UnackedInv` with `AckSound` gives
`GracefulMeansDelivered`. The theorems are `TypeCorrect`, `PrefixTheorem`,
`OverlapTheorem`, `AckTheorem`, `EOFTheorem`, `GracefulTheorem`, `ReorderTheorem` and
`MembershipTheorem`, for every input and all limits.

*The refinement.* `PipeTheorem` is `Spec => IsPipe`: the initial state maps to the
pipe's (`PipeInit`), and under `IInv` every step of ArqStream maps to Write, Take,
Shut, End or a stutter (`PipeStep`). What has been read is a prefix of what has been
written by `PrefixDelivered`, and io.EOF maps to End by `EOFComplete`, so the invariants
above carry the refinement. TLC checks the same `IsPipe` in `arq_delivery`.

*FlowControl.* `IInv` adds that an actor carries credit only between the steps that
move it (`ActorInv`), that the stream credit a writer has seen is still there
(`TakeInv`: nobody else spends it), and that a writer that has seen no credit, or
an open channel, before it changed has a wake-up coming (`WakeInv`).
`TypeCorrect` (with `WithinWindow`: every credit counter stays between 0 and the window it
started from, which follows from conservation), `ConservationTheorem`, `WakeupTheorem` and
`DeductTheorem` hold for any set of channels and any windows. `SessionTheorem` is about a sum over all channels
and all actors. Every step moves credit between one channel, one actor and what belongs
to neither (`Moved`), and adding k to one value of a function over a finite set adds k to
its sum (`SumShift` of `FiniteSums`). The latter is an induction over the size of the set, written out
with the least counterexample (`Least`), as is the existence of the sums (`SumsExist`)
that `SumFunction` computes.

*SessionLink.* `AgreementTheorem` needs to know that a writer about to clear its failed
transport cannot meet the same one installed again: `FailedInv` says that the session
has given it up, and `FreshInv` that each end installs a transport once. At the dialer
that is because attempts come one at a time, at the listener because of the nonces: a
repeated request for a transport already used carries a nonce that is refused.
`WakeTheorem` and `DroppedTheorem` (an action property) follow from the same invariant.

*Listener.* Four facts make the properties inductive. `HookInv`: a session of the table waits for its
hook, or has one that has not run (`StaleTheorem`). `OpenInv`: an open session is about
to be saved, in the table, in the set that Close collected, or late (`LateTheorem`).
`MapInv`: a sub-connection is in the map under its own address (`MapTheorem`). `NonceInv`
ties the stored nonce to the last one that won (`NonceTheorem`).

*ChannelRead.* `WakeInv` says of each thing a reader about to block looks at (data,
readDone, closed) that what it has not seen is announced by a token, by closeChan, or by a
goroutine on its way to do so (`WakeupTheorem`). `SawInv` says that a reader past
readAborted that has seen readDone found the ring empty after the end, which needs
`DoneInv` (what readDone stands for), `MutexInv` (who holds readMu) and `FramesInv` (a
frame is unread, delivered or discarded); they give `EOFTheorem`, an action property:
only `CheckDone` answers io.EOF (`OnlyCheckDone`), and it does so when the ring is empty
and, unless something was closed, every frame was delivered. `RingInv` gives
`DiscardTheorem`.

*PacketConn.* The chunks of an open ring form a list from the consumer's chunk to the
producer's, apart from the pool and the free list (`Chain`, for some set of chunks), and
the chunk that Push is about to link is in nobody else's hands (`Linking`). This is
inductive although both sides move their ends without a lock, and gives
`OwnChunksTheorem`. A datagram is not yet in the ring, in one slot, in the result of a call, or
given away (`DatagramInv`), whichever of Feed, Read and Close runs in between; this gives
`BuffersTheorem`.

*The ring is a queue.* `QueueTheorem` is `Spec => IsQueue`. Its invariant `QueueInv`
numbers the datagrams: `Published` is how many Push has made visible, `Consumed` how many
were taken whole, and every chunk of the list has the number of the datagrams before its
own, so that slot i of chunk k holds datagram `B[k]+i+1`, complete unless it is the
first of the list (`Numbered`). The numbers grow along every link that exists, those of
chunks that have left the list too. This makes the recursive `Listed` well defined
(`ListedIs`, with the least counterexample) and gives `Contents` explicitly: the datagrams
from `Consumed+1` to `Published` (`ContentsAre`). The numbers are inductive with what each
side knows of its end (`EndsInv`: a chunk is left only when it was filled and used up, a
slot is written before the tail that publishes it), with Push being called for one
datagram after the other (`FeedInv`), and with who is at the consuming end and what was
asked for (`TurnInv`, `OpInv`, `RoomInv`). Then PushTail maps to the queue's Push,
TakeSlot to Take, the three places where a call finds nothing to Nothing, TakeReturn to
Return, CloseDetach to Close, and every other step to a stutter, TakeLeave included,
which turns to a chunk whose first datagram is whole. TLC checks the same `IsQueue` in
`packet`.

*EarlyFrames.* `IInv` has seven conjuncts. `MarkerInv` is the marker table's part of
`StashAccounted`: when the table is full, pruning and one eviction make room for the new
marker, and filtering (`OnlyFilters`) keeps one marker for a label. `StashLimits` is the
rest: pendingBytes is the sum of the queues' bytes, a sum of sums that changes with one
queue (`TotalChange`) or with the release of a set of them (`TotalRelease`).
`StashSeparate` needs to know where a queue can begin (`NewQueues`) and where a marker
can come from (`MarkerStep`). `OrderInv` strengthens `EarlyInOrder`: nothing held is later than the
last arrival, stashed and undelivered frames are in order, and delivered ones precede
undelivered ones, for labels that are not open too, because OpenChannel turns a stash
into undelivered frames. `BytesAccounted`, which counts what datagramReadLoop loses to
closed channels and excludes any loss on streams, is inductive with `OpenInv`: OpenChannel fills
`held` only where nothing is left to deliver, one call for a label being in progress at a
time (the code refuses a second one that finds the channel). The theorems are `StashIsAccounted`,
`StashIsSeparate`, `EarlyStayInOrder` and `BytesAreAccounted`.

`PrefixDelivered`, `NoPartialOverlap`, `EOFComplete` of ArqStream and
`StreamDeductSucceeds` are proved and no run lists them: the first three are what `IsPipe`
rests on.

Only model-checked: all liveness (fairness is out of the prover's reach); the invariants
of Framing, which are about what recursive parsing and packing compute; and those of
ChannelLifecycle.

## Abstractions, and what is not modelled

* Payload is bytes of a short input (ArqStream), counts (FlowControl, ChannelRead)
  or lengths (EarlyFrames, Framing, RingBuffer). Buffers are followed only in
  PacketConn; the reference counts of frames in the write scheduler, logging and
  statistics are left out.
* Time is absent: a timer that is armed may fire at any moment.
* `ReadFrom`/`sendFromRead` take the same steps as Write and have no actions.
* UPD frames lost with a transport or a datagram are not in FlowControl: the code does
  not send them again (`session.go:661`), so over such a transport a window shrinks for
  good and nothing is left to show about the release of writers.
* Signatures and message encodings of the handshake are taken to work; a message is
  valid or not. The dialer's fresh handshake is one exchange in one goroutine.
* ChannelRead and FlowControl use the ring as a queue, which is what `IsQueue` shows of
  it. Peek and Advance, which `Channel.WriteTo` uses, take the same steps as PartialRead
  with the copy in between and are not in RingBuffer.
* The priorities of the writer's queues, deadlines other than the handshake's, MTU
  discovery, and the separate maps for UDP, IP and other addresses (one map and
  `peerConns` in Listener) are not modelled.
* The allocator (size classes over sync.Pool) and the label codec (bijective base 36)
  are pure functions that no property of the protocol depends on.
