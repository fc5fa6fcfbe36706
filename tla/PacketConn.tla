----------------------------- MODULE PacketConn -----------------------------
(***************************************************************************)
(* One packetSubConn of packetListener.go on its ring: packetReadLoop      *)
(* feeds datagrams, the session's goroutine calls Read (during the         *)
(* handshake) or ReadPacket (afterwards) again and again, and Close may    *)
(* come at any time.  The steps of the ring are those of RingBuffer; the   *)
(* producer is packetReadLoop, the consumer whoever holds readMu.          *)
(***************************************************************************)
EXTENDS RingBuffer

CONSTANTS
  MaxFeeds,     \* bound: datagrams for this address
  DatagramLen,  \* bytes in each
  Wants         \* lengths of the buffers given to Read

ASSUME PacketAssumption ==
  MaxFeeds \in Nat /\ DatagramLen \in Nat \ {0} /\ Wants \subseteq Nat \ {0}

Datagrams == 1..MaxFeeds

VARIABLES
  closed, die, lnClosed,     \* packetSubConn.closed and die, Listener.closed
  waitState, notify, readMu,
  fed,                       \* datagrams that came for this address
  feeder,                    \* feed: idle, checked, wake
  call, rpc, want, total,    \* Read or ReadPacket: which, where, len(b), totalRead
  closer,                    \* where Close is
  puts,                      \* per datagram: how often its buffer went back to the allocator
  returned                   \* datagrams that ReadPacket gave to the session

connVars == <<closed, die, lnClosed, waitState, notify, readMu>>
readVars == <<call, rpc, want, total>>
bufVars == <<puts, returned>>
vars == <<ringVars, connVars, fed, feeder, readVars, closer, bufVars>>

Init ==
  /\ RingInit
  /\ closed = FALSE /\ die = FALSE /\ lnClosed = FALSE
  /\ waitState = "idle" /\ notify = FALSE /\ readMu = "free"
  /\ fed = 0 /\ feeder = "idle"
  /\ call = "none" /\ rpc = "idle" /\ want = 0 /\ total = 0
  /\ closer = "idle" /\ puts = [d \in Datagrams |-> 0] /\ returned = {}

\* defaultAllocator.Put of the buffer of datagram d, if there is one.
PutBack(d) == puts' = [e \in Datagrams |-> IF e = d THEN puts[e] + 1 ELSE puts[e]]

AnyClosed == closed \/ lnClosed

-----------------------------------------------------------------------------
(* feed                                                                    *)

\* A datagram arrives and closed is tested; the caller puts back the buffer of a
\* feed that fails.
FeedCheck ==
  /\ feeder = "idle" /\ fed < MaxFeeds /\ fed' = fed + 1
  /\ IF closed THEN PutBack(fed + 1) /\ UNCHANGED feeder
               ELSE feeder' = "checked" /\ UNCHANGED puts
  /\ UNCHANGED <<ringVars, connVars, readVars, closer, returned>>

FeedPush ==
  /\ feeder = "checked" /\ feeder' = "wake"
  /\ Push([head |-> fed, left |-> DatagramLen])
  /\ UNCHANGED <<connVars, fed, readVars, closer, bufVars>>

FeedPushing == Pushing /\ UNCHANGED <<connVars, fed, feeder, readVars, closer, bufVars>>

\* Mutant: feed tests closed again after Push, and the caller puts the buffer back.
FeedWakeTests ==
  /\ PushReturn /\ feeder' = "idle"
  /\ notify' = (notify \/ waitState = "waiting")
  /\ IF ppc = "dropped" \/ closed THEN PutBack(fed) ELSE UNCHANGED puts
  /\ UNCHANGED <<closed, die, lnClosed, waitState, readMu, fed, readVars, closer, returned>>

\* Mutant: feed wakes the reader only when the ring was empty.
FeedWakeFirst ==
  /\ PushReturn /\ feeder' = "idle"
  /\ notify' = (notify \/ (waitState = "waiting" /\ Length <= 1))
  /\ IF ppc = "dropped" THEN PutBack(fed) ELSE UNCHANGED puts
  /\ UNCHANGED <<closed, die, lnClosed, waitState, readMu, fed, readVars, closer, returned>>

\* Push has returned (a closed ring put the buffer back) and waitState is loaded.
FeedWake ==
  /\ PushReturn /\ feeder' = "idle"
  /\ notify' = (notify \/ waitState = "waiting")
  /\ IF ppc = "dropped" THEN PutBack(fed) ELSE UNCHANGED puts
  /\ UNCHANGED <<closed, die, lnClosed, waitState, readMu, fed, readVars, closer, returned>>

-----------------------------------------------------------------------------
(* Read and ReadPacket                                                     *)

\* The session calls again, unless the last call failed.
ReadCall(c, n) ==
  /\ rpc = "idle" /\ call' = c /\ want' = n /\ total' = 0
  /\ rpc' = IF AnyClosed THEN "ended" ELSE "lock"
  /\ UNCHANGED <<ringVars, connVars, fed, feeder, closer, bufVars>>

\* readMu is taken; a deadline that is already over ends Read before any look.
ReadLock ==
  /\ rpc = "lock" /\ readMu = "free" /\ readMu' = "reader"
  /\ rpc' = "scan" \/ (call = "Read" /\ rpc' = "fail")
  /\ UNCHANGED <<ringVars, closed, die, lnClosed, waitState, notify, fed, feeder, call, want, total,
                 closer, bufVars>>

\* A look at the ring: before waiting, after waitState is set, or to empty it.
ReadLook ==
  /\ rpc \in {"scan", "rescan", "drain"}
  /\ IF call = "ReadPacket" \/ rpc = "drain" THEN Take("pop", 0) ELSE Take("partial", want)
  /\ UNCHANGED <<connVars, fed, feeder, readVars, closer, bufVars>>

\* Take of the ring, or its Close, goes on for whoever holds readMu.
RingTaking == Taking /\ UNCHANGED <<connVars, fed, feeder, readVars, closer, bufVars>>

\* ReadPacket's Pop has returned.
PacketScanned ==
  /\ rpc = "scan" /\ call = "ReadPacket" /\ TakeReturn
  /\ IF out.ok THEN /\ returned' = returned \union {out.drained}
                    /\ readMu' = "free" /\ rpc' = "idle"
               ELSE rpc' = "check" /\ UNCHANGED <<returned, readMu>>
  /\ UNCHANGED <<closed, die, lnClosed, waitState, notify, fed, feeder, call, want, total, closer, puts>>

\* Read's PartialRead has returned: more is read while there is room and data.
ReadScanned ==
  /\ rpc = "scan" /\ call = "Read" /\ TakeReturn
  /\ want' = want - out.n /\ total' = total + out.n /\ PutBack(out.drained)
  /\ rpc' = IF out.n > 0 /\ want > out.n THEN "scan"
            ELSE IF total + out.n > 0 THEN "return" ELSE "check"
  /\ UNCHANGED <<connVars, fed, feeder, call, closer, returned>>

ReadCheck ==
  /\ rpc = "check"
  /\ IF AnyClosed
       THEN IF call = "Read" THEN rpc' = "fail" /\ UNCHANGED readMu
                             ELSE rpc' = "ended" /\ readMu' = "free"
       ELSE rpc' = "arm" /\ UNCHANGED readMu
  /\ UNCHANGED <<ringVars, closed, die, lnClosed, waitState, notify, fed, feeder, call, want, total,
                 closer, bufVars>>

\* waitState is set.  Only Read looks at the ring again.
ReadArm ==
  /\ rpc = "arm" /\ waitState' = "waiting"
  /\ rpc' = IF call = "Read" THEN "rescan" ELSE "select"
  /\ UNCHANGED <<ringVars, closed, die, lnClosed, notify, readMu, fed, feeder, call, want, total,
                 closer, bufVars>>

ReadRescanned ==
  /\ rpc = "rescan" /\ TakeReturn
  /\ want' = want - out.n /\ total' = total + out.n /\ PutBack(out.drained)
  /\ IF out.n > 0
       THEN /\ waitState' = "idle" /\ notify' = FALSE
            /\ rpc' = IF want > out.n THEN "scan" ELSE "return"
       ELSE rpc' = "check2" /\ UNCHANGED <<waitState, notify>>
  /\ UNCHANGED <<closed, die, lnClosed, readMu, fed, feeder, call, closer, returned>>

ReadCheckAgain ==
  /\ rpc = "check2"
  /\ IF AnyClosed THEN waitState' = "idle" /\ rpc' = "fail"
                  ELSE rpc' = "select" /\ UNCHANGED waitState
  /\ UNCHANGED <<ringVars, closed, die, lnClosed, notify, readMu, fed, feeder, call, want, total,
                 closer, bufVars>>

\* The select: a token ...
ReadNotified ==
  /\ rpc = "select" /\ notify /\ notify' = FALSE /\ rpc' = "woken"
  /\ UNCHANGED <<ringVars, closed, die, lnClosed, waitState, readMu, fed, feeder, call, want, total,
                 closer, bufVars>>

ReadWoken ==
  /\ rpc = "woken" /\ waitState' = "idle" /\ rpc' = "scan"
  /\ UNCHANGED <<ringVars, closed, die, lnClosed, notify, readMu, fed, feeder, call, want, total,
                 closer, bufVars>>

\* ... the end of the connection (ReadPacket leaves waitState alone) ...
ReadDies ==
  /\ rpc = "select" /\ die
  /\ IF call = "Read" THEN rpc' = "fail" /\ waitState' = "idle" /\ UNCHANGED readMu
                      ELSE rpc' = "ended" /\ readMu' = "free" /\ UNCHANGED waitState
  /\ UNCHANGED <<ringVars, closed, die, lnClosed, notify, fed, feeder, call, want, total, closer, bufVars>>

\* ... or the deadline of the handshake.
ReadExpires ==
  /\ rpc = "select" /\ call = "Read" /\ rpc' = "fail" /\ waitState' = "idle"
  /\ UNCHANGED <<ringVars, closed, die, lnClosed, notify, readMu, fed, feeder, call, want, total,
                 closer, bufVars>>

\* Read returns; its deferred function empties the ring of a closed connection.
ReadDefer ==
  /\ rpc \in {"return", "fail"}
  /\ IF AnyClosed THEN rpc' = "drain" /\ UNCHANGED readMu
     ELSE rpc' = (IF rpc = "return" THEN "idle" ELSE "ended") /\ readMu' = "free"
  /\ UNCHANGED <<ringVars, closed, die, lnClosed, waitState, notify, fed, feeder, call, want, total,
                 closer, bufVars>>

ReadDrained ==
  /\ rpc = "drain" /\ TakeReturn /\ PutBack(out.drained)
  /\ IF out.ok THEN UNCHANGED <<rpc, readMu>> ELSE rpc' = "ended" /\ readMu' = "free"
  /\ UNCHANGED <<closed, die, lnClosed, waitState, notify, fed, feeder, call, want, total, closer, returned>>

-----------------------------------------------------------------------------
(* Close                                                                   *)

\* Listener.Close sets its flag and will close this connection.
ListenerCloses ==
  /\ ~lnClosed /\ lnClosed' = TRUE
  /\ UNCHANGED <<ringVars, closed, die, waitState, notify, readMu, fed, feeder, readVars, closer, bufVars>>

CloseStart ==
  /\ closer = "idle" /\ closer' = "die" /\ closed' = TRUE
  /\ UNCHANGED <<ringVars, die, lnClosed, waitState, notify, readMu, fed, feeder, readVars, bufVars>>

\* Mutant: die is not closed.
CloseDieSilent ==
  /\ closer = "die" /\ closer' = "lock"
  /\ UNCHANGED <<ringVars, closed, die, lnClosed, waitState, notify, readMu, fed, feeder, readVars, bufVars>>

CloseDie ==
  /\ closer = "die" /\ closer' = "lock" /\ die' = TRUE
  /\ UNCHANGED <<ringVars, closed, lnClosed, waitState, notify, readMu, fed, feeder, readVars, bufVars>>

\* readMu is taken, for drainRing and again for queue.Close.
CloseLock ==
  /\ closer \in {"lock", "lock2"} /\ readMu = "free" /\ readMu' = "closer"
  /\ closer' = IF closer = "lock" THEN "drain" ELSE "close"
  /\ UNCHANGED <<ringVars, closed, die, lnClosed, waitState, notify, fed, feeder, readVars, bufVars>>

CloseLook ==
  /\ closer = "drain" /\ Take("pop", 0)
  /\ UNCHANGED <<connVars, fed, feeder, readVars, closer, bufVars>>

CloseDrained ==
  /\ closer = "drain" /\ TakeReturn /\ PutBack(out.drained)
  /\ IF out.ok THEN UNCHANGED <<closer, readMu>> ELSE closer' = "lock2" /\ readMu' = "free"
  /\ UNCHANGED <<closed, die, lnClosed, waitState, notify, fed, feeder, readVars, returned>>

CloseRing ==
  /\ closer = "close" /\ closer' = "closing" /\ Close
  /\ UNCHANGED <<connVars, fed, feeder, readVars, bufVars>>

CloseReturn ==
  /\ closer = "closing" /\ TakeReturn /\ closer' = "done" /\ readMu' = "free"
  /\ UNCHANGED <<closed, die, lnClosed, waitState, notify, fed, feeder, readVars, bufVars>>

-----------------------------------------------------------------------------
Feeds == FeedPush \/ FeedPushing \/ FeedWake
Calls ==
  \/ ReadCall("ReadPacket", 0)
  \/ call # "ReadPacket" /\ \E n \in Wants : ReadCall("Read", n)
Reads ==
  \/ Calls \/ ReadLook \/ PacketScanned \/ ReadScanned \/ ReadCheck \/ ReadArm \/ ReadRescanned
  \/ ReadCheckAgain \/ ReadNotified \/ ReadWoken \/ ReadDies \/ ReadDefer \/ ReadDrained
Closes == CloseDie \/ CloseLook \/ CloseDrained \/ CloseRing \/ CloseReturn
CloseCalled == CloseStart /\ (lnClosed \/ rpc = "ended")

Next ==
  \/ FeedCheck \/ Feeds \/ Reads \/ ReadLock \/ ReadExpires \/ RingTaking
  \/ ListenerCloses \/ CloseStart \/ Closes \/ CloseLock

Spec == Init /\ [][Next]_vars

\* Goroutines go on, those that wait for a free readMu included; the session's
\* goroutine keeps reading; a failed handshake and Listener.Close close the connection.
\* That one of them moves while one can is all that is needed: the datagrams are
\* bounded, so none can keep the others waiting for ever.
Fairness == WF_vars(Feeds \/ Reads \/ ReadLock \/ RingTaking \/ Closes \/ CloseCalled \/ CloseLock)
FairSpec == Spec /\ Fairness

-----------------------------------------------------------------------------
(* Properties                                                              *)

\* The buffers in the list of chunks that starts at chunk k.
Listed[k \in 0..MaxChunks] ==
  IF k = 0 THEN <<>> ELSE [i \in 1..tail[k] |-> slots[k][i-1]] \o Listed[next[k]]

Contents ==
  IF cChunk = 0 THEN <<>>
  ELSE [i \in 1..tail[cChunk]-cHead |-> slots[cChunk][cHead+i-1]] \o Listed[next[cChunk]]

Queue == INSTANCE Fifo WITH
  Buffers <- [head : Datagrams, left : {DatagramLen}],
  queue <- Contents, closed <- (cChunk = 0),
  result <- IF op # "close" /\ cpc \in {"count", "done"} THEN <<out>> ELSE <<>>

\* The chunks, the free list and the pool behave as one queue to Push, Pop and
\* PartialRead: nothing is lost, repeated or reordered before Close, and a call
\* that returns nothing was made on an empty ring.
IsQueue == Queue!Spec

\* The chunks that one of the two sides will still touch.
Held == {cChunk, freeChunk} \union (IF ppc = "move" THEN {nxt} ELSE {pChunk, pc, nxt})

\* Until the ring is closed, neither side holds a chunk that is in the pool, from
\* where any ring may take it.
OwnChunks == cChunk # 0 => Held \intersect pool = {}

\* A datagram's buffer goes back to the allocator at most once, and never when the
\* session was given it.
BuffersOnce == \A d \in Datagrams : puts[d] + (IF d \in returned THEN 1 ELSE 0) <= 1

\* ReadPacket waits, and no token is on its way.
Asleep == rpc = "select" /\ call = "ReadPacket" /\ ~notify /\ feeder = "idle"

\* What is in the ring is read, unless the connection is closed or ReadPacket sleeps
\* for good; and a call that waits when a datagram is fed is woken.  So what ReadPacket
\* misses between its Pop and waitState (packetListener.go 374-383) waits for the next
\* datagram, and no longer.
Served ==
  /\ Contents # <<>> ~> (Contents = <<>> \/ closed \/ []Asleep)
  /\ rpc = "select" /\ feeder = "checked" ~> rpc # "select"

\* Close completes although a blocked call holds readMu, and so does Listener.Close.
CloseCompletes == lnClosed \/ closed ~> closer = "done"
=============================================================================
