----------------------------- MODULE EarlyFrames -----------------------------
(***************************************************************************)
(* Frames for labels that are not open: the stash of early frames, the     *)
(* markers of recently closed channels, and opening a channel (session.go: *)
(* stashLocked, markClosedLocked, pruneLocked, OpenChannel, deliverPending *)
(* and the branches of the two read loops for a missing channel).          *)
(*                                                                         *)
(* All of it runs under channelsMu, except the first test of OpenChannel,  *)
(* and deliverPending, which holds the new channel's feedMu.  There is no  *)
(* clock: a stashed queue or a marker expires at some time, and is found   *)
(* to have expired later.  Frames carry the order of their arrival, which  *)
(* the program cannot see.                                                 *)
(***************************************************************************)
EXTENDS Integers, Sequences, FiniteSets, Functions

CONSTANTS
  Ids,                 \* channel ids
  Lengths,             \* payload lengths of DATA frames
  MaxPendingChannels,  \* Config.MaxPendingChannels
  MaxEarlyBytes,       \* Config.MaxPendingEarlyBytesPerSession
  MaxEarlyFrames,      \* Config.MaxPendingEarlyFramesPerSession
  MaxClosedIDs,
  MaxUnknown,          \* Config.MaxUnknownChannelErrors
  MaxFrames, MaxOpens  \* bounds: frames received, channels opened

\* Ids are 32-bit numbers, and NewSessionWithID gives a default to a limit that is 0.
ASSUME EarlyAssumption ==
  /\ IsFiniteSet(Ids) /\ Lengths \subseteq Nat \ {0}
  /\ {MaxPendingChannels, MaxEarlyBytes, MaxEarlyFrames, MaxClosedIDs, MaxUnknown} \subseteq Nat \ {0}
  /\ {MaxFrames, MaxOpens} \subseteq Nat

VARIABLES
  reliability,   \* Config.Reliability, for the whole session
  datagram,      \* datagramReadLoop reads, not streamReadLoop, for the whole session
  channels,      \* the ids in Session.channels
  shut,          \* those of them whose Channel.closed is set: feed refuses DATA
  pending,       \* per id: the stashed frames; empty means there is no queue
  expired,       \* ids whose queue is past its time
  pendingBytes,
  closedIDs,     \* markers [id, expired], oldest first
  opening,       \* ids for which an OpenChannel has found the session open
  held,          \* per id: frames OpenChannel has taken and not yet delivered
  unknown,       \* unknownChannelErrors
  closed,        \* Session.closed
  cleared,       \* Session.Close has emptied the maps
  reading,       \* readLoop is waiting for a frame
  resets,        \* ids for which a late frame was answered with a RST
  \* history
  arrived,       \* frames received
  opened,        \* per id: channels opened so far
  got,           \* per id: frames given to the latest channel
  received, fed, credited, \* payload bytes received, given to channels, credited back
  lost                     \* payload bytes refused by feed and not credited

stashVars == <<pending, expired, pendingBytes>>
byteVars == <<received, fed, credited, lost>>
loopVars == <<unknown, closed, reading, resets, arrived>>
sessVars == <<reliability, datagram>>
vars == <<sessVars, channels, shut, stashVars, closedIDs, opening, held, cleared, loopVars,
          opened, got, byteVars>>

Frame(flag, n, len) == [flag |-> flag, n |-> n, len |-> len]
Bytes(q) == SumFunction([i \in DOMAIN q |-> q[i].len])
Queued == {id \in Ids : pending[id] # <<>>}
Credit(n) == IF reliability THEN 0 ELSE n  \* creditDiscarded
Valid == [id : Ids, expired : {FALSE}]
Others(id) == [id : Ids \ {id}, expired : BOOLEAN]

\* The elements of s that are in T, in order.
Only(s, T) ==
  LET upto[i \in 0..Len(s)] ==
        IF i = 0 THEN <<>> ELSE IF s[i] \in T THEN Append(upto[i-1], s[i]) ELSE upto[i-1]
  IN upto[Len(s)]

Init ==
  /\ reliability \in BOOLEAN /\ datagram \in BOOLEAN
  /\ channels = {} /\ shut = {} /\ pending = [id \in Ids |-> <<>>] /\ expired = {} /\ pendingBytes = 0
  /\ closedIDs = <<>> /\ held = [id \in Ids |-> <<>>] /\ unknown = 0 /\ closed = FALSE
  /\ opening = {} /\ cleared = FALSE /\ reading = TRUE
  /\ resets = {} /\ arrived = 0 /\ opened = [id \in Ids |-> 0] /\ got = [id \in Ids |-> <<>>]
  /\ received = 0 /\ fed = 0 /\ credited = 0 /\ lost = 0

-----------------------------------------------------------------------------
(* The stash                                                               *)

\* recentlyClosedLocked.
RecentlyClosed(id) == \E i \in DOMAIN closedIDs : closedIDs[i] = [id |-> id, expired |-> FALSE]

\* releasePendingLocked for the ids in S: the bytes are credited back.
Released(S) == SumFunction([id \in S |-> Bytes(pending[id])])

\* The queues that pruneLocked leaves, and their bytes.
Kept == [id \in Ids |-> IF id \in expired THEN <<>> ELSE pending[id]]

\* Mutant: the byte budget is not looked at.
RoomForFrames(id, len) ==
  LET q == Kept[id] IN
  /\ q = <<>> => Cardinality({i \in Ids : Kept[i] # <<>>}) < MaxPendingChannels
  /\ q # <<>> => Len(q) < MaxEarlyFrames

\* stashLocked's limits, after pruning: channels, bytes of the session, frames of
\* this queue.
Room(id, len) ==
  LET q == Kept[id] IN
  /\ q = <<>> => Cardinality({i \in Ids : Kept[i] # <<>>}) < MaxPendingChannels
  /\ pendingBytes - Released(expired) + len <= MaxEarlyBytes
  /\ q # <<>> => Len(q) < MaxEarlyFrames

\* stashLocked: prune, then keep frame f if the limits allow; refused is f's length
\* if its bytes must be credited by the caller.
Stash(id, f, refused) ==
  /\ closedIDs' = Only(closedIDs, Valid)
  /\ expired' = {}
  /\ IF Room(id, f.len)
       THEN /\ pending' = [Kept EXCEPT ![id] = Append(@, f)]
            /\ pendingBytes' = pendingBytes - Released(expired) + f.len
            /\ credited' = credited + Credit(Released(expired))
       ELSE /\ pending' = Kept
            /\ pendingBytes' = pendingBytes - Released(expired)
            /\ credited' = credited + Credit(Released(expired) + refused)

\* pruneExpiredPending, from keepAliveLoop.
Prune ==
  /\ pending' = Kept /\ expired' = {}
  /\ pendingBytes' = pendingBytes - Released(expired)
  /\ credited' = credited + Credit(Released(expired))
  /\ closedIDs' = Only(closedIDs, Valid)
  /\ UNCHANGED <<channels, shut, opening, held, cleared, loopVars, opened, got, received, fed, lost>>

\* Time passes: a queue, or the oldest marker, is past its time.
Expire ==
  /\ \/ \E id \in Queued \ expired :
          expired' = expired \union {id} /\ UNCHANGED closedIDs
     \/ \E i \in DOMAIN closedIDs :
          /\ closedIDs[i] \in Valid /\ \A j \in 1..i-1 : closedIDs[j] \notin Valid
          /\ closedIDs' = [closedIDs EXCEPT ![i].expired = TRUE]
          /\ UNCHANGED expired
  /\ UNCHANGED <<channels, shut, pending, pendingBytes, opening, held, cleared, loopVars, opened,
                 got, byteVars>>

-----------------------------------------------------------------------------
(* readLoop: a frame for id arrives                                        *)

Inputs ==
  {Frame("DATA", arrived + 1, len) : len \in Lengths}
    \union {Frame(flag, arrived + 1, 0) : flag \in {"FIN", "RST"}}

\* readLoop takes frame f.
Arrives(id, f) ==
  /\ reading /\ arrived < MaxFrames
  /\ arrived' = arrived + 1 /\ received' = received + f.len
  /\ UNCHANGED <<cleared, opening, shut>>

\* Mutant: readLoop does not wait for feedMu.
ReceiveUnlocked(id, f) ==
  /\ Arrives(id, f) /\ id \in channels
  /\ got' = [got EXCEPT ![id] = Append(@, f)]
  /\ fed' = fed + f.len
  /\ UNCHANGED <<channels, stashVars, closedIDs, held, unknown, closed, resets, opened,
                 credited, lost>>

\* feed refuses data once the channel or the session is closed.
Refuses(id) == closed \/ id \in shut

\* The channel is open: readLoop waits for feedMu, except for a RST, and gives it the
\* frame.  Of refused data streamReadLoop credits the bytes; datagramReadLoop does
\* not look at the answer.
ReceiveOpen(id, f) ==
  /\ Arrives(id, f) /\ id \in channels
  /\ f.flag = "RST" \/ held[id] = <<>>
  /\ IF f.flag = "DATA" /\ Refuses(id)
       THEN /\ IF datagram THEN lost' = lost + Credit(f.len) /\ UNCHANGED credited
                           ELSE credited' = credited + Credit(f.len) /\ UNCHANGED lost
            /\ UNCHANGED <<got, fed>>
       ELSE /\ got' = [got EXCEPT ![id] = Append(@, f)]
            /\ fed' = fed + f.len /\ UNCHANGED <<credited, lost>>
  /\ UNCHANGED <<channels, stashVars, closedIDs, held, unknown, closed, resets, opened>>

\* streamReadLoop, DATA for a recently closed channel: dropped, credited, answered
\* with a RST.
ReceiveLate(id, f) ==
  /\ Arrives(id, f) /\ id \notin channels /\ f.flag = "DATA" /\ ~datagram
  /\ ~closed /\ RecentlyClosed(id)
  /\ credited' = credited + Credit(f.len)
  /\ resets' = resets \union {id}
  /\ UNCHANGED <<channels, stashVars, closedIDs, held, unknown, closed, opened, got, fed, lost>>

\* Mutant: a refused frame is not credited.
ReceiveUncredited(id, f) ==
  /\ Arrives(id, f) /\ id \notin channels /\ f.flag = "DATA" /\ ~datagram
  /\ ~closed /\ ~RecentlyClosed(id)
  /\ Stash(id, f, 0)
  /\ unknown' = IF Room(id, f.len) THEN unknown ELSE unknown + 1
  /\ closed' = (unknown' > MaxUnknown)
  /\ UNCHANGED <<channels, held, resets, opened, got, fed, lost>>

\* DATA for another unopened channel: stashed; or dropped, credited and counted,
\* and too many of those close the session.
ReceiveEarly(id, f) ==
  /\ Arrives(id, f) /\ id \notin channels /\ f.flag = "DATA" /\ ~datagram
  /\ ~closed /\ ~RecentlyClosed(id)
  /\ Stash(id, f, f.len)
  /\ unknown' = IF Room(id, f.len) THEN unknown ELSE unknown + 1
  /\ closed' = (unknown' > MaxUnknown)
  /\ UNCHANGED <<channels, held, resets, opened, got, fed, lost>>

\* DATA without a channel is dropped and credited by datagramReadLoop, and by
\* streamReadLoop, which counts it, once the session is closed.
ReceiveDropped(id, f) ==
  /\ Arrives(id, f) /\ id \notin channels /\ f.flag = "DATA" /\ (datagram \/ closed)
  /\ credited' = credited + Credit(f.len)
  /\ unknown' = IF datagram THEN unknown ELSE unknown + 1
  /\ UNCHANGED <<channels, stashVars, closedIDs, held, closed, resets, opened, got, fed, lost>>

\* Mutant: a FIN is stashed whatever was closed.
ReceiveAnyEnd(id, f) ==
  /\ Arrives(id, f) /\ id \notin channels /\ f.flag \in {"FIN", "RST"}
  /\ IF closed \/ (f.flag = "RST" /\ pending[id] = <<>>)
       THEN UNCHANGED <<stashVars, closedIDs, credited>>
       ELSE Stash(id, f, 0)
  /\ UNCHANGED <<channels, held, unknown, closed, resets, opened, got, fed, lost>>

\* FIN, and RST behind other stashed frames, are stashed; no error is counted.
ReceiveEnd(id, f) ==
  /\ Arrives(id, f) /\ id \notin channels /\ f.flag \in {"FIN", "RST"}
  /\ IF closed \/ RecentlyClosed(id) \/ (f.flag = "RST" /\ pending[id] = <<>>)
       THEN UNCHANGED <<stashVars, closedIDs, credited>>
       ELSE Stash(id, f, 0)
  /\ UNCHANGED <<channels, held, unknown, closed, resets, opened, got, fed, lost>>

-----------------------------------------------------------------------------
(* Opening and closing                                                     *)

\* OpenChannel finds the session open, before it takes channelsMu.  (A label is
\* opened again when the OpenChannel of its last channel has returned.)
OpenStart(id) ==
  /\ ~closed /\ id \notin opening
  /\ id \notin channels /\ opened[id] < MaxOpens /\ held[id] = <<>>
  /\ opening' = opening \union {id}
  /\ UNCHANGED <<channels, shut, stashVars, closedIDs, held, cleared, loopVars, opened, got,
                 byteVars>>

\* OpenChannel, under channelsMu: take the early frames unless they have expired,
\* and publish the channel with its feedMu held.
OpenChannel(id) ==
  /\ id \in opening /\ opening' = opening \ {id}
  /\ opened' = [opened EXCEPT ![id] = @ + 1]
  /\ channels' = channels \union {id}
  /\ closedIDs' = Only(closedIDs, Others(id))
  /\ held' = [held EXCEPT ![id] = IF id \in expired THEN <<>> ELSE pending[id]]
  /\ credited' = credited + IF id \in expired THEN Credit(Released({id})) ELSE 0
  /\ pending' = [pending EXCEPT ![id] = <<>>] /\ expired' = expired \ {id}
  /\ pendingBytes' = pendingBytes - Released({id})
  /\ got' = [got EXCEPT ![id] = <<>>]
  /\ UNCHANGED <<shut, cleared, loopVars, received, fed, lost>>

\* deliverPending, one frame; refused data is credited.
DeliverPending(id) ==
  /\ held[id] # <<>> /\ held' = [held EXCEPT ![id] = Tail(@)]
  /\ LET f == Head(held[id]) IN
     IF f.flag = "DATA" /\ Refuses(id)
       THEN credited' = credited + Credit(f.len) /\ UNCHANGED <<got, fed>>
       ELSE /\ got' = [got EXCEPT ![id] = Append(@, f)]
            /\ fed' = fed + f.len /\ UNCHANGED credited
  /\ UNCHANGED <<channels, shut, stashVars, closedIDs, opening, cleared, loopVars, opened,
                 received, lost>>

\* markClosedLocked's table: prune when it is full, evict the oldest when it still
\* is, then add the new marker.
MarkClosed(id) ==
  LET valid == Only(closedIDs, Valid)
      kept == IF Len(closedIDs) < MaxClosedIDs THEN closedIDs
              ELSE IF Len(valid) < MaxClosedIDs THEN valid ELSE Tail(valid)
  IN IF ~reliability THEN closedIDs
     ELSE Append(Only(kept, Others(id)), [id |-> id, expired |-> FALSE])

\* Close of a channel that OpenChannel has returned: from now on feed refuses data,
\* while the channel waits in the table for the peer's FIN or for the close timer.
CloseChannel(id) ==
  /\ id \in channels \ shut /\ held[id] = <<>>
  /\ shut' = shut \union {id}
  /\ UNCHANGED <<channels, stashVars, closedIDs, opening, held, cleared, loopVars, opened, got,
                 byteVars>>

\* finalize: removeChannelIf and markClosedLocked.  It follows CloseWrite or Close of a
\* channel that OpenChannel has returned, or a FIN and a RST, which may come while
\* early frames are still to be delivered.  Pruning a full table also releases
\* expired queues.
RemoveChannel(id) ==
  LET S == {id} \union IF reliability /\ Len(closedIDs) >= MaxClosedIDs THEN expired ELSE {} IN
  /\ id \in channels
  /\ held[id] = <<>> \/ {"FIN", "RST"} \subseteq {got[id][i].flag : i \in DOMAIN got[id]}
  /\ channels' = channels \ {id} /\ shut' = shut \ {id}
  /\ closedIDs' = MarkClosed(id)
  /\ pending' = [i \in Ids |-> IF i \in S THEN <<>> ELSE pending[i]] /\ expired' = expired \ S
  /\ pendingBytes' = pendingBytes - Released(S)
  /\ credited' = credited + Credit(Released(S))
  /\ UNCHANGED <<opening, held, cleared, loopVars, opened, got, received, fed, lost>>

\* Session.Close by the application: closed is set, then the maps are emptied.
CloseSession ==
  /\ ~closed /\ closed' = TRUE
  /\ UNCHANGED <<channels, shut, stashVars, closedIDs, opening, held, cleared, unknown, reading, resets,
                 arrived, opened, got, byteVars>>

CloseClears ==
  /\ closed /\ ~cleared /\ cleared' = TRUE
  /\ channels' = {} /\ shut' = {} /\ pending' = [id \in Ids |-> <<>>] /\ expired' = {} /\ pendingBytes' = 0
  /\ closedIDs' = <<>>
  /\ UNCHANGED <<opening, held, loopVars, opened, got, byteVars>>

-----------------------------------------------------------------------------
\* A turn of the read loop, which goes on unless it finds the session closed.
Receive(id) ==
  /\ \E f \in Inputs : \/ ReceiveOpen(id, f) \/ ReceiveLate(id, f) \/ ReceiveEarly(id, f)
                       \/ ReceiveDropped(id, f) \/ ReceiveEnd(id, f)
  /\ reading' = ~closed'

Next ==
  /\ \/ \E id \in Ids : \/ Receive(id) \/ OpenStart(id) \/ OpenChannel(id)
                        \/ DeliverPending(id) \/ CloseChannel(id) \/ RemoveChannel(id)
     \/ Prune \/ Expire \/ CloseSession \/ CloseClears
  /\ UNCHANGED sessVars

Spec == Init /\ [][Next]_vars

-----------------------------------------------------------------------------
(* Properties                                                              *)

\* pendingBytes, which stashLocked, OpenChannel, releasePendingLocked and Close
\* each adjust, is what the queues hold, and the limits of the stash and of the
\* marker table (one marker for a label) are kept.
StashAccounted ==
  /\ pendingBytes = Released(Ids) /\ pendingBytes <= MaxEarlyBytes
  /\ Cardinality(Queued) <= MaxPendingChannels
  /\ \A id \in Ids : Len(pending[id]) <= MaxEarlyFrames
  /\ Len(closedIDs) <= MaxClosedIDs
  /\ \A i, j \in DOMAIN closedIDs : closedIDs[i].id = closedIDs[j].id => i = j

\* A frame waits in the stash only for a label that is neither open nor recently
\* closed: what is stashed reaches the next OpenChannel or expires, and a late
\* frame of a closed channel does not wait for its successor.
StashSeparate == \A id \in Queued : id \notin channels /\ ~RecentlyClosed(id)

\* Frames reach a channel in the order in which they arrived, early ones first,
\* though readLoop goes on while OpenChannel delivers the early ones.  (A RST does
\* not wait for feedMu; it concerns the other direction.)
EarlyInOrder ==
  \A id \in channels :
    LET all == got[id] \o held[id] IN
    \A i, j \in DOMAIN all :
      i < j /\ all[i].flag # "RST" /\ all[j].flag # "RST" => all[i].n < all[j].n

\* Until a session without Reliability closes, every payload byte received over a
\* stream was given to a channel that was not closed, waits in the stash or with
\* OpenChannel, or was credited back to the sender.  Over datagrams the sender gets
\* no credit for what a closed channel refuses, and for nothing else.
BytesAccounted ==
  ~reliability /\ ~closed =>
    /\ received = fed + credited + lost + pendingBytes + SumFunction([id \in Ids |-> Bytes(held[id])])
    /\ lost > 0 => datagram

=============================================================================
