----------------------------- MODULE RingBuffer -----------------------------
(***************************************************************************)
(* The single-producer single-consumer ring of ringbuffer.go: a linked     *)
(* list of chunks, a one-slot free list from the consumer to the producer, *)
(* the pool of chunks that all rings share, and Close.  Every access to a   *)
(* field the two goroutines share is a step of its own; accesses to fields *)
(* and chunks that only one of them can reach are joined to the next.      *)
(*                                                                         *)
(* Buffers are numbered in the order in which they are pushed; a slot      *)
(* holds the number of its buffer and how much of it is unread.            *)
(***************************************************************************)
EXTENDS Integers, Sequences, FiniteSets

CONSTANTS
  MinChunkCap, MaxChunkCap, MaxRecycleSlots,
  MaxChunks    \* bound: chunks ever allocated

ASSUME RingAssumption ==
  /\ MinChunkCap \in Nat \ {0} /\ MaxChunkCap \in Nat \ {0}
  /\ MaxRecycleSlots \in Nat /\ MaxChunks \in Nat \ {0}

Chunks == 1..MaxChunks
Empty == [head |-> 0, left |-> 0]
Items == [head : Nat, left : Nat]

VARIABLES
  cap, tail, next, slots,    \* the fields of every chunk
  allocated,                 \* chunks 1..allocated exist
  pool,                      \* chunkPool
  cChunk, cHead, cachedTail, totalPopped, freeChunk, pChunk, totalPushed,
  ppc, pc, nxt, lag, item, idx,   \* Push: where it is, and its locals
  cpc, op, cc, room, out     \* Pop, PartialRead or Close: where it is, its locals, its result

chunkVars == <<cap, tail, next, slots, allocated, pool>>
prodVars == <<pChunk, totalPushed, ppc, pc, nxt, lag, item, idx>>
consVars == <<cChunk, cHead, cachedTail, totalPopped, cpc, op, cc, room, out>>
ringVars == <<chunkVars, prodVars, consVars, freeChunk>>

NoResult == [ok |-> FALSE, n |-> 0, drained |-> 0]
Blank(n) == [i \in 0..n-1 |-> Empty]

\* NewBufferRing, with an initial capacity of at most MinChunkCap.
RingInit ==
  /\ cap = [k \in Chunks |-> MinChunkCap] /\ tail = [k \in Chunks |-> 0]
  /\ next = [k \in Chunks |-> 0] /\ slots = [k \in Chunks |-> Blank(MinChunkCap)]
  /\ allocated = 1 /\ pool = {}
  /\ cChunk = 1 /\ cHead = 0 /\ cachedTail = 0 /\ totalPopped = 0
  /\ freeChunk = 0 /\ pChunk = 1 /\ totalPushed = 0
  /\ ppc = "idle" /\ pc = 0 /\ nxt = 0 /\ lag = 0 /\ item = Empty /\ idx = 0
  /\ cpc = "idle" /\ op = "none" /\ cc = 0 /\ room = 0 /\ out = NoResult

-----------------------------------------------------------------------------
(* Chunks                                                                  *)

\* recycleChunk(k): a chunk of the smallest size is cleared and goes to the pool,
\* a larger one is left to the garbage collector.  k = 0 stands for nil.
RecycleChunk(k) ==
  IF k # 0 /\ cap[k] = MinChunkCap
    THEN /\ slots' = [slots EXCEPT ![k] = Blank(cap[k])]
         /\ tail' = [tail EXCEPT ![k] = 0] /\ next' = [next EXCEPT ![k] = 0]
         /\ pool' = pool \union {k}
    ELSE UNCHANGED <<slots, tail, next, pool>>

\* The capacity that newChunk gives for a request above MinChunkCap: the next
\* power of two.
RoundsUp(c, n) == c \in n..2*n-1 /\ \E i \in 0..c : c = 2^i

\* newChunk(n) gives k: a small one from the pool or newly made, a larger one
\* always new.
NewChunk(k, n) ==
  \/ /\ n <= MinChunkCap /\ k \in pool /\ pool' = pool \ {k}
     /\ tail' = [tail EXCEPT ![k] = 0] /\ next' = [next EXCEPT ![k] = 0]
     /\ UNCHANGED <<allocated, cap, slots>>
  \/ /\ k = allocated + 1 /\ allocated' = k
     /\ \E c \in 1..2*MaxChunkCap :
          /\ IF n <= MinChunkCap THEN c = MinChunkCap ELSE RoundsUp(c, n)
          /\ cap' = [cap EXCEPT ![k] = c] /\ slots' = [slots EXCEPT ![k] = Blank(c)]
     /\ UNCHANGED <<pool, tail, next>>

-----------------------------------------------------------------------------
(* Push                                                                    *)

\* Length, as the producer sees it.
Length == IF totalPushed >= totalPopped THEN totalPushed - totalPopped ELSE 0

\* Push(x) begins: a closed ring drops x, a full chunk needs a successor.
Push(x) ==
  /\ ppc = "idle" /\ item' = x /\ pc' = pChunk
  /\ ppc' = IF pChunk = 0 THEN "dropped"
            ELSE IF tail[pChunk] >= cap[pChunk] THEN "length" ELSE "slot"
  /\ UNCHANGED <<chunkVars, consVars, freeChunk, pChunk, totalPushed, nxt, lag, idx>>

PushLength ==
  /\ ppc = "length" /\ ppc' = "swap" /\ lag' = Length
  /\ UNCHANGED <<chunkVars, consVars, freeChunk, pChunk, totalPushed, pc, nxt, item, idx>>

\* How large the next chunk should be when there is a backlog.
NextCap ==
  IF lag < cap[pc] THEN cap[pc]
  ELSE IF cap[pc] * 2 > MaxChunkCap THEN MaxChunkCap ELSE cap[pc] * 2

\* Mutant: the free list is loaded, not swapped.
PushSwapLoads ==
  /\ ppc = "swap"
  /\ IF lag = 0 \/ freeChunk = 0
       THEN ppc' = "alloc" /\ UNCHANGED nxt /\ RecycleChunk(freeChunk)
       ELSE /\ ppc' = "link" /\ nxt' = freeChunk
            /\ slots' = [slots EXCEPT ![freeChunk] = Blank(cap[freeChunk])]
            /\ tail' = [tail EXCEPT ![freeChunk] = 0] /\ next' = [next EXCEPT ![freeChunk] = 0]
            /\ UNCHANGED pool
  /\ UNCHANGED <<cap, allocated, consVars, freeChunk, pChunk, totalPushed, pc, lag, item, idx>>

\* The free list is emptied: without a backlog its chunk goes to the pool, with a
\* backlog it is cleared and becomes the next chunk.
PushSwap ==
  /\ ppc = "swap" /\ freeChunk' = 0
  /\ IF lag = 0 \/ freeChunk = 0
       THEN ppc' = "alloc" /\ UNCHANGED nxt /\ RecycleChunk(freeChunk)
       ELSE /\ ppc' = "link" /\ nxt' = freeChunk
            /\ slots' = [slots EXCEPT ![freeChunk] = Blank(cap[freeChunk])]
            /\ tail' = [tail EXCEPT ![freeChunk] = 0] /\ next' = [next EXCEPT ![freeChunk] = 0]
            /\ UNCHANGED pool
  /\ UNCHANGED <<cap, allocated, consVars, pChunk, totalPushed, pc, lag, item, idx>>

PushAlloc ==
  /\ ppc = "alloc" /\ ppc' = "link"
  /\ \E k \in Chunks : nxt' = k /\ NewChunk(k, IF lag = 0 THEN MinChunkCap ELSE NextCap)
  /\ UNCHANGED <<consVars, freeChunk, pChunk, totalPushed, pc, lag, item, idx>>

\* The next chunk is linked, which lets the consumer leave the old one ...
PushLink ==
  /\ ppc = "link" /\ ppc' = "move" /\ next' = [next EXCEPT ![pc] = nxt]
  /\ UNCHANGED <<cap, tail, slots, allocated, pool, consVars, freeChunk, pChunk,
                 totalPushed, pc, nxt, lag, item, idx>>

\* ... and becomes the producer's.
PushMove ==
  /\ ppc = "move" /\ ppc' = "slot" /\ pChunk' = nxt /\ pc' = nxt /\ nxt' = 0 /\ lag' = 0
  /\ UNCHANGED <<chunkVars, consVars, freeChunk, totalPushed, item, idx>>

PushSlot ==
  /\ ppc = "slot" /\ ppc' = "tail" /\ idx' = tail[pc]
  /\ slots' = [slots EXCEPT ![pc][tail[pc]] = item]
  /\ UNCHANGED <<cap, tail, next, allocated, pool, consVars, freeChunk, pChunk,
                 totalPushed, pc, nxt, lag, item>>

\* The slot is published.
PushTail ==
  /\ ppc = "tail" /\ ppc' = "count" /\ tail' = [tail EXCEPT ![pc] = idx + 1]
  /\ UNCHANGED <<cap, next, slots, allocated, pool, consVars, freeChunk, pChunk,
                 totalPushed, pc, nxt, lag, item, idx>>

PushCount ==
  /\ ppc = "count" /\ ppc' = "pushed" /\ totalPushed' = totalPushed + 1
  /\ UNCHANGED <<chunkVars, consVars, freeChunk, pChunk, pc, nxt, lag, item, idx>>

\* Push returns to its caller.
PushReturn ==
  /\ ppc \in {"pushed", "dropped"} /\ ppc' = "idle"
  /\ pc' = 0 /\ nxt' = 0 /\ lag' = 0 /\ item' = Empty /\ idx' = 0
  /\ UNCHANGED <<chunkVars, consVars, freeChunk, pChunk, totalPushed>>

Pushing == \/ PushLength \/ PushSwap \/ PushAlloc \/ PushLink \/ PushMove
           \/ PushSlot \/ PushTail \/ PushCount

-----------------------------------------------------------------------------
(* Pop and PartialRead                                                     *)

\* A call that finds nothing.
NothingThere == cpc' = "done" /\ out' = NoResult

\* Pop() or PartialRead(b), room being len(b), begins.
Take(o, n) ==
  /\ cpc = "idle" /\ op' = o /\ room' = n /\ cc' = cChunk
  /\ \/ cChunk = 0 /\ NothingThere
     \/ cChunk # 0 /\ cpc' = (IF cHead >= cachedTail THEN "tail" ELSE "slot") /\ UNCHANGED out
  /\ UNCHANGED <<chunkVars, prodVars, freeChunk, cChunk, cHead, cachedTail, totalPopped>>

\* The producer's tail is looked at again.
TakeTail ==
  /\ cpc = "tail" /\ cachedTail' = tail[cc]
  /\ \/ cHead < tail[cc] /\ cpc' = "slot" /\ UNCHANGED out
     \/ cHead >= tail[cc] /\ cHead >= cap[cc] /\ cpc' = "next" /\ UNCHANGED out
     \/ cHead >= tail[cc] /\ cHead < cap[cc] /\ NothingThere
  /\ UNCHANGED <<chunkVars, prodVars, freeChunk, cChunk, cHead, totalPopped, op, cc, room>>

\* The chunk is used up: is there another?
TakeNext ==
  /\ cpc = "next"
  /\ \/ next[cc] = 0 /\ NothingThere
     \/ next[cc] # 0 /\ cpc' = "leave" /\ UNCHANGED out
  /\ UNCHANGED <<chunkVars, prodVars, freeChunk, cChunk, cHead, cachedTail, totalPopped, op, cc, room>>

\* Mutant: cHead is not reset.
TakeLeaveHead ==
  /\ cpc = "leave" /\ cpc' = "tail"
  /\ IF cap[cc] <= MaxRecycleSlots
       THEN freeChunk' = cc /\ RecycleChunk(freeChunk)
       ELSE UNCHANGED <<freeChunk, slots, tail, next, pool>>
  /\ cChunk' = next[cc] /\ cc' = next[cc] /\ cachedTail' = 0
  /\ UNCHANGED <<cap, allocated, prodVars, cHead, totalPopped, op, room, out>>

\* The chunk that is used up goes to the free list, the one that was there to the
\* pool, and the consumer turns to the next.
TakeLeave ==
  /\ cpc = "leave" /\ cpc' = "tail"
  /\ IF cap[cc] <= MaxRecycleSlots
       THEN freeChunk' = cc /\ RecycleChunk(freeChunk)
       ELSE UNCHANGED <<freeChunk, slots, tail, next, pool>>
  /\ cChunk' = next[cc] /\ cc' = next[cc] /\ cHead' = 0 /\ cachedTail' = 0
  /\ UNCHANGED <<cap, allocated, prodVars, totalPopped, op, room, out>>

\* The slot is taken, or some of its bytes.
TakeSlot ==
  LET s == slots[cc][cHead]
      n == IF op = "pop" \/ room > s.left THEN s.left ELSE room
      emptied == op = "pop" \/ n = s.left
  IN
  /\ cpc = "slot"
  /\ slots' = [slots EXCEPT ![cc][cHead] = IF emptied THEN Empty ELSE [@ EXCEPT !.left = s.left - n]]
  /\ out' = [ok |-> TRUE, n |-> n, drained |-> IF emptied THEN s.head ELSE 0]
  /\ cHead' = IF emptied THEN cHead + 1 ELSE cHead
  /\ cpc' = IF emptied THEN "count" ELSE "done"
  /\ UNCHANGED <<cap, tail, next, allocated, pool, prodVars, freeChunk, cChunk, cachedTail,
                 totalPopped, op, cc, room>>

TakeCount ==
  /\ cpc = "count" /\ cpc' = "done" /\ totalPopped' = totalPopped + 1
  /\ UNCHANGED <<chunkVars, prodVars, freeChunk, cChunk, cHead, cachedTail, op, cc, room, out>>

\* The call returns.
TakeReturn ==
  /\ cpc = "done" /\ cpc' = "idle" /\ op' = "none" /\ cc' = 0 /\ room' = 0 /\ out' = NoResult
  /\ UNCHANGED <<chunkVars, prodVars, freeChunk, cChunk, cHead, cachedTail, totalPopped>>

-----------------------------------------------------------------------------
(* Close, by whoever holds the consumer's lock                             *)

\* The free list first.
Close ==
  /\ cpc = "idle" /\ cpc' = "detach" /\ op' = "close"
  /\ freeChunk' = 0 /\ RecycleChunk(freeChunk)
  /\ UNCHANGED <<cap, allocated, prodVars, cChunk, cHead, cachedTail, totalPopped, cc, room, out>>

\* Both ends lose the list ...
CloseDetach ==
  /\ cpc = "detach" /\ cpc' = IF cChunk = 0 THEN "done" ELSE "walk"
  /\ cc' = cChunk /\ cChunk' = 0 /\ pChunk' = 0
  /\ UNCHANGED <<chunkVars, freeChunk, totalPushed, ppc, pc, nxt, lag, item, idx, cHead, cachedTail,
                 totalPopped, op, room, out>>

\* ... whose chunks are recycled one after the other.
CloseWalk ==
  /\ cpc = "walk" /\ RecycleChunk(cc)
  /\ cc' = next[cc] /\ cpc' = IF next[cc] = 0 THEN "done" ELSE "walk"
  /\ UNCHANGED <<cap, allocated, prodVars, freeChunk, cChunk, cHead, cachedTail, totalPopped,
                 op, room, out>>

Taking == TakeTail \/ TakeNext \/ TakeLeave \/ TakeSlot \/ TakeCount \/ CloseDetach \/ CloseWalk
=============================================================================
