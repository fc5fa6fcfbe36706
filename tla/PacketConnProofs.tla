-------------------------- MODULE PacketConnProofs --------------------------
(***************************************************************************)
(* Proofs about PacketConn and its RingBuffer, for any capacities, any     *)
(* number of chunks and datagrams: neither side of an open ring touches a  *)
(* chunk that is in the pool, no datagram's buffer is given back twice or  *)
(* given back although the session has it, and the ring is a queue.        *)
(***************************************************************************)
EXTENDS PacketConn, WellFoundedInduction, TLAPS

-----------------------------------------------------------------------------
(* The invariant                                                           *)

Made == 1..allocated

\* The chunks: their fields, and which of them exist.  Those not made yet are as
\* newChunk leaves them.
ChunkInv ==
  /\ allocated \in Chunks /\ pool \subseteq Made
  /\ cap \in [Chunks -> Nat \ {0}] /\ tail \in [Chunks -> Nat]
  /\ next \in [Chunks -> {0} \union Made]
  /\ \A k \in Chunks : tail[k] <= cap[k]
  /\ \A k \in Chunks \ Made : next[k] = 0 /\ tail[k] = 0

\* Where Push is, and the chunks it knows.
ProducerInv ==
  /\ ppc \in {"idle", "length", "swap", "alloc", "link", "move", "slot", "tail", "count",
              "pushed", "dropped"}
  /\ pChunk \in {0} \union Made /\ pc \in {0} \union Made /\ nxt \in {0} \union Made
  /\ idx \in Nat
  /\ ppc \notin {"idle", "dropped"} => pc # 0
  /\ ppc = "slot" => tail[pc] < cap[pc]
  /\ ppc = "tail" => idx < cap[pc]
  /\ ppc \in {"link", "move"} <=> nxt # 0
  /\ ppc = "link" => tail[nxt] = 0
  /\ ppc = "move" => tail[nxt] < cap[nxt]

\* Where Pop, PartialRead or Close is, and that a slot it will take is one of its
\* chunk.
ConsumerInv ==
  /\ cpc \in {"idle", "tail", "slot", "next", "leave", "count", "done", "detach", "walk"}
  /\ cChunk \in {0} \union Made /\ freeChunk \in {0} \union Made /\ cc \in {0} \union Made
  /\ cHead \in Nat /\ cachedTail \in Nat
  /\ cpc \in {"tail", "slot", "next", "leave"} => cc = cChunk /\ cc # 0
  /\ cChunk # 0 => cachedTail <= cap[cChunk]
  /\ cpc = "slot" => cHead < cap[cc]
  /\ cpc = "walk" => cc # 0 /\ cChunk = 0

\* The last chunk of the list: the producer's, or the one it has just linked.
Last == IF ppc = "move" THEN nxt ELSE pChunk

\* The chunks of L form a list that starts at cChunk and ends at Last, apart from
\* the pool and the free list.
Chain(L) ==
  /\ L \subseteq Made /\ L \intersect pool = {} /\ freeChunk \notin L
  /\ cChunk \in L /\ Last \in L
  /\ \A k \in L : IF k = Last THEN next[k] = 0 ELSE next[k] \in L \ {cChunk}
  /\ \A j, k \in L : next[j] = next[k] /\ next[j] # 0 => j = k

\* The chunk about to be linked is in nobody else's hands.
Linking(L) == ppc = "link" => nxt \notin L \union pool \union {freeChunk} /\ next[nxt] = 0

\* An open ring has such a list, and neither side is confused about its end of it.
ListInv ==
  cChunk # 0 =>
    /\ freeChunk \notin pool
    /\ cpc = "leave" => next[cc] # 0
    /\ ppc \notin {"idle", "dropped"} => pc = pChunk
    /\ ppc \in {"idle", "dropped"} => pc \in {0, pChunk}
    /\ \E L \in SUBSET Chunks : Chain(L) /\ Linking(L)

\* What the slots hold: nothing, or a part of a datagram.
Parts == [head : {0} \union Datagrams, left : Int]
SlotInv ==
  /\ slots = [k \in Chunks |-> slots[k]]
  /\ \A k \in Chunks : slots[k] \in [0..cap[k]-1 -> Parts]

\* What the callers of the ring are about to push, ask for and be given.
CallInv ==
  /\ item \in Parts /\ (ppc # "idle" => item.head = fed)
  /\ feeder \in {"idle", "checked", "wake"} /\ (feeder = "wake" <=> ppc # "idle")
  /\ fed \in 0..MaxFeeds /\ (feeder # "idle" => fed > 0)
  /\ want \in Int /\ room \in Int /\ out \in [ok : BOOLEAN, n : Int, drained : {0} \union Datagrams]
  /\ puts \in [Datagrams -> Nat]

\* The datagram that is being fed has not been put into its slot, or been dropped.
Unplaced ==
  feeder = "checked" \/ ppc \in {"length", "swap", "alloc", "link", "move", "slot", "dropped"}

\* Datagram d has not come to the ring yet, or it has left it, or the ring's caller
\* has been given it.
Fresh(d) == d > fed \/ (d = fed /\ Unplaced)
InRing(d) == d \in Datagrams /\ ~Fresh(d) /\ puts[d] = 0 /\ d \notin returned

\* A datagram is in one place at a time: not yet in the ring, in one slot, in the
\* result of a call, or given to the session or the allocator.
FreshInv == \A d \in Datagrams : Fresh(d) => puts[d] = 0 /\ d \notin returned
HeadsInv ==
  \A k \in Chunks : \A i \in 0..cap[k]-1 :
    slots[k][i].head # 0 => InRing(slots[k][i].head) /\ out.drained # slots[k][i].head
ApartInv ==
  \A j, k \in Chunks : \A h \in 0..cap[j]-1, i \in 0..cap[k]-1 :
    slots[j][h].head = slots[k][i].head /\ slots[k][i].head # 0 => j = k /\ h = i
DrainedInv == out.drained # 0 => InRing(out.drained)
DatagramInv == FreshInv /\ HeadsInv /\ ApartInv /\ DrainedInv /\ BuffersOnce

IInv == ChunkInv /\ ProducerInv /\ ConsumerInv /\ ListInv /\ SlotInv /\ CallInv /\ DatagramInv

USE DEF chunkVars, prodVars, consVars, ringVars, connVars, readVars, bufVars

-----------------------------------------------------------------------------
(* The chunks and the places of the two sides                              *)

\* The chunks that exist are chunks, and nil is not one.
LEMMA MadeChunks == ChunkInv => Made \subseteq Chunks /\ 0 \notin Chunks
BY RingAssumption, SMT DEF ChunkInv, Made, Chunks

\* What recycleChunk may change: it clears the chunk and puts it into the pool.
LEMMA Recycled ==
  ASSUME ChunkInv, NEW k \in {0} \union Made, RecycleChunk(k), UNCHANGED <<cap, allocated>>
  PROVE  /\ ChunkInv' /\ Made' = Made
         /\ pool' \subseteq pool \union {k} /\ pool \subseteq pool'
         /\ \A j \in Chunks : /\ tail'[j] \in {0, tail[j]} /\ next'[j] \in {0, next[j]}
                              /\ j # k => tail'[j] = tail[j] /\ next'[j] = next[j]
<1>0. Made' = Made /\ Made \subseteq Chunks
  BY MadeChunks, Zenon DEF Made
<1>1. CASE k # 0 /\ cap[k] = MinChunkCap
  BY <1>0, <1>1, SMT DEF ChunkInv, RecycleChunk
<1>2. CASE ~(k # 0 /\ cap[k] = MinChunkCap)
  BY <1>0, <1>2, SMT DEF ChunkInv, RecycleChunk
<1> QED
  BY <1>1, <1>2, Zenon

\* What newChunk gives: a chunk from the pool or a new one, empty and linked to none.
LEMMA NewlyMade ==
  ASSUME ChunkInv, NEW k \in Chunks, NEW n, NewChunk(k, n)
  PROVE  /\ ChunkInv' /\ Made \subseteq Made' /\ k \in Made' \ pool'
         /\ pool' \subseteq pool /\ (k \in pool \/ k \notin Made)
         /\ tail'[k] = 0 /\ next'[k] = 0
         /\ \A j \in Chunks \ {k} : tail'[j] = tail[j] /\ next'[j] = next[j]
         /\ \A j \in Made : cap'[j] = cap[j]
<1>1. CASE k \in pool /\ pool' = pool \ {k} /\ tail' = [tail EXCEPT ![k] = 0]
           /\ next' = [next EXCEPT ![k] = 0] /\ UNCHANGED <<allocated, cap>>
  BY <1>1, SMT DEF ChunkInv, Chunks, Made
<1>2. CASE /\ k = allocated + 1 /\ allocated' = k /\ UNCHANGED <<pool, tail, next>>
           /\ \E c \in Nat \ {0} : cap' = [cap EXCEPT ![k] = c]
  BY <1>2, SMT DEF ChunkInv, Chunks, Made
<1>3. ASSUME NEW c \in 1..2*MaxChunkCap PROVE c \in Nat \ {0}
  BY RingAssumption, SMT
<1> QED
  BY <1>1, <1>2, <1>3, Zenon DEF NewChunk

\* The steps of the producer keep its places, and the consumer's.
LEMMA ProducerPlaces ==
  ASSUME ChunkInv, ProducerInv, ConsumerInv, FeedPush \/ Pushing \/ PushReturn
  PROVE  ChunkInv' /\ ProducerInv' /\ ConsumerInv'
<1>0. Made \subseteq Chunks /\ 0 \notin Chunks /\ (allocated' = allocated => Made' = Made)
  BY MadeChunks, Zenon DEF Made
<1>1. CASE FeedPush
  BY <1>0, <1>1, SMT DEF FeedPush, Push, ChunkInv, ProducerInv, ConsumerInv
<1>2. CASE PushLength
  BY <1>0, <1>2, SMT DEF PushLength, ChunkInv, ProducerInv, ConsumerInv
<1>3. CASE PushSwap
  <2>1. CASE lag = 0 \/ freeChunk = 0
    <3>1. freeChunk \in {0} \union Made /\ RecycleChunk(freeChunk) /\ UNCHANGED <<cap, allocated>>
      BY <1>3, <2>1, Zenon DEF PushSwap, ConsumerInv
    <3>2. ChunkInv' /\ \A j \in Chunks : tail'[j] \in {0, tail[j]}
      BY <3>1, Recycled, Zenon
    <3> QED
      BY <1>0, <1>3, <2>1, <3>2, Zenon DEF PushSwap, ProducerInv, ConsumerInv, ChunkInv
  <2>2. CASE ~(lag = 0 \/ freeChunk = 0)
    BY <1>0, <1>3, <2>2, SMT DEF PushSwap, ChunkInv, ProducerInv, ConsumerInv
  <2> QED
    BY <2>1, <2>2, Zenon
<1>4. CASE PushAlloc
  <2>1. PICK k \in Chunks : nxt' = k /\ NewChunk(k, IF lag = 0 THEN MinChunkCap ELSE NextCap)
    BY <1>4, Zenon DEF PushAlloc
  <2>2. /\ ChunkInv' /\ Made \subseteq Made' /\ k \in Made' /\ 0 \notin Made'
        /\ tail'[k] = 0 /\ \A j \in Made : cap'[j] = cap[j] /\ tail'[j] \in {0, tail[j]}
    BY <1>0, <2>1, NewlyMade, MadeChunks DEF Made
  <2> QED
    BY <1>0, <1>4, <2>1, <2>2, Zenon DEF PushAlloc, ProducerInv, ConsumerInv
<1>5. CASE PushLink
  BY <1>0, <1>5, SMT DEF PushLink, ChunkInv, ProducerInv, ConsumerInv
<1>6. CASE PushMove
  BY <1>0, <1>6, Zenon DEF PushMove, ChunkInv, ProducerInv, ConsumerInv
<1>7. CASE PushSlot
  BY <1>0, <1>7, Zenon DEF PushSlot, ChunkInv, ProducerInv, ConsumerInv
<1>8. CASE PushTail
  BY <1>0, <1>8, SMT DEF PushTail, ChunkInv, ProducerInv, ConsumerInv
<1>9. CASE PushCount
  BY <1>0, <1>9, Zenon DEF PushCount, ChunkInv, ProducerInv, ConsumerInv
<1>10. CASE PushReturn
  BY <1>0, <1>10, Zenon DEF PushReturn, ChunkInv, ProducerInv, ConsumerInv
<1> QED
  BY <1>1, <1>2, <1>3, <1>4, <1>5, <1>6, <1>7, <1>8, <1>9, <1>10, Zenon DEF Pushing

\* The steps of the consumer keep its places, and the producer's.
LEMMA ConsumerPlaces ==
  ASSUME ChunkInv, ProducerInv, ConsumerInv, ListInv,
         (\E o, n : Take(o, n)) \/ Taking \/ TakeReturn \/ Close
  PROVE  ChunkInv' /\ ProducerInv' /\ ConsumerInv'
<1>0. Made \subseteq Chunks /\ 0 \notin Chunks /\ (allocated' = allocated => Made' = Made)
  BY MadeChunks, Zenon DEF Made
<1>1. CASE \E o, n : Take(o, n)
  BY <1>0, <1>1, SMT DEF Take, NothingThere, ChunkInv, ProducerInv, ConsumerInv
<1>2. CASE TakeTail
  BY <1>0, <1>2, SMT DEF TakeTail, NothingThere, ChunkInv, ProducerInv, ConsumerInv
<1>3. CASE TakeNext
  BY <1>0, <1>3, SMT DEF TakeNext, NothingThere, ChunkInv, ProducerInv, ConsumerInv
<1>4. CASE TakeLeave
  <2>0. next[cc] # 0
    BY <1>4, Zenon DEF TakeLeave, ConsumerInv, ListInv
  <2>1. CASE cap[cc] <= MaxRecycleSlots
    <3>1. freeChunk \in {0} \union Made /\ RecycleChunk(freeChunk) /\ UNCHANGED <<cap, allocated>>
      BY <1>4, <2>1, Zenon DEF TakeLeave, ConsumerInv
    <3> QED
      BY <1>0, <1>4, <2>0, <2>1, <3>1, Recycled, SMT DEF TakeLeave, ProducerInv, ConsumerInv, ChunkInv
  <2>2. CASE ~(cap[cc] <= MaxRecycleSlots)
    BY <1>0, <1>4, <2>0, <2>2, SMT DEF TakeLeave, ChunkInv, ProducerInv, ConsumerInv
  <2> QED
    BY <2>1, <2>2, Zenon
<1>5. CASE TakeSlot
  BY <1>0, <1>5, SMT DEF TakeSlot, ChunkInv, ProducerInv, ConsumerInv
<1>6. CASE TakeCount
  BY <1>0, <1>6, SMT DEF TakeCount, ChunkInv, ProducerInv, ConsumerInv
<1>7. CASE CloseDetach
  BY <1>0, <1>7, Zenon DEF CloseDetach, ChunkInv, ProducerInv, ConsumerInv
<1>8. CASE CloseWalk
  <2>1. cc \in {0} \union Made /\ RecycleChunk(cc) /\ UNCHANGED <<cap, allocated>>
    BY <1>8, Zenon DEF CloseWalk, ConsumerInv
  <2> QED
    BY <1>0, <1>8, <2>1, Recycled, SMT DEF CloseWalk, ProducerInv, ConsumerInv, ChunkInv
<1>9. CASE TakeReturn
  BY <1>0, <1>9 DEF TakeReturn, ChunkInv, ProducerInv, ConsumerInv
<1>10. CASE Close
  <2>1. freeChunk \in {0} \union Made /\ RecycleChunk(freeChunk) /\ UNCHANGED <<cap, allocated>>
    BY <1>10, Zenon DEF Close, ConsumerInv
  <2>2. ChunkInv' /\ \A j \in Chunks : tail'[j] \in {0, tail[j]}
    BY <2>1, Recycled, Zenon
  <2> QED
    BY <1>0, <1>10, <2>2, SMT DEF Close, ProducerInv, ConsumerInv, ChunkInv
<1> QED
  BY <1>1, <1>2, <1>3, <1>4, <1>5, <1>6, <1>7, <1>8, <1>9, <1>10, Zenon DEF Taking

-----------------------------------------------------------------------------
(* The list of chunks                                                      *)

\* A step that leaves the list alone: neither its ends nor its links change, and
\* the pool and the free list gain none of its chunks.
LEMMA SameList ==
  ASSUME ChunkInv, ConsumerInv, ListInv, cChunk # 0, NEW L \in SUBSET Chunks, Chain(L),
         cChunk' = cChunk, Last' = Last, Made \subseteq Made', freeChunk' \in {0, freeChunk},
         pool' \subseteq pool \union {freeChunk}, 0 \notin Made, \A k \in L : next'[k] = next[k]
  PROVE  Chain(L)'
BY SMT DEF Chain, ConsumerInv

\* The steps of the producer keep the list L of an open ring; PushLink adds a chunk
\* to it.
LEMMA ProducerChain ==
  ASSUME ChunkInv, ProducerInv, ConsumerInv, ListInv, FeedPush \/ Pushing \/ PushReturn,
         cChunk # 0, NEW L \in SUBSET Chunks, Chain(L), Linking(L)
  PROVE  /\ ListInv' /\ (~PushLink => Chain(L)' /\ Linking(L)')
         /\ PushLink => Chain(L \union {nxt})' /\ Linking(L \union {nxt})' /\ L \union {nxt} \in SUBSET Chunks
<1>0. Made \subseteq Chunks /\ 0 \notin Chunks /\ (allocated' = allocated => Made' = Made)
  BY MadeChunks, Zenon DEF Made
<1>2. cChunk' = cChunk /\ cpc' = cpc /\ cc' = cc
  BY Zenon DEF FeedPush, Push, Pushing, PushLength, PushSwap, PushAlloc, PushLink, PushMove,
              PushSlot, PushTail, PushCount, PushReturn
<1>4. /\ L \subseteq Made /\ pChunk # 0 /\ (cpc = "leave" => cc \in L /\ next[cc] # 0)
      /\ freeChunk \notin pool /\ (ppc \notin {"idle", "dropped"} => pc = pChunk)
      /\ (ppc \in {"idle", "dropped"} => pc \in {0, pChunk})
  BY <1>0, <1>2 DEF ListInv, Chain, Last, ConsumerInv, ProducerInv
<1>5. CASE FeedPush \/ PushReturn \/ PushLength \/ PushSlot \/ PushTail \/ PushCount
  <2>1. /\ UNCHANGED <<cap, next, allocated, pool, freeChunk, pChunk>>
        /\ ppc # "link" /\ ppc' # "link" /\ ppc # "move" /\ ppc' # "move"
    <3>1. CASE FeedPush \/ PushReturn
      BY <1>4, <3>1, Zenon DEF FeedPush, Push, PushReturn
    <3>2. CASE PushLength \/ PushSlot \/ PushTail \/ PushCount
      BY <1>4, <3>2, Zenon DEF PushLength, PushSlot, PushTail, PushCount
    <3> QED
      BY <1>5, <3>1, <3>2, Zenon
  <2>2. /\ ppc' \notin {"idle", "dropped"} => pc' = pChunk
        /\ ppc' \in {"idle", "dropped"} => pc' \in {0, pChunk}
    <3>1. CASE FeedPush
      BY <3>1, Zenon DEF FeedPush, Push
    <3>2. CASE PushReturn
      BY <3>2, Zenon DEF PushReturn
    <3>3. CASE PushLength \/ PushSlot \/ PushTail \/ PushCount
      BY <1>4, <3>3, Zenon DEF PushLength, PushSlot, PushTail, PushCount
    <3> QED
      BY <1>5, <3>1, <3>2, <3>3, Zenon
  <2>3. Chain(L)' /\ Linking(L)'
    BY <1>0, <1>2, <2>1, SameList, Zenon DEF Last, Linking
  <2> QED
    BY <1>2, <1>4, <2>1, <2>2, <2>3, Zenon DEF ListInv, PushLink
<1>6. CASE PushSwap
  <2>1. /\ ppc = "swap" /\ freeChunk' = 0 /\ UNCHANGED <<allocated, pChunk, pc>>
        /\ ppc' \in {"alloc", "link"} /\ freeChunk \notin L
    BY <1>6, Zenon DEF PushSwap, Chain
  <2>2. pool' \subseteq pool \union {freeChunk} /\ pool' \subseteq Made
        /\ \A k \in Chunks : k # freeChunk => next'[k] = next[k]
    BY <1>0, <1>6, Zenon DEF PushSwap, RecycleChunk, ChunkInv, ConsumerInv
  <2>3. Chain(L)'
    BY <1>0, <1>2, <1>4, <2>1, <2>2, SameList, Zenon DEF Last
  <2>4. Linking(L)'
    BY <1>0, <1>4, <1>6, <2>1, <2>2, SMT DEF PushSwap, Linking, ChunkInv, ConsumerInv
  <2> QED
    BY <1>0, <1>2, <1>4, <2>1, <2>2, <2>3, <2>4, Zenon DEF ListInv, PushLink
<1>7. CASE PushAlloc
  <2>1. PICK k \in Chunks : nxt' = k /\ NewChunk(k, IF lag = 0 THEN MinChunkCap ELSE NextCap)
    BY <1>7, Zenon DEF PushAlloc
  <2>2. /\ Made \subseteq Made' /\ k \in Made' \ pool' /\ pool' \subseteq pool
        /\ (k \in pool \/ k \notin Made) /\ next'[k] = 0
        /\ \A j \in Chunks \ {k} : next'[j] = next[j]
    BY <2>1, NewlyMade, Zenon
  <2>3. k \notin L /\ k # freeChunk
    BY <1>0, <1>4, <2>2, Zenon DEF Chain, ConsumerInv
  <2>4. /\ ppc = "alloc" /\ ppc' = "link" /\ UNCHANGED <<freeChunk, pChunk, pc>>
    BY <1>7, Zenon DEF PushAlloc
  <2>5. Chain(L)'
    BY <1>0, <1>2, <1>4, <2>2, <2>3, <2>4, SameList, Zenon DEF Last
  <2>6. Linking(L)'
    BY <2>1, <2>2, <2>3, <2>4, Zenon DEF Linking
  <2> QED
    BY <1>0, <1>2, <1>4, <2>2, <2>3, <2>4, <2>5, <2>6, Zenon DEF ListInv, PushLink
<1>8. CASE PushLink
  <2>1. /\ ppc = "link" /\ ppc' = "move" /\ next' = [next EXCEPT ![pc] = nxt]
        /\ UNCHANGED <<allocated, pool, freeChunk, pChunk, pc, nxt>>
    BY <1>8, Zenon DEF PushLink
  <2>2. /\ pc = pChunk /\ pc \in L /\ nxt \in Made \ (L \union pool) /\ nxt # freeChunk
        /\ next[nxt] = 0 /\ nxt # 0 /\ next[pc] = 0 /\ next \in [Chunks -> {0} \union Made]
    BY <1>4, <2>1, Zenon DEF Chain, Linking, ProducerInv, ChunkInv, Last
  <2>3. Chain(L \union {nxt})'
    BY <1>0, <1>2, <1>4, <2>1, <2>2, SMT DEF Chain, Last
  <2>4. Linking(L \union {nxt})' /\ L \union {nxt} \in SUBSET Chunks
    BY <1>0, <2>1, <2>2, Zenon DEF Linking
  <2>5. cpc = "leave" => next'[cc] # 0
    BY <1>0, <1>4, <2>1, <2>2, Zenon
  <2> QED
    BY <1>2, <1>4, <1>8, <2>1, <2>3, <2>4, <2>5, Zenon DEF ListInv
<1>9. CASE PushMove
  <2>1. /\ ppc = "move" /\ ppc' = "slot" /\ pChunk' = nxt /\ pc' = nxt
        /\ UNCHANGED <<next, allocated, pool, freeChunk>>
    BY <1>9, Zenon DEF PushMove
  <2>2. Chain(L)' /\ Linking(L)'
    BY <1>0, <1>2, <2>1, SameList, Zenon DEF Last, Linking
  <2> QED
    BY <1>2, <1>4, <2>1, <2>2, Zenon DEF ListInv, PushLink
<1> QED
  BY <1>5, <1>6, <1>7, <1>8, <1>9, Zenon DEF Pushing

\* The steps of the consumer keep the list L of an open ring, unless Close ends it;
\* TakeLeave takes the first chunk away.
LEMMA ConsumerChain ==
  ASSUME ChunkInv, ProducerInv, ConsumerInv, ListInv,
         (\E o, n : Take(o, n)) \/ Taking \/ TakeReturn \/ Close,
         cChunk # 0, cChunk' # 0, NEW L \in SUBSET Chunks, Chain(L), Linking(L), NEW c, c = cc
  PROVE  /\ ListInv' /\ (~TakeLeave => Chain(L)' /\ Linking(L)')
         /\ TakeLeave => Chain(L \ {c})' /\ Linking(L \ {c})' /\ L \ {c} \in SUBSET Chunks
<1>0. Made \subseteq Chunks /\ 0 \notin Chunks /\ (allocated' = allocated => Made' = Made)
  BY MadeChunks, Zenon DEF Made
<1>2. ~CloseDetach /\ ~CloseWalk
  BY Zenon DEF CloseDetach, CloseWalk, ConsumerInv
<1>4. /\ L \subseteq Made /\ freeChunk \notin pool
      /\ (ppc \notin {"idle", "dropped"} => pc = pChunk)
      /\ (ppc \in {"idle", "dropped"} => pc \in {0, pChunk})
  BY Zenon DEF ListInv, Chain
<1>5. UNCHANGED <<allocated, pChunk, ppc, pc, nxt>> /\ Last' = Last
  BY <1>2, Zenon DEF Take, Taking, TakeTail, TakeNext, TakeLeave, TakeSlot, TakeCount, TakeReturn, Close, Last
<1>6. CASE (\E o, n : Take(o, n)) \/ TakeTail \/ TakeNext \/ TakeSlot \/ TakeCount \/ TakeReturn
  <2>1. UNCHANGED <<cChunk, next, pool, freeChunk>> /\ (cpc' = "leave" => next'[cc'] # 0) /\ ~TakeLeave
    BY <1>6, Zenon DEF Take, TakeTail, TakeNext, TakeSlot, TakeCount, TakeReturn, NothingThere, TakeLeave
  <2>2. Chain(L)' /\ Linking(L)'
    BY <1>0, <1>5, <2>1, SameList, Zenon DEF Linking
  <2> QED
    BY <1>4, <1>5, <2>1, <2>2, Zenon DEF ListInv
<1>7. CASE Close
  <2>1. freeChunk' = 0 /\ cChunk' = cChunk /\ cpc = "idle" /\ cpc' = "detach" /\ freeChunk \notin L
    BY <1>7, Zenon DEF Close, Chain
  <2>2. pool' \subseteq pool \union {freeChunk} /\ pool' \subseteq Made
        /\ \A k \in Chunks : k # freeChunk => next'[k] = next[k]
    BY <1>0, <1>7, Zenon DEF Close, RecycleChunk, ChunkInv, ConsumerInv
  <2>3. Chain(L)'
    BY <1>0, <1>4, <1>5, <2>1, <2>2, SameList, Zenon
  <2>4. Linking(L)'
    BY <1>0, <1>4, <1>5, <2>1, <2>2, Zenon DEF Linking, ProducerInv
  <2> QED
    BY <1>0, <1>4, <1>5, <2>1, <2>2, <2>3, <2>4, Zenon DEF ListInv, TakeLeave
<1>8. CASE TakeLeave
  <2>1. /\ c = cChunk /\ c \in L /\ next[c] # 0 /\ cpc' = "tail" /\ cChunk' = next[c]
        /\ c # Last /\ next[c] \in L \ {c} /\ freeChunk \notin L
    BY <1>8, Zenon DEF TakeLeave, ConsumerInv, ListInv, Chain
  <2>2. /\ freeChunk' \in {freeChunk, c} /\ pool' \subseteq pool \union {freeChunk}
        /\ (freeChunk' = freeChunk => pool' = pool)
        /\ \A k \in Chunks : k # freeChunk => next'[k] = next[k]
    BY <1>0, <1>8, <2>1, Zenon DEF TakeLeave, RecycleChunk, ChunkInv, ConsumerInv
  <2>3. Chain(L \ {c})'
    BY <1>0, <1>4, <1>5, <2>1, <2>2, SMT DEF Chain
  <2>4. Linking(L \ {c})'
    BY <1>0, <1>4, <1>5, <2>1, <2>2, Zenon DEF Linking, ProducerInv
  <2>5. freeChunk' \notin pool' /\ L \ {c} \in SUBSET Chunks
    BY <1>4, <2>1, <2>2, Zenon DEF Chain
  <2> QED
    BY <1>4, <1>5, <1>8, <2>1, <2>3, <2>4, <2>5, Zenon DEF ListInv
<1> QED
  BY <1>2, <1>6, <1>7, <1>8, Zenon DEF Taking

\* Every step on the ring keeps the list; Close ends it.
LEMMA RingList ==
  ASSUME ChunkInv, ProducerInv, ConsumerInv, ListInv,
         \/ FeedPush \/ Pushing \/ PushReturn
         \/ (\E o, n : Take(o, n)) \/ Taking \/ TakeReturn \/ Close
  PROVE  ListInv'
<1>1. SUFFICES ASSUME cChunk' # 0 PROVE ListInv'
  BY Zenon DEF ListInv
<1>2. cChunk # 0
  BY <1>1, Zenon DEF FeedPush, Push, Pushing, PushLength, PushSwap, PushAlloc, PushLink, PushMove,
              PushSlot, PushTail, PushCount, PushReturn, Take, Taking, TakeTail, TakeNext, TakeLeave,
              TakeSlot, TakeCount, CloseDetach, CloseWalk, TakeReturn, Close, ConsumerInv
<1>3. PICK L \in SUBSET Chunks : Chain(L) /\ Linking(L)
  BY <1>2, Zenon DEF ListInv
<1> QED
  BY <1>1, <1>2, <1>3, ProducerChain, ConsumerChain, Zenon

-----------------------------------------------------------------------------
(* The slots                                                               *)

\* What is in a slot after the step was there before.
Fewer ==
  \A k \in Chunks : \A i \in 0..cap'[k]-1 :
    slots'[k][i].head # 0 => i \in 0..cap[k]-1 /\ slots'[k][i].head = slots[k][i].head

\* A cleared chunk has nothing in its slots.
LEMMA Blanks ==
  ASSUME NEW n \in Nat
  PROVE  Blank(n) \in [0..n-1 -> Parts] /\ \A i \in 0..n-1 : Blank(n)[i].head = 0
BY DEF Blank, Empty, Parts

\* Clearing one chunk, whatever its capacity becomes, takes datagrams away and adds
\* none.
LEMMA ClearedSlots ==
  ASSUME ChunkInv, SlotInv, NEW k \in Chunks, NEW n \in Nat, slots' = [slots EXCEPT ![k] = Blank(n)],
         cap'[k] = n, \A j \in Chunks : j # k => cap'[j] = cap[j]
  PROVE  SlotInv' /\ Fewer
<1>1. \A j \in Chunks : slots'[j] = IF j = k THEN Blank(n) ELSE slots[j]
  BY Zenon DEF SlotInv
<1>2. slots' = [j \in Chunks |-> slots'[j]]
  BY Zenon DEF SlotInv
<1> QED
  BY <1>1, <1>2, Blanks, Zenon DEF SlotInv, Fewer

\* recycleChunk takes datagrams away and adds none.
LEMMA RecycledSlots ==
  ASSUME ChunkInv, SlotInv, NEW k \in {0} \union Made, RecycleChunk(k), cap' = cap
  PROVE  SlotInv' /\ Fewer
<1>1. CASE k # 0 /\ cap[k] = MinChunkCap
  <2>1. k \in Chunks /\ cap[k] \in Nat /\ slots' = [slots EXCEPT ![k] = Blank(cap[k])]
    BY <1>1, MadeChunks, Zenon DEF RecycleChunk, ChunkInv
  <2> QED
    BY <2>1, ClearedSlots, Zenon
<1>2. CASE ~(k # 0 /\ cap[k] = MinChunkCap)
  BY <1>2, Zenon DEF RecycleChunk, SlotInv, Fewer
<1> QED
  BY <1>1, <1>2, Zenon

\* newChunk as well.
LEMMA NewSlots ==
  ASSUME ChunkInv, SlotInv, NEW k \in Chunks, NEW n, NewChunk(k, n)
  PROVE  SlotInv' /\ Fewer
<1>1. CASE UNCHANGED <<cap, slots>>
  BY <1>1, Zenon DEF SlotInv, Fewer
<1>2. CASE \E c \in Nat : cap' = [cap EXCEPT ![k] = c] /\ slots' = [slots EXCEPT ![k] = Blank(c)]
  <2>1. PICK c \in Nat : cap' = [cap EXCEPT ![k] = c] /\ slots' = [slots EXCEPT ![k] = Blank(c)]
    BY <1>2, Zenon
  <2>2. cap'[k] = c /\ \A j \in Chunks : j # k => cap'[j] = cap[j]
    BY <2>1, Zenon DEF ChunkInv
  <2> QED
    BY <2>1, <2>2, ClearedSlots, Zenon
<1>3. ASSUME NEW c \in 1..2*MaxChunkCap PROVE c \in Nat
  BY RingAssumption, SMT
<1> QED
  BY <1>1, <1>2, <1>3, Zenon DEF NewChunk

\* TakeSlot empties the slot and gives its datagram, or leaves a part of it there.
LEMMA SlotTaken ==
  ASSUME ChunkInv, ConsumerInv, SlotInv, CallInv, TakeSlot
  PROVE  /\ cc \in Chunks /\ cHead \in 0..cap[cc]-1 /\ cap' = cap
         /\ out' \in [ok : BOOLEAN, n : Int, drained : {0} \union Datagrams]
         /\ \E r \in Parts :
              /\ slots' = [slots EXCEPT ![cc] = [slots[cc] EXCEPT ![cHead] = r]]
              /\ \/ r.head = 0 /\ out'.drained = slots[cc][cHead].head
                 \/ r.head = slots[cc][cHead].head /\ out'.drained = 0
<1> DEFINE s == slots[cc][cHead]
           n == IF op = "pop" \/ room > s.left THEN s.left ELSE room
           emptied == op = "pop" \/ n = s.left
           r == IF emptied THEN Empty ELSE [s EXCEPT !.left = s.left - n]
<1>1. cc \in Chunks /\ cHead \in 0..cap[cc]-1 /\ cap' = cap
  BY MadeChunks, SMT DEF TakeSlot, ConsumerInv, ChunkInv
<1>2. s \in Parts
  BY <1>1, Zenon DEF SlotInv
<1>3. slots' = [slots EXCEPT ![cc] = [slots[cc] EXCEPT ![cHead] = r]]
  BY <1>1, Zenon DEF TakeSlot, SlotInv
<1>4. out' = [ok |-> TRUE, n |-> n, drained |-> IF emptied THEN s.head ELSE 0]
  BY Zenon DEF TakeSlot
<1>5. n \in Int /\ s.head \in {0} \union Datagrams /\ s.left \in Int
  BY <1>2, Zenon DEF Parts, CallInv
<1>6. r \in Parts /\ (emptied => r.head = 0) /\ (~emptied => r.head = s.head)
  <2>1. CASE emptied
    BY <2>1 DEF Empty, Parts
  <2>2. CASE ~emptied
    <3> HIDE DEF n
    <3>1. r = [s EXCEPT !.left = s.left - n]
      BY <2>2, Zenon
    <3> HIDE DEF r, s, emptied
    <3> QED
      BY <1>2, <1>5, <2>2, <3>1 DEF Parts
  <2> QED
    BY <2>1, <2>2, Zenon
<1> HIDE DEF s, n, emptied, r
<1>7. out' \in [ok : BOOLEAN, n : Int, drained : {0} \union Datagrams]
  BY <1>4, <1>5, Zenon
<1>8. out'.drained = IF emptied THEN s.head ELSE 0
  BY <1>4, Zenon
<1> QED
  BY <1>1, <1>3, <1>6, <1>7, <1>8, Zenon DEF s

\* Every step of the ring but two takes datagrams away and adds none: PushSlot
\* writes the one that is being fed, and TakeSlot takes some of one or all of it.
LEMMA SlotStep ==
  ASSUME ChunkInv, ProducerInv, ConsumerInv, SlotInv, CallInv,
         \/ FeedPush \/ Pushing \/ PushReturn
         \/ (\E o, n : Take(o, n)) \/ Taking \/ TakeReturn \/ Close
  PROVE  SlotInv' /\ (Fewer \/ PushSlot)
<1>1. CASE \/ FeedPush \/ PushLength \/ PushLink \/ PushMove \/ PushTail \/ PushCount \/ PushReturn
           \/ (\E o, n : Take(o, n)) \/ TakeTail \/ TakeNext \/ TakeCount \/ TakeReturn \/ CloseDetach
  <2>1. UNCHANGED <<cap, slots>>
    BY <1>1, Zenon DEF FeedPush, Push, PushLength, PushLink, PushMove, PushTail, PushCount, PushReturn,
                Take, TakeTail, TakeNext, TakeCount, TakeReturn, CloseDetach
  <2> QED
    BY <2>1, Zenon DEF SlotInv, Fewer
<1>2. CASE TakeLeave
  <2>1. CASE cap[cc] <= MaxRecycleSlots
    BY <1>2, <2>1, RecycledSlots, Zenon DEF TakeLeave, ConsumerInv
  <2>2. CASE ~(cap[cc] <= MaxRecycleSlots)
    BY <1>2, <2>2, Zenon DEF TakeLeave, SlotInv, Fewer
  <2> QED
    BY <2>1, <2>2, Zenon
<1>3. CASE CloseWalk \/ Close
  BY <1>3, RecycledSlots, Zenon DEF CloseWalk, Close, ConsumerInv
<1>4. CASE PushSwap
  <2>1. CASE lag = 0 \/ freeChunk = 0
    BY <1>4, <2>1, RecycledSlots, Zenon DEF PushSwap, ConsumerInv
  <2>2. CASE ~(lag = 0 \/ freeChunk = 0)
    <3>1. /\ freeChunk \in Chunks /\ cap[freeChunk] \in Nat /\ cap' = cap
          /\ slots' = [slots EXCEPT ![freeChunk] = Blank(cap[freeChunk])]
      BY <1>4, <2>2, MadeChunks, Zenon DEF PushSwap, ConsumerInv, ChunkInv
    <3> QED
      BY <3>1, ClearedSlots, Zenon
  <2> QED
    BY <2>1, <2>2, Zenon
<1>5. CASE PushAlloc
  BY <1>5, NewSlots, Zenon DEF PushAlloc
<1>6. CASE PushSlot
  <2>1. /\ pc \in Chunks /\ tail[pc] \in 0..cap[pc]-1 /\ cap' = cap /\ item \in Parts
        /\ slots' = [slots EXCEPT ![pc] = [slots[pc] EXCEPT ![tail[pc]] = item]]
    BY <1>6, MadeChunks, SMT DEF PushSlot, ProducerInv, ChunkInv, CallInv
  <2>2. slots' = [k \in Chunks |-> slots'[k]]
    BY <2>1, Zenon DEF SlotInv
  <2>3. \A k \in Chunks : slots'[k] = IF k = pc THEN [slots[pc] EXCEPT ![tail[pc]] = item] ELSE slots[k]
    BY <2>1, Zenon DEF SlotInv
  <2> QED
    BY <1>6, <2>1, <2>2, <2>3, Zenon DEF SlotInv
<1>7. CASE TakeSlot
  <2>1. cc \in Chunks /\ cHead \in 0..cap[cc]-1 /\ cap' = cap
    BY <1>7, SlotTaken, Zenon
  <2>3. PICK r \in Parts : /\ r.head \in {0, slots[cc][cHead].head}
                           /\ slots' = [slots EXCEPT ![cc] = [slots[cc] EXCEPT ![cHead] = r]]
    BY <1>7, SlotTaken, Zenon
  <2>4. slots' = [k \in Chunks |-> slots'[k]]
    BY <2>1, <2>3, Zenon DEF SlotInv
  <2>5. \A k \in Chunks : slots'[k] = IF k = cc THEN [slots[cc] EXCEPT ![cHead] = r] ELSE slots[k]
    BY <2>1, <2>3, Zenon DEF SlotInv
  <2> QED
    BY <2>1, <2>3, <2>4, <2>5 DEF SlotInv, Fewer
<1> QED
  BY <1>1, <1>2, <1>3, <1>4, <1>5, <1>6, <1>7, Zenon DEF Pushing, Taking

-----------------------------------------------------------------------------
(* The datagrams                                                           *)

\* A call on the ring has returned: what it gave goes to the allocator or to the
\* session, or it gave nothing to keep.
Gives ==
  /\ TakeReturn /\ UNCHANGED <<fed, feeder>>
  /\ \/ PutBack(out.drained) /\ UNCHANGED returned
     \/ returned' \in {returned, returned \union {out.drained}} /\ UNCHANGED puts

\* The rest of the ring's steps, and what their callers leave alone.
Looks == Take("pop", 0) \/ Take("partial", want) \/ Taking \/ Close
OnRing == Looks /\ UNCHANGED <<fed, feeder, puts, returned>>

\* A step is one of feed's, a step on the ring, a call's return, or leaves the ring
\* and the buffers alone.
LEMMA Kinds ==
  ASSUME [Next]_vars
  PROVE  \/ FeedCheck \/ FeedPush \/ FeedPushing \/ FeedWake \/ OnRing \/ Gives
         \/ UNCHANGED <<ringVars, fed, feeder, puts, returned>>
<1>1. CASE Reads
  <2>1. CASE ReadLook
    BY <2>1, Zenon DEF ReadLook, OnRing, Looks
  <2>2. CASE PacketScanned \/ ReadScanned \/ ReadRescanned \/ ReadDrained
    BY <2>2, SMT DEF PacketScanned, ReadScanned, ReadRescanned, ReadDrained, Gives
  <2>3. CASE Calls \/ ReadCheck \/ ReadArm \/ ReadCheckAgain \/ ReadNotified \/ ReadWoken
             \/ ReadDies \/ ReadDefer
    BY <2>3, Zenon DEF Calls, ReadCall, ReadCheck, ReadArm, ReadCheckAgain, ReadNotified, ReadWoken,
                       ReadDies, ReadDefer
  <2> QED
    BY <1>1, <2>1, <2>2, <2>3, Zenon DEF Reads
<1>2. CASE Closes
  <2>1. CASE CloseDie
    BY <2>1, Zenon DEF CloseDie
  <2>2. CASE CloseLook \/ CloseRing
    BY <2>2, Zenon DEF CloseLook, CloseRing, OnRing, Looks
  <2>3. CASE CloseDrained \/ CloseReturn
    BY <2>3, SMT DEF CloseDrained, CloseReturn, Gives
  <2> QED
    BY <1>2, <2>1, <2>2, <2>3, Zenon DEF Closes
<1>3. CASE RingTaking
  BY <1>3, Zenon DEF RingTaking, OnRing, Looks
<1>4. CASE ReadLock \/ ReadExpires \/ ListenerCloses \/ CloseStart \/ CloseLock \/ UNCHANGED vars
  BY <1>4, Zenon DEF ReadLock, ReadExpires, ListenerCloses, CloseStart, CloseLock, vars
<1> QED
  BY <1>1, <1>2, <1>3, <1>4, Zenon DEF Next, Feeds

\* Only a new call and what it is given change the length that Read asks for.
LEMMA WantSame ==
  ASSUME [Next]_vars, ~(ReadScanned \/ ReadRescanned \/ Calls)
  PROVE  want' = want
BY Zenon DEF Next, FeedCheck, Feeds, FeedPush, FeedPushing, FeedWake, Reads, ReadLook, PacketScanned,
     ReadCheck, ReadArm, ReadCheckAgain, ReadNotified, ReadWoken, ReadDies, ReadDefer, ReadDrained,
     ReadLock, ReadExpires, RingTaking, ListenerCloses, CloseStart, Closes, CloseDie, CloseLook,
     CloseDrained, CloseRing, CloseReturn, CloseLock, vars

\* The lengths that Read asks for stay integers.
LEMMA WantStep ==
  ASSUME CallInv, [Next]_vars
  PROVE  want' \in Int
<1>1. CASE ReadScanned \/ ReadRescanned
  BY <1>1 DEF ReadScanned, ReadRescanned, CallInv
<1>2. CASE Calls
  BY <1>2, PacketAssumption DEF Calls, ReadCall
<1>3. CASE ~(ReadScanned \/ ReadRescanned \/ Calls)
  BY <1>3, WantSame, Zenon DEF CallInv
<1> QED
  BY <1>1, <1>2, <1>3, Zenon

\* PutBack counts, and leaves the other counters alone.
LEMMA PutsBack ==
  ASSUME puts \in [Datagrams -> Nat], NEW d, PutBack(d)
  PROVE  /\ puts' \in [Datagrams -> Nat]
         /\ \A e \in Datagrams : puts'[e] = IF e = d THEN puts[e] + 1 ELSE puts[e]
BY DEF PutBack

\* What the callers push, ask for and are given.
LEMMA CallStep ==
  ASSUME ChunkInv, ProducerInv, ConsumerInv, SlotInv, CallInv, [Next]_vars
  PROVE  CallInv'
<1> DEFINE Results == [ok : BOOLEAN, n : Int, drained : {0} \union Datagrams]
<1>0. want' \in Int /\ NoResult \in Results /\ Empty \in Parts
  BY WantStep DEF NoResult, Empty, Parts
<1>1. CASE FeedCheck
  <2>1. UNCHANGED ringVars /\ fed' = fed + 1 /\ fed' \in 0..MaxFeeds /\ feeder' \in {"idle", "checked"}
        /\ feeder = "idle"
    BY <1>1, PacketAssumption, SMT DEF FeedCheck, CallInv
  <2>2. puts' \in [Datagrams -> Nat]
    BY <1>1, PutsBack, Zenon DEF FeedCheck, CallInv
  <2> QED
    BY <1>0, <2>1, <2>2, SMT DEF CallInv
<1>2. CASE FeedPush
  <2>1. item' \in Parts /\ item'.head = fed
    BY <1>2, PacketAssumption, SMT DEF FeedPush, Push, Parts, CallInv, Datagrams
  <2>2. /\ feeder = "checked" /\ feeder' = "wake" /\ ppc' # "idle"
        /\ UNCHANGED <<fed, out, room, puts>>
    BY <1>2, Zenon DEF FeedPush, Push
  <2> QED
    BY <1>0, <2>1, <2>2, Zenon DEF CallInv
<1>3. CASE FeedPushing
  <2>1. ppc # "idle" /\ ppc' # "idle" /\ UNCHANGED <<item, fed, feeder, out, room, puts>>
    BY <1>3, Zenon DEF FeedPushing, Pushing, PushLength, PushSwap, PushAlloc, PushLink, PushMove, PushSlot,
                PushTail, PushCount, consVars
  <2> QED
    BY <1>0, <2>1, Zenon DEF CallInv
<1>4. CASE FeedWake
  <2>1. /\ item' = Empty /\ ppc' = "idle" /\ feeder' = "idle" /\ UNCHANGED <<fed, out, room>>
    BY <1>4, Zenon DEF FeedWake, PushReturn
  <2>2. puts' \in [Datagrams -> Nat]
    BY <1>4, PutsBack, Zenon DEF FeedWake, CallInv
  <2> QED
    BY <1>0, <2>1, <2>2, Zenon DEF CallInv
<1>5. CASE OnRing
  <2>1. UNCHANGED <<item, ppc, fed, feeder, puts>>
    BY <1>5, Zenon DEF OnRing, Looks, Take, Taking, TakeTail, TakeNext, TakeLeave, TakeSlot, TakeCount,
                CloseDetach, CloseWalk, Close
  <2>2. CASE Take("pop", 0) \/ Take("partial", want)
    <3>1. room' \in {0, want} /\ out' \in {out, NoResult}
      BY <2>2, Zenon DEF Take, NothingThere
    <3> QED
      BY <1>0, <2>1, <3>1 DEF CallInv
  <2>3. CASE TakeSlot
    <3>1. room' = room /\ out' \in Results
      BY <2>3, SlotTaken, Zenon DEF TakeSlot
    <3> QED
      BY <1>0, <2>1, <3>1, Zenon DEF CallInv
  <2>4. CASE TakeTail \/ TakeNext \/ TakeLeave \/ TakeCount \/ CloseDetach \/ CloseWalk \/ Close
    <3>1. room' = room /\ out' \in {out, NoResult}
      BY <2>4, Zenon DEF TakeTail, TakeNext, TakeLeave, TakeCount, CloseDetach, CloseWalk, Close, NothingThere
    <3> QED
      BY <1>0, <2>1, <3>1, Zenon DEF CallInv
  <2> QED
    BY <1>5, <2>2, <2>3, <2>4, Zenon DEF OnRing, Looks, Taking
<1>6. CASE Gives
  <2>1. UNCHANGED <<item, ppc, fed, feeder>> /\ room' = 0 /\ out' = NoResult
    BY <1>6, Zenon DEF Gives, TakeReturn
  <2>2. puts' \in [Datagrams -> Nat]
    BY <1>6, PutsBack, Zenon DEF Gives, CallInv
  <2> QED
    BY <1>0, <2>1, <2>2 DEF CallInv
<1>7. CASE UNCHANGED <<ringVars, fed, feeder, puts, returned>>
  BY <1>0, <1>7, Zenon DEF CallInv
<1> QED
  BY <1>1, <1>2, <1>3, <1>4, <1>5, <1>6, <1>7, Kinds, Zenon

\* A step that adds no datagram anywhere keeps every datagram in one place.
LEMMA NoneAdded ==
  ASSUME ChunkInv, CallInv, DatagramInv, Fewer, out'.drained \in {0, out.drained},
         UNCHANGED <<fed, puts, returned>>, Unplaced' => Unplaced
  PROVE  DatagramInv'
<1>1. /\ \A d \in Datagrams : Fresh(d)' => Fresh(d)
      /\ \A d : InRing(d) => InRing(d)'
  BY Zenon DEF Fresh, InRing
<1>2. BuffersOnce'
  BY Zenon DEF DatagramInv, BuffersOnce
<1>3. FreshInv'
  BY <1>1, Zenon DEF DatagramInv, FreshInv
<1>4. HeadsInv'
  BY <1>1, Zenon DEF DatagramInv, HeadsInv, Fewer
<1>5. ApartInv'
  BY DEF DatagramInv, ApartInv, Fewer
<1>6. DrainedInv'
  BY <1>1, Zenon DEF DatagramInv, DrainedInv
<1> QED
  BY <1>2, <1>3, <1>4, <1>5, <1>6, Zenon DEF DatagramInv

\* PushSlot moves the datagram that is being fed into a slot.
LEMMA Placed ==
  ASSUME ChunkInv, ProducerInv, SlotInv, CallInv, DatagramInv, PushSlot,
         UNCHANGED <<fed, feeder, puts, returned>>
  PROVE  DatagramInv'
<1>1. /\ pc \in Chunks /\ tail[pc] \in 0..cap[pc]-1 /\ cap' = cap /\ out' = out
      /\ slots' = [slots EXCEPT ![pc] = [slots[pc] EXCEPT ![tail[pc]] = item]]
  BY MadeChunks, SMT DEF PushSlot, ProducerInv, ChunkInv
<1>2. Unplaced /\ ~Unplaced'
  BY Zenon DEF PushSlot, Unplaced, CallInv
<1>3. item.head = fed /\ fed \in Datagrams
  BY SMT DEF PushSlot, CallInv, Datagrams
<1>4. \A k \in Chunks : \A i \in 0..cap[k]-1 :
        slots'[k][i] = IF k = pc /\ i = tail[pc] THEN item ELSE slots[k][i]
  BY <1>1, Zenon DEF SlotInv
<1>5. Fresh(fed) /\ (\A d \in Datagrams : Fresh(d)' => Fresh(d)) /\ ~Fresh(fed)'
      /\ \A d : InRing(d) => InRing(d)' /\ d # fed
  BY <1>2, SMT DEF Fresh, InRing, CallInv, Datagrams
<1>6. InRing(fed)' /\ out.drained # fed
  BY <1>3, <1>5 DEF InRing, DatagramInv, FreshInv, DrainedInv, CallInv, Datagrams
<1>7. BuffersOnce'
  BY Zenon DEF DatagramInv, BuffersOnce
<1>8. \A k \in Chunks : \A i \in 0..cap[k]-1 : slots[k][i].head # fed
  BY <1>3, <1>5 DEF DatagramInv, HeadsInv, Datagrams
<1>9. HeadsInv'
  BY <1>1, <1>3, <1>4, <1>5, <1>6 DEF DatagramInv, HeadsInv
<1>10. ApartInv'
  BY <1>1, <1>3, <1>4, <1>8 DEF DatagramInv, ApartInv
<1>11. FreshInv'
  BY <1>5, Zenon DEF DatagramInv, FreshInv
<1>12. DrainedInv'
  BY <1>1, <1>5, Zenon DEF DatagramInv, DrainedInv
<1> QED
  BY <1>7, <1>9, <1>10, <1>11, <1>12, Zenon DEF DatagramInv

\* TakeSlot leaves the datagram in its slot, or moves it into the call's result.
LEMMA Taken ==
  ASSUME ChunkInv, ConsumerInv, SlotInv, CallInv, DatagramInv, TakeSlot,
         UNCHANGED <<fed, feeder, puts, returned>>
  PROVE  DatagramInv'
<1>1. cc \in Chunks /\ cHead \in 0..cap[cc]-1 /\ cap' = cap
  BY SlotTaken, Zenon
<1>2. PICK r \in Parts :
        /\ slots' = [slots EXCEPT ![cc] = [slots[cc] EXCEPT ![cHead] = r]]
        /\ \/ r.head = 0 /\ out'.drained = slots[cc][cHead].head
           \/ r.head = slots[cc][cHead].head /\ out'.drained = 0
  BY SlotTaken, Zenon
<1>3. \A k \in Chunks : \A i \in 0..cap[k]-1 :
        slots'[k][i] = IF k = cc /\ i = cHead THEN r ELSE slots[k][i]
  BY <1>1, <1>2, Zenon DEF SlotInv
<1>4. Unplaced' <=> Unplaced
  BY Zenon DEF TakeSlot, Unplaced
<1>5. (\A d \in Datagrams : Fresh(d)' <=> Fresh(d)) /\ \A d : InRing(d) => InRing(d)'
  BY <1>4, Zenon DEF Fresh, InRing
<1>6. BuffersOnce'
  BY Zenon DEF DatagramInv, BuffersOnce
<1>7. HeadsInv'
  BY <1>1, <1>2, <1>3, <1>5 DEF DatagramInv, HeadsInv, ApartInv
<1>8. ApartInv'
  BY <1>1, <1>2, <1>3 DEF DatagramInv, ApartInv
<1>9. DrainedInv'
  BY <1>1, <1>2, <1>5, Zenon DEF DatagramInv, HeadsInv, DrainedInv
<1>10. FreshInv'
  BY <1>5, Zenon DEF DatagramInv, FreshInv
<1> QED
  BY <1>6, <1>7, <1>8, <1>9, <1>10, Zenon DEF DatagramInv

\* The call that returns gives a datagram that is in no slot, once.
LEMMA Given ==
  ASSUME CallInv, DatagramInv, Gives
  PROVE  DatagramInv'
<1>1. UNCHANGED <<cap, slots, fed, feeder, ppc>> /\ out'.drained = 0
  BY Zenon DEF Gives, TakeReturn, NoResult
<1>2. \A d \in Datagrams : d # out.drained => puts'[d] = puts[d] /\ (d \in returned' <=> d \in returned)
  BY PutsBack, Zenon DEF Gives, CallInv
<1>3. out.drained \in Datagrams => puts'[out.drained] + (IF out.drained \in returned' THEN 1 ELSE 0) <= 1
  <2> SUFFICES ASSUME out.drained \in Datagrams
               PROVE  puts'[out.drained] + (IF out.drained \in returned' THEN 1 ELSE 0) <= 1
    BY Zenon
  <2>1. puts[out.drained] = 0 /\ out.drained \notin returned
    BY DEF DatagramInv, DrainedInv, InRing, Datagrams
  <2>2. CASE PutBack(out.drained) /\ UNCHANGED returned
    BY <2>1, <2>2, PutsBack DEF CallInv
  <2>3. CASE UNCHANGED puts
    BY <2>1, <2>3
  <2> QED
    BY <2>2, <2>3, Zenon DEF Gives
<1>4. BuffersOnce'
  BY <1>2, <1>3, Zenon DEF BuffersOnce, DatagramInv
<1>5. \A d \in Datagrams : Fresh(d)' <=> Fresh(d)
  BY <1>1, Zenon DEF Fresh, Unplaced
<1>6. \A d : InRing(d) /\ d # out.drained => InRing(d)'
  BY <1>2, <1>5, Zenon DEF InRing
<1>7. FreshInv'
  BY <1>2, <1>5 DEF DatagramInv, FreshInv, DrainedInv, InRing, Datagrams
<1>8. HeadsInv'
  BY <1>1, <1>6, Zenon DEF DatagramInv, HeadsInv
<1>9. ApartInv' /\ DrainedInv'
  BY <1>1 DEF DatagramInv, ApartInv, DrainedInv
<1> QED
  BY <1>4, <1>7, <1>8, <1>9, Zenon DEF DatagramInv

\* The datagram that comes is new; the buffer of one that a closed connection
\* refuses goes back at once.
LEMMA Arrived ==
  ASSUME CallInv, DatagramInv, FeedCheck
  PROVE  DatagramInv'
<1>1. UNCHANGED <<cap, slots, out, ppc, returned>> /\ fed' = fed + 1 /\ fed \in Nat /\ fed + 1 \in Datagrams
  BY PacketAssumption, SMT DEF FeedCheck, CallInv, Datagrams
<1>0. PICK d0 \in Datagrams : d0 = fed + 1
  BY <1>1, Zenon
<1>2. ~Unplaced /\ \A d \in Datagrams : Fresh(d) <=> d > fed
  BY Zenon DEF FeedCheck, CallInv, Unplaced, Fresh, Datagrams
<1>3. \A d \in Datagrams : Fresh(d)' => Fresh(d)
  BY <1>1, <1>2, SMT DEF Fresh, Datagrams
<1>4. puts[d0] = 0 /\ d0 \notin returned
  BY <1>0, <1>1, <1>2, SMT DEF DatagramInv, FreshInv
<1>5. \A d \in Datagrams : d # d0 => puts'[d] = puts[d]
  BY <1>0, PutsBack, Zenon DEF FeedCheck, CallInv
<1>6. puts'[d0] \in {0, 1} /\ (Fresh(d0)' => puts'[d0] = 0)
  <2>1. CASE closed
    <3>1. PutBack(d0) /\ UNCHANGED feeder
      BY <1>0, <2>1, Zenon DEF FeedCheck
    <3>2. puts'[d0] = 1
      BY <1>4, <3>1, PutsBack DEF CallInv
    <3>3. ~Unplaced'
      BY <1>1, <1>2, <3>1, Zenon DEF Unplaced
    <3>4. ~(d0 > fed')
      BY <1>0, <1>1, SMT
    <3> QED
      BY <3>2, <3>3, <3>4, Zenon DEF Fresh
  <2>2. CASE ~closed
    BY <1>4, <2>2, Zenon DEF FeedCheck
  <2> QED
    BY <2>1, <2>2, Zenon
<1>7. BuffersOnce'
  BY <1>1, <1>4, <1>5, <1>6 DEF BuffersOnce, DatagramInv
<1>8. \A d : InRing(d) => InRing(d)'
  <2> SUFFICES ASSUME NEW d, InRing(d) PROVE InRing(d)'
    BY Zenon
  <2>1. d \in Datagrams /\ d # d0
    BY <1>0, <1>1, <1>2, SMT DEF InRing, Datagrams
  <2> QED
    BY <1>1, <1>3, <1>5, <2>1, Zenon DEF InRing
<1>9. FreshInv'
  BY <1>1, <1>3, <1>5, <1>6, Zenon DEF DatagramInv, FreshInv
<1>10. HeadsInv'
  BY <1>1, <1>8, Zenon DEF DatagramInv, HeadsInv
<1>11. ApartInv' /\ DrainedInv'
  BY <1>1, <1>8 DEF DatagramInv, ApartInv, DrainedInv
<1> QED
  BY <1>7, <1>9, <1>10, <1>11, Zenon DEF DatagramInv

\* The buffer that a closed ring drops goes back when Push returns.
LEMMA Dropped ==
  ASSUME CallInv, DatagramInv, FeedWake, ppc = "dropped"
  PROVE  DatagramInv'
<1>1. UNCHANGED <<cap, slots, out, fed, returned>> /\ PutBack(fed) /\ ppc' = "idle" /\ feeder' = "idle"
  BY Zenon DEF FeedWake, PushReturn
<1>2. Fresh(fed) /\ ~Unplaced' /\ fed \in Datagrams
  BY <1>1, SMT DEF CallInv, Unplaced, Fresh, Datagrams
<1>3. ~Fresh(fed)' /\ \A d \in Datagrams : Fresh(d)' => Fresh(d)
  BY <1>1, <1>2, SMT DEF Fresh, Datagrams
<1>4. puts'[fed] = 1 /\ fed \notin returned /\ \A d \in Datagrams : d # fed => puts'[d] = puts[d]
  BY <1>1, <1>2, PutsBack DEF DatagramInv, FreshInv, CallInv
<1>5. \A d : InRing(d) => InRing(d)'
  BY <1>1, <1>2, <1>3, <1>4, Zenon DEF InRing
<1>6. BuffersOnce'
  BY <1>1, <1>4 DEF BuffersOnce, DatagramInv
<1>7. FreshInv'
  BY <1>1, <1>3, <1>4, Zenon DEF DatagramInv, FreshInv
<1>8. HeadsInv'
  BY <1>1, <1>5, Zenon DEF DatagramInv, HeadsInv
<1>9. ApartInv' /\ DrainedInv'
  BY <1>1, <1>5 DEF DatagramInv, ApartInv, DrainedInv
<1> QED
  BY <1>6, <1>7, <1>8, <1>9, Zenon DEF DatagramInv

\* Every step keeps the slots well formed and every datagram in one place.
LEMMA DatagramStep ==
  ASSUME ChunkInv, ProducerInv, ConsumerInv, SlotInv, CallInv, DatagramInv, [Next]_vars
  PROVE  SlotInv' /\ DatagramInv'
<1>1. CASE FeedCheck
  BY <1>1, Arrived, Zenon DEF FeedCheck, SlotInv
<1>2. CASE FeedPush
  <2>1. /\ SlotInv' /\ (Fewer \/ PushSlot) /\ UNCHANGED <<fed, puts, returned, out>> /\ Unplaced
        /\ ppc = "idle"
    BY <1>2, SlotStep, Zenon DEF FeedPush, Push, Unplaced
  <2> QED
    BY <2>1, NoneAdded, Zenon DEF PushSlot
<1>3. CASE FeedPushing
  <2>1. SlotInv' /\ (Fewer \/ PushSlot) /\ UNCHANGED <<fed, feeder, puts, returned>> /\ feeder = "wake"
    BY <1>3, SlotStep, Zenon DEF FeedPushing, Pushing, PushLength, PushSwap, PushAlloc, PushLink, PushMove, PushSlot,
              PushTail, PushCount, CallInv
  <2>2. CASE PushSlot
    BY <2>1, <2>2, Placed, Zenon
  <2>3. CASE ~PushSlot
    <3>1. out' = out /\ (ppc' \in {"count", "pushed"} \/ ppc \in {"length", "swap", "alloc", "link", "move"})
      BY <1>3, <2>3, Zenon DEF FeedPushing, Pushing, PushLength, PushSwap, PushAlloc, PushLink, PushMove,
              PushTail, PushCount, consVars
    <3>2. Unplaced' => Unplaced
      BY <2>1, <3>1, Zenon DEF Unplaced
    <3> QED
      BY <2>1, <2>3, <3>1, <3>2, NoneAdded, Zenon
  <2> QED
    BY <2>2, <2>3, Zenon
<1>4. CASE FeedWake
  <2>1. /\ SlotInv' /\ (Fewer \/ PushSlot) /\ UNCHANGED <<fed, returned, out>> /\ ~Unplaced'
        /\ ppc \in {"pushed", "dropped"}
    BY <1>4, SlotStep, Zenon DEF FeedWake, PushReturn, Unplaced
  <2>2. CASE ppc = "dropped"
    BY <1>4, <2>1, <2>2, Dropped, Zenon
  <2>3. CASE ppc = "pushed"
    BY <1>4, <2>1, <2>3, NoneAdded, Zenon DEF FeedWake, PushSlot
  <2> QED
    BY <2>1, <2>2, <2>3, Zenon
<1>5. CASE OnRing
  <2>1. SlotInv' /\ (Fewer \/ PushSlot) /\ UNCHANGED <<fed, feeder, puts, returned>>
    BY <1>5, SlotStep, Zenon DEF OnRing, Looks
  <2>2. CASE TakeSlot
    BY <2>1, <2>2, Taken, Zenon
  <2>3. CASE ~TakeSlot
    <3>1. ppc' = ppc /\ out' \in {out, NoResult}
      BY <1>5, <2>3, Zenon DEF OnRing, Looks, Take, Taking, TakeTail, TakeNext, TakeLeave, TakeCount,
              CloseDetach, CloseWalk, Close, NothingThere, prodVars
    <3>2. Fewer /\ out'.drained \in {0, out.drained} /\ (Unplaced' => Unplaced)
      BY <2>1, <3>1 DEF PushSlot, NoResult, Unplaced
    <3> QED
      BY <2>1, <3>2, NoneAdded, Zenon
  <2> QED
    BY <2>2, <2>3, Zenon
<1>6. CASE Gives
  BY <1>6, Given, Zenon DEF Gives, TakeReturn, SlotInv
<1>7. CASE UNCHANGED <<ringVars, fed, feeder, puts, returned>>
  <2>1. UNCHANGED <<cap, slots, out, ppc>>
    BY <1>7, Zenon
  <2>2. Fewer /\ SlotInv' /\ (Unplaced' => Unplaced)
    BY <1>7, <2>1, Zenon DEF Fewer, SlotInv, Unplaced
  <2> QED
    BY <1>7, <2>1, <2>2, NoneAdded, Zenon
<1> QED
  BY <1>1, <1>2, <1>3, <1>4, <1>5, <1>6, <1>7, Kinds, Zenon

-----------------------------------------------------------------------------
(* The theorems                                                            *)

\* A new connection's ring is one empty chunk, and no datagram has come.
LEMMA InitInv == Init => IInv
<1> SUFFICES ASSUME Init PROVE IInv
  BY Zenon
<1> USE DEF Init, RingInit
<1>1. Made = {1} /\ 1 \in Chunks /\ 0 \notin Chunks /\ Made \subseteq Chunks
  BY RingAssumption, SMT DEF Made, Chunks
<1>2. ChunkInv
  BY <1>1, RingAssumption DEF ChunkInv
<1>3. ProducerInv /\ ConsumerInv
  BY <1>1, <1>2, Zenon DEF ProducerInv, ConsumerInv, ChunkInv
<1>4. ListInv
  <2>1. Chain({1}) /\ Linking({1}) /\ {1} \in SUBSET Chunks
    BY <1>1, Zenon DEF Chain, Linking, Last
  <2> QED
    BY <2>1, Zenon DEF ListInv
<1>5. /\ SlotInv /\ \A k \in Chunks : \A i \in 0..cap[k]-1 : slots[k][i].head = 0
  BY RingAssumption, Blanks, Zenon DEF SlotInv
<1>6. CallInv
  BY PacketAssumption DEF CallInv, Empty, Parts, NoResult
<1>7. out.drained = 0 /\ \A d \in Datagrams : puts[d] = 0 /\ d \notin returned
  BY Zenon DEF NoResult
<1> HIDE DEF Init, RingInit
<1>8. BuffersOnce /\ FreshInv /\ DrainedInv
  BY <1>7 DEF BuffersOnce, FreshInv, DrainedInv
<1>9. HeadsInv /\ ApartInv
  BY <1>5, Zenon DEF HeadsInv, ApartInv
<1> QED
  BY <1>2, <1>3, <1>4, <1>5, <1>6, <1>8, <1>9, Zenon DEF IInv, DatagramInv

\* Every step keeps the invariant.
LEMMA StepInv == IInv /\ [Next]_vars => IInv'
<1> SUFFICES ASSUME IInv, [Next]_vars PROVE IInv'
  BY Zenon
<1>1. ChunkInv /\ ProducerInv /\ ConsumerInv /\ ListInv /\ SlotInv /\ CallInv /\ DatagramInv
  BY Zenon DEF IInv
<1>2. CallInv' /\ SlotInv' /\ DatagramInv'
  BY <1>1, CallStep, DatagramStep, Zenon
<1>3. CASE FeedPush \/ FeedPushing \/ FeedWake
  <2>1. FeedPush \/ Pushing \/ PushReturn
    BY <1>3, Zenon DEF FeedPushing, FeedWake
  <2> QED
    BY <1>1, <1>2, <2>1, ProducerPlaces, RingList, Zenon DEF IInv
<1>4. CASE OnRing \/ Gives
  <2>1. (\E o, n : Take(o, n)) \/ Taking \/ TakeReturn \/ Close
    BY <1>4, Zenon DEF OnRing, Looks, Gives
  <2> QED
    BY <1>1, <1>2, <2>1, ConsumerPlaces, RingList, Zenon DEF IInv
<1>5. CASE UNCHANGED ringVars
  <2>1. UNCHANGED <<cap, tail, next, allocated, pool, ppc, pChunk, pc, nxt, idx, cpc, cChunk, freeChunk,
                    cc, cHead, cachedTail>>
    BY <1>5, Zenon
  <2>2. ChunkInv'
    BY <1>1, <2>1, Zenon DEF ChunkInv, Made
  <2>3. ProducerInv'
    BY <1>1, <2>1, Zenon DEF ProducerInv, Made
  <2>4. ConsumerInv'
    BY <1>1, <2>1, Zenon DEF ConsumerInv, Made
  <2>5. ListInv'
    BY <1>1, <2>1, Zenon DEF ListInv, Chain, Linking, Last, Made
  <2> QED
    BY <1>2, <2>2, <2>3, <2>4, <2>5, Zenon DEF IInv
<1> QED
  BY <1>3, <1>4, <1>5, Kinds, Zenon DEF FeedCheck

\* The invariant holds in every reachable state of the connection and its ring.
THEOREM Invariance == Spec => []IInv
BY InitInv, StepInv, PTL DEF Spec

\* Neither Push nor Pop, PartialRead and Close hold a chunk that is in chunkPool, as
\* long as the ring is open.
THEOREM OwnChunksTheorem == Spec => []OwnChunks
<1>1. IInv => OwnChunks
  <2> SUFFICES ASSUME IInv, cChunk # 0 PROVE Held \intersect pool = {}
    BY Zenon DEF OwnChunks
  <2>1. PICK L \in SUBSET Chunks : Chain(L) /\ Linking(L)
    BY Zenon DEF IInv, ListInv
  <2>2. 0 \notin pool
    BY MadeChunks, Zenon DEF IInv, ChunkInv
  <2>3. cChunk \notin pool /\ freeChunk \notin pool /\ Last \notin pool
    BY <2>1, Zenon DEF IInv, ListInv, Chain
  <2>4. CASE ppc = "move"
    BY <2>3, <2>4, Zenon DEF Held, Last
  <2>5. CASE ppc # "move"
    <3>1. pChunk \notin pool /\ pc \in {0, pChunk}
      BY <2>3, <2>5, Zenon DEF IInv, ListInv, Last
    <3>2. nxt \notin pool
      BY <2>1, <2>2, <2>5, Zenon DEF IInv, ProducerInv, Linking
    <3> QED
      BY <2>2, <2>3, <2>5, <3>1, <3>2, Zenon DEF Held
  <2> QED
    BY <2>4, <2>5, Zenon
<1> QED
  BY <1>1, Invariance, PTL

\* The buffer of a datagram goes back to defaultAllocator at most once, and never when
\* ReadPacket gave it to the session.
THEOREM BuffersTheorem == Spec => []BuffersOnce
<1>1. IInv => BuffersOnce
  BY Zenon DEF IInv, DatagramInv
<1> QED
  BY <1>1, Invariance, PTL

-----------------------------------------------------------------------------
(* The numbers of the datagrams                                            *)

\* How many datagrams Push has published, and how many were taken out whole, whether or
\* not they are counted yet.
Published == totalPushed + (IF ppc = "count" THEN 1 ELSE 0)
Consumed == totalPopped + (IF cpc = "count" THEN 1 ELSE 0)

\* Slot i of a chunk k of the list holds the datagram numbered B[k]+i+1, of which
\* only the first in the list may have been read in part.
Holds(B, k, i) ==
  /\ slots[k][i].head = B[k] + i + 1
  /\ slots[k][i].left \in 1..DatagramLen
  /\ k # cChunk \/ i # cHead => slots[k][i].left = DatagramLen

\* B numbers the chunks of the list L by the datagrams before theirs; along all the
\* links, those of the chunks that left the list too, the numbers grow.
Numbered(L, B) ==
  /\ B[cChunk] + cHead = Consumed
  /\ B[Last] + tail[Last] = Published
  /\ \A k \in Chunks : next[k] # 0 => B[k] < B[next[k]]
  /\ \A k \in L \ {Last} : tail[k] = cap[k] /\ B[next[k]] = B[k] + cap[k]
  /\ \A k \in L : \A i \in 0..tail[k]-1 : (k = cChunk => cHead <= i) => Holds(B, k, i)

\* What is in an open ring: the datagrams from Consumed+1 to Published.
NumberInv ==
  /\ totalPushed \in Nat /\ totalPopped \in Nat
  /\ cChunk # 0 =>
       \E L \in SUBSET Chunks, B \in [Chunks -> 0..Published] :
         Chain(L) /\ Linking(L) /\ Numbered(L, B)

\* What the two sides of an open ring know about their ends of the list.
EndsInv ==
  cChunk # 0 =>
    /\ cHead <= tail[cChunk] /\ cachedTail <= tail[cChunk]
    /\ cpc = "slot" => cHead < tail[cc]
    /\ cpc \in {"next", "leave"} => cap[cc] <= cHead
    /\ ppc \in {"length", "swap", "alloc", "link"} => tail[pc] = cap[pc]
    /\ ppc = "move" => tail[nxt] = 0
    /\ ppc = "tail" => idx = tail[pc] /\ slots[pc][idx] = item

\* Until the ring is closed, Push is called with one datagram after the other.
FeedInv ==
  cChunk # 0 =>
    /\ feeder = "idle" /\ ~closed => fed = Published
    /\ feeder = "checked" \/ ppc \in {"length", "swap", "alloc", "link", "move", "slot", "tail"}
         => fed = Published + 1
    /\ ppc \in {"count", "pushed"} => fed = Published
    /\ ppc # "dropped"
    /\ ppc # "idle" => item = [head |-> fed, left |-> DatagramLen]

\* Who holds readMu, who is at the ring's consuming end and with which call, and
\* what the call may ask for and give.
TurnInv ==
  /\ rpc \notin {"idle", "lock", "ended"} <=> readMu = "reader"
  /\ closer \in {"drain", "close", "closing"} <=> readMu = "closer"
  /\ cpc # "idle" => rpc \in {"scan", "rescan", "drain"} \/ closer \in {"drain", "closing"}
  /\ rpc = "rescan" => call = "Read"
  /\ call = "Read" /\ rpc \in {"scan", "rescan"} /\ cpc # "idle" => op = "partial" /\ room = want
OpInv ==
  /\ cpc = "idle" <=> op = "none"
  /\ cpc \in {"detach", "walk"} => op = "close"
  /\ cpc \in {"tail", "slot", "next", "leave", "count"} => op \in {"pop", "partial"}
RoomInv ==
  /\ want \in Nat /\ room \in Nat
  /\ op = "partial" /\ cpc \in {"count", "done"} => out.n \in 0..room

QueueInv == NumberInv /\ EndsInv /\ FeedInv /\ TurnInv /\ OpInv /\ RoomInv

-----------------------------------------------------------------------------
\* What the steps of the producer leave alone of the list L, and of all links.
LEMMA ProducerKeeps ==
  ASSUME ChunkInv, ProducerInv, ConsumerInv, ListInv, SlotInv, FeedPush \/ Pushing \/ PushReturn,
         cChunk # 0, NEW L \in SUBSET Chunks, Chain(L), Linking(L)
  PROVE  /\ UNCHANGED <<cChunk, cHead, cachedTail, totalPopped, cpc, op, cc, room, out>>
         /\ \A k \in L : cap'[k] = cap[k] /\ (~PushTail => tail'[k] = tail[k])
                         /\ (~PushSlot => slots'[k] = slots[k]) /\ (~PushLink => next'[k] = next[k])
         /\ \A k \in Chunks : ~PushLink => next'[k] \in {0, next[k]}
<1>0. L \subseteq Made /\ Made \subseteq Chunks /\ 0 \notin Chunks /\ freeChunk \notin L /\ L \intersect pool = {}
  BY MadeChunks, Zenon DEF Chain
<1>1. UNCHANGED <<cChunk, cHead, cachedTail, totalPopped, cpc, op, cc, room, out>>
  BY Zenon DEF FeedPush, Push, Pushing, PushLength, PushSwap, PushAlloc, PushLink, PushMove,
              PushSlot, PushTail, PushCount, PushReturn
<1>2. CASE FeedPush \/ PushReturn \/ PushLength \/ PushMove \/ PushCount
  BY <1>1, <1>2, Zenon DEF FeedPush, Push, PushLength, PushMove, PushCount, PushReturn
<1>3. CASE PushSlot \/ PushTail \/ PushLink
  BY <1>1, <1>3, Zenon DEF PushSlot, PushTail, PushLink
<1>4. CASE PushSwap
  BY <1>0, <1>1, <1>4, Zenon DEF PushSwap, RecycleChunk, ChunkInv, SlotInv, ConsumerInv
<1>5. CASE PushAlloc
  <2>1. PICK k \in Chunks : NewChunk(k, IF lag = 0 THEN MinChunkCap ELSE NextCap)
    BY <1>5, Zenon DEF PushAlloc
  <2>2. /\ (k \in pool \/ k \notin Made) /\ next'[k] = 0 
        /\ \A j \in Chunks \ {k} : next'[j] = next[j] /\ tail'[j] = tail[j]
        /\ \A j \in Made : cap'[j] = cap[j]
    BY <2>1, NewlyMade, Zenon
  <2>3. k \notin L
    BY <1>0, <2>2, Zenon
  <2>4. \A j \in Chunks \ {k} : slots'[j] = slots[j]
    BY <2>1, Zenon DEF NewChunk, SlotInv
  <2> QED
    BY <1>0, <1>1, <2>2, <2>3, <2>4, Zenon
<1> QED
  BY <1>2, <1>3, <1>4, <1>5, Zenon DEF Pushing

\* What the steps of the consumer leave alone of the list L, and of all links.
LEMMA ConsumerKeeps ==
  ASSUME ChunkInv, ProducerInv, ConsumerInv, ListInv, SlotInv,
         (\E o, n : Take(o, n)) \/ Taking \/ TakeReturn \/ Close,
         cChunk # 0, cChunk' # 0, NEW L \in SUBSET Chunks, Chain(L)
  PROVE  /\ UNCHANGED <<pChunk, totalPushed, ppc, pc, nxt, item, idx>>
         /\ \A k \in L : cap'[k] = cap[k] /\ tail'[k] = tail[k] /\ next'[k] = next[k]
                         /\ (~TakeSlot => slots'[k] = slots[k])
         /\ \A k \in Chunks : next'[k] \in {0, next[k]}
<1>0. L \subseteq Made /\ Made \subseteq Chunks /\ 0 \notin Chunks /\ freeChunk \notin L
  BY MadeChunks, Zenon DEF Chain
<1>1. ~CloseDetach /\ ~CloseWalk
  BY Zenon DEF CloseDetach, CloseWalk, ConsumerInv
<1>2. UNCHANGED <<pChunk, totalPushed, ppc, pc, nxt, item, idx, cap>>
  BY <1>1, Zenon DEF Take, Taking, TakeTail, TakeNext, TakeLeave, TakeSlot, TakeCount, TakeReturn, Close
<1>3. CASE (\E o, n : Take(o, n)) \/ TakeTail \/ TakeNext \/ TakeSlot \/ TakeCount \/ TakeReturn
  BY <1>2, <1>3, Zenon DEF Take, TakeTail, TakeNext, TakeSlot, TakeCount, TakeReturn
<1>4. CASE TakeLeave \/ Close
  BY <1>0, <1>2, <1>4, Zenon DEF TakeLeave, Close, RecycleChunk, ChunkInv, SlotInv, ConsumerInv
<1> QED
  BY <1>1, <1>3, <1>4, Zenon DEF Taking

\* A step that neither publishes nor takes a datagram, and changes no chunk of the
\* list, keeps the numbers.
LEMMA SameNumbers ==
  ASSUME ChunkInv, NEW L \in SUBSET Chunks, NEW B, Chain(L), Numbered(L, B),
         UNCHANGED <<cChunk, cHead, Consumed, Published, Last>>,
         \A k \in L : cap'[k] = cap[k] /\ tail'[k] = tail[k] /\ next'[k] = next[k],
         \A k \in L : \A i \in 0..tail[k]-1 : slots'[k][i] = slots[k][i],
         \A k \in Chunks : next'[k] \in {0, next[k]}
  PROVE  Numbered(L, B)'
<1>1. cChunk \in L /\ Last \in L
  BY Zenon DEF Chain
<1>2. cChunk' = cChunk /\ cHead' = cHead /\ Consumed' = Consumed /\ Published' = Published /\ Last' = Last
  BY Zenon
<1>3. (B[cChunk] + cHead = Consumed)' /\ (B[Last] + tail[Last] = Published)'
  BY <1>1, <1>2, Zenon DEF Numbered
<1>4. (\A k \in Chunks : next[k] # 0 => B[k] < B[next[k]])'
  BY Zenon DEF Numbered
<1>5. (\A k \in L \ {Last} : tail[k] = cap[k] /\ B[next[k]] = B[k] + cap[k])'
  BY <1>2, Zenon DEF Numbered
<1>6. (\A k \in L : \A i \in 0..tail[k]-1 : (k = cChunk => cHead <= i) => Holds(B, k, i))'
  <2> SUFFICES ASSUME NEW k \in L, NEW i \in 0..tail'[k]-1, k = cChunk => cHead <= i PROVE Holds(B, k, i)'
    BY <1>2, Zenon
  <2>1. i \in 0..tail[k]-1 /\ slots'[k][i] = slots[k][i]
    BY Zenon
  <2>2. Holds(B, k, i)
    BY <2>1, Zenon DEF Numbered
  <2> QED
    BY <1>2, <2>1, <2>2, Zenon DEF Holds
<1> QED
  BY <1>3, <1>4, <1>5, <1>6, Zenon DEF Numbered

\* What Push publishes: PushTail one datagram, the other steps none.
LEMMA PublishedStep ==
  ASSUME ProducerInv, totalPushed \in Nat, FeedPush \/ Pushing \/ PushReturn
  PROVE  /\ Published \in Nat /\ (PushTail => Published' = Published + 1)
         /\ ~PushTail => Published' = Published
         /\ totalPushed' \in Nat
<1>1. CASE PushTail
  BY <1>1 DEF PushTail, Published
<1>2. CASE PushCount
  BY <1>2 DEF PushCount, PushTail, Published
<1>3. CASE FeedPush \/ PushReturn \/ PushLength \/ PushSwap \/ PushAlloc \/ PushLink \/ PushMove \/ PushSlot
  <2>1. ppc # "count" /\ ppc' # "count" /\ ppc # "tail" /\ totalPushed' = totalPushed
    BY <1>3, Zenon DEF FeedPush, Push, PushLength, PushSwap, PushAlloc, PushLink, PushMove, PushSlot, PushReturn
  <2> QED
    BY <2>1 DEF Published, PushTail
<1> QED
  BY <1>1, <1>2, <1>3, Zenon DEF Pushing

\* The chunk that PushLink adds to the list starts where the last one ends.
LEMMA LinkNumbers ==
  ASSUME ChunkInv, ProducerInv, ListInv, EndsInv, cChunk # 0, totalPushed \in Nat,
         NEW L \in SUBSET Chunks, NEW B \in [Chunks -> 0..Published],
         Chain(L), Linking(L), Numbered(L, B), PushLink
  PROVE  \E C \in [Chunks -> 0..Published] : Numbered(L \union {nxt}, C)'
<1>1. PICK p, m, P : p = pc /\ m = nxt /\ P = Published
  BY Zenon
<1>2. /\ p = pChunk /\ p \in L /\ m \in Chunks \ L /\ next[m] = 0 /\ p = Last /\ Last' = m
      /\ tail[m] = 0 /\ tail[p] = cap[p] /\ cap[p] \in Nat \ {0} /\ next \in [Chunks -> {0} \union Made]
      /\ cChunk \in L /\ m # 0
  BY <1>1, MadeChunks, Zenon DEF PushLink, ListInv, Chain, Linking, ProducerInv, ChunkInv, EndsInv, Last
<1>3. /\ next' = [next EXCEPT ![p] = m]
      /\ UNCHANGED <<cap, tail, slots, cChunk, cHead, nxt>> /\ Consumed' = Consumed /\ Published' = Published
  BY <1>1, Zenon DEF PushLink, Consumed, Published
<1>4. Published \in 0..Published /\ Published \in Nat
  BY DEF Published
<1>0. PICK C : C = [B EXCEPT ![m] = P]
  BY Zenon
<1>5. /\ C \in [Chunks -> 0..Published] /\ C[m] = Published
      /\ \A k \in Chunks \ {m} : C[k] = B[k] /\ B[k] \in Nat /\ B[k] <= Published
  BY <1>0, <1>1, <1>2, <1>4
<1>6. B[p] + cap[p] = Published
  BY <1>2, Zenon DEF Numbered
<1>7. (C[cChunk] + cHead = Consumed)' /\ (C[Last] + tail[Last] = Published)'
  <2>1. cChunk \in Chunks \ {m} /\ B[cChunk] + cHead = Consumed /\ Published + 0 = Published
    BY <1>2, <1>4 DEF Numbered
  <2> QED
    BY <1>2, <1>3, <1>5, <2>1, Zenon
<1>8. (\A k \in Chunks : next[k] # 0 => C[k] < C[next[k]])'
  <2> SUFFICES ASSUME NEW k \in Chunks, next'[k] # 0 PROVE C[k] < C[next'[k]]
    BY Zenon
  <2>1. CASE k = p
    BY <1>2, <1>3, <1>5, <1>6, <2>1
  <2>2. CASE k # p
    <3>1. next'[k] = next[k] /\ k # m /\ B[k] < B[next[k]] /\ next[k] \in Chunks
      BY <1>2, <1>3, <2>2, MadeChunks, Zenon DEF Numbered
    <3>2. CASE next[k] = m
      <4>1. B[m] \in Nat /\ B[m] <= Published
        BY <1>2
      <4> QED
        BY <1>5, <3>1, <3>2, <4>1
    <3>3. CASE next[k] # m
      BY <1>5, <3>1, <3>3, Zenon
    <3> QED
      BY <3>2, <3>3, Zenon
  <2> QED
    BY <2>1, <2>2, Zenon
<1>9. (\A k \in (L \union {m}) \ {Last} : tail[k] = cap[k] /\ C[next[k]] = C[k] + cap[k])'
  <2> SUFFICES ASSUME NEW k \in L PROVE tail[k] = cap[k] /\ C[next'[k]] = C[k] + cap[k]
    BY <1>2, <1>3, Zenon
  <2>1. CASE k = p
    BY <1>2, <1>3, <1>5, <1>6, <2>1, Zenon
  <2>2. CASE k # p
    <3>1. next'[k] = next[k] /\ k # m /\ next[k] \in L
      BY <1>2, <1>3, <2>2, Zenon DEF Chain
    <3>2. tail[k] = cap[k] /\ B[next[k]] = B[k] + cap[k]
      BY <1>2, <2>2, Zenon DEF Numbered
    <3> QED
      BY <1>2, <1>5, <3>1, <3>2, Zenon
  <2> QED
    BY <2>1, <2>2, Zenon
<1>10. (\A k \in L \union {m} : \A i \in 0..tail[k]-1 : (k = cChunk => cHead <= i) => Holds(C, k, i))'
  <2> SUFFICES ASSUME NEW k \in L \union {m}, NEW i \in 0..tail[k]-1, k = cChunk => cHead <= i
               PROVE  Holds(C, k, i)'
    BY <1>3, Zenon
  <2>1. k # m
    BY <1>2
  <2>2. Holds(B, k, i)
    BY <2>1, Zenon DEF Numbered
  <2> QED
    BY <1>2, <1>3, <1>5, <2>1, <2>2, Zenon DEF Holds
<1>11. Numbered(L \union {m}, C)'
  BY <1>7, <1>8, <1>9, <1>10, Zenon DEF Numbered
<1> QED
  <2>1. (L \union {nxt})' = L \union {m}
    BY <1>1, <1>3, Zenon
  <2> QED
    BY <1>5, <1>11, <2>1, Zenon

\* PushTail publishes the next datagram in the last chunk.
LEMMA TailNumbers ==
  ASSUME ChunkInv, ProducerInv, ListInv, EndsInv, FeedInv, cChunk # 0, totalPushed \in Nat,
         DatagramLen \in Nat \ {0},
         NEW L \in SUBSET Chunks, NEW B \in [Chunks -> 0..Published],
         Chain(L), Linking(L), Numbered(L, B), PushTail
  PROVE  B \in [Chunks -> 0..Published'] /\ Numbered(L, B)'
<1>1. PICK p : p = pc
  BY Zenon
<1>2. /\ p = pChunk /\ p \in L /\ p = Last /\ Last' = Last /\ cChunk \in L
      /\ item.head = Published + 1 /\ item.left = DatagramLen
      /\ idx = tail[p] /\ slots[p][idx] = item /\ tail \in [Chunks -> Nat]
  <2>1. item = [head |-> Published + 1, left |-> DatagramLen]
    BY Zenon DEF PushTail, FeedInv
  <2>2. item.head = Published + 1 /\ item.left = DatagramLen
    BY <2>1, Zenon
  <2> QED
    BY <1>1, <2>2, Zenon DEF PushTail, ListInv, Chain, EndsInv, Last, ChunkInv
<1>3. /\ tail' = [tail EXCEPT ![p] = tail[p] + 1]
      /\ UNCHANGED <<cap, next, slots, cChunk, cHead>> /\ Consumed' = Consumed
  BY <1>1, <1>2, Zenon DEF PushTail, Consumed
<1>4. Published' = Published + 1 /\ Published \in Nat /\ B[p] \in Nat /\ tail[p] \in Nat
  <2>1. FeedPush \/ Pushing \/ PushReturn
    BY Zenon DEF Pushing
  <2>2. \A n \in 0..Published : n \in Nat
    OBVIOUS
  <2> QED
    BY <1>2, <2>1, <2>2, PublishedStep, Zenon
<1>5. B \in [Chunks -> 0..Published']
  BY <1>4
<1>6. tail'[p] = tail[p] + 1 /\ \A k \in L : k # p => tail'[k] = tail[k]
  BY <1>2, <1>3, Zenon
<1>7. B[p] + tail[p] = Published /\ B[cChunk] + cHead = Consumed
  BY <1>2, Zenon DEF Numbered
<1>8. (B[cChunk] + cHead = Consumed)' /\ (B[Last] + tail[Last] = Published)'
  BY <1>2, <1>3, <1>4, <1>6, <1>7
<1>9. (\A k \in L \ {Last} : tail[k] = cap[k] /\ B[next[k]] = B[k] + cap[k])'
  BY <1>2, <1>3, <1>6, Zenon DEF Numbered
<1>10. (\A k \in L : \A i \in 0..tail[k]-1 : (k = cChunk => cHead <= i) => Holds(B, k, i))'
  <2> SUFFICES ASSUME NEW k \in L, NEW i \in 0..tail'[k]-1, k = cChunk => cHead <= i PROVE Holds(B, k, i)'
    BY <1>3, Zenon
  <2>1. CASE i \in 0..tail[k]-1
    <3>1. Holds(B, k, i)
      BY <2>1, Zenon DEF Numbered
    <3> QED
      BY <1>3, <3>1, Zenon DEF Holds
  <2>2. CASE i \notin 0..tail[k]-1
    <3>1. k = p /\ i = tail[p]
      BY <1>2, <1>6, <2>2
    <3>2. slots'[k][i].head = B[k] + i + 1 /\ slots'[k][i].left = DatagramLen
      BY <1>2, <1>3, <1>7, <3>1, Zenon
    <3>3. DatagramLen \in 1..DatagramLen
      OBVIOUS
    <3> QED
      BY <3>2, <3>3, Zenon DEF Holds
  <2> QED
    BY <2>1, <2>2, Zenon
<1> QED
  BY <1>3, <1>5, <1>8, <1>9, <1>10, Zenon DEF Numbered

\* The first slot of the list: TakeSlot takes its datagram, the next in number, whole,
\* or a part of it that leaves something.
LEMMA FirstSlot ==
  ASSUME ChunkInv, ConsumerInv, SlotInv, EndsInv, room \in Nat, op \in {"pop", "partial"}, cChunk # 0,
         NEW L \in SUBSET Chunks, NEW B, Chain(L), Numbered(L, B), TakeSlot,
         NEW s, s = slots[cChunk][cHead], NEW n, n = out'.n
  PROVE  /\ cc = cChunk /\ cHead \in 0..tail[cChunk]-1 /\ cHead \in 0..cap[cChunk]-1
         /\ s \in Parts /\ s.head = Consumed + 1 /\ s.left \in 1..DatagramLen
         /\ n \in 0..s.left /\ (op = "partial" => n <= room)
         /\ IF op = "pop" \/ n = s.left
              THEN /\ cHead' = cHead + 1 /\ cpc' = "count"
                   /\ out' = [ok |-> TRUE, n |-> n, drained |-> s.head]
                   /\ slots' = [slots EXCEPT ![cChunk][cHead] = Empty]
              ELSE /\ cHead' = cHead /\ cpc' = "done"
                   /\ out' = [ok |-> TRUE, n |-> n, drained |-> 0]
                   /\ slots' = [slots EXCEPT ![cChunk][cHead] = [s EXCEPT !.left = s.left - n]]
<1>1. cc = cChunk /\ cHead < tail[cChunk] /\ cHead \in Nat /\ cChunk \in L /\ cChunk \in Chunks
  BY MadeChunks, Zenon DEF TakeSlot, ConsumerInv, EndsInv, Chain
<1>2. tail[cChunk] \in Nat /\ cap[cChunk] \in Nat /\ tail[cChunk] <= cap[cChunk]
  BY <1>1, Zenon DEF ChunkInv
<1>3. cHead \in 0..tail[cChunk]-1 /\ cHead \in 0..cap[cChunk]-1 /\ cHead <= cHead
  BY <1>1, <1>2
<1>4. s \in Parts
  BY <1>1, <1>3, Zenon DEF SlotInv
<1>5. Holds(B, cChunk, cHead) /\ B[cChunk] + cHead = Consumed
  BY <1>1, <1>3, Zenon DEF Numbered
<1>6. s.head = Consumed + 1 /\ s.left \in 1..DatagramLen
  BY <1>5, Zenon DEF Holds
<1>7. PICK m : m = IF op = "pop" \/ room > s.left THEN s.left ELSE room
  BY Zenon
<1>8. n = IF op = "pop" \/ room > s.left THEN s.left ELSE room
  <2>1. out' = [ok |-> TRUE, n |-> m, drained |-> IF op = "pop" \/ m = s.left THEN s.head ELSE 0]
    BY <1>1, <1>7, Zenon DEF TakeSlot
  <2>2. out'.n = m
    BY <2>1, Zenon
  <2> QED
    BY <1>7, <2>2, Zenon
<1>9. n \in 0..s.left /\ (op = "partial" => n <= room)
  <2>1. s.left \in Nat
    BY <1>6
  <2>2. CASE op = "pop"
    BY <1>8, <2>1, <2>2
  <2>3. CASE op # "pop"
    BY <1>8, <2>1, <2>3
  <2> QED
    BY <2>2, <2>3, Zenon
<1>10. /\ cHead' = IF op = "pop" \/ n = s.left THEN cHead + 1 ELSE cHead
       /\ cpc' = IF op = "pop" \/ n = s.left THEN "count" ELSE "done"
       /\ slots' = [slots EXCEPT ![cChunk][cHead] =
                      IF op = "pop" \/ n = s.left THEN Empty ELSE [s EXCEPT !.left = s.left - n]]
  BY <1>1, <1>8, Zenon DEF TakeSlot
<1>11. out' = [ok |-> TRUE, n |-> n, drained |-> IF op = "pop" \/ n = s.left THEN s.head ELSE 0]
  BY <1>1, <1>8, Zenon DEF TakeSlot
<1>12. CASE op = "pop" \/ n = s.left
  BY <1>1, <1>3, <1>4, <1>6, <1>9, <1>10, <1>11, <1>12, Zenon
<1>13. CASE ~(op = "pop" \/ n = s.left)
  BY <1>1, <1>3, <1>4, <1>6, <1>9, <1>10, <1>11, <1>13, Zenon
<1> QED
  BY <1>12, <1>13, Zenon

\* TakeSlot moves the front of the list on, or leaves some of its first datagram.
LEMMA SlotNumbers ==
  ASSUME ChunkInv, ConsumerInv, SlotInv, EndsInv, room \in Nat, op \in {"pop", "partial"}, cChunk # 0,
         totalPopped \in Nat, DatagramLen \in Nat,
         NEW L \in SUBSET Chunks, NEW B \in [Chunks -> Nat], Chain(L), Numbered(L, B), TakeSlot
  PROVE  /\ Numbered(L, B)' /\ Published' = Published /\ totalPopped' = totalPopped
         /\ Consumed' = IF op = "pop" \/ out'.n = slots[cChunk][cHead].left THEN Consumed + 1 ELSE Consumed
<1>0. PICK s, n : s = slots[cChunk][cHead] /\ n = out'.n
  BY Zenon
<1>1. PICK c, h : c = cChunk /\ h = cHead
  BY Zenon
<1>2. /\ cc = c /\ h \in 0..tail[c]-1 /\ h \in 0..cap[c]-1
      /\ s \in Parts /\ s.head = Consumed + 1 /\ s.left \in 1..DatagramLen
      /\ n \in 0..s.left
      /\ IF op = "pop" \/ n = s.left
              THEN /\ cHead' = h + 1 /\ cpc' = "count"
                   /\ slots' = [slots EXCEPT ![c][h] = Empty]
              ELSE /\ cHead' = h /\ cpc' = "done"
                   /\ slots' = [slots EXCEPT ![c][h] = [s EXCEPT !.left = s.left - n]]
  BY <1>0, <1>1, FirstSlot
<1>3. /\ UNCHANGED <<cap, tail, next, cChunk, totalPopped>> /\ Last' = Last /\ Published' = Published
      /\ cpc = "slot" /\ c \in L /\ c \in Chunks /\ Last \in L
  BY <1>1, Zenon DEF TakeSlot, Last, Published, Chain
<1>4. B[c] + h = Consumed /\ h \in Nat /\ tail[c] \in Nat
  BY <1>1, <1>3, Zenon DEF Numbered, ConsumerInv, ChunkInv
<1>5. Consumed' = IF op = "pop" \/ n = s.left THEN Consumed + 1 ELSE Consumed
  BY <1>2, <1>3 DEF Consumed
<1>6. \A k \in L : \A i \in 0..cap[k]-1 : k # c \/ i # h => slots'[k][i] = slots[k][i]
  <2>1. PICK r : slots' = [slots EXCEPT ![c][h] = r]
    BY <1>2, Zenon
  <2>2. \A k \in L : slots'[k] = IF k = c THEN [slots[c] EXCEPT ![h] = r] ELSE slots[k]
    BY <1>3, <2>1, Zenon DEF SlotInv
  <2> QED
    BY <1>3, <2>2, Zenon DEF SlotInv
<1>7. (B[cChunk] + cHead = Consumed)' /\ (B[Last] + tail[Last] = Published)'
  <2>1. B[Last] + tail[Last] = Published
    BY Zenon DEF Numbered
  <2>2. B[c] + cHead' = Consumed'
    <3>1. PICK b \in Nat : b = B[c]
      BY <1>3, Zenon
    <3> QED
      BY <1>2, <1>4, <1>5, <3>1
  <2> QED
    BY <1>1, <1>3, <2>1, <2>2, Zenon
<1>8. ASSUME NEW k \in L, NEW i \in 0..tail[k]-1, k = c => cHead' <= i PROVE Holds(B, k, i)'
  <2>0. k \in Chunks /\ tail[k] \in Nat /\ cap[k] \in Nat /\ tail[k] <= cap[k]
    BY Zenon DEF ChunkInv
  <2>1. i \in 0..cap[k]-1 /\ i \in Nat /\ (k = c => h <= i)
    BY <1>2, <1>4, <1>8, <2>0
  <2>2. Holds(B, k, i)
    BY <1>1, <2>1, Zenon DEF Numbered
  <2>3. CASE k # c \/ i # h
    BY <1>1, <1>6, <2>1, <2>2, <2>3, Zenon DEF Holds
  <2>4. CASE k = c /\ i = h
    <3>1. ~(op = "pop" \/ n = s.left)
      BY <1>2, <1>4, <1>8, <2>4
    <3>2. slots'[k][i] = [s EXCEPT !.left = s.left - n] /\ cHead' = h
      <4>1. PICK r : r = [s EXCEPT !.left = s.left - n]
        BY Zenon
      <4>2. slots' = [slots EXCEPT ![c][h] = r] /\ cHead' = h
        BY <1>2, <3>1, <4>1, Zenon
      <4>3. slots'[c] = [slots[c] EXCEPT ![h] = r]
        BY <1>3, <4>2, Zenon DEF SlotInv
      <4> QED
        BY <1>2, <1>3, <2>4, <4>1, <4>2, <4>3, Zenon DEF SlotInv
    <3>3. slots'[k][i].head = s.head /\ slots'[k][i].left = s.left - n
      <4>1. PICK x, d : x = slots'[k][i] /\ d = s.left - n
        BY Zenon
      <4>2. s \in Parts /\ x = [s EXCEPT !.left = d]
        BY <1>2, <3>2, <4>1, Zenon
      <4>3. x.head = s.head /\ x.left = d
        BY <4>2 DEF Parts
      <4> QED
        BY <4>1, <4>3, Zenon
    <3>4. s.left - n \in 1..DatagramLen
      BY <1>2, <3>1
    <3> QED
      <4>1. s.head = B[k] + i + 1 /\ cChunk' = k /\ cHead' = i
        BY <1>0, <1>1, <1>3, <2>2, <2>4, <3>2, Zenon DEF Holds
      <4> QED
        BY <3>3, <3>4, <4>1, Zenon DEF Holds
  <2> QED
    BY <2>3, <2>4, Zenon
<1>9. (\A k \in L : \A i \in 0..tail[k]-1 : (k = cChunk => cHead <= i) => Holds(B, k, i))'
  BY <1>1, <1>3, <1>8, Zenon
<1>10. /\ (\A k \in Chunks : next[k] # 0 => B[k] < B[next[k]])'
       /\ (\A k \in L \ {Last} : tail[k] = cap[k] /\ B[next[k]] = B[k] + cap[k])'
  BY <1>3, Zenon DEF Numbered
<1>11. Numbered(L, B)'
  BY <1>7, <1>9, <1>10, Zenon DEF Numbered
<1> QED
  BY <1>0, <1>3, <1>5, <1>11, Zenon

\* What is consumed: a datagram by TakeSlot, when it takes it whole, and none by the
\* other steps.
LEMMA ConsumedStep ==
  ASSUME totalPopped \in Nat, (\E o, n : Take(o, n)) \/ Taking \/ TakeReturn \/ Close
  PROVE  Consumed \in Nat /\ totalPopped' \in Nat /\ (~TakeSlot => Consumed' = Consumed)
<1>1. CASE TakeSlot
  BY <1>1 DEF TakeSlot, Consumed
<1>2. CASE TakeCount
  BY <1>2 DEF TakeCount, Consumed
<1>3. CASE (\E o, n : Take(o, n)) \/ TakeTail \/ TakeNext \/ TakeLeave \/ TakeReturn \/ Close
           \/ CloseDetach \/ CloseWalk
  <2>1. cpc # "count" /\ cpc' # "count" /\ totalPopped' = totalPopped
    BY <1>3, Zenon DEF Take, TakeTail, TakeNext, TakeLeave, TakeReturn, Close, CloseDetach, CloseWalk, NothingThere
  <2> QED
    BY <2>1 DEF Consumed
<1> QED
  BY <1>1, <1>2, <1>3, Zenon DEF Taking

\* The list without the chunk that TakeLeave leaves starts with the next datagram.
LEMMA LeaveNumbers ==
  ASSUME ChunkInv, ProducerInv, ConsumerInv, ListInv, SlotInv, EndsInv, cChunk # 0, totalPopped \in Nat,
         NEW L \in SUBSET Chunks, NEW B \in [Chunks -> Nat], Chain(L), Numbered(L, B), TakeLeave,
         NEW c, c = cc
  PROVE  Numbered(L \ {c}, B)'
<1>1. /\ c = cChunk /\ c \in L /\ c # Last /\ next[c] \in L \ {c} /\ next[c] # 0 /\ 0 \notin Chunks
      /\ cap[c] <= cHead /\ cHead <= tail[c] /\ tail[c] <= cap[c] /\ cHead \in Nat /\ cap[c] \in Nat /\ tail[c] \in Nat
  BY MadeChunks, Zenon DEF TakeLeave, ConsumerInv, ListInv, Chain, EndsInv, ChunkInv
<1>2. cChunk' = next[c] /\ cHead' = 0 /\ Last' = Last /\ Published' = Published /\ Consumed' = Consumed
  <2>1. Consumed' = Consumed
    BY ConsumedStep, Zenon DEF Taking, TakeLeave, TakeSlot
  <2> QED
    BY <2>1, Zenon DEF TakeLeave, Last, Published
<1>3. /\ \A k \in L : cap'[k] = cap[k] /\ tail'[k] = tail[k] /\ slots'[k] = slots[k] /\ next'[k] = next[k]
      /\ \A k \in Chunks : next'[k] \in {0, next[k]}
  <2>1. cChunk' # 0 /\ Taking /\ ~TakeSlot
    BY <1>1, <1>2, Zenon DEF Taking, TakeSlot, TakeLeave
  <2> QED
    BY <2>1, ConsumerKeeps, Zenon
<1>5. (B[cChunk] + cHead = Consumed)' /\ (B[Last] + tail[Last] = Published)'
  <2>1. cHead = cap[c] /\ B[c] \in Nat /\ B[next[c]] \in Nat
    BY <1>1
  <2>2. B[next[c]] = B[c] + cap[c] /\ B[c] + cHead = Consumed /\ B[Last] + tail[Last] = Published /\ Last \in L
    BY <1>1, Zenon DEF Numbered, Chain
  <2>3. B[next[c]] + 0 = Consumed
    BY <2>1, <2>2
  <2> QED
    BY <1>2, <1>3, <2>2, <2>3, Zenon
<1>6. (\A k \in Chunks : next[k] # 0 => B[k] < B[next[k]])'
  BY <1>3, Zenon DEF Numbered
<1>7. (\A k \in (L \ {c}) \ {Last} : tail[k] = cap[k] /\ B[next[k]] = B[k] + cap[k])'
  BY <1>2, <1>3, Zenon DEF Numbered
<1>8. (\A k \in L \ {c} : \A i \in 0..tail[k]-1 : (k = cChunk => cHead <= i) => Holds(B, k, i))'
  <2> SUFFICES ASSUME NEW k \in L \ {c}, NEW i \in 0..tail'[k]-1 PROVE Holds(B, k, i)'
    BY Zenon
  <2>1. i \in 0..tail[k]-1 /\ slots'[k] = slots[k] /\ k # cChunk
    BY <1>1, <1>3, Zenon
  <2>2. Holds(B, k, i)
    BY <2>1, Zenon DEF Numbered
  <2> QED
    BY <2>1, <2>2, Zenon DEF Holds
<1> QED
  BY <1>5, <1>6, <1>7, <1>8, Zenon DEF Numbered

\* The producer's steps keep an open ring's list numbered.
LEMMA ProducerNumbers ==
  ASSUME ChunkInv, ProducerInv, ConsumerInv, ListInv, SlotInv, EndsInv, FeedInv, NumberInv, cChunk # 0,
         FeedPush \/ Pushing \/ PushReturn
  PROVE  NumberInv'
<1>0. PICK L \in SUBSET Chunks, B \in [Chunks -> 0..Published] : Chain(L) /\ Linking(L) /\ Numbered(L, B)
  BY Zenon DEF NumberInv
<1>1. totalPushed \in Nat /\ totalPushed' \in Nat /\ totalPopped' \in Nat
  BY <1>0, PublishedStep, ProducerKeeps, Zenon DEF NumberInv
<1>2. CASE PushLink
  <2>1. PICK C \in [Chunks -> 0..Published] : Numbered(L \union {nxt}, C)'
    BY <1>0, <1>1, <1>2, LinkNumbers, Zenon
  <2>2. Chain(L \union {nxt})' /\ Linking(L \union {nxt})' /\ L \union {nxt} \in SUBSET Chunks
        /\ nxt' = nxt /\ Published' = Published
    BY <1>0, <1>1, <1>2, ProducerChain, PublishedStep, Zenon DEF PushLink, PushTail
  <2> QED
    BY <1>1, <2>1, <2>2, Zenon DEF NumberInv
<1>3. CASE PushTail
  <2>1. Chain(L)' /\ Linking(L)'
    BY <1>0, <1>3, ProducerChain, Zenon DEF PushLink, PushTail
  <2>2. B \in [Chunks -> 0..Published'] /\ Numbered(L, B)'
    BY <1>0, <1>1, <1>3, PacketAssumption, TailNumbers, Zenon
  <2> QED
    BY <1>0, <1>1, <2>1, <2>2, Zenon DEF NumberInv
<1>4. CASE ~PushLink /\ ~PushTail
  <2>1. Chain(L)' /\ Linking(L)' /\ Published' = Published
    BY <1>0, <1>1, <1>4, ProducerChain, PublishedStep, Zenon
  <2>2. /\ UNCHANGED <<cChunk, cHead, totalPopped, cpc>>
        /\ \A k \in L : cap'[k] = cap[k] /\ tail'[k] = tail[k] /\ next'[k] = next[k]
        /\ \A k \in L : ~PushSlot => slots'[k] = slots[k]
        /\ \A k \in Chunks : next'[k] \in {0, next[k]}
    BY <1>0, <1>4, ProducerKeeps, Zenon
  <2>3. Last' = Last
    BY <1>4, Zenon DEF Last, FeedPush, Push, Pushing, PushLength, PushSwap, PushAlloc, PushMove, PushSlot,
              PushCount, PushReturn
  <2>4. \A k \in L : \A i \in 0..tail[k]-1 : slots'[k][i] = slots[k][i]
    <3>1. CASE PushSlot
      <4>1. pc \in L /\ tail[pc] \in Nat /\ slots' = [slots EXCEPT ![pc][tail[pc]] = item]
        BY <1>0, <3>1, Zenon DEF PushSlot, ListInv, Chain, Last, ChunkInv
      <4>2. \A k \in L : slots'[k] = IF k = pc THEN [slots[pc] EXCEPT ![tail[pc]] = item] ELSE slots[k]
        BY <4>1, Zenon DEF SlotInv
      <4>3. \A k \in L : tail[k] \in Nat /\ cap[k] \in Nat /\ tail[k] <= cap[k] /\ slots[k] \in [0..cap[k]-1 -> Parts]
        BY Zenon DEF ChunkInv, SlotInv
      <4>4. \A k \in L : \A i \in 0..tail[k]-1 : i \in 0..cap[k]-1 /\ i # tail[k]
        BY <4>3
      <4>5. ASSUME NEW k \in L, NEW i \in 0..tail[k]-1 PROVE slots'[k][i] = slots[k][i]
        <5>1. i \in 0..cap[k]-1 /\ i # tail[k] /\ slots[k] \in [0..cap[k]-1 -> Parts]
          BY <4>3, <4>4, Zenon
        <5>2. CASE k = pc
          BY <4>2, <5>1, <5>2, Zenon
        <5>3. CASE k # pc
          BY <4>2, <5>3, Zenon
        <5> QED
          BY <5>2, <5>3, Zenon
      <4> QED
        BY <4>5, Zenon
    <3>2. CASE ~PushSlot
      BY <2>2, <3>2, Zenon
    <3> QED
      BY <3>1, <3>2, Zenon
  <2>5. UNCHANGED <<cChunk, cHead, Consumed, Published, Last>>
    BY <2>1, <2>2, <2>3, Zenon DEF Consumed
  <2>6. Numbered(L, B)'
    BY <1>0, <2>2, <2>4, <2>5, SameNumbers, Zenon
  <2> QED
    BY <1>0, <1>1, <2>1, <2>6, Zenon DEF NumberInv
<1> QED
  BY <1>2, <1>3, <1>4, Zenon

\* The consumer's steps keep an open ring's list numbered.
LEMMA ConsumerNumbers ==
  ASSUME ChunkInv, ProducerInv, ConsumerInv, ListInv, SlotInv, EndsInv, NumberInv, cChunk # 0, room \in Nat,
         cpc = "slot" => op \in {"pop", "partial"},
         (\E o, n : Take(o, n)) \/ Taking \/ TakeReturn \/ Close
  PROVE  NumberInv'
<1>0. PICK L \in SUBSET Chunks, B \in [Chunks -> 0..Published] : Chain(L) /\ Linking(L) /\ Numbered(L, B)
  BY Zenon DEF NumberInv
<1>1. totalPopped \in Nat /\ totalPushed \in Nat /\ totalPopped' \in Nat /\ totalPushed' = totalPushed /\ ppc' = ppc
  BY ConsumedStep, Zenon DEF NumberInv, Take, Taking, TakeTail, TakeNext, TakeLeave, TakeSlot, TakeCount, CloseDetach,
              CloseWalk, TakeReturn, Close
<1>2. SUFFICES ASSUME cChunk' # 0 PROVE NumberInv'
  BY <1>1, Zenon DEF NumberInv
<1>3. B \in [Chunks -> Nat] /\ Published' = Published
  BY <1>0, <1>1 DEF Published
<1>4. CASE TakeLeave
  <2>1. PICK c : c = cc
    BY Zenon
  <2>2. Numbered(L \ {c}, B)'
    BY <1>0, <1>1, <1>3, <1>4, <2>1, LeaveNumbers, Zenon
  <2>3. Chain(L \ {c})' /\ Linking(L \ {c})' /\ L \ {c} \in SUBSET Chunks
    BY <1>0, <1>2, <1>4, <2>1, ConsumerChain, Zenon
  <2> QED
    BY <1>0, <1>1, <1>3, <2>2, <2>3, Zenon DEF NumberInv
<1>5. CASE ~TakeLeave
  <2>1. Chain(L)' /\ Linking(L)'
    BY <1>0, <1>2, <1>5, ConsumerChain, Zenon
  <2>2. CASE TakeSlot
    <3>1. Numbered(L, B)'
      BY <1>0, <1>1, <1>3, <2>2, PacketAssumption, SlotNumbers, Zenon DEF TakeSlot
    <3> QED
      BY <1>0, <1>1, <1>3, <2>1, <3>1, Zenon DEF NumberInv
  <2>3. CASE ~TakeSlot
    <3>1. /\ UNCHANGED <<pChunk, nxt, ppc>>
          /\ \A k \in L : cap'[k] = cap[k] /\ tail'[k] = tail[k] /\ next'[k] = next[k] /\ slots'[k] = slots[k]
          /\ \A k \in Chunks : next'[k] \in {0, next[k]}
      BY <1>0, <1>2, <2>3, ConsumerKeeps, Zenon
    <3>2. cChunk' = cChunk /\ cHead' = cHead
      BY <1>2, <1>5, <2>3, Zenon DEF Take, Taking, TakeTail, TakeNext, TakeCount, TakeReturn, Close, CloseDetach,
                CloseWalk
    <3>3. UNCHANGED <<cChunk, cHead, Consumed, Published, Last>>
      BY <1>1, <1>3, <2>3, <3>1, <3>2, ConsumedStep, Zenon DEF Last
    <3>4. Numbered(L, B)'
      BY <1>0, <3>1, <3>3, SameNumbers, Zenon
    <3> QED
      BY <1>0, <1>1, <1>3, <2>1, <3>4, Zenon DEF NumberInv
  <2> QED
    BY <2>2, <2>3, Zenon
<1> QED
  BY <1>4, <1>5, Zenon

\* The producer's steps keep what both sides know about the ends of the list.
LEMMA ProducerEnds ==
  ASSUME ChunkInv, ProducerInv, ConsumerInv, ListInv, SlotInv, EndsInv, cChunk # 0,
         FeedPush \/ Pushing \/ PushReturn
  PROVE  EndsInv'
<1>0. PICK L \in SUBSET Chunks : Chain(L) /\ Linking(L)
  BY Zenon DEF ListInv
<1>1. /\ UNCHANGED <<cChunk, cHead, cachedTail, cpc, cc>>
      /\ \A k \in L : cap'[k] = cap[k] /\ (~PushTail => tail'[k] = tail[k]) /\ (~PushSlot => slots'[k] = slots[k])
  BY <1>0, ProducerKeeps, Zenon
<1>2. /\ cChunk \in L /\ (cpc \in {"slot", "next", "leave"} => cc = cChunk)
      /\ ppc \in {"length", "swap", "alloc", "link", "slot", "tail"} => pc \in L /\ pc = pChunk
      /\ \A k \in L : k \in Chunks /\ tail[k] \in Nat /\ cap[k] \in Nat /\ tail[k] <= cap[k]
  BY <1>0, Zenon DEF Chain, Last, ListInv, ConsumerInv, ChunkInv
<1>3. PICK h, t, u : h = cHead /\ t = tail[cChunk] /\ u = tail'[cChunk]
  BY Zenon
<1>4. t \in Nat /\ u \in Nat /\ t <= u /\ h \in Nat /\ cachedTail \in Nat
  <2>1. CASE PushTail
    <3>1. tail' = [tail EXCEPT ![pc] = tail[pc] + 1] /\ pc \in L
      BY <1>2, <2>1, Zenon DEF PushTail, EndsInv
    <3> QED
      BY <1>2, <1>3, <3>1 DEF ChunkInv, ConsumerInv
  <2>2. CASE ~PushTail
    BY <1>1, <1>2, <1>3, <2>2 DEF ConsumerInv
  <2> QED
    BY <2>1, <2>2, Zenon
<1>5. (/\ cHead <= tail[cChunk] /\ cachedTail <= tail[cChunk]
       /\ cpc = "slot" => cHead < tail[cc]
       /\ cpc \in {"next", "leave"} => cap[cc] <= cHead)'
  <2>1. /\ h <= t /\ cachedTail <= t /\ (cpc = "slot" => h < t) /\ (cpc \in {"next", "leave"} => cap[cChunk] <= h)
    BY <1>2, <1>3, Zenon DEF EndsInv
  <2>2. h <= u /\ cachedTail <= u /\ (cpc = "slot" => h < u)
    BY <1>4, <2>1
  <2> QED
    BY <1>1, <1>2, <1>3, <2>1, <2>2, Zenon
<1>6. (/\ ppc \in {"length", "swap", "alloc", "link"} => tail[pc] = cap[pc]
       /\ ppc = "move" => tail[nxt] = 0
       /\ ppc = "tail" => idx = tail[pc] /\ slots[pc][idx] = item)'
  <2>1. CASE FeedPush
    <3>1. /\ ppc' \in {"dropped", "length", "slot"} /\ (ppc' = "length" => cap[pChunk] <= tail[pChunk] /\ pChunk # 0)
          /\ UNCHANGED <<tail, cap>> /\ pc' = pChunk /\ ppc = "idle"
      BY <2>1 DEF FeedPush, Push
    <3>2. pChunk \in L
      BY <1>0, <3>1, Zenon DEF Chain, Last
    <3>3. ppc' = "length" => tail[pChunk] = cap[pChunk]
      BY <1>2, <3>1, <3>2
    <3> QED
      BY <3>1, <3>3, Zenon
  <2>2. CASE PushLength \/ PushSwap \/ PushAlloc
    <3>1. ppc \in {"length", "swap", "alloc"} /\ ppc' \in {"swap", "alloc", "link"} /\ pc' = pc /\ ~PushTail
      BY <2>2, Zenon DEF PushLength, PushSwap, PushAlloc, PushTail
    <3> QED
      BY <1>1, <1>2, <3>1, Zenon DEF EndsInv
  <2>3. CASE PushLink
    BY <2>3, Zenon DEF PushLink, ProducerInv
  <2>4. CASE PushSlot
    <3>1. ppc' = "tail" /\ idx' = tail[pc] /\ pc' = pc /\ tail' = tail /\ item' = item /\ pc \in L
          /\ slots' = [slots EXCEPT ![pc][tail[pc]] = item] /\ tail[pc] < cap[pc]
      BY <1>2, <2>4, Zenon DEF PushSlot, ProducerInv
    <3>2. tail[pc] \in 0..cap[pc]-1 /\ pc \in Chunks
      BY <1>2, <3>1
    <3>3. slots'[pc] = [slots[pc] EXCEPT ![tail[pc]] = item]
      BY <3>1, <3>2, Zenon DEF SlotInv
    <3>4. slots'[pc][tail[pc]] = item
      BY <3>2, <3>3, Zenon DEF SlotInv
    <3> QED
      BY <3>1, <3>4, Zenon
  <2>5. CASE PushMove \/ PushTail \/ PushCount \/ PushReturn
    BY <2>5, Zenon DEF PushMove, PushTail, PushCount, PushReturn
  <2> QED
    BY <2>1, <2>2, <2>3, <2>4, <2>5, Zenon DEF Pushing
<1> QED
  BY <1>5, <1>6, Zenon DEF EndsInv

\* The consumer's steps keep what both sides know about the ends of the list.
LEMMA ConsumerEnds ==
  ASSUME ChunkInv, ProducerInv, ConsumerInv, ListInv, SlotInv, EndsInv, cChunk # 0, cChunk' # 0,
         (\E o, n : Take(o, n)) \/ Taking \/ TakeReturn \/ Close
  PROVE  EndsInv'
<1>0. PICK L \in SUBSET Chunks : Chain(L) /\ Linking(L)
  BY Zenon DEF ListInv
<1>1. /\ UNCHANGED <<ppc, pc, nxt, item, idx>>
      /\ \A k \in L : cap'[k] = cap[k] /\ tail'[k] = tail[k] /\ (~TakeSlot => slots'[k] = slots[k])
  BY <1>0, ConsumerKeeps, Zenon
<1>2. /\ cChunk \in L
      /\ ppc \in {"length", "swap", "alloc", "link", "tail"} => pc \in L
      /\ ppc = "move" => nxt \in L
      /\ \A k \in L : k \in Chunks /\ tail[k] \in Nat /\ cap[k] \in Nat /\ tail[k] <= cap[k]
  BY <1>0, Zenon DEF Chain, Last, ListInv, ChunkInv
<1>3. ppc = "tail" => slots'[pc][idx] = slots[pc][idx]
  <2>1. CASE TakeSlot /\ ppc = "tail"
    <3>1. PICK r : slots' = [slots EXCEPT ![cc][cHead] = r]
      BY <2>1, Zenon DEF TakeSlot
    <3>2. cc \in L /\ (pc = cc => cHead # idx) /\ idx \in 0..cap[pc]-1 /\ cc \in Chunks /\ pc \in Chunks
      BY <1>2, <2>1 DEF TakeSlot, ConsumerInv, ProducerInv, EndsInv
    <3>3. slots'[pc] = IF pc = cc THEN [slots[cc] EXCEPT ![cHead] = r] ELSE slots[pc]
      BY <3>1, <3>2, Zenon DEF SlotInv
    <3> QED
      BY <3>2, <3>3, Zenon DEF SlotInv
  <2> QED
    BY <1>1, <1>2, <2>1, Zenon
<1>4. (/\ ppc \in {"length", "swap", "alloc", "link"} => tail[pc] = cap[pc]
       /\ ppc = "move" => tail[nxt] = 0
       /\ ppc = "tail" => idx = tail[pc] /\ slots[pc][idx] = item)'
  BY <1>1, <1>2, <1>3, Zenon DEF EndsInv
<1>5. (/\ cHead <= tail[cChunk] /\ cachedTail <= tail[cChunk]
       /\ cpc = "slot" => cHead < tail[cc]
       /\ cpc \in {"next", "leave"} => cap[cc] <= cHead)'
  <2>1. CASE TakeLeave
    <3>1. cHead' = 0 /\ cachedTail' = 0 /\ cpc' = "tail" /\ cChunk' \in L
      BY <1>0, <2>1, Zenon DEF TakeLeave, ConsumerInv, ListInv, Chain
    <3>2. 0 <= tail'[cChunk']
      BY <1>1, <1>2, <3>1
    <3> QED
      BY <3>1, <3>2, Zenon
  <2>2. CASE ~TakeLeave
    <3>1. cChunk' = cChunk
      BY <2>2, Zenon DEF Take, Taking, TakeTail, TakeNext, TakeSlot, TakeCount, TakeReturn, Close, CloseDetach,
                CloseWalk, ConsumerInv
    <3>2. CASE \E o, n : Take(o, n)
      <4>1. /\ UNCHANGED <<cHead, cachedTail>> /\ cc' = cChunk
            /\ cpc' \in {"done", "tail", "slot"} /\ (cpc' = "slot" => ~(cHead >= cachedTail))
        BY <3>2, Zenon DEF Take, NothingThere
      <4>2. cpc' = "slot" => cHead < tail[cChunk]
        BY <1>2, <4>1 DEF EndsInv, ConsumerInv
      <4> QED
        BY <1>1, <1>2, <3>1, <4>1, <4>2, Zenon DEF EndsInv
    <3>3. CASE TakeTail
      <4>1. /\ UNCHANGED <<cHead, cc>> /\ cc = cChunk /\ cachedTail' = tail[cc]
            /\ cpc' \in {"done", "slot", "next"} /\ (cpc' = "slot" => cHead < tail[cc])
            /\ (cpc' = "next" => cHead >= cap[cc])
        BY <3>3, Zenon DEF TakeTail, NothingThere, ConsumerInv
      <4>2. cHead <= tail[cChunk] /\ tail[cChunk] <= tail[cChunk] /\ (cpc' = "next" => cap[cc] <= cHead)
        BY <1>2, <4>1 DEF EndsInv, ConsumerInv
      <4> QED
        BY <1>1, <1>2, <3>1, <4>1, <4>2, Zenon
    <3>4. CASE TakeNext
      BY <1>1, <1>2, <3>1, <3>4, Zenon DEF TakeNext, NothingThere, EndsInv, ConsumerInv
    <3>5. CASE TakeSlot
      <4>1. /\ cachedTail' = cachedTail /\ cc = cChunk /\ cpc' \in {"count", "done"} /\ cHead' \in {cHead, cHead + 1}
        BY <3>5, Zenon DEF TakeSlot, ConsumerInv
      <4>2. cHead' <= tail[cChunk]
        BY <1>2, <3>5, <4>1 DEF EndsInv, ConsumerInv, TakeSlot
      <4> QED
        BY <1>1, <1>2, <3>1, <4>1, <4>2, Zenon DEF EndsInv
    <3>6. CASE TakeCount \/ TakeReturn \/ Close
      BY <1>1, <1>2, <3>1, <3>6, Zenon DEF TakeCount, TakeReturn, Close, EndsInv
    <3> QED
      BY <2>2, <3>2, <3>3, <3>4, <3>5, <3>6, Zenon DEF Taking, CloseDetach, CloseWalk, ConsumerInv
  <2> QED
    BY <2>1, <2>2, Zenon
<1> QED
  BY <1>4, <1>5, Zenon DEF EndsInv

\* A closed connection stays closed, and the list that Close takes from an open ring
\* does not come back.
LEMMA StaysClosed ==
  ASSUME ConsumerInv, [Next]_vars
  PROVE  (closed => closed') /\ (cChunk' # 0 => cChunk # 0)
<1>1. closed => closed'
  BY Zenon DEF Next, FeedCheck, Feeds, FeedPush, FeedPushing, FeedWake, Reads, Calls, ReadCall, ReadLook,
       PacketScanned, ReadScanned, ReadCheck, ReadArm, ReadRescanned, ReadCheckAgain, ReadNotified, ReadWoken,
       ReadDies, ReadDefer, ReadDrained, ReadLock, ReadExpires, RingTaking, ListenerCloses, CloseStart, Closes,
       CloseDie, CloseLook, CloseDrained, CloseRing, CloseReturn, CloseLock, vars
<1>2. cChunk' # 0 => cChunk # 0
  BY Kinds, Zenon DEF FeedCheck, FeedPush, FeedPushing, FeedWake, OnRing, Looks, Gives,
       Push, Pushing, PushLength, PushSwap, PushAlloc, PushLink, PushMove, PushSlot, PushTail, PushCount, PushReturn,
       Take, Taking, TakeTail, TakeNext, TakeLeave, TakeSlot, TakeCount, CloseDetach, CloseWalk, TakeReturn, Close,
       ConsumerInv
<1> QED
  BY <1>1, <1>2, Zenon

\* Datagrams are pushed in the order of their numbers, with none left out.
LEMMA FeedStep ==
  ASSUME ProducerInv, ConsumerInv, ListInv, CallInv, FeedInv, totalPushed \in Nat, [Next]_vars, cChunk' # 0
  PROVE  FeedInv'
<1>0. cChunk # 0 /\ (closed => closed') /\ fed \in Nat
  BY StaysClosed DEF CallInv
<1> DEFINE Going == ppc \in {"length", "swap", "alloc", "link", "move", "slot", "tail"}
           Item == item = [head |-> fed, left |-> DatagramLen]
<1>1. /\ feeder = "idle" /\ ~closed => fed = Published
      /\ feeder = "checked" \/ Going => fed = Published + 1
      /\ ppc \in {"count", "pushed"} => fed = Published
      /\ ppc # "dropped" /\ (ppc # "idle" => Item)
  BY <1>0, Zenon DEF FeedInv
<1>2. SUFFICES (/\ feeder = "idle" /\ ~closed => fed = Published
                /\ feeder = "checked" \/ Going => fed = Published + 1
                /\ ppc \in {"count", "pushed"} => fed = Published
                /\ ppc # "dropped" /\ (ppc # "idle" => Item))'
  BY Zenon DEF FeedInv
<1>3. CASE FeedCheck
  <2>1. /\ UNCHANGED <<ppc, item>> /\ ppc = "idle" /\ feeder = "idle" /\ fed' = fed + 1 /\ Published' = Published
        /\ (closed => feeder' = "idle") /\ (~closed => feeder' = "checked")
    BY <1>3, Zenon DEF FeedCheck, CallInv, Published
  <2>2. CASE closed
    BY <1>0, <2>1, <2>2, Zenon
  <2>3. CASE ~closed
    BY <1>1, <2>1, <2>3, Zenon
  <2> QED
    BY <2>2, <2>3, Zenon
<1>4. CASE FeedPush
  <2>1. /\ feeder = "checked" /\ feeder' = "wake" /\ fed' = fed /\ ppc = "idle"
        /\ item' = [head |-> fed, left |-> DatagramLen]
        /\ ppc' \in {"dropped", "length", "slot"} /\ (ppc' = "dropped" => pChunk = 0)
    BY <1>4, Zenon DEF FeedPush, Push
  <2>2. pChunk # 0
    <3>1. PICK L \in SUBSET Chunks : Chain(L)
      BY <1>0, Zenon DEF ListInv
    <3>2. 0 \notin Chunks
      BY RingAssumption DEF Chunks
    <3> QED
      BY <2>1, <3>1, <3>2, Zenon DEF Chain, Last
  <2>3. Published' = Published
    BY <1>4, <2>1, PublishedStep, Zenon DEF PushTail
  <2> QED
    BY <1>1, <2>1, <2>2, <2>3, Zenon
<1>5. CASE FeedPushing
  <2>1. /\ UNCHANGED <<feeder, fed, item>> /\ feeder = "wake" /\ ppc # "idle"
        /\ (PushTail => ppc = "tail" /\ ppc' = "count")
        /\ (~PushTail => (Going /\ Going') \/ (ppc = "count" /\ ppc' = "pushed"))
    BY <1>5, Zenon DEF FeedPushing, Pushing, PushLength, PushSwap, PushAlloc, PushLink, PushMove, PushSlot, PushTail,
              PushCount, CallInv
  <2>2. (PushTail => Published' = Published + 1) /\ (~PushTail => Published' = Published)
    BY <1>5, PublishedStep, Zenon DEF FeedPushing
  <2> QED
    BY <1>1, <2>1, <2>2, Zenon
<1>6. CASE FeedWake
  <2>1. feeder' = "idle" /\ fed' = fed /\ ppc = "pushed" /\ ppc' = "idle" /\ totalPushed' = totalPushed
    BY <1>1, <1>6, Zenon DEF FeedWake, PushReturn
  <2>2. Published' = Published
    BY <2>1, Zenon DEF Published
  <2> QED
    BY <1>1, <2>1, <2>2, Zenon
<1>7. CASE OnRing \/ Gives \/ UNCHANGED <<ringVars, fed, feeder, puts, returned>>
  <2>1. UNCHANGED <<feeder, fed, ppc, item, totalPushed>>
    BY <1>7, Zenon DEF OnRing, Looks, Gives, Take, Taking, TakeTail, TakeNext, TakeLeave, TakeSlot, TakeCount,
         CloseDetach, CloseWalk, TakeReturn, Close
  <2>2. Published' = Published
    BY <2>1, Zenon DEF Published
  <2> QED
    BY <1>0, <1>1, <2>1, <2>2, Zenon
<1> QED
  BY <1>3, <1>4, <1>5, <1>6, <1>7, Kinds, Zenon

\* readMu is held by one of Read, ReadPacket and Close at a time, and only its holder is
\* at the ring's consuming end.
LEMMA TurnStep ==
  ASSUME ConsumerInv, OpInv, TurnInv, [Next]_vars
  PROVE  TurnInv'
<1>1. CASE FeedCheck \/ Feeds \/ ListenerCloses \/ UNCHANGED vars
  <2>1. UNCHANGED <<cpc, op, room, want, rpc, call, readMu, closer>>
    BY <1>1, Zenon DEF FeedCheck, Feeds, FeedPush, FeedPushing, FeedWake, Push, Pushing, PushLength, PushSwap, PushAlloc,
              PushLink, PushMove, PushSlot, PushTail, PushCount, PushReturn, ListenerCloses, vars
  <2> QED
    BY <2>1, Zenon DEF TurnInv
<1>2. CASE RingTaking
  <2>1. UNCHANGED <<op, room, want, rpc, call, readMu, closer>> /\ cpc # "idle"
    BY <1>2, Zenon DEF RingTaking, Taking, TakeTail, TakeNext, TakeLeave, TakeSlot, TakeCount, CloseDetach, CloseWalk
  <2> QED
    BY <2>1, Zenon DEF TurnInv
<1>3. CASE Calls \/ ReadLock
  <2>1. CASE Calls
    <3>1. UNCHANGED <<cpc, op, room, readMu, closer>> /\ rpc = "idle" /\ rpc' \in {"ended", "lock"}
      BY <2>1, Zenon DEF Calls, ReadCall
    <3> QED
      BY <3>1, Zenon DEF TurnInv
  <2>2. CASE ReadLock
    <3>1. UNCHANGED <<cpc, op, room, want, call, closer>> /\ rpc = "lock" /\ rpc' \in {"scan", "fail"} /\ readMu = "free"
          /\ readMu' = "reader"
      BY <2>2, Zenon DEF ReadLock
    <3> QED
      BY <3>1, Zenon DEF TurnInv
  <2> QED
    BY <1>3, <2>1, <2>2, Zenon
<1>4. CASE ReadLook
  <2>1. /\ UNCHANGED <<rpc, call, want, readMu, closer>> /\ rpc \in {"scan", "rescan", "drain"} /\ cpc = "idle"
        /\ call = "Read" /\ rpc \in {"scan", "rescan"} => op' = "partial" /\ room' = want
    BY <1>4, Zenon DEF ReadLook, Take
  <2> QED
    BY <2>1, Zenon DEF TurnInv
<1>5. CASE PacketScanned \/ ReadScanned \/ ReadRescanned \/ ReadDrained
  <2>1. /\ cpc' = "idle" /\ rpc \in {"scan", "rescan", "drain"} /\ UNCHANGED <<call, closer>>
        /\ rpc' # "rescan" /\ rpc' # "lock"
        /\ \/ readMu' = readMu /\ rpc' \notin {"idle", "ended"}
           \/ readMu' = "free" /\ rpc' \in {"idle", "ended"}
    BY <1>5, Zenon DEF PacketScanned, ReadScanned, ReadRescanned, ReadDrained, TakeReturn
  <2> QED
    BY <2>1, Zenon DEF TurnInv
<1>6. CASE ReadCheck \/ ReadArm \/ ReadCheckAgain \/ ReadNotified \/ ReadWoken \/ ReadDies \/ ReadDefer \/ ReadExpires
  <2>1. /\ UNCHANGED <<cpc, call, closer>> /\ rpc \in {"check", "arm", "check2", "select", "woken", "return", "fail"}
        /\ rpc' # "lock" /\ (rpc' = "rescan" => call = "Read")
        /\ \/ readMu' = readMu /\ rpc' \notin {"idle", "ended"}
           \/ readMu' = "free" /\ rpc' \in {"idle", "ended"}
    BY <1>6, Zenon DEF ReadCheck, ReadArm, ReadCheckAgain, ReadNotified, ReadWoken, ReadDies, ReadDefer, ReadExpires
  <2>2. cpc = "idle"
    BY <2>1, Zenon DEF TurnInv
  <2> QED
    BY <2>1, <2>2, Zenon DEF TurnInv
<1>7. CASE CloseStart \/ CloseDie \/ CloseLock
  <2>1. CASE CloseStart \/ CloseDie
    <3>1. UNCHANGED <<cpc, op, room, want, rpc, call, readMu>> /\ closer \in {"idle", "die"} /\ closer' \in {"die", "lock"}
      BY <2>1, Zenon DEF CloseStart, CloseDie
    <3> QED
      BY <3>1, Zenon DEF TurnInv
  <2>2. CASE CloseLock
    <3>1. UNCHANGED <<cpc, op, room, want, rpc, call>> /\ closer \in {"lock", "lock2"} /\ closer' \in {"drain", "close"}
          /\ readMu = "free" /\ readMu' = "closer"
      BY <2>2, Zenon DEF CloseLock
    <3> QED
      BY <3>1, Zenon DEF TurnInv
  <2> QED
    BY <1>7, <2>1, <2>2, Zenon
<1>8. CASE CloseLook \/ CloseRing
  <2>1. /\ UNCHANGED <<rpc, call, want, readMu>> /\ closer \in {"drain", "close"} /\ closer' \in {"drain", "closing"}
    BY <1>8, Zenon DEF CloseLook, CloseRing
  <2> QED
    BY <2>1, Zenon DEF TurnInv
<1>9. CASE CloseDrained \/ CloseReturn
  <2>1. /\ cpc' = "idle" /\ UNCHANGED <<rpc, call>> /\ closer \in {"drain", "closing"}
        /\ \/ readMu' = readMu /\ closer' = closer
           \/ readMu' = "free" /\ closer' \in {"lock2", "done"}
    BY <1>9, Zenon DEF CloseDrained, CloseReturn, TakeReturn
  <2> QED
    BY <2>1, Zenon DEF TurnInv
<1> QED
  BY <1>1, <1>2, <1>3, <1>4, <1>5, <1>6, <1>7, <1>8, <1>9, Zenon DEF Next, Reads, Closes

\* The call that is being made determines where it can be.
LEMMA OpStep ==
  ASSUME ConsumerInv, OpInv, [Next]_vars
  PROVE  OpInv'
<1>1. CASE OnRing
  BY <1>1, Zenon DEF OnRing, Looks, Take, Taking, TakeTail, TakeNext, TakeLeave, TakeSlot, TakeCount, CloseDetach,
              CloseWalk, Close, NothingThere, OpInv
<1>2. CASE Gives
  BY <1>2, Zenon DEF Gives, TakeReturn, OpInv
<1>3. CASE FeedCheck \/ FeedPush \/ FeedPushing \/ FeedWake \/ UNCHANGED <<ringVars, fed, feeder, puts, returned>>
  <2>1. UNCHANGED <<cpc, op>>
    BY <1>3, Zenon DEF FeedCheck, FeedPush, FeedPushing, FeedWake, Push, Pushing, PushLength, PushSwap, PushAlloc,
              PushLink, PushMove, PushSlot, PushTail, PushCount, PushReturn
  <2> QED
    BY <2>1, Zenon DEF OpInv
<1> QED
  BY <1>1, <1>2, <1>3, Kinds, Zenon

\* No call is given more than it asked for, and Read never asks for less than nothing.
LEMMA RoomStep ==
  ASSUME ChunkInv, ConsumerInv, SlotInv, CallInv, EndsInv, NumberInv, OpInv, TurnInv, RoomInv, [Next]_vars
  PROVE  RoomInv'
<1>1. want' \in Nat
  <2>1. CASE ReadScanned \/ ReadRescanned
    <3>1. op = "partial" /\ room = want /\ cpc = "done" /\ want' = want - out.n
      BY <2>1, Zenon DEF ReadScanned, ReadRescanned, TakeReturn, TurnInv
    <3> QED
      BY <3>1 DEF RoomInv
  <2>2. CASE Calls
    BY <2>2, PacketAssumption DEF Calls, ReadCall
  <2>3. CASE ~(ReadScanned \/ ReadRescanned \/ Calls)
    BY <2>3, WantSame, Zenon DEF RoomInv
  <2> QED
    BY <2>1, <2>2, <2>3, Zenon
<1>2. CASE OnRing
  <2>1. CASE Take("pop", 0) \/ Take("partial", want)
    <3>1. room' \in {0, want} /\ (cpc' \in {"count", "done"} => out' = NoResult)
      BY <2>1, Zenon DEF Take, NothingThere
    <3>2. NoResult.n = 0 /\ room' \in Nat
      BY <3>1 DEF NoResult, RoomInv
    <3>3. 0 \in 0..room'
      BY <3>2
    <3> QED
      BY <1>1, <3>1, <3>2, <3>3, Zenon DEF RoomInv
  <2>2. CASE TakeSlot
    <3>1. cChunk # 0 /\ op \in {"pop", "partial"} /\ room' = room /\ op' = op
      BY <2>2, Zenon DEF TakeSlot, ConsumerInv, OpInv
    <3>2. PICK L \in SUBSET Chunks, B \in [Chunks -> 0..Published] : Chain(L) /\ Numbered(L, B)
      BY <3>1, Zenon DEF NumberInv
    <3>3. PICK s, n : s = slots[cChunk][cHead] /\ n = out'.n
      BY Zenon
    <3>4. n \in 0..s.left /\ (op = "partial" => n <= room)
      BY <2>2, <3>1, <3>2, <3>3, FirstSlot, Zenon DEF RoomInv
    <3>5. op = "partial" => n \in 0..room
      BY <3>4 DEF RoomInv
    <3> QED
      BY <1>1, <3>1, <3>3, <3>5, Zenon DEF RoomInv
  <2>3. CASE TakeTail \/ TakeNext
    <3>1. room' = room /\ (cpc' \in {"count", "done"} => out' = NoResult)
      BY <2>3, Zenon DEF TakeTail, TakeNext, NothingThere
    <3>2. NoResult.n = 0 /\ 0 \in 0..room
      BY DEF NoResult, RoomInv
    <3> QED
      BY <1>1, <3>1, <3>2, Zenon DEF RoomInv
  <2>4. CASE TakeLeave \/ TakeCount \/ CloseDetach \/ CloseWalk \/ Close
    <3>1. room' = room /\ (cpc' \in {"count", "done"} /\ op' = "partial" => cpc \in {"count", "done"} /\ op' = op /\ out' = out)
      BY <2>4, Zenon DEF TakeLeave, TakeCount, CloseDetach, CloseWalk, Close, OpInv
    <3> QED
      BY <1>1, <3>1, Zenon DEF RoomInv
  <2> QED
    BY <1>2, <2>1, <2>2, <2>3, <2>4, Zenon DEF OnRing, Looks, Taking
<1>3. CASE Gives
  <2>1. room' = 0 /\ cpc' = "idle"
    BY <1>3, Zenon DEF Gives, TakeReturn
  <2> QED
    BY <1>1, <2>1 DEF RoomInv
<1>4. CASE FeedCheck \/ FeedPush \/ FeedPushing \/ FeedWake \/ UNCHANGED <<ringVars, fed, feeder, puts, returned>>
  <2>1. UNCHANGED <<cpc, op, room, out>>
    BY <1>4, Zenon DEF FeedCheck, FeedPush, FeedPushing, FeedWake, Push, Pushing, PushLength, PushSwap, PushAlloc,
              PushLink, PushMove, PushSlot, PushTail, PushCount, PushReturn
  <2> QED
    BY <1>1, <2>1, Zenon DEF RoomInv
<1> QED
  BY <1>2, <1>3, <1>4, Kinds, Zenon

-----------------------------------------------------------------------------
(* The queue                                                               *)

\* The datagrams from a+1 to p in order, with l bytes left of the first.
Queued(a, p, l) == [j \in 1..p-a |-> [head |-> a + j, left |-> IF j = 1 THEN l ELSE DatagramLen]]

\* The length of a sequence given by its domain.
LEMMA OfLength ==
  ASSUME NEW n \in Nat, NEW f, DOMAIN f = 1..n, f = [j \in 1..n |-> f[j]]
  PROVE  Len(f) = n /\ (n > 0 => f # <<>> /\ Head(f) = f[1] /\ Tail(f) = [j \in 1..n-1 |-> f[j+1]])
<1> DEFINE S == {f[j] : j \in 1..n}
<1>1. f \in [1..n -> S]
  BY Zenon
<1> HIDE DEF S
<1>2. f \in Seq(S)
  BY <1>1
<1>3. Len(f) = n
  BY <1>1, <1>2
<1>4. ASSUME n > 0 PROVE f # <<>> /\ Head(f) = f[1] /\ Tail(f) = [j \in 1..n-1 |-> f[j+1]]
  BY <1>2, <1>3, <1>4
<1> QED
  BY <1>3, <1>4, Zenon

\* The runs from a+1 to b, with l bytes left of its first, and from b+1 to p.
Adjoin(a, b, p, l) ==
  a \in Nat /\ b \in Nat /\ p \in Nat /\ a <= b /\ b <= p /\ (a < b \/ l = DatagramLen)

\* A run of datagrams and the run after it are one run.
LEMMA Joined ==
  ASSUME NEW a, NEW b, NEW p, NEW l, Adjoin(a, b, p, l)
  PROVE  Queued(a, b, l) \o Queued(b, p, DatagramLen) = Queued(a, p, l)
<1> DEFINE q == Queued(a, b, l)
           r == Queued(b, p, DatagramLen)
           E(x, j, v) == [head |-> x + j, left |-> IF j = 1 THEN v ELSE DatagramLen]
<1>1. /\ q = [j \in 1..b-a |-> E(a, j, l)] /\ r = [j \in 1..p-b |-> E(b, j, DatagramLen)]
      /\ Queued(a, p, l) = [j \in 1..p-a |-> E(a, j, l)]
  BY Zenon DEF Queued
<1>2. /\ \A j \in 1..p-a : j \notin 1..b-a => j - (b-a) \in 1..p-b /\ E(b, j - (b-a), DatagramLen) = E(a, j, l)
      /\ (b-a) + (p-b) = p-a /\ b-a \in Nat /\ p-b \in Nat
  BY DEF Adjoin
<1> HIDE DEF E, q, r
<1>3. Len(q) = b-a /\ Len(r) = p-b
  <2>1. Len(q) = b-a
    BY <1>1, <1>2, OfLength, Zenon
  <2>2. Len(r) = p-b
    BY <1>1, <1>2, OfLength, Zenon
  <2> QED
    BY <2>1, <2>2, Zenon
<1>4. q \o r = [j \in 1..p-a |-> IF j <= b-a THEN q[j] ELSE r[j-(b-a)]]
  BY <1>1, <1>2, <1>3
<1>5. \A j \in 1..p-a : (IF j <= b-a THEN q[j] ELSE r[j-(b-a)]) = E(a, j, l)
  BY <1>1, <1>2
<1> QED
  BY <1>1, <1>4, <1>5, Zenon DEF q, r

\* One more datagram at the end of a run.
LEMMA Appended ==
  ASSUME NEW a \in Nat, NEW p \in Nat, a <= p, NEW l, a = p => l = DatagramLen
  PROVE  Append(Queued(a, p, l), [head |-> p + 1, left |-> DatagramLen]) = Queued(a, p + 1, l)
<1> DEFINE q == Queued(a, p, l)
           e == [head |-> p + 1, left |-> DatagramLen]
           E(j) == [head |-> a + j, left |-> IF j = 1 THEN l ELSE DatagramLen]
<1>1. q = [j \in 1..p-a |-> E(j)] /\ Queued(a, p+1, l) = [j \in 1..(p+1)-a |-> E(j)]
  BY DEF Queued
<1>2. e = E(p-a+1) /\ p-a \in Nat /\ (p+1)-a = p-a+1
  OBVIOUS
<1> HIDE DEF E, q, e
<1>3. Append(q, e) = [j \in 1..p-a+1 |-> E(j)]
  BY <1>1, <1>2
<1> QED
  BY <1>1, <1>2, <1>3, Zenon DEF q, e

\* The first datagram of a run, and the rest.
LEMMA FrontOf ==
  ASSUME NEW a \in Nat, NEW p \in Nat, a < p, NEW l
  PROVE  /\ Queued(a, p, l) # <<>>
         /\ Head(Queued(a, p, l)) = [head |-> a + 1, left |-> l]
         /\ Tail(Queued(a, p, l)) = Queued(a + 1, p, DatagramLen)
         /\ \A m : <<[head |-> a + 1, left |-> m]>> \o Queued(a + 1, p, DatagramLen) = Queued(a, p, m)
<1> DEFINE E(x, j, v) == [head |-> x + j, left |-> IF j = 1 THEN v ELSE DatagramLen]
<1>1. \A x, v : Queued(x, p, v) = [j \in 1..p-x |-> E(x, j, v)]
  BY Zenon DEF Queued
<1>2. /\ p-a \in Nat /\ p-a # 0 /\ p-(a+1) = (p-a)-1
      /\ \A j \in 1..(p-a)-1 : E(a+1, j, DatagramLen) = E(a, j+1, l) 
      /\ \A m : E(a, 1, m) = [head |-> a + 1, left |-> m]
  OBVIOUS
<1> HIDE DEF E
<1> DEFINE q == Queued(a, p, l)
<1>3. q = [j \in 1..p-a |-> E(a, j, l)]
  BY <1>1, Zenon
<1> HIDE DEF q
<1>4. q # <<>> /\ Head(q) = q[1] /\ Tail(q) = [j \in 1..(p-a)-1 |-> q[j+1]]
  <2>1. p-a > 0 /\ DOMAIN q = 1..p-a /\ q = [j \in 1..p-a |-> q[j]]
    BY <1>2, <1>3
  <2> QED
    BY <1>2, <2>1, OfLength, Zenon
<1>5. Head(q) = E(a, 1, l) /\ Tail(q) = [j \in 1..(p-a)-1 |-> E(a, j+1, l)]
  <2>1. q[1] = E(a, 1, l) /\ \A j \in 1..(p-a)-1 : q[j+1] = E(a, j+1, l)
    BY <1>2, <1>3
  <2> QED
    BY <1>4, <2>1, Zenon
<1>6. Queued(a + 1, p, DatagramLen) = [j \in 1..(p-a)-1 |-> E(a, j+1, l)]
  BY <1>1, <1>2
<1>7. ASSUME NEW m PROVE <<[head |-> a + 1, left |-> m]>> \o Queued(a + 1, p, DatagramLen) = Queued(a, p, m)
  <2>1. Queued(a, a+1, m) = <<[head |-> a + 1, left |-> m]>>
    BY DEF Queued
  <2>2. Adjoin(a, a+1, p, m)
    BY DEF Adjoin
  <2>3. Queued(a, a+1, m) \o Queued(a+1, p, DatagramLen) = Queued(a, p, m)
    BY <2>2, Joined
  <2> QED
    BY <2>1, <2>3, Zenon
<1>8. Queued(a, p, l) = q
  BY Zenon DEF q
<1> QED
  BY <1>2, <1>4, <1>5, <1>6, <1>7, <1>8, Zenon

\* A set of naturals has a least element.
LEMMA Least ==
  ASSUME NEW T \in SUBSET Nat, T # {}
  PROVE  \E n \in T : \A m \in T : n <= m
<1>1. PICK n \in T : \A m \in T : ~(<<m, n>> \in OpToRel(<, Nat))
  BY WFMin, NatLessThanWellFounded, Zenon
<1>2. \A m \in T : ~(m < n)
  BY <1>1, Zenon DEF OpToRel
<1> QED
  BY <1>2

\* The numbers that grow along the links make Listed a function of the chunks.
LEMMA ListedIs ==
  ASSUME ChunkInv, NEW N \in Nat, NEW B \in [Chunks -> 0..N],
         \A k \in Chunks : next[k] # 0 => B[k] < B[next[k]]
  PROVE  \A k \in 0..MaxChunks :
           Listed[k] = IF k = 0 THEN <<>> ELSE [i \in 1..tail[k] |-> slots[k][i-1]] \o Listed[next[k]]
<1> DEFINE K == 0..MaxChunks
           Step(f, k) == IF k = 0 THEN <<>> ELSE [i \in 1..tail[k] |-> slots[k][i-1]] \o f[next[k]]
           Upto(n) == \E f : \A k \in K : k = 0 \/ N - B[k] < n => f[k] = Step(f, k)
           Def(f) == f = [k \in K |-> Step(f, k)]
<1>0. /\ \A k \in K : k # 0 => k \in Chunks /\ next[k] \in K /\ B[k] \in 0..N
      /\ \A k \in K : k # 0 /\ next[k] # 0 => B[next[k]] \in 0..N /\ B[k] < B[next[k]]
  <2>1. K = {0} \union Chunks
    BY RingAssumption, SMT DEF Chunks
  <2> QED
    BY <2>1, MadeChunks, Zenon DEF ChunkInv
<1>1. Upto(0)
  <2>1. \A k \in K : k = 0 \/ N - B[k] < 0 => k = 0
    BY <1>0
  <2>2. \A k \in K : [j \in K |-> <<>>][k] = <<>>
    BY Zenon
  <2> QED
    BY <2>1, <2>2, Zenon
<1>2. ASSUME NEW n \in Nat, Upto(n) PROVE Upto(n+1)
  <2>1. PICK f : \A k \in K : k = 0 \/ N - B[k] < n => f[k] = Step(f, k)
    BY <1>2, Zenon
  <2> DEFINE h == [k \in K |-> Step(f, k)]
  <2>2. \A k \in K : h[k] = Step(f, k)
    BY Zenon
  <2> HIDE DEF h
  <2>3. ASSUME NEW k \in K, k = 0 \/ N - B[k] < n+1 PROVE h[k] = Step(h, k)
    <3>1. k # 0 => next[k] \in K /\ (next[k] = 0 \/ N - B[next[k]] < n)
      BY <1>0, <2>3
    <3>2. k # 0 => h[next[k]] = f[next[k]]
      <4> HIDE DEF Step
      <4>1. \A m \in K : m = 0 \/ N - B[m] < n => h[m] = f[m]
        BY <2>1, <2>2, Zenon
      <4> QED
        BY <3>1, <4>1
    <3> QED
      BY <2>2, <3>2, Zenon
  <2> QED
    BY <2>3, Zenon
<1>3. \A n \in Nat : Upto(n)
  <2> DEFINE F == {n \in Nat : ~Upto(n)}
  <2> HIDE DEF Upto
  <2>1. SUFFICES ASSUME F # {} PROVE FALSE
    BY Zenon
  <2>2. PICK n \in F : \A m \in F : n <= m
    BY <2>1, Least, Zenon
  <2>3. n # 0
    BY <1>1, Zenon
  <2>4. n - 1 \in Nat /\ Upto(n - 1)
    BY <2>2, <2>3
  <2> QED
    BY <1>2, <2>4
<1>4. \E f : Def(f)
  <2>1. N + 1 \in Nat /\ \A k \in K : k = 0 \/ N - B[k] < N + 1
    BY <1>0
  <2>2. PICK f : \A k \in K : f[k] = Step(f, k)
    <3>1. Upto(N + 1)
      <4> HIDE DEF Upto
      <4> QED
        BY <1>3, <2>1, Zenon
    <3> HIDE DEF Step
    <3> QED
      BY <2>1, <3>1, Zenon
  <2> DEFINE g == [k \in K |-> Step(f, k)]
  <2>3. \A k \in K : g[k] = f[k]
    BY <2>2, Zenon
  <2> HIDE DEF g
  <2>4. \A k \in K : Step(f, k) = Step(g, k)
    <3>1. \A k \in K : k # 0 => f[next[k]] = g[next[k]]
      BY <1>0, <2>3, Zenon
    <3> QED
      BY <3>1, Zenon
  <2>5. g = [k \in K |-> Step(g, k)]
    BY <2>4, Zenon DEF g
  <2> QED
    BY <2>5, Zenon
<1>5. Listed = CHOOSE f : Def(f)
  BY Zenon DEF Listed
<1>6. Def(Listed)
  BY <1>4, <1>5, Zenon
<1> QED
  BY <1>6, Zenon

\* From slot h on, with l bytes left of the first, chunk k holds the datagrams that
\* follow number b+h.
Runs(k, b, h, l) ==
  /\ k \in Chunks /\ b \in Nat /\ h \in 0..tail[k]
  /\ \A i \in h..tail[k]-1 : /\ slots[k][i].head = b + i + 1
                             /\ slots[k][i].left = IF i = h THEN l ELSE DatagramLen

\* The slots of chunk k from h on.
Piece(k, h) == [i \in 1..tail[k]-h |-> slots[k][h+i-1]]

\* Slots that hold consecutive datagrams are a run of datagrams.
LEMMA PieceRun ==
  ASSUME ChunkInv, SlotInv, NEW k, NEW b, NEW h, NEW l, Runs(k, b, h, l)
  PROVE  Piece(k, h) = Queued(b + h, b + tail[k], l)
<1>0. k \in Chunks /\ b \in Nat
  BY Zenon DEF Runs
<1>1. PICK t \in Nat : t = tail[k] /\ h \in 0..t /\ t <= cap[k]
  BY Zenon DEF ChunkInv, Runs
<1>2. PICK s \in [0..cap[k]-1 -> Parts] : s = slots[k]
  BY <1>0, Zenon DEF SlotInv
<1>3. cap[k] \in Nat
  BY <1>0, Zenon DEF ChunkInv
<1>4. ASSUME NEW i \in h..t-1 PROVE s[i] = [head |-> b + i + 1, left |-> IF i = h THEN l ELSE DatagramLen]
  <2>1. i \in 0..cap[k]-1
    BY <1>1, <1>3
  <2>2. s[i].head = b + i + 1 /\ s[i].left = IF i = h THEN l ELSE DatagramLen
    BY <1>1, <1>2, Zenon DEF Runs
  <2>3. PICK r \in Parts : r = s[i]
    BY <2>1, Zenon
  <2>4. r = [head |-> r.head, left |-> r.left]
    BY DEF Parts
  <2> QED
    BY <2>2, <2>3, <2>4, Zenon
<1>5. ASSUME NEW j \in 1..t-h
      PROVE  s[h+j-1] = [head |-> (b+h) + j, left |-> IF j = 1 THEN l ELSE DatagramLen]
  <2>1. PICK i \in h..t-1 : i = h+j-1 /\ b + i + 1 = (b+h) + j /\ (i = h <=> j = 1)
    BY <1>0, <1>1
  <2> QED
    BY <1>4, <2>1, Zenon
<1>6. (b+t) - (b+h) = t-h
  BY <1>0, <1>1
<1>7. [j \in 1..t-h |-> s[h+j-1]] = Queued(b + h, b + t, l)
  BY <1>5, <1>6, Zenon DEF Queued
<1> QED
  BY <1>1, <1>2, <1>7, Zenon DEF Piece

\* What is listed from a chunk on that the consumer has not reached: the datagrams
\* from the chunk's first to the last that was published.
LEMMA ListedRun ==
  ASSUME ChunkInv, SlotInv, cChunk # 0, Published \in Nat, NEW L \in SUBSET Chunks, Chain(L),
         NEW B \in [Chunks -> 0..Published], Numbered(L, B)
  PROVE  \A k \in L \ {cChunk} : Listed[k] = Queued(B[k], Published, DatagramLen)
<1>1. PICK P \in Nat : P = Published
  BY Zenon
<1>2. /\ \A k \in 0..MaxChunks :
           Listed[k] = IF k = 0 THEN <<>> ELSE [i \in 1..tail[k] |-> slots[k][i-1]] \o Listed[next[k]]
      /\ \A k \in Chunks : k \in 0..MaxChunks /\ k # 0 /\ B[k] \in 0..P
  <2>1. 0 \in 0..MaxChunks /\ \A k \in Chunks : k \in 0..MaxChunks /\ k # 0
    BY RingAssumption, SMT DEF Chunks
  <2>2. \A k \in Chunks : next[k] # 0 => B[k] < B[next[k]]
    BY Zenon DEF Numbered
  <2> QED
    BY <1>1, <2>1, <2>2, ListedIs, Zenon
<1>3. Listed[0] = <<>>
  <2>1. 0 \in 0..MaxChunks
    BY RingAssumption, SMT
  <2> QED
    BY <1>2, <2>1, Zenon
<1> DEFINE Good(k) == Listed[k] = Queued(B[k], P, DatagramLen)
           F == {n \in Nat : \E k \in L \ {cChunk} : n = P - B[k] /\ ~Good(k)}
<1> HIDE DEF Good
<1>4. SUFFICES F = {}
  <2>1. \A k \in L \ {cChunk} : P - B[k] \in Nat
    BY <1>1, <1>2
  <2> QED
    BY <1>1, <1>4, <2>1, Zenon DEF Good
<1>5. SUFFICES ASSUME F # {} PROVE FALSE
  BY Zenon
<1>6. PICK n \in F : \A m \in F : n <= m
  BY <1>5, Least, Zenon
<1>7. PICK k \in L \ {cChunk} : n = P - B[k] /\ ~Good(k)
  BY <1>6, Zenon
<1>8. k \in Chunks /\ B[k] \in 0..P /\ tail[k] \in Nat /\ cap[k] \in Nat \ {0}
  BY <1>2, Zenon DEF ChunkInv
<1>9. [i \in 1..tail[k] |-> slots[k][i-1]] = Queued(B[k], B[k] + tail[k], DatagramLen)
  <2>1. B[k] \in Nat /\ 0 \in 0..tail[k]
    BY <1>8
  <2>2. Runs(k, B[k], 0, DatagramLen)
    BY <1>7, <1>8, <2>1, Zenon DEF Numbered, Holds, Runs
  <2>3. Piece(k, 0) = Queued(B[k] + 0, B[k] + tail[k], DatagramLen)
    BY <2>2, PieceRun
  <2>4. B[k] + 0 = B[k] /\ tail[k] - 0 = tail[k] /\ \A i \in 1..tail[k] : 0 + i - 1 = i - 1
    BY <1>8
  <2>5. Piece(k, 0) = [i \in 1..tail[k] |-> slots[k][i-1]]
    BY <2>4, Zenon DEF Piece
  <2> QED
    BY <2>3, <2>4, <2>5, Zenon
<1>10. Good(k)
  <2>1. CASE k = Last
    <3>1. next[k] = 0 /\ B[k] + tail[k] = P
      BY <1>1, <2>1, Zenon DEF Chain, Numbered
    <3>2. Listed[k] = Queued(B[k], P, DatagramLen) \o <<>>
      BY <1>2, <1>3, <1>8, <1>9, <3>1, Zenon
    <3>4. Queued(P, P, DatagramLen) = <<>>
      BY <1>1 DEF Queued
    <3>5. Adjoin(B[k], P, P, DatagramLen)
      BY <1>1, <1>8 DEF Adjoin
    <3>6. Queued(B[k], P, DatagramLen) \o Queued(P, P, DatagramLen) = Queued(B[k], P, DatagramLen)
      BY <3>5, Joined
    <3> QED
      BY <3>2, <3>4, <3>6, Zenon DEF Good
  <2>2. CASE k # Last
    <3>1. PICK m \in L \ {cChunk} : m = next[k]
      BY <1>7, <2>2, Zenon DEF Chain
    <3>2. tail[k] = cap[k] /\ B[m] = B[k] + cap[k] /\ B[m] \in 0..P
      BY <1>2, <1>7, <2>2, <3>1, Zenon DEF Numbered
    <3>3. P - B[m] \in Nat /\ ~(n <= P - B[m])
      BY <1>1, <1>7, <1>8, <3>2
    <3>4. Good(m)
      BY <1>6, <3>1, <3>3, Zenon
    <3>5. Listed[k] = Queued(B[k], B[m], DatagramLen) \o Queued(B[m], P, DatagramLen)
      <4>1. Listed[k] = Queued(B[k], B[m], DatagramLen) \o Listed[m]
        BY <1>2, <1>8, <1>9, <3>1, <3>2, Zenon
      <4> QED
        BY <3>4, <4>1, Zenon DEF Good
    <3>6. Adjoin(B[k], B[m], P, DatagramLen)
      BY <1>1, <1>8, <3>2 DEF Adjoin
    <3>7. Queued(B[k], B[m], DatagramLen) \o Queued(B[m], P, DatagramLen) = Queued(B[k], P, DatagramLen)
      BY <3>6, Joined
    <3> QED
      BY <3>5, <3>7, Zenon DEF Good
  <2> QED
    BY <2>1, <2>2, Zenon
<1> QED
  BY <1>7, <1>10, Zenon

\* How much is left of the datagram at the front, when there is one.
FrontLeft == IF cHead < tail[cChunk] THEN slots[cChunk][cHead].left ELSE DatagramLen

\* The datagram at the front of an open ring, and what the ends of the list say of it.
FrontIs ==
  /\ Consumed \in Nat /\ Published \in Nat /\ Consumed <= Published
  /\ FrontLeft \in 1..DatagramLen
  /\ cHead < tail[cChunk] => Consumed < Published /\ slots[cChunk][cHead].head = Consumed + 1
  /\ Consumed = Published => FrontLeft = DatagramLen
  /\ cHead >= tail[cChunk] /\ (cHead < cap[cChunk] \/ next[cChunk] = 0) => Consumed = Published
  /\ \A i \in cHead+1..tail[cChunk]-1 : slots[cChunk][i].left = DatagramLen
  /\ next[cChunk] # 0 =>
       \A i \in 0..tail[next[cChunk]]-1 : slots[next[cChunk]][i].left = DatagramLen

\* What is in an open ring, from the chunks of its list.
LEMMA ContentsAre ==
  IInv /\ QueueInv /\ cChunk # 0 => FrontIs /\ Contents = Queued(Consumed, Published, FrontLeft)
<1> SUFFICES ASSUME IInv, QueueInv, cChunk # 0
             PROVE  FrontIs /\ Contents = Queued(Consumed, Published, FrontLeft)
  BY Zenon
<1>0. ChunkInv /\ SlotInv /\ ConsumerInv /\ NumberInv /\ EndsInv
  BY Zenon DEF IInv, QueueInv
<1>1. PICK C \in Nat, P \in Nat : C = Consumed /\ P = Published
  <2>1. Consumed \in Nat /\ Published \in Nat
    BY <1>0 DEF NumberInv, Consumed, Published
  <2> QED
    BY <2>1, Zenon
<1>2. PICK L \in SUBSET Chunks, B \in [Chunks -> 0..Published] : Chain(L) /\ Linking(L) /\ Numbered(L, B)
  BY <1>0, Zenon DEF NumberInv
<1>3. PICK c \in L : c = cChunk
  BY <1>2, Zenon DEF Chain
<1>4. /\ c \in Chunks /\ c # 0 /\ B[c] \in 0..P /\ cHead \in Nat /\ tail[c] \in Nat
      /\ tail[c] <= cap[c] /\ cHead <= tail[c] /\ B[c] + cHead = C
  <2>1. cap[c] \in Nat \ {0} /\ cHead \in Nat
    BY <1>0, <1>3, Zenon DEF ChunkInv, ConsumerInv
  <2> QED
    BY <1>0, <1>1, <1>2, <1>3, <2>1, Zenon DEF ChunkInv, EndsInv, Numbered
<1>5. /\ 0 \in 0..MaxChunks
      /\ \A k \in 0..MaxChunks :
           Listed[k] = IF k = 0 THEN <<>> ELSE [i \in 1..tail[k] |-> slots[k][i-1]] \o Listed[next[k]]
  <2>1. 0 \in 0..MaxChunks
    BY RingAssumption, SMT
  <2> QED
    BY <1>0, <1>1, <1>2, <2>1, ListedIs, Zenon DEF Numbered
<1>6. PICK l : l = FrontLeft
  BY Zenon
<1>7. \A i \in cHead..tail[c]-1 : i \in 0..tail[c]-1 /\ cHead <= i
  BY <1>4
<1>8. \A i \in cHead..tail[c]-1 :
        /\ slots[c][i].head = B[c] + i + 1 /\ slots[c][i].left \in 1..DatagramLen
        /\ i # cHead => slots[c][i].left = DatagramLen
  BY <1>2, <1>7, Zenon DEF Numbered, Holds
<1>9. cHead < tail[c] => cHead \in cHead..tail[c]-1
  BY <1>4
<1>10. l \in 1..DatagramLen /\ (~(cHead < tail[c]) => l = DatagramLen)
  <2>1. DatagramLen \in 1..DatagramLen
    BY PacketAssumption, SMT
  <2> QED
    BY <1>3, <1>6, <1>8, <1>9, <2>1, Zenon DEF FrontLeft
<1>11. Piece(c, cHead) = Queued(C, B[c] + tail[c], l)
  <2>1. B[c] \in Nat /\ cHead \in 0..tail[c] /\ \A i \in cHead..tail[c]-1 : i = cHead => cHead < tail[c]
    BY <1>4
  <2>2. Runs(c, B[c], cHead, l)
    BY <1>3, <1>4, <1>6, <1>8, <2>1, Zenon DEF Runs, FrontLeft
  <2>3. Piece(c, cHead) = Queued(B[c] + cHead, B[c] + tail[c], l)
    BY <1>0, <2>2, PieceRun
  <2> QED
    BY <1>4, <2>3, Zenon
<1>12. /\ Listed[next[c]] = Queued(B[c] + tail[c], P, DatagramLen) /\ B[c] + tail[c] <= P
       /\ cHead >= tail[c] /\ (cHead < cap[c] \/ next[c] = 0) => C = P
  <2>1. CASE c = Last
    <3>1. next[c] = 0 /\ B[c] + tail[c] = P
      BY <1>1, <1>2, <2>1, Zenon DEF Chain, Numbered
    <3>2. Queued(P, P, DatagramLen) = <<>>
      BY <1>1 DEF Queued
    <3>3. Listed[next[c]] = Queued(B[c] + tail[c], P, DatagramLen)
      BY <1>5, <3>1, <3>2, Zenon
    <3>4. B[c] + tail[c] <= P /\ (cHead >= tail[c] => C = P)
      BY <1>1, <1>4, <3>1
    <3> QED
      BY <3>3, <3>4, Zenon
  <2>2. CASE c # Last
    <3>1. PICK m \in L \ {cChunk} : m = next[c]
      BY <1>2, <1>3, <2>2, Zenon DEF Chain
    <3>2. tail[c] = cap[c] /\ B[m] = B[c] + tail[c] /\ B[m] \in 0..P /\ next[c] # 0
      <4>1. m \in Chunks /\ m # 0
        BY <1>0, MadeChunks, Zenon
      <4> QED
        BY <1>1, <1>2, <2>2, <3>1, <4>1, Zenon DEF Numbered
    <3>3. Listed[m] = Queued(B[m], P, DatagramLen)
      BY <1>0, <1>1, <1>2, ListedRun, Zenon
    <3>4. B[c] + tail[c] <= P /\ ~(cHead >= tail[c] /\ (cHead < cap[c] \/ next[c] = 0))
      BY <1>1, <1>4, <3>2
    <3> QED
      BY <3>1, <3>2, <3>3, <3>4, Zenon
  <2> QED
    BY <2>1, <2>2, Zenon
<1>13. Contents = Queued(C, P, l)
  <2>1. Contents = Piece(c, cHead) \o Listed[next[c]]
    BY <1>3, Zenon DEF Contents, Piece
  <2>2. Adjoin(C, B[c] + tail[c], P, l)
    BY <1>4, <1>10, <1>12 DEF Adjoin
  <2>3. Queued(C, B[c] + tail[c], l) \o Queued(B[c] + tail[c], P, DatagramLen) = Queued(C, P, l)
    BY <2>2, Joined
  <2> QED
    BY <1>11, <1>12, <2>1, <2>3, Zenon
<1>14. C <= P /\ (cHead < tail[c] => C < P /\ slots[c][cHead].head = C + 1)
       /\ (C = P => ~(cHead < tail[c]))
  BY <1>4, <1>8, <1>9, <1>12
<1>15. \A i \in cHead+1..tail[c]-1 : slots[c][i].left = DatagramLen
  <2>1. \A i \in cHead+1..tail[c]-1 : i \in cHead..tail[c]-1 /\ i # cHead
    BY <1>4
  <2> QED
    BY <1>8, <2>1, Zenon
<1>16. next[c] # 0 => \A i \in 0..tail[next[c]]-1 : slots[next[c]][i].left = DatagramLen
  <2>1. next[c] # 0 => next[c] \in L \ {cChunk}
    BY <1>2, Zenon DEF Chain
  <2> QED
    BY <1>2, <2>1, Zenon DEF Numbered, Holds
<1>17. FrontIs
  BY <1>1, <1>3, <1>6, <1>10, <1>12, <1>14, <1>15, <1>16, Zenon DEF FrontIs
<1> QED
  BY <1>1, <1>6, <1>13, <1>17, Zenon

-----------------------------------------------------------------------------
(* The invariant of the queue                                              *)

\* A new ring is empty.
LEMMA QueueInit == Init => QueueInv
<1> SUFFICES ASSUME Init PROVE QueueInv
  BY Zenon
<1> USE DEF Init, RingInit
<1>1. Made = {1} /\ 1 \in Chunks /\ 0 \notin Chunks /\ Made \subseteq Chunks /\ tail[1] = 0 /\ next[1] = 0
  BY RingAssumption, SMT DEF Made, Chunks
<1>2. Published = 0 /\ Consumed = 0 /\ 0 \in 0..0 /\ 0 \in Nat
  BY DEF Published, Consumed
<1>3. NumberInv
  <2> DEFINE B == [k \in Chunks |-> 0]
  <2>1. B \in [Chunks -> 0..Published] /\ \A k \in Chunks : B[k] = 0
    BY <1>2, Zenon
  <2> HIDE DEF B
  <2>2. Chain({1}) /\ Linking({1}) /\ {1} \in SUBSET Chunks /\ Last = 1
    BY <1>1, Zenon DEF Chain, Linking, Last
  <2>3. 0 + 0 = 0 /\ 0..0-1 = {}
    OBVIOUS
  <2>4. Numbered({1}, B)
    BY <1>1, <1>2, <2>1, <2>2, <2>3, Zenon DEF Numbered
  <2> QED
    BY <1>2, <2>1, <2>2, <2>4, Zenon DEF NumberInv
<1>4. EndsInv
  BY <1>1, SMT DEF EndsInv
<1>5. FeedInv
  BY <1>2, Zenon DEF FeedInv
<1>6. TurnInv /\ OpInv
  BY Zenon DEF TurnInv, OpInv
<1>7. RoomInv
  BY Zenon DEF RoomInv
<1> QED
  BY <1>3, <1>4, <1>5, <1>6, <1>7, Zenon DEF QueueInv

\* The steps of the ring, of feed and of its caller.
RingSteps == FeedPush \/ Pushing \/ PushReturn \/ (\E o, n : Take(o, n)) \/ Taking \/ TakeReturn \/ Close

\* A step of the connection is one of the ring, or leaves the ring alone.
LEMMA RingKinds ==
  ASSUME [Next]_vars
  PROVE  RingSteps \/ UNCHANGED ringVars
<1>1. CASE FeedPush \/ FeedPushing \/ FeedWake
  BY <1>1, Zenon DEF FeedPushing, FeedWake, RingSteps
<1>2. CASE OnRing \/ Gives
  BY <1>2, Zenon DEF OnRing, Looks, Gives, RingSteps
<1>3. CASE FeedCheck
  BY <1>3, Zenon DEF FeedCheck
<1>4. CASE UNCHANGED ringVars
  BY <1>4, Zenon
<1> QED
  BY <1>1, <1>2, <1>3, <1>4, Kinds, Zenon

\* Every step keeps the numbers, and what is known of the two ends.
LEMMA QueueStep == IInv /\ QueueInv /\ [Next]_vars => QueueInv'
<1> SUFFICES ASSUME IInv, QueueInv, [Next]_vars PROVE QueueInv'
  BY Zenon
<1>1. ChunkInv /\ ProducerInv /\ ConsumerInv /\ ListInv /\ SlotInv /\ CallInv
  BY Zenon DEF IInv
<1>2. NumberInv /\ EndsInv /\ FeedInv /\ TurnInv /\ OpInv /\ RoomInv
  BY Zenon DEF QueueInv
<1>3. totalPushed \in Nat /\ totalPopped \in Nat /\ room \in Nat /\ (cpc = "slot" => op \in {"pop", "partial"})
  BY <1>2, Zenon DEF NumberInv, RoomInv, OpInv
<1>4. TurnInv' /\ OpInv' /\ RoomInv'
  BY <1>1, <1>2, TurnStep, OpStep, RoomStep, Zenon
<1>5. FeedInv'
  <2>1. CASE cChunk' # 0
    BY <1>1, <1>2, <1>3, <2>1, FeedStep, Zenon
  <2>2. CASE cChunk' = 0
    BY <2>2, Zenon DEF FeedInv
  <2> QED
    BY <2>1, <2>2, Zenon
<1>6. cChunk' # 0 => cChunk # 0
  BY <1>1, StaysClosed, Zenon
<1>7. NumberInv' /\ EndsInv'
  <2>1. CASE FeedPush \/ Pushing \/ PushReturn
    <3>1. CASE cChunk' # 0
      BY <1>1, <1>2, <1>6, <2>1, <3>1, ProducerNumbers, ProducerEnds, Zenon
    <3>2. CASE cChunk' = 0
      <4>1. totalPushed' \in Nat /\ totalPopped' = totalPopped
        BY <1>1, <1>3, <2>1, PublishedStep, Zenon DEF FeedPush, Push, PushReturn, Pushing, PushLength, PushSwap,
             PushAlloc, PushLink, PushMove, PushSlot, PushTail, PushCount
      <4> QED
        BY <1>3, <3>2, <4>1, Zenon DEF NumberInv, EndsInv
    <3> QED
      BY <3>1, <3>2, Zenon
  <2>2. CASE (\E o, n : Take(o, n)) \/ Taking \/ TakeReturn \/ Close
    <3>1. CASE cChunk' # 0
      BY <1>1, <1>2, <1>3, <1>6, <2>2, <3>1, ConsumerNumbers, ConsumerEnds, Zenon
    <3>2. CASE cChunk' = 0
      <4>1. totalPopped' \in Nat
        BY <1>3, <2>2, ConsumedStep, Zenon
      <4>2. totalPushed' = totalPushed
        BY <2>2, Zenon DEF Take, Taking, TakeTail, TakeNext, TakeLeave, TakeSlot, TakeCount, CloseDetach,
             CloseWalk, TakeReturn, Close
      <4> QED
        BY <1>3, <3>2, <4>1, <4>2, Zenon DEF NumberInv, EndsInv
    <3> QED
      BY <3>1, <3>2, Zenon
  <2>3. CASE UNCHANGED ringVars
    <3>1. UNCHANGED <<cap, tail, next, slots, allocated, pool, ppc, pChunk, pc, nxt, idx, item, totalPushed,
                      totalPopped, cpc, cChunk, freeChunk, cc, cHead, cachedTail>>
      BY <2>3, Zenon
    <3>2. EndsInv'
      BY <1>2, <3>1, Zenon DEF EndsInv
    <3>3. Published' = Published /\ Consumed' = Consumed /\ Last' = Last /\ Made' = Made
      BY <3>1, Zenon DEF Published, Consumed, Last, Made
    <3>4. ASSUME NEW L, NEW B, Chain(L), Linking(L), Numbered(L, B)
          PROVE  Chain(L)' /\ Linking(L)' /\ Numbered(L, B)'
      <4>1. Chain(L)' /\ Linking(L)'
        BY <3>1, <3>3, <3>4, Zenon DEF Chain, Linking
      <4>2. Numbered(L, B)'
        BY <3>1, <3>3, <3>4, Zenon DEF Numbered, Holds
      <4> QED
        BY <4>1, <4>2, Zenon
    <3>5. NumberInv'
      BY <1>2, <3>1, <3>3, <3>4, Zenon DEF NumberInv
    <3> QED
      BY <3>2, <3>5, Zenon
  <2> QED
    BY <2>1, <2>2, <2>3, RingKinds, Zenon DEF RingSteps
<1> QED
  BY <1>4, <1>5, <1>7, Zenon DEF QueueInv

\* What is known of the queue holds in every reachable state.
LEMMA QueueInvariance == Spec => [](IInv /\ QueueInv)
BY InitInv, StepInv, QueueInit, QueueStep, PTL DEF Spec

-----------------------------------------------------------------------------
(* The ring implements the queue                                           *)

\* What the queue sees of the ring.
Result == IF op # "close" /\ cpc \in {"count", "done"} THEN <<out>> ELSE <<>>
Seen == <<Contents, cChunk = 0, Result>>

\* What is in the ring after a step.
LEMMA ContentsNext ==
  /\ IInv' /\ QueueInv' /\ cChunk' # 0 => FrontIs' /\ Contents' = Queued(Consumed', Published', FrontLeft')
  /\ cChunk' = 0 => Contents' = <<>>
<1>1. (IInv /\ QueueInv /\ cChunk # 0 => FrontIs /\ Contents = Queued(Consumed, Published, FrontLeft))'
  BY ContentsAre, PTL
<1>2. cChunk' = 0 => Contents' = <<>>
  BY Zenon DEF Contents
<1>3. Queued(Consumed, Published, FrontLeft)' = Queued(Consumed', Published', FrontLeft')
  BY Zenon DEF Queued
<1> QED
  BY <1>1, <1>2, <1>3, Zenon

\* The queue does not see a step that publishes nothing, takes nothing and gives the
\* consumer no result.
LEMMA Quiet ==
  ASSUME IInv, QueueInv, IInv', QueueInv', cChunk' = 0 <=> cChunk = 0, Result' = Result,
         cChunk # 0 => Published' = Published /\ Consumed' = Consumed /\ FrontLeft' = FrontLeft
  PROVE  UNCHANGED Seen
<1>1. Contents' = Contents
  <2>1. CASE cChunk = 0
    BY <2>1, Zenon DEF Contents
  <2>2. CASE cChunk # 0
    BY <2>2, ContentsAre, ContentsNext, Zenon
  <2> QED
    BY <2>1, <2>2, Zenon
<1> QED
  BY <1>1, Zenon DEF Seen

\* PushTail is the queue's Push; the other steps of Push are not seen.
LEMMA QueuePush ==
  ASSUME IInv, QueueInv, IInv', QueueInv', FeedPush \/ Pushing \/ PushReturn
  PROVE  Queue!Next \/ UNCHANGED Seen
<1>0. /\ ChunkInv /\ ProducerInv /\ ConsumerInv /\ ListInv /\ SlotInv /\ CallInv
      /\ NumberInv /\ EndsInv /\ FeedInv
  BY Zenon DEF IInv, QueueInv
<1>1. UNCHANGED <<cChunk, cHead, totalPopped, cpc, op, out>>
  BY Zenon DEF FeedPush, Push, PushReturn, Pushing, PushLength, PushSwap, PushAlloc, PushLink, PushMove,
       PushSlot, PushTail, PushCount
<1>2. Result' = Result /\ Consumed' = Consumed
  BY <1>1, Zenon DEF Result, Consumed
<1>3. CASE cChunk = 0
  BY <1>1, <1>2, <1>3, Quiet, Zenon
<1>4. ASSUME cChunk # 0 PROVE Queue!Next \/ UNCHANGED Seen
  <2>1. PICK L \in SUBSET Chunks : Chain(L) /\ Linking(L)
    BY <1>0, <1>4, Zenon DEF ListInv
  <2>2. PICK c \in L : c = cChunk
    BY <2>1, Zenon DEF Chain
  <2>3. /\ cap'[c] = cap[c] /\ (~PushTail => tail'[c] = tail[c]) /\ (~PushSlot => slots'[c] = slots[c])
    BY <1>0, <1>4, <2>1, ProducerKeeps, Zenon
  <2>4. /\ Published \in Nat /\ (PushTail => Published' = Published + 1)
        /\ ~PushTail => Published' = Published
    BY <1>0, PublishedStep, Zenon DEF NumberInv
  <2>5. c \in Chunks /\ cHead \in Nat /\ tail[c] \in Nat /\ cap[c] \in Nat /\ slots[c] \in [0..cap[c]-1 -> Parts]
    BY <1>0, Zenon DEF ChunkInv, ConsumerInv, SlotInv
  <2>6. ASSUME ~PushTail PROVE FrontLeft' = FrontLeft
    <3>1. cHead < tail[c] => slots'[c][cHead] = slots[c][cHead]
      <4>1. CASE PushSlot
        <5>1. cHead < tail[c] => pc # c \/ cHead # tail[pc]
          BY <2>5
        <5>2. slots' = [slots EXCEPT ![pc][tail[pc]] = item]
          BY <4>1, Zenon DEF PushSlot
        <5>3. slots'[c] = IF c = pc THEN [slots[c] EXCEPT ![tail[pc]] = item] ELSE slots[c]
          BY <1>0, <2>5, <5>2, Zenon DEF SlotInv
        <5>4. tail[c] <= cap[c]
          BY <1>0, <2>5, Zenon DEF ChunkInv
        <5>5. cHead < tail[c] => cHead \in 0..cap[c]-1
          BY <2>5, <5>4
        <5> QED
          BY <2>5, <5>1, <5>3, <5>5, Zenon
      <4>2. CASE ~PushSlot
        BY <2>3, <4>2, Zenon
      <4> QED
        BY <4>1, <4>2, Zenon
    <3> QED
      BY <1>1, <2>2, <2>3, <2>6, <3>1, Zenon DEF FrontLeft
  <2>7. ASSUME PushTail PROVE FrontLeft' = FrontLeft /\ Published' = fed /\ fed = Published + 1
    <3>1. /\ tail' = [tail EXCEPT ![pc] = idx + 1] /\ slots' = slots
          /\ idx = tail[pc] /\ slots[pc][idx] = item /\ item = [head |-> fed, left |-> DatagramLen]
          /\ fed = Published + 1
      BY <1>0, <1>4, <2>7, Zenon DEF PushTail, EndsInv, FeedInv
    <3>2. tail'[c] = IF c = pc THEN tail[c] + 1 ELSE tail[c]
      BY <1>0, <2>5, <3>1, Zenon DEF ChunkInv
    <3>3. item.left = DatagramLen
      BY <3>1
    <3>4. /\ cHead < tail[c] => cHead < tail'[c]
          /\ ~(cHead < tail[c]) /\ cHead < tail'[c] => c = pc /\ cHead = tail[c]
      BY <2>5, <3>2
    <3>5. FrontLeft' = FrontLeft
      <4>1. FrontLeft = IF cHead < tail[c] THEN slots[c][cHead].left ELSE DatagramLen
        BY <2>2, Zenon DEF FrontLeft
      <4>2. FrontLeft' = IF cHead < tail'[c] THEN slots[c][cHead].left ELSE DatagramLen
        BY <1>1, <2>2, <3>1, Zenon DEF FrontLeft
      <4> QED
        BY <3>1, <3>3, <3>4, <4>1, <4>2, Zenon
    <3> QED
      BY <2>4, <2>7, <3>1, <3>5, Zenon
  <2>8. CASE ~PushTail
    BY <1>1, <1>2, <2>4, <2>6, <2>8, Quiet, Zenon
  <2>9. CASE PushTail
    <3>1. PICK a \in Nat, p \in Nat, l \in 1..DatagramLen : a = Consumed /\ p = Published /\ l = FrontLeft
      BY <1>4, ContentsAre, Zenon DEF FrontIs
    <3>2. Contents = Queued(a, p, l) /\ a <= p /\ (a = p => l = DatagramLen)
      BY <1>4, <3>1, ContentsAre, Zenon DEF FrontIs
    <3>3. Contents' = Queued(a, p + 1, l)
      BY <1>1, <1>2, <1>4, <2>7, <2>9, <3>1, ContentsNext, Zenon
    <3>4. Append(Queued(a, p, l), [head |-> p + 1, left |-> DatagramLen]) = Queued(a, p + 1, l)
      BY <3>2, Appended
    <3>5. p + 1 \in Datagrams
      <4>1. fed \in 0..MaxFeeds /\ fed = p + 1 /\ MaxFeeds \in Nat
        BY <1>0, <2>7, <2>9, <3>1, PacketAssumption, Zenon DEF CallInv
      <4> QED
        BY <4>1 DEF Datagrams
    <3>6. PICK b \in [head : Datagrams, left : {DatagramLen}] : b = [head |-> p + 1, left |-> DatagramLen]
      BY <3>5, Zenon
    <3>7. Queue!Push(b)
      BY <1>1, <1>2, <1>4, <3>2, <3>3, <3>4, <3>6, Zenon DEF Queue!Push, Result
    <3> QED
      BY <3>7, Zenon DEF Queue!Next
  <2> QED
    BY <2>8, <2>9, Zenon
<1> QED
  BY <1>3, <1>4, Zenon

\* A call that finds nothing is made on a ring that is closed or empty.
LEMMA QueueNothing ==
  ASSUME IInv, QueueInv, IInv', QueueInv', cpc \in {"idle", "tail", "next"}, NothingThere, op' # "close",
         cChunk = 0 \/ (Consumed = Published /\ UNCHANGED <<cap, tail, next, slots, cHead>>),
         UNCHANGED <<cChunk, totalPopped, totalPushed, ppc>>
  PROVE  Queue!Next
<1>1. Result = <<>> /\ Result' = <<[ok |-> FALSE, n |-> 0, drained |-> 0]>>
  BY Zenon DEF Result, NothingThere, NoResult
<1>2. Published' = Published /\ Consumed' = Consumed
  BY Zenon DEF Published, Consumed, NothingThere
<1>3. Contents = <<>> /\ Contents' = <<>>
  <2>1. CASE cChunk = 0
    BY <2>1, Zenon DEF Contents
  <2>2. CASE cChunk # 0
    <3>1. PICK a \in Nat, l \in 1..DatagramLen : a = Consumed /\ a = Published /\ l = FrontLeft
      BY <2>2, ContentsAre, Zenon DEF FrontIs
    <3>2. Queued(a, a, l) = <<>>
      BY DEF Queued
    <3>3. FrontLeft' = FrontLeft
      BY <2>2, Zenon DEF FrontLeft
    <3> QED
      BY <1>2, <2>2, <3>1, <3>2, <3>3, ContentsAre, ContentsNext, Zenon
  <2> QED
    BY <2>1, <2>2, Zenon
<1>4. Queue!Nothing
  BY <1>1, <1>3, Zenon DEF Queue!Nothing, Result
<1> QED
  BY <1>4, Zenon DEF Queue!Next

\* TakeSlot takes the datagram at the front, or some bytes of it.
LEMMA QueueSlot ==
  ASSUME IInv, QueueInv, IInv', QueueInv', cChunk # 0, TakeSlot
  PROVE  Queue!Next
<1>0. /\ ChunkInv /\ ConsumerInv /\ SlotInv /\ NumberInv /\ EndsInv /\ op \in {"pop", "partial"}
      /\ room \in Nat /\ totalPopped \in Nat /\ totalPushed \in Nat
  BY Zenon DEF IInv, QueueInv, NumberInv, OpInv, RoomInv, TakeSlot
<1>1. PICK L \in SUBSET Chunks, B \in [Chunks -> 0..Published] : Chain(L) /\ Numbered(L, B)
  BY <1>0, Zenon DEF NumberInv
<1>2. PICK c, h, s, n : c = cChunk /\ h = cHead /\ s = slots[cChunk][cHead] /\ n = out'.n
  BY Zenon
<1>3. /\ cc = c /\ h \in 0..tail[c]-1 /\ h \in 0..cap[c]-1
      /\ s \in Parts /\ s.head = Consumed + 1 /\ s.left \in 1..DatagramLen /\ n \in 0..s.left
      /\ IF op = "pop" \/ n = s.left
           THEN /\ cHead' = h + 1 /\ cpc' = "count"
                /\ out' = [ok |-> TRUE, n |-> n, drained |-> s.head]
                /\ slots' = [slots EXCEPT ![c][h] = Empty]
           ELSE /\ cHead' = h /\ cpc' = "done"
                /\ out' = [ok |-> TRUE, n |-> n, drained |-> 0]
                /\ slots' = [slots EXCEPT ![c][h] = [s EXCEPT !.left = s.left - n]]
  BY <1>0, <1>1, <1>2, FirstSlot
<1>4. /\ UNCHANGED <<cap, tail, next, cChunk, totalPopped, op>> /\ Published' = Published
      /\ cpc = "slot" /\ c \in Chunks /\ tail[c] \in Nat
  BY <1>0, <1>1, <1>2, Zenon DEF TakeSlot, Published, Chain, ChunkInv
<1>5. PICK a \in Nat, p \in Nat, l \in 1..DatagramLen : a = Consumed /\ p = Published /\ l = FrontLeft
  BY ContentsAre, Zenon DEF FrontIs
<1>6. h < tail[c] /\ h \in Nat
  BY <1>3, <1>4
<1>7. /\ Contents = Queued(a, p, l) /\ a < p /\ l = s.left /\ s.head = a + 1
      /\ \A i \in h+1..tail[c]-1 : slots[c][i].left = DatagramLen
  BY <1>2, <1>3, <1>5, <1>6, ContentsAre, Zenon DEF FrontIs, FrontLeft
<1>8. /\ Queued(a, p, l) # <<>> /\ Head(Queued(a, p, l)) = [head |-> a + 1, left |-> l]
      /\ Tail(Queued(a, p, l)) = Queued(a + 1, p, DatagramLen)
      /\ \A m : <<[head |-> a + 1, left |-> m]>> \o Queued(a + 1, p, DatagramLen) = Queued(a, p, m)
  BY <1>7, FrontOf, Zenon
<1>9. PICK b : b = [head |-> a + 1, left |-> l]
  BY Zenon
<1>10. b.head = a + 1 /\ b.left = l /\ \A m : [b EXCEPT !.left = m] = [head |-> a + 1, left |-> m]
  BY <1>9
<1>11. Result = <<>> /\ Result' = <<out'>>
  BY <1>0, <1>3, <1>4, Zenon DEF Result
<1>12. CASE op = "pop" \/ n = s.left
  <2>1. Consumed' = a + 1
    BY <1>0, <1>3, <1>4, <1>5, <1>12 DEF Consumed
  <2>2. FrontLeft' = DatagramLen
    <3>1. slots'[c] = [slots[c] EXCEPT ![h] = Empty] /\ slots[c] \in [0..cap[c]-1 -> Parts]
      BY <1>0, <1>3, <1>4, <1>12, Zenon DEF SlotInv
    <3>2. h+1 < tail[c] => h+1 \in h+1..tail[c]-1 /\ h+1 \in 0..cap[c]-1 /\ h+1 # h
      <4>1. tail[c] <= cap[c] /\ cap[c] \in Nat
        BY <1>0, <1>4, Zenon DEF ChunkInv
      <4> QED
        BY <1>4, <1>6, <4>1
    <3>3. h+1 < tail[c] => slots'[c][h+1] = slots[c][h+1]
      BY <3>1, <3>2, Zenon
    <3>4. FrontLeft' = IF h+1 < tail[c] THEN slots'[c][h+1].left ELSE DatagramLen
      BY <1>2, <1>3, <1>4, <1>12, Zenon DEF FrontLeft
    <3> QED
      BY <1>7, <3>2, <3>3, <3>4, Zenon
  <2>3. Contents' = Queued(a + 1, p, DatagramLen)
    BY <1>2, <1>4, <1>5, <2>1, <2>2, ContentsNext, Zenon
  <2>4. out' = [ok |-> TRUE, n |-> n, drained |-> a + 1]
    BY <1>3, <1>7, <1>12, Zenon
  <2>5. Queue!Take(n, op = "pop")
    BY <1>4, <1>7, <1>8, <1>9, <1>10, <1>11, <1>12, <2>3, <2>4, Zenon DEF Queue!Take, Result
  <2> QED
    BY <1>3, <1>7, <1>8, <1>9, <1>10, <2>5, Zenon DEF Queue!Next
<1>13. CASE ~(op = "pop" \/ n = s.left)
  <2>1. Consumed' = a
    BY <1>0, <1>3, <1>4, <1>5, <1>13 DEF Consumed
  <2>2. FrontLeft' = l - n
    <3>1. slots'[c][h] = [s EXCEPT !.left = s.left - n]
      BY <1>0, <1>3, <1>4, <1>13, Zenon DEF SlotInv
    <3>2. [s EXCEPT !.left = s.left - n].left = s.left - n
      <4>1. s \in [head : {0} \union Datagrams, left : Int]
        BY <1>3, Zenon DEF Parts
      <4> QED
        BY <4>1
    <3>3. FrontLeft' = slots'[c][h].left
      BY <1>2, <1>3, <1>4, <1>6, <1>13, Zenon DEF FrontLeft
    <3> QED
      BY <1>7, <3>1, <3>2, <3>3, Zenon
  <2>3. Contents' = Queued(a, p, l - n)
    BY <1>2, <1>4, <1>5, <2>1, <2>2, ContentsNext, Zenon
  <2>4. [b EXCEPT !.left = @ - n] = [head |-> a + 1, left |-> l - n]
    BY <1>10, Zenon
  <2>5. Contents' = <<[b EXCEPT !.left = @ - n]>> \o Tail(Contents)
    BY <1>7, <1>8, <2>3, <2>4, Zenon
  <2>6. Head(Contents) = b /\ ~(op = "pop" \/ n = b.left)
    BY <1>7, <1>8, <1>9, <1>10, <1>13, Zenon
  <2>7. Queue!Take(n, op = "pop")
    BY <1>3, <1>4, <1>11, <1>13, <2>5, <2>6, Zenon DEF Queue!Take, Result
  <2> QED
    BY <1>3, <1>7, <1>8, <1>9, <1>10, <2>7, Zenon DEF Queue!Next
<1> QED
  BY <1>12, <1>13, Zenon

\* The consumer's steps that neither take a slot nor leave a chunk keep what is in an
\* open ring.
LEMMA FrontKept ==
  ASSUME IInv, QueueInv, cChunk # 0, cChunk' # 0,
         (\E o, n : Take(o, n)) \/ TakeTail \/ TakeNext \/ TakeCount \/ TakeReturn \/ Close
  PROVE  Published' = Published /\ Consumed' = Consumed /\ FrontLeft' = FrontLeft
<1>0. /\ ChunkInv /\ ProducerInv /\ ConsumerInv /\ ListInv /\ SlotInv /\ NumberInv
  BY Zenon DEF IInv, QueueInv
<1>1. (\E o, n : Take(o, n)) \/ Taking \/ TakeReturn \/ Close
  BY Zenon DEF Taking
<1>2. ~TakeSlot /\ UNCHANGED <<cChunk, cHead>>
  BY Zenon DEF Take, TakeTail, TakeNext, TakeCount, TakeReturn, Close, TakeSlot
<1>3. PICK L \in SUBSET Chunks : Chain(L)
  BY <1>0, Zenon DEF ListInv
<1>4. PICK c \in L : c = cChunk
  BY <1>3, Zenon DEF Chain
<1>5. /\ tail'[c] = tail[c] /\ slots'[c] = slots[c] /\ UNCHANGED <<totalPushed, ppc>>
  BY <1>0, <1>1, <1>2, <1>3, ConsumerKeeps, Zenon
<1>6. Consumed' = Consumed
  BY <1>0, <1>1, <1>2, ConsumedStep, Zenon DEF NumberInv
<1> QED
  BY <1>2, <1>4, <1>5, <1>6, Zenon DEF Published, FrontLeft

\* TakeLeave goes from a chunk that is used up to the next, whose first datagram nobody
\* has read of.
LEMMA LeaveKept ==
  ASSUME IInv, QueueInv, IInv', QueueInv', TakeLeave
  PROVE  UNCHANGED Seen
<1>0. /\ ChunkInv /\ ProducerInv /\ ConsumerInv /\ ListInv /\ SlotInv /\ EndsInv /\ NumberInv
  BY Zenon DEF IInv, QueueInv
<1>1. /\ cpc = "leave" /\ cpc' = "tail" /\ cc = cChunk /\ cChunk # 0 /\ cap[cChunk] <= cHead
      /\ cChunk' = next[cChunk] /\ next[cChunk] # 0 /\ cHead' = 0
  BY <1>0, Zenon DEF TakeLeave, ConsumerInv, ListInv, EndsInv
<1>2. PICK L \in SUBSET Chunks : Chain(L)
  BY <1>0, <1>1, Zenon DEF ListInv
<1>3. PICK m \in L : m = next[cChunk] /\ cChunk \in L
  BY <1>1, <1>2, Zenon DEF Chain
<1>4. ~TakeSlot /\ Taking
  BY <1>1, Zenon DEF TakeSlot, Taking
<1>5. tail'[m] = tail[m] /\ slots'[m] = slots[m] /\ UNCHANGED <<totalPushed, ppc>>
  BY <1>0, <1>1, <1>2, <1>4, ConsumerKeeps, Zenon
<1>6. Consumed' = Consumed /\ Published' = Published
  BY <1>0, <1>4, <1>5, ConsumedStep, Zenon DEF NumberInv, Published
<1>7. FrontLeft = DatagramLen
  <2>1. cHead \in Nat /\ tail[cChunk] \in Nat /\ tail[cChunk] <= cap[cChunk] /\ cap[cChunk] \in Nat
    BY <1>0, <1>3, Zenon DEF ConsumerInv, ChunkInv
  <2>2. ~(cHead < tail[cChunk])
    BY <1>1, <2>1
  <2> QED
    BY <2>2, Zenon DEF FrontLeft
<1>8. FrontLeft' = DatagramLen
  <2>1. 0 < tail[m] => 0 \in 0..tail[m]-1
    BY <1>0 DEF ChunkInv
  <2>2. \A i \in 0..tail[m]-1 : slots[m][i].left = DatagramLen
    BY <1>1, <1>3, ContentsAre, Zenon DEF FrontIs
  <2>3. FrontLeft' = IF 0 < tail[m] THEN slots[m][0].left ELSE DatagramLen
    BY <1>1, <1>3, <1>5, Zenon DEF FrontLeft
  <2> QED
    BY <2>1, <2>2, <2>3, Zenon
<1>9. Result' = Result
  BY <1>1, Zenon DEF Result
<1> QED
  BY <1>1, <1>6, <1>7, <1>8, <1>9, Quiet, Zenon

\* The steps of Pop and PartialRead, and of Close.
LEMMA QueueTake ==
  ASSUME IInv, QueueInv, IInv', QueueInv',
         Take("pop", 0) \/ Take("partial", want) \/ Taking \/ TakeReturn \/ Close
  PROVE  Queue!Next \/ UNCHANGED Seen
<1>0. ConsumerInv /\ OpInv
  BY Zenon DEF IInv, QueueInv
<1>1. ASSUME NEW o \in {"pop", "partial"}, NEW n, Take(o, n) PROVE Queue!Next \/ UNCHANGED Seen
  <2>1. CASE cChunk = 0
    <3>1. /\ cpc = "idle" /\ NothingThere /\ op' # "close" /\ UNCHANGED <<cChunk, totalPopped, totalPushed, ppc>>
      BY <1>1, <2>1, Zenon DEF Take
    <3> QED
      BY <2>1, <3>1, QueueNothing, Zenon
  <2>2. CASE cChunk # 0
    <3>1. cpc = "idle" /\ cpc' \in {"tail", "slot"} /\ cChunk' = cChunk
      BY <1>1, <2>2, Zenon DEF Take
    <3>2. Result' = Result
      BY <3>1, Zenon DEF Result
    <3> QED
      BY <1>1, <2>2, <3>1, <3>2, FrontKept, Quiet, Zenon
  <2> QED
    BY <2>1, <2>2, Zenon
<1>2. CASE TakeTail \/ TakeNext
  <2>1. /\ cpc \in {"tail", "next"} /\ cc = cChunk /\ cChunk # 0 /\ op \in {"pop", "partial"}
        /\ UNCHANGED <<cap, tail, next, slots, cHead, cChunk, totalPopped, totalPushed, ppc, op>>
    BY <1>0, <1>2, Zenon DEF TakeTail, TakeNext, ConsumerInv, OpInv
  <2>2. CASE NothingThere
    <3>1. cHead >= tail[cChunk] /\ (cHead < cap[cChunk] \/ next[cChunk] = 0)
      <4>1. CASE TakeTail
        <5>1. cpc' = "done"
          BY <2>2, Zenon DEF NothingThere
        <5> QED
          BY <2>1, <4>1, <5>1, Zenon DEF TakeTail
      <4>2. CASE TakeNext
        <5>1. cap[cChunk] <= cHead /\ next[cChunk] = 0 /\ cChunk \in Chunks /\ ChunkInv
          <6>1. cpc' = "done"
            BY <2>2, Zenon DEF NothingThere
          <6> QED
            BY <1>0, <2>1, <4>2, <6>1, MadeChunks, Zenon DEF TakeNext, IInv, QueueInv, EndsInv, ConsumerInv
        <5>2. tail[cChunk] \in Nat /\ cap[cChunk] \in Nat /\ tail[cChunk] <= cap[cChunk] /\ cHead \in Nat
          BY <1>0, <5>1, Zenon DEF ChunkInv, ConsumerInv
        <5> QED
          BY <5>1, <5>2
      <4> QED
        BY <1>2, <4>1, <4>2, Zenon
    <3>2. Consumed = Published
      BY <2>1, <3>1, ContentsAre, Zenon DEF FrontIs
    <3>3. op' # "close"
      BY <2>1, Zenon
    <3> QED
      BY <2>1, <2>2, <3>2, <3>3, QueueNothing, Zenon
  <2>3. CASE ~NothingThere
    <3>1. cpc' \notin {"count", "done"}
      BY <1>2, <2>3, Zenon DEF TakeTail, TakeNext, NothingThere
    <3>2. Result' = Result
      BY <2>1, <3>1, Zenon DEF Result
    <3> QED
      BY <1>2, <2>1, <3>2, FrontKept, Quiet, Zenon
  <2> QED
    BY <2>2, <2>3, Zenon
<1>3. CASE TakeLeave
  BY <1>3, LeaveKept, Zenon
<1>4. CASE TakeSlot
  BY <1>0, <1>4, QueueSlot, Zenon DEF ConsumerInv, TakeSlot
<1>5. CASE TakeCount
  <2>1. Result' = Result /\ cChunk' = cChunk
    BY <1>5, Zenon DEF TakeCount, Result
  <2> QED
    BY <1>5, <2>1, FrontKept, Quiet, Zenon
<1>6. CASE TakeReturn
  <2>1. Result' = <<>> /\ cChunk' = cChunk
    BY <1>6, Zenon DEF TakeReturn, Result
  <2>2. Contents' = Contents
    <3>1. CASE cChunk = 0
      BY <2>1, <3>1, Zenon DEF Contents
    <3>2. CASE cChunk # 0
      BY <1>6, <2>1, <3>2, FrontKept, ContentsAre, ContentsNext, Zenon
    <3> QED
      BY <3>1, <3>2, Zenon
  <2>3. CASE Result = <<>>
    BY <2>1, <2>2, <2>3, Zenon DEF Seen
  <2>4. CASE Result # <<>>
    <3>1. Queue!Return
      BY <2>1, <2>2, <2>4, Zenon DEF Queue!Return, Result
    <3> QED
      BY <3>1, Zenon DEF Queue!Next
  <2> QED
    BY <2>3, <2>4, Zenon
<1>7. CASE Close
  <2>1. Result' = Result /\ cChunk' = cChunk
    BY <1>7, Zenon DEF Close, Result
  <2> QED
    BY <1>7, <2>1, FrontKept, Quiet, Zenon
<1>8. CASE CloseDetach
  <2>1. op = "close" /\ op' = "close" /\ cChunk' = 0
    BY <1>0, <1>8, Zenon DEF CloseDetach, OpInv
  <2>2. Queue!Close
    BY <2>1, ContentsNext, Zenon DEF Queue!Close
  <2> QED
    BY <2>2, Zenon DEF Queue!Next
<1>9. CASE CloseWalk
  <2>1. op = "close" /\ op' = "close" /\ cChunk = 0 /\ cChunk' = 0
    BY <1>0, <1>9, Zenon DEF CloseWalk, OpInv, ConsumerInv
  <2>2. Result' = Result
    BY <2>1, Zenon DEF Result
  <2> QED
    BY <2>1, <2>2, Quiet, Zenon
<1> QED
  BY <1>1, <1>2, <1>3, <1>4, <1>5, <1>6, <1>7, <1>8, <1>9, Zenon DEF Taking

\* The queue of a new ring is empty, open and between calls.
LEMMA QueueStart == Init => Queue!Init
<1> SUFFICES ASSUME Init PROVE Queue!Init
  BY Zenon
<1>1. cChunk # 0 /\ cpc = "idle" /\ Consumed = 0 /\ Published = 0
  BY SMT DEF Init, RingInit, Consumed, Published
<1>2. Contents = Queued(0, 0, FrontLeft)
  BY <1>1, InitInv, QueueInit, ContentsAre, Zenon
<1>3. Queued(0, 0, FrontLeft) = <<>>
  BY DEF Queued
<1> QED
  BY <1>1, <1>2, <1>3, Zenon DEF Queue!Init

\* Every step of the connection is one of the queue, or is not seen by it.
LEMMA QueueImplements ==
  ASSUME IInv, QueueInv, IInv', QueueInv', [Next]_vars
  PROVE  [Queue!Next]_<<Contents, cChunk = 0,
                        IF op # "close" /\ cpc \in {"count", "done"} THEN <<out>> ELSE <<>>>>
<1>1. Queue!Next \/ UNCHANGED Seen
  <2>1. CASE FeedPush \/ FeedPushing \/ FeedWake
    <3>1. FeedPush \/ Pushing \/ PushReturn
      BY <2>1, Zenon DEF FeedPushing, FeedWake
    <3> QED
      BY <3>1, QueuePush, Zenon
  <2>2. CASE OnRing \/ Gives
    BY <2>2, QueueTake, Zenon DEF OnRing, Looks, Gives
  <2>3. CASE UNCHANGED ringVars
    <3>1. UNCHANGED <<tail, slots, ppc, totalPushed, totalPopped, cpc, op, out, cChunk, cHead>>
      BY <2>3, Zenon
    <3>2. Published' = Published /\ Consumed' = Consumed /\ FrontLeft' = FrontLeft /\ Result' = Result
      BY <3>1, Zenon DEF Published, Consumed, FrontLeft, Result
    <3> QED
      BY <3>1, <3>2, Quiet, Zenon
  <2> QED
    BY <2>1, <2>2, <2>3, Kinds, Zenon DEF FeedCheck
<1> QED
  BY <1>1, Zenon DEF Seen, Result

\* The chunks, the free list and the pool of the ring are one queue to Push, Pop,
\* PartialRead and Close: no datagram is lost, repeated or reordered before Close, and a
\* call that finds nothing is made on an empty or closed ring.
THEOREM QueueTheorem == Spec => IsQueue
<1>1. IInv /\ QueueInv /\ (IInv /\ QueueInv)' /\ [Next]_vars
        => [Queue!Next]_<<Contents, cChunk = 0,
                          IF op # "close" /\ cpc \in {"count", "done"} THEN <<out>> ELSE <<>>>>
  BY QueueImplements, Zenon
<1> QED
  BY <1>1, QueueStart, QueueInvariance, PTL DEF Spec, IsQueue, Queue!Spec
=============================================================================
