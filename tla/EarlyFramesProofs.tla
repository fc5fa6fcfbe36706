-------------------------- MODULE EarlyFramesProofs --------------------------
(***************************************************************************)
(* Proofs about EarlyFrames, for every finite set of ids and every value   *)
(* of its limits: the accounting and the limits of the stash, its          *)
(* separation from the open and the recently closed labels, the order of   *)
(* the early frames, and the credit for every payload byte.                *)
(***************************************************************************)
EXTENDS EarlyFrames, FiniteSums

Frames == [flag : {"DATA", "FIN", "RST"}, n : Nat, len : Nat]
Markers == [id : Ids, expired : BOOLEAN]
Queues == [Ids -> Seq(Frames)]

\* The payload bytes in the queues p.
Total(p) == SumFunction([id \in Ids |-> Bytes(p[id])])

\* No two markers of s have the same id.
OneEach(s) == \A i, j \in DOMAIN s : s[i].id = s[j].id => i = j

-----------------------------------------------------------------------------
(* Filtering the marker table                                              *)

\* One turn of the recursion of Only, and a table that follows it up to n.
OnlyStep(s, T, g, i) ==
  IF i = 0 THEN <<>> ELSE IF s[i] \in T THEN Append(g[i-1], s[i]) ELSE g[i-1]

Follows(s, T, g, n) == \A i \in 0..Len(s) : i <= n => g[i] = OnlyStep(s, T, g, i)

\* What Only has kept of the first i elements of s.
Filtered(s, T, u, i) ==
  /\ Len(u) <= i
  /\ \A a \in DOMAIN u : u[a] \in T /\ \E j \in 1..i : u[a] = s[j]
  /\ OneEach(s) => OneEach(u)

\* The recursion of Only has a solution.
LEMMA OnlyTable ==
  ASSUME NEW s \in Seq(Markers), NEW T
  PROVE  \E g \in [0..Len(s) -> Seq(Markers)] : Follows(s, T, g, Len(s))
<1> DEFINE N == Len(s)
           Upto(n) == \E g \in [0..N -> Seq(Markers)] : Follows(s, T, g, n)
<1>0. N \in Nat /\ \A i \in 0..N : i # 0 => i-1 \in 0..N /\ s[i] \in Markers
  OBVIOUS
<1>1. Upto(0)
  <2>1. [i \in 0..N |-> <<>>] \in [0..N -> Seq(Markers)]
    OBVIOUS
  <2>2. \A i \in 0..N : i <= 0 => i = 0
    OBVIOUS
  <2> QED
    BY <2>1, <2>2, Zenon DEF Follows, OnlyStep
<1>2. ASSUME NEW n \in Nat, Upto(n) PROVE Upto(n+1)
  <2>1. PICK g \in [0..N -> Seq(Markers)] : Follows(s, T, g, n)
    BY <1>2, Zenon
  <2> DEFINE h == [i \in 0..N |-> OnlyStep(s, T, g, i)]
  <2>2. \A i \in 0..N : OnlyStep(s, T, g, i) \in Seq(Markers)
    <3>1. <<>> \in Seq(Markers) /\ \A q \in Seq(Markers), m \in Markers : Append(q, m) \in Seq(Markers)
      OBVIOUS
    <3> QED
      BY <1>0, <3>1, Zenon DEF OnlyStep
  <2>3. h \in [0..N -> Seq(Markers)] /\ \A i \in 0..N : h[i] = OnlyStep(s, T, g, i)
    BY <2>2, Zenon
  <2> HIDE DEF h
  <2>4. \A i \in 0..N : i <= n => h[i] = g[i]
    BY <2>1, <2>3, Zenon DEF Follows
  <2>5. ASSUME NEW i \in 0..N, i <= n+1 PROVE h[i] = OnlyStep(s, T, h, i)
    <3>1. i # 0 => i-1 \in 0..N /\ i-1 <= n
      BY <1>0, <2>5
    <3>2. i # 0 => h[i-1] = g[i-1]
      BY <2>4, <3>1, Zenon
    <3> QED
      BY <2>3, <3>2, Zenon DEF OnlyStep
  <2> QED
    BY <2>3, <2>5, Zenon DEF Follows
<1>3. \A n \in Nat : Upto(n)
  <2> DEFINE F == {n \in Nat : ~Upto(n)}
  <2> HIDE DEF Upto
  <2>1. SUFFICES ASSUME F # {} PROVE FALSE
    BY Zenon
  <2>2. PICK n \in F : \A m \in F : n <= m
    BY <2>1, Least, Zenon
  <2>3. n # 0
    BY <1>1, Zenon
  <2>4. n - 1 \in Nat /\ Upto(n - 1)
    BY <2>2, <2>3
  <2> QED
    BY <1>2, <2>4
<1> QED
  BY <1>0, <1>3, Zenon

\* Only keeps elements of s that are in T, as many as s has at most, and at most
\* one of an id when s has.
LEMMA OnlyFilters ==
  ASSUME NEW s \in Seq(Markers), NEW T
  PROVE  Only(s, T) \in Seq(Markers) /\ Filtered(s, T, Only(s, T), Len(s))
<1> DEFINE N == Len(s)
           Def(g) == g = [i \in 0..N |-> OnlyStep(s, T, g, i)]
<1>0. N \in Nat /\ N \in 0..N
  OBVIOUS
<1>1. Only(s, T) = (CHOOSE g : Def(g))[N]
  BY Zenon DEF Only, OnlyStep
<1>2. \E g : Def(g)
  <2>1. PICK g \in [0..N -> Seq(Markers)] : Follows(s, T, g, N)
    BY OnlyTable, Zenon
  <2>2. \A i \in 0..N : i <= N
    OBVIOUS
  <2> QED
    BY <2>1, <2>2, Zenon DEF Follows
<1>3. PICK g : Def(g) /\ Only(s, T) = g[N]
  <2> HIDE DEF Def
  <2> QED
    BY <1>1, <1>2, Zenon
<1>4. \A i \in 0..N : g[i] = OnlyStep(s, T, g, i)
  BY <1>3, Zenon
<1> DEFINE Good(i) == g[i] \in Seq(Markers) /\ Filtered(s, T, g[i], i)
<1>5. Good(0)
  <2>1. 0 \in 0..N
    OBVIOUS
  <2>2. g[0] = <<>>
    BY <1>4, <2>1, Zenon DEF OnlyStep
  <2> QED
    BY <2>2 DEF Filtered, OneEach
<1>6. ASSUME NEW i \in Nat, i+1 \in 0..N, Good(i) PROVE Good(i+1)
  <2>1. g[i+1] = IF s[i+1] \in T THEN Append(g[i], s[i+1]) ELSE g[i]
    BY <1>4, <1>6 DEF OnlyStep
  <2>2. PICK u \in Seq(Markers), m \in Markers : u = g[i] /\ m = s[i+1] /\ i+1 \in DOMAIN s
    BY <1>6
  <2>3. Filtered(s, T, u, i)
    BY <1>6, <2>2, Zenon
  <2>4. CASE m \notin T
    <3>1. g[i+1] = u
      BY <2>1, <2>2, <2>4, Zenon
    <3>2. Filtered(s, T, u, i+1)
      BY <2>3 DEF Filtered
    <3> QED
      BY <3>1, <3>2, Zenon
  <2>5. CASE m \in T
    <3>1. g[i+1] = Append(u, m)
      BY <2>1, <2>2, <2>5, Zenon
    <3> DEFINE v == Append(u, m)
    <3>2. /\ v \in Seq(Markers) /\ Len(v) = Len(u) + 1 /\ DOMAIN v = 1..Len(u)+1 /\ DOMAIN u = 1..Len(u)
          /\ \A a \in 1..Len(u) : v[a] = u[a]
          /\ v[Len(u)+1] = m /\ Len(u) \in Nat
      OBVIOUS
    <3> HIDE DEF v
    <3>3. Len(v) <= i+1
      BY <2>3, <3>2 DEF Filtered
    <3>4. \A a \in DOMAIN v : a \in DOMAIN u \/ a = Len(u)+1
      BY <3>2
    <3>5. i+1 \in 1..i+1 /\ \A j \in 1..i : j \in 1..i+1
      OBVIOUS
    <3>6. \A a \in DOMAIN v : v[a] \in T /\ \E j \in 1..i+1 : v[a] = s[j]
      BY <2>2, <2>3, <2>5, <3>2, <3>4, <3>5, Zenon DEF Filtered
    <3>7. ASSUME OneEach(s) PROVE OneEach(v)
      <4>1. OneEach(u)
        BY <2>3, <3>7, Zenon DEF Filtered
      <4>2. \A a \in DOMAIN u : u[a].id # m.id
        <5>1. \A j \in 1..i : j \in DOMAIN s /\ j # i+1
          BY <1>6
        <5> QED
          BY <2>2, <2>3, <3>7, <5>1, Zenon DEF Filtered, OneEach
      <4> QED
        BY <3>2, <3>4, <4>1, <4>2, Zenon DEF OneEach
    <3> QED
      BY <3>1, <3>2, <3>3, <3>6, <3>7, Zenon DEF Filtered, v
  <2> QED
    BY <2>4, <2>5, Zenon
<1>7. Good(N)
  <2> DEFINE F == {i \in Nat : i <= N /\ ~Good(i)}
  <2> HIDE DEF Good
  <2>0. N <= N
    OBVIOUS
  <2>1. SUFFICES ASSUME N \in F PROVE FALSE
    BY <1>0, <2>0, Zenon
  <2>2. PICK i \in F : \A m \in F : i <= m
    BY <2>1, Least, Zenon
  <2>3. i \in Nat /\ i <= N /\ ~Good(i) /\ i # 0
    BY <1>5, <2>2, Zenon
  <2>4. PICK k \in Nat : i = k+1 /\ k <= N /\ ~(i <= k) /\ k+1 \in 0..N
    BY <2>3
  <2>5. Good(k)
    BY <2>2, <2>4, Zenon
  <2> QED
    BY <1>6, <2>3, <2>4, <2>5, Zenon
<1> QED
  BY <1>3, <1>7, Zenon

-----------------------------------------------------------------------------
(* The bytes of the queues                                                 *)

\* The fields of the frames of a queue.
LEMMA FrameFacts ==
  /\ \A f \in Frames : f.len \in Nat /\ f.len \in Int /\ f.n \in Nat
  /\ \A q \in Seq(Frames) : /\ Len(q) \in Nat /\ DOMAIN q = 1..Len(q)
                            /\ \A i \in 1..Len(q) : q[i] \in Frames
                            /\ q # <<>> => Len(q) # 0 /\ Head(q) = q[1] /\ Head(q) \in Frames
<1>1. \A f \in Frames : f.len \in Nat /\ f.len \in Int /\ f.n \in Nat
  BY DEF Frames
<1>2. ASSUME NEW q \in Seq(Frames)
      PROVE  /\ Len(q) \in Nat /\ DOMAIN q = 1..Len(q)
             /\ \A i \in 1..Len(q) : q[i] \in Frames
             /\ q # <<>> => Len(q) # 0 /\ Head(q) = q[1] /\ Head(q) \in Frames
  OBVIOUS
<1> QED
  BY <1>1, <1>2, Zenon

\* The bytes of a queue are a number; a frame at the end adds its length, and the
\* first one takes its own away when it is delivered.
LEMMA BytesFacts ==
  /\ Bytes(<<>>) = 0
  /\ \A q \in Seq(Frames) : Bytes(q) \in Nat
  /\ \A q \in Seq(Frames) : \A f \in Frames : Bytes(Append(q, f)) = Bytes(q) + f.len
  /\ \A q \in Seq(Frames) : q # <<>> => Bytes(Tail(q)) = Bytes(q) - Head(q).len
<1>1. Bytes(<<>>) = 0
  <2>1. DOMAIN <<>> = {} /\ IsFiniteSet({})
    BY FS_EmptySet
  <2>2. [i \in {} |-> (<<>>)[i].len] = [i \in {} |-> 0]
    BY Zenon
  <2>3. SumFunction([i \in {} |-> 0]) = 0
    BY <2>1, SumZero, Zenon
  <2> QED
    BY <2>1, <2>2, <2>3, Zenon DEF Bytes
<1>2. ASSUME NEW q \in Seq(Frames) PROVE Bytes(q) \in Nat
  <2> DEFINE e == [i \in DOMAIN q |-> q[i].len]
  <2>1. \A i \in DOMAIN q : q[i].len \in Nat
    BY FrameFacts, Zenon
  <2>2. e \in [DOMAIN q -> Nat] /\ IsFiniteSet(DOMAIN q)
    <3>1. DOMAIN q = 1..Len(q) /\ 1 \in Int /\ Len(q) \in Int
      OBVIOUS
    <3> QED
      BY <2>1, <3>1, FS_Interval, Zenon
  <2> HIDE DEF e
  <2>3. SumFunction(e) \in Nat
    BY <2>2, SumNat, Zenon
  <2> QED
    BY <2>3, Zenon DEF Bytes, e
<1>3. ASSUME NEW q \in Seq(Frames), NEW f \in Frames PROVE Bytes(Append(q, f)) = Bytes(q) + f.len
  <2>0. PICK n \in Nat : n = Len(q) /\ DOMAIN q = 1..n
    OBVIOUS
  <2> DEFINE v == Append(q, f)
             e == [i \in 1..n+1 |-> v[i].len]
  <2>1. DOMAIN v = 1..n+1 /\ (\A i \in 1..n : v[i] = q[i]) /\ v[n+1] = f
    BY <2>0
  <2> HIDE DEF v
  <2>2. e \in [1..n+1 -> Int] /\ e[n+1] = f.len /\ [i \in 1..n |-> e[i]] = [i \in 1..n |-> q[i].len]
    <3>1. /\ \A i \in 1..n+1 : i \in 1..n \/ i = n+1
          /\ n+1 \in 1..n+1 /\ \A i \in 1..n : i \in 1..n+1
      OBVIOUS
    <3>2. f.len \in Int /\ \A i \in 1..n : q[i].len \in Int
      BY <2>0, FrameFacts, Zenon
    <3>3. \A i \in 1..n+1 : v[i].len \in Int
      BY <2>1, <3>1, <3>2, Zenon
    <3> QED
      BY <2>1, <3>1, <3>3, Zenon
  <2> HIDE DEF e
  <2>3. SumFunction(e) = SumFunction([i \in 1..n |-> e[i]]) + e[n+1]
    BY <2>2, SumPrefix, Zenon
  <2>4. SumFunction(e) = SumFunction([i \in 1..n |-> q[i].len]) + f.len
    BY <2>2, <2>3, Zenon
  <2> QED
    BY <2>0, <2>1, <2>4, Zenon DEF Bytes, e, v
<1>4. ASSUME NEW q \in Seq(Frames), q # <<>> PROVE Bytes(Tail(q)) = Bytes(q) - Head(q).len
  <2>0. PICK n \in Nat : Len(q) = n+1 /\ DOMAIN q = 1..n+1
    <3>1. Len(q) \in Nat /\ Len(q) # 0 /\ DOMAIN q = 1..Len(q)
      BY <1>4, FrameFacts, Zenon
    <3>2. \A l \in Nat : l # 0 => \E n \in Nat : l = n+1
      <4>1. ASSUME NEW l \in Nat, l # 0 PROVE l-1 \in Nat /\ l = (l-1)+1
        BY <4>1
      <4> QED
        BY <4>1, Zenon
    <3> QED
      BY <3>1, <3>2, Zenon
  <2> DEFINE v == Tail(q)
             e == [i \in 1..n+1 |-> q[i].len]
  <2>1. DOMAIN v = 1..n /\ (\A i \in 1..n : v[i] = q[i+1]) /\ Head(q) = q[1]
    BY <2>0
  <2> HIDE DEF v
  <2>2. e \in [1..n+1 -> Int] /\ e[1] = q[1].len /\ [i \in 1..n |-> e[i+1]] = [i \in 1..n |-> v[i].len]
    <3>1. 1 \in 1..n+1 /\ \A i \in 1..n : i+1 \in 1..n+1
      OBVIOUS
    <3>2. \A i \in 1..n+1 : q[i].len \in Int
      BY <2>0, FrameFacts, Zenon
    <3> QED
      BY <2>1, <3>1, <3>2, Zenon
  <2> HIDE DEF e
  <2>3. SumFunction([i \in 1..n |-> e[i+1]]) = SumFunction(e) - e[1]
    BY <2>2, SumTail, Zenon
  <2>4. SumFunction([i \in 1..n |-> v[i].len]) = SumFunction(e) - q[1].len
    BY <2>2, <2>3, Zenon
  <2> QED
    BY <2>0, <2>1, <2>4, Zenon DEF Bytes, e, v
<1> QED
  BY <1>1, <1>2, <1>3, <1>4, Zenon

\* The bytes of the queues are a number, and change with one queue.
LEMMA TotalChange ==
  ASSUME NEW p \in Queues, NEW q \in Queues, NEW id \in Ids, NEW k \in Int,
         \A i \in Ids \ {id} : q[i] = p[i], Bytes(q[id]) = Bytes(p[id]) + k
  PROVE  Total(p) \in Int /\ Total(q) = Total(p) + k
<1> DEFINE f == [i \in Ids |-> Bytes(p[i])]
           g == [i \in Ids |-> Bytes(q[i])]
<1>1. \A i \in Ids : Bytes(p[i]) \in Int /\ Bytes(q[i]) \in Int
  <2>1. \A i \in Ids : p[i] \in Seq(Frames) /\ q[i] \in Seq(Frames)
    BY Zenon DEF Queues
  <2>2. \A n \in Nat : n \in Int
    OBVIOUS
  <2> QED
    BY <2>1, <2>2, BytesFacts, Zenon
<1>2. f \in [Ids -> Int] /\ g \in [Ids -> Int] /\ IsFiniteSet(Ids)
  BY <1>1, EarlyAssumption, Zenon DEF EarlyAssumption
<1>3. Shift(Ids, f, g, id, k)
  <2>1. \A i \in Ids : f[i] = Bytes(p[i]) /\ g[i] = Bytes(q[i])
    BY Zenon
  <2> HIDE DEF f, g
  <2> QED
    BY <1>1, <2>1 DEF Shift
<1> HIDE DEF f, g
<1>4. SumFunction(f) \in Int /\ SumFunction(g) = SumFunction(f) + k
  BY <1>2, <1>3, SumShift
<1> QED
  BY <1>4, Zenon DEF Total, f, g

\* Releasing the queues of S takes their bytes away.
LEMMA TotalRelease ==
  ASSUME pending \in Queues, NEW S \in SUBSET Ids, NEW q,
         q = [id \in Ids |-> IF id \in S THEN <<>> ELSE pending[id]]
  PROVE  /\ q \in Queues /\ Released(S) \in Nat /\ Total(pending) \in Nat
         /\ Total(q) = Total(pending) - Released(S)
<1> DEFINE f == [id \in Ids |-> Bytes(pending[id])]
           g == [id \in Ids |-> Bytes(q[id])]
           e == [id \in S |-> f[id]]
           h == [id \in Ids |-> IF id \in S THEN 0 ELSE f[id]]
<1>1. IsFiniteSet(Ids) /\ IsFiniteSet(S)
  BY EarlyAssumption, FS_Subset, Zenon DEF EarlyAssumption
<1>2. q \in Queues
  <2>1. <<>> \in Seq(Frames)
    OBVIOUS
  <2> QED
    BY <2>1, Zenon DEF Queues
<1>3. \A id \in Ids : Bytes(pending[id]) \in Nat
  BY BytesFacts, Zenon DEF Queues
<1>4. f \in [Ids -> Nat] /\ e \in [S -> Nat]
  BY <1>3, Zenon
<1>5. f \in [Ids -> Int]
  <2> HIDE DEF f
  <2> QED
    BY <1>4
<1>6. g = h
  BY BytesFacts, Zenon
<1>7. SumFunction(h) = SumFunction(f) - SumFunction(e)
  <2> HIDE DEF f
  <2> QED
    BY <1>1, <1>5, SumSplit, Zenon
<1>8. SumFunction(f) \in Nat /\ SumFunction(e) \in Nat
  <2> HIDE DEF f, e
  <2> QED
    BY <1>1, <1>4, SumNat, Zenon
<1>9. e = [id \in S |-> Bytes(pending[id])]
  BY Zenon
<1> QED
  BY <1>2, <1>6, <1>7, <1>8, <1>9, Zenon DEF Total, Released

-----------------------------------------------------------------------------
(* The types                                                               *)

\* The values of the variables of EarlyFrames.
TypeOK ==
  /\ reliability \in BOOLEAN /\ datagram \in BOOLEAN /\ closed \in BOOLEAN
  /\ cleared \in BOOLEAN /\ reading \in BOOLEAN
  /\ channels \in SUBSET Ids /\ shut \in SUBSET Ids /\ expired \in SUBSET Ids /\ opening \in SUBSET Ids /\ resets \in SUBSET Ids
  /\ pending \in Queues /\ held \in Queues /\ got \in Queues
  /\ closedIDs \in Seq(Markers) /\ pendingBytes \in Int
  /\ unknown \in Nat /\ arrived \in Nat /\ opened \in [Ids -> Nat]
  /\ received \in Nat /\ fed \in Nat /\ credited \in Nat /\ lost \in Nat

\* The queues of S are released, and their bytes are taken from pendingBytes.
Erases(S) ==
  /\ pending' = [id \in Ids |-> IF id \in S THEN <<>> ELSE pending[id]]
  /\ pendingBytes' = pendingBytes - Released(S)

\* Frames of the peer are numbered in the order of their arrival.
LEMMA InputTypes ==
  ASSUME TypeOK, NEW f \in Inputs
  PROVE  /\ f \in Frames /\ f.n = arrived + 1 /\ f.len \in Nat /\ arrived + 1 \in Nat
         /\ f.flag # "DATA" => f.len = 0
<1>1. arrived + 1 \in Nat
  BY DEF TypeOK
<1>2. CASE \E len \in Lengths : f = Frame("DATA", arrived + 1, len)
  <2>1. PICK len \in Nat : f = Frame("DATA", arrived + 1, len)
    BY <1>2, EarlyAssumption DEF EarlyAssumption
  <2> QED
    BY <1>1, <2>1 DEF Frame, Frames
<1>3. CASE \E flag \in {"FIN", "RST"} : f = Frame(flag, arrived + 1, 0)
  BY <1>1, <1>3 DEF Frame, Frames
<1> QED
  BY <1>2, <1>3, Zenon DEF Inputs

\* What creditDiscarded credits is a number.
LEMMA CreditNat ==
  ASSUME NEW n \in Nat
  PROVE  Credit(n) \in Nat /\ (~reliability => Credit(n) = n)
BY DEF Credit

\* What stashLocked leaves: the expired queues are released, and the frame is kept
\* if there is room.
LEMMA StashShape ==
  ASSUME TypeOK, NEW id \in Ids, NEW f \in Frames, NEW r \in Nat, Stash(id, f, r)
  PROVE  /\ Kept \in Queues /\ Released(expired) \in Nat
         /\ Total(pending) \in Nat /\ Total(Kept) = Total(pending) - Released(expired)
         /\ pending' \in Queues /\ pendingBytes' \in Int /\ credited' \in Nat /\ expired' = {}
         /\ closedIDs' = Only(closedIDs, Valid) /\ closedIDs' \in Seq(Markers)
         /\ \/ Room(id, f.len) /\ pending' = [Kept EXCEPT ![id] = Append(@, f)]
            \/ ~Room(id, f.len) /\ pending' = Kept
<1>0. /\ pending \in Queues /\ expired \in SUBSET Ids /\ pendingBytes \in Int /\ credited \in Nat
      /\ closedIDs \in Seq(Markers)
  BY Zenon DEF TypeOK
<1>1. /\ Kept \in Queues /\ Released(expired) \in Nat
      /\ Total(pending) \in Nat /\ Total(Kept) = Total(pending) - Released(expired)
  BY <1>0, TotalRelease, Zenon DEF Kept
<1>2. closedIDs' = Only(closedIDs, Valid) /\ closedIDs' \in Seq(Markers) /\ expired' = {}
  BY <1>0, OnlyFilters, Zenon DEF Stash
<1>3. f.len \in Nat
  BY FrameFacts, Zenon
<1>4. CASE Room(id, f.len)
  <2>1. /\ pending' = [Kept EXCEPT ![id] = Append(@, f)]
        /\ pendingBytes' = pendingBytes - Released(expired) + f.len
        /\ credited' = credited + Credit(Released(expired))
    BY <1>4, Zenon DEF Stash
  <2>2. Credit(Released(expired)) \in Nat
    BY <1>1, CreditNat, Zenon
  <2>3. pendingBytes' \in Int /\ credited' \in Nat
    BY <1>0, <1>1, <1>3, <2>1, <2>2
  <2>4. pending' \in Queues
    <3>1. \A q \in Seq(Frames) : Append(q, f) \in Seq(Frames)
      OBVIOUS
    <3> QED
      BY <1>1, <2>1, <3>1, Zenon DEF Queues
  <2> QED
    BY <1>1, <1>2, <1>4, <2>1, <2>3, <2>4, Zenon
<1>5. CASE ~Room(id, f.len)
  <2>1. /\ pending' = Kept
        /\ pendingBytes' = pendingBytes - Released(expired)
        /\ credited' = credited + Credit(Released(expired) + r)
    BY <1>5, Zenon DEF Stash
  <2>2. Credit(Released(expired) + r) \in Nat
    <3>1. Released(expired) + r \in Nat
      BY <1>1
    <3> QED
      BY <3>1, CreditNat, Zenon
  <2>3. pendingBytes' \in Int /\ credited' \in Nat
    BY <1>0, <1>1, <2>1, <2>2
  <2> QED
    BY <1>1, <1>2, <1>5, <2>1, <2>3, Zenon
<1> QED
  BY <1>4, <1>5, Zenon

\* What the other operations that touch the stash leave: RemoveChannel, OpenChannel
\* and Prune release the queues of some ids.
LEMMA EraseShape ==
  ASSUME TypeOK, NEW S \in SUBSET Ids, Erases(S)
  PROVE  /\ pending' \in Queues /\ pendingBytes' \in Int /\ Released(S) \in Nat
         /\ Total(pending) \in Nat /\ Total(pending') = Total(pending) - Released(S)
<1>0. pending \in Queues /\ pendingBytes \in Int
  BY Zenon DEF TypeOK
<1>1. /\ pending' \in Queues /\ Released(S) \in Nat
      /\ Total(pending) \in Nat /\ Total(pending') = Total(pending) - Released(S)
  BY <1>0, TotalRelease, Zenon DEF Erases
<1>2. pendingBytes' \in Int
  BY <1>0, <1>1 DEF Erases
<1> QED
  BY <1>1, <1>2, Zenon

\* The operations that release queues, and which ones.
LEMMA Releases ==
  ASSUME TypeOK
  PROVE  /\ Prune => Erases(expired)
         /\ \A id \in Ids : OpenChannel(id) => Erases({id})
         /\ \A id \in Ids : RemoveChannel(id) =>
              \E S \in SUBSET Ids : /\ id \in S /\ Erases(S)
                                    /\ credited' = credited + Credit(Released(S))
<1>0. pending \in Queues /\ expired \in SUBSET Ids
  BY Zenon DEF TypeOK
<1>1. Prune => Erases(expired)
  BY Zenon DEF Prune, Erases, Kept
<1>2. ASSUME NEW id \in Ids, OpenChannel(id) PROVE Erases({id})
  <2>1. pending' = [pending EXCEPT ![id] = <<>>] /\ pendingBytes' = pendingBytes - Released({id})
    BY <1>2, Zenon DEF OpenChannel
  <2>2. pending' = [i \in Ids |-> IF i \in {id} THEN <<>> ELSE pending[i]]
    BY <1>0, <2>1, Zenon DEF Queues
  <2> QED
    BY <2>1, <2>2, Zenon DEF Erases
<1>3. ASSUME NEW id \in Ids, RemoveChannel(id)
      PROVE  \E S \in SUBSET Ids : /\ id \in S /\ Erases(S)
                                   /\ credited' = credited + Credit(Released(S))
  <2> DEFINE S == {id} \union IF reliability /\ Len(closedIDs) >= MaxClosedIDs THEN expired ELSE {}
  <2>1. S \in SUBSET Ids /\ id \in S
    BY <1>0, Zenon
  <2>2. Erases(S) /\ credited' = credited + Credit(Released(S))
    BY <1>3, Zenon DEF RemoveChannel, Erases
  <2> HIDE DEF S
  <2> QED
    BY <2>1, <2>2, Zenon
<1> QED
  BY <1>1, <1>2, <1>3, Zenon

-----------------------------------------------------------------------------
(* The marker table                                                        *)

\* The table of markers keeps its limit, and one marker of an id.
MarkerInv == Len(closedIDs) <= MaxClosedIDs /\ OneEach(closedIDs)

\* The markers of t come from closedIDs, or are of id.
From(t, id) == \A i \in DOMAIN t : t[i].id = id \/ \E j \in DOMAIN closedIDs : t[i] = closedIDs[j]

\* Facts about the sequences of markers.
LEMMA MarkerSeqs ==
  ASSUME NEW s \in Seq(Markers)
  PROVE  /\ Len(s) \in Nat /\ DOMAIN s = 1..Len(s)
         /\ s # <<>> => /\ Tail(s) \in Seq(Markers) /\ Len(Tail(s)) = Len(s) - 1
                        /\ \A i \in DOMAIN Tail(s) : i+1 \in DOMAIN s /\ Tail(s)[i] = s[i+1]
         /\ \A m \in Markers : /\ Append(s, m) \in Seq(Markers) /\ Len(Append(s, m)) = Len(s) + 1
                               /\ DOMAIN Append(s, m) = 1..Len(s)+1
                               /\ \A i \in 1..Len(s) : Append(s, m)[i] = s[i]
                               /\ Append(s, m)[Len(s)+1] = m
<1>1. Len(s) \in Nat /\ DOMAIN s = 1..Len(s)
  OBVIOUS
<1>2. s # <<>> => /\ Tail(s) \in Seq(Markers) /\ Len(Tail(s)) = Len(s) - 1
                  /\ \A i \in DOMAIN Tail(s) : i+1 \in DOMAIN s /\ Tail(s)[i] = s[i+1]
  OBVIOUS
<1>3. \A m \in Markers : /\ Append(s, m) \in Seq(Markers) /\ Len(Append(s, m)) = Len(s) + 1
                         /\ DOMAIN Append(s, m) = 1..Len(s)+1
                         /\ \A i \in 1..Len(s) : Append(s, m)[i] = s[i]
                         /\ Append(s, m)[Len(s)+1] = m
  OBVIOUS
<1> QED
  BY <1>1, <1>2, <1>3, Zenon

\* markClosedLocked keeps the limit of the table, with one marker of an id, though
\* it evicts at most one when the table is full.
LEMMA MarkedTable ==
  ASSUME NEW id \in Ids, closedIDs \in Seq(Markers), MarkerInv
  PROVE  /\ MarkClosed(id) \in Seq(Markers) /\ Len(MarkClosed(id)) <= MaxClosedIDs
         /\ OneEach(MarkClosed(id)) /\ From(MarkClosed(id), id)
<1> DEFINE valid == Only(closedIDs, Valid)
           kept == IF Len(closedIDs) < MaxClosedIDs THEN closedIDs
                   ELSE IF Len(valid) < MaxClosedIDs THEN valid ELSE Tail(valid)
           u == Only(kept, Others(id))
           m == [id |-> id, expired |-> FALSE]
           t == Append(u, m)
<1>0. /\ Len(closedIDs) <= MaxClosedIDs /\ OneEach(closedIDs) /\ Len(closedIDs) \in Nat
      /\ MaxClosedIDs \in Nat /\ MaxClosedIDs # 0
  BY EarlyAssumption, MarkerSeqs, Zenon DEF MarkerInv, EarlyAssumption
<1>1. MarkClosed(id) = IF ~reliability THEN closedIDs ELSE t
  BY Zenon DEF MarkClosed
<1>2. From(closedIDs, id)
  BY Zenon DEF From
<1>3. /\ valid \in Seq(Markers) /\ Len(valid) \in Nat /\ Len(valid) <= Len(closedIDs)
      /\ OneEach(valid) /\ From(valid, id) /\ DOMAIN valid = 1..Len(valid)
  <2>1. valid \in Seq(Markers) /\ Filtered(closedIDs, Valid, valid, Len(closedIDs))
    BY OnlyFilters, Zenon
  <2>2. DOMAIN closedIDs = 1..Len(closedIDs)
    BY MarkerSeqs, Zenon
  <2> HIDE DEF valid
  <2> QED
    BY <1>0, <2>1, <2>2, MarkerSeqs, Zenon DEF Filtered, From
<1> HIDE DEF valid
<1>4. kept \in Seq(Markers) /\ Len(kept) < MaxClosedIDs /\ OneEach(kept) /\ From(kept, id)
  <2>1. CASE Len(closedIDs) < MaxClosedIDs
    BY <1>0, <1>2, <2>1, Zenon
  <2>2. CASE ~(Len(closedIDs) < MaxClosedIDs) /\ Len(valid) < MaxClosedIDs
    BY <1>3, <2>2, Zenon
  <2>3. CASE ~(Len(closedIDs) < MaxClosedIDs) /\ ~(Len(valid) < MaxClosedIDs)
    <3>1. kept = Tail(valid)
      BY <2>3, Zenon
    <3>2. Len(valid) # 0 /\ Len(valid) - 1 < MaxClosedIDs
      BY <1>0, <1>3, <2>3
    <3>3. valid # <<>>
      BY <3>2
    <3>4. /\ Tail(valid) \in Seq(Markers) /\ Len(Tail(valid)) = Len(valid) - 1
          /\ \A i \in DOMAIN Tail(valid) : i+1 \in DOMAIN valid /\ Tail(valid)[i] = valid[i+1]
      BY <1>3, <3>3, MarkerSeqs, Zenon
    <3>5. \A i, j \in DOMAIN Tail(valid) : i+1 = j+1 => i = j
      <4>1. DOMAIN Tail(valid) = 1..Len(Tail(valid))
        BY <3>4, MarkerSeqs, Zenon
      <4> QED
        BY <4>1
    <3>6. ASSUME NEW i \in DOMAIN Tail(valid), NEW j \in DOMAIN Tail(valid),
                 Tail(valid)[i].id = Tail(valid)[j].id
          PROVE  i = j
      <4>1. i+1 \in DOMAIN valid /\ j+1 \in DOMAIN valid /\ valid[i+1].id = valid[j+1].id
        BY <3>4, <3>6, Zenon
      <4>2. i+1 = j+1
        BY <1>3, <4>1, Zenon DEF OneEach
      <4> QED
        BY <3>5, <4>2, Zenon
    <3>7. From(Tail(valid), id)
      <4>1. SUFFICES ASSUME NEW i \in DOMAIN Tail(valid)
                     PROVE  Tail(valid)[i].id = id \/ \E j \in DOMAIN closedIDs : Tail(valid)[i] = closedIDs[j]
        BY Zenon DEF From
      <4>2. i+1 \in DOMAIN valid /\ Tail(valid)[i] = valid[i+1]
        BY <3>4, Zenon
      <4> QED
        BY <1>3, <4>2, Zenon DEF From
    <3>8. OneEach(Tail(valid))
      BY <3>6, Zenon DEF OneEach
    <3> QED
      BY <3>1, <3>2, <3>4, <3>7, <3>8, Zenon
  <2> QED
    BY <2>1, <2>2, <2>3, Zenon
<1> HIDE DEF kept
<1>5. u \in Seq(Markers) /\ Filtered(kept, Others(id), u, Len(kept))
  BY <1>4, OnlyFilters, Zenon
<1>6. DOMAIN kept = 1..Len(kept) /\ Len(kept) \in Nat /\ DOMAIN u = 1..Len(u) /\ Len(u) \in Nat
  BY <1>4, <1>5, MarkerSeqs, Zenon
<1> HIDE DEF u
<1>7. OneEach(u) /\ From(u, id) /\ (\A i \in DOMAIN u : u[i].id # id) /\ Len(u) + 1 <= MaxClosedIDs
  <2>1. OneEach(u) /\ Len(u) <= Len(kept) /\ \A i \in DOMAIN u : u[i] \in Others(id)
    BY <1>4, <1>5, Zenon DEF Filtered
  <2>2. From(u, id)
    <3>1. SUFFICES ASSUME NEW i \in DOMAIN u
                   PROVE  u[i].id = id \/ \E j \in DOMAIN closedIDs : u[i] = closedIDs[j]
      BY Zenon DEF From
    <3>2. PICK k \in DOMAIN kept : u[i] = kept[k]
      BY <1>5, <1>6, Zenon DEF Filtered
    <3> QED
      BY <1>4, <3>2, Zenon DEF From
  <2>3. \A i \in DOMAIN u : u[i].id # id
    BY <2>1, Zenon DEF Others
  <2>4. Len(u) + 1 <= MaxClosedIDs
    BY <1>0, <1>4, <1>6, <2>1
  <2> QED
    BY <2>1, <2>2, <2>3, <2>4, Zenon
<1>8. m \in Markers /\ m.id = id
  BY DEF Markers
<1> HIDE DEF m
<1>9. /\ t \in Seq(Markers) /\ Len(t) = Len(u) + 1 /\ DOMAIN t = 1..Len(u)+1
      /\ (\A i \in 1..Len(u) : t[i] = u[i]) /\ t[Len(u)+1] = m
  BY <1>5, <1>8, MarkerSeqs, Zenon
<1> HIDE DEF t
<1>10. \A i \in DOMAIN t : i \in DOMAIN u \/ i = Len(u)+1
  BY <1>6, <1>9
<1>11. OneEach(t)
  BY <1>6, <1>7, <1>8, <1>9, <1>10, Zenon DEF OneEach
<1>12. From(t, id)
  BY <1>6, <1>7, <1>8, <1>9, <1>10, Zenon DEF From
<1> QED
  BY <1>0, <1>1, <1>2, <1>7, <1>9, <1>11, <1>12, Zenon

\* A step is one of the operations.
Cases ==
  \/ /\ reading' = ~closed'
     /\ \E id \in Ids, f \in Inputs : \/ ReceiveOpen(id, f) \/ ReceiveLate(id, f) \/ ReceiveEarly(id, f)
                                      \/ ReceiveDropped(id, f) \/ ReceiveEnd(id, f)
  \/ \E id \in Ids : \/ OpenStart(id) \/ OpenChannel(id) \/ DeliverPending(id)
                   \/ CloseChannel(id) \/ RemoveChannel(id)
  \/ Prune \/ Expire \/ CloseSession \/ CloseClears

\* Next, and what it says of every operation.
LEMMA NextCases ==
  ASSUME [Next]_vars
  PROVE  UNCHANGED vars \/ (Cases /\ UNCHANGED sessVars)
<1>1. Next => Cases /\ UNCHANGED sessVars
  BY Zenon DEF Next, Receive, Cases
<1> QED
  BY <1>1, Zenon

\* What a step does to the table: nothing, a filter, the expiry of one marker, the
\* marker of a removed channel, or Close.
LEMMA MarkerMoves ==
  ASSUME TypeOK, [Next]_vars
  PROVE  \/ closedIDs' = closedIDs
         \/ \E T : closedIDs' = Only(closedIDs, T)
         \/ \E i \in DOMAIN closedIDs : closedIDs' = [closedIDs EXCEPT ![i].expired = TRUE]
         \/ \E id \in Ids : RemoveChannel(id) /\ closedIDs' = MarkClosed(id)
         \/ closedIDs' = <<>>
<1>1. CASE UNCHANGED vars
  BY <1>1, Zenon DEF vars
<1>2. CASE Cases
  <2>1. ASSUME NEW id \in Ids, NEW f \in Inputs,
               \/ ReceiveOpen(id, f) \/ ReceiveLate(id, f) \/ ReceiveEarly(id, f)
               \/ ReceiveDropped(id, f) \/ ReceiveEnd(id, f)
        PROVE  closedIDs' = closedIDs \/ closedIDs' = Only(closedIDs, Valid)
    BY <2>1, Zenon DEF ReceiveOpen, ReceiveLate, ReceiveEarly, ReceiveDropped, ReceiveEnd, Stash
  <2>2. ASSUME NEW id \in Ids, OpenStart(id) \/ OpenChannel(id) \/ DeliverPending(id) \/ CloseChannel(id)
        PROVE  closedIDs' = closedIDs \/ closedIDs' = Only(closedIDs, Others(id))
    BY <2>2, Zenon DEF OpenStart, OpenChannel, DeliverPending, CloseChannel
  <2>3. ASSUME NEW id \in Ids, RemoveChannel(id) PROVE closedIDs' = MarkClosed(id)
    BY <2>3, Zenon DEF RemoveChannel
  <2>4. Prune => closedIDs' = Only(closedIDs, Valid)
    BY Zenon DEF Prune
  <2>5. Expire => \/ closedIDs' = closedIDs
                  \/ \E i \in DOMAIN closedIDs : closedIDs' = [closedIDs EXCEPT ![i].expired = TRUE]
    BY Zenon DEF Expire
  <2>6. (CloseSession => closedIDs' = closedIDs) /\ (CloseClears => closedIDs' = <<>>)
    BY Zenon DEF CloseSession, CloseClears
  <2> QED
    BY <1>2, <2>1, <2>2, <2>3, <2>4, <2>5, <2>6, Zenon DEF Cases
<1> QED
  BY <1>1, <1>2, NextCases, Zenon

\* Every step keeps the table within its limit, and a label becomes recently closed
\* only when its channel is removed.
LEMMA MarkerStep ==
  ASSUME TypeOK, MarkerInv, [Next]_vars
  PROVE  /\ closedIDs' \in Seq(Markers) /\ MarkerInv'
         /\ \A x \in Ids : RecentlyClosed(x)' => RecentlyClosed(x) \/ RemoveChannel(x)
<1> DEFINE Fresh(x, t) == \E i \in DOMAIN t : t[i] = [id |-> x, expired |-> FALSE]
<1>0. /\ closedIDs \in Seq(Markers) /\ DOMAIN closedIDs = 1..Len(closedIDs) /\ Len(closedIDs) \in Nat
      /\ MaxClosedIDs \in Nat /\ Len(closedIDs) <= MaxClosedIDs /\ OneEach(closedIDs)
  BY MarkerSeqs, EarlyAssumption, Zenon DEF TypeOK, MarkerInv, EarlyAssumption
<1>1. \A x \in Ids : (RecentlyClosed(x) <=> Fresh(x, closedIDs)) /\ (RecentlyClosed(x)' <=> Fresh(x, closedIDs'))
  BY Zenon DEF RecentlyClosed
<1> DEFINE Fine == /\ closedIDs' \in Seq(Markers) /\ Len(closedIDs') <= MaxClosedIDs /\ OneEach(closedIDs')
                   /\ \A x \in Ids : Fresh(x, closedIDs') => Fresh(x, closedIDs) \/ RemoveChannel(x)
<1>2. closedIDs' = closedIDs => Fine
  BY <1>0, Zenon
<1>3. ASSUME NEW T, closedIDs' = Only(closedIDs, T) PROVE Fine
  <2>1. closedIDs' \in Seq(Markers) /\ Filtered(closedIDs, T, closedIDs', Len(closedIDs))
    BY <1>0, <1>3, OnlyFilters, Zenon
  <2>2. Len(closedIDs') \in Nat /\ Len(closedIDs') <= Len(closedIDs) /\ OneEach(closedIDs')
    BY <1>0, <2>1, MarkerSeqs, Zenon DEF Filtered
  <2>3. Len(closedIDs') <= MaxClosedIDs
    BY <1>0, <2>2
  <2>4. ASSUME NEW x \in Ids, Fresh(x, closedIDs') PROVE Fresh(x, closedIDs)
    <3>1. PICK i \in DOMAIN closedIDs' : closedIDs'[i] = [id |-> x, expired |-> FALSE]
      BY <2>4, Zenon
    <3>2. PICK j \in DOMAIN closedIDs : closedIDs'[i] = closedIDs[j]
      BY <1>0, <2>1, Zenon DEF Filtered
    <3> QED
      BY <3>1, <3>2, Zenon
  <2> QED
    BY <2>1, <2>2, <2>3, <2>4, Zenon
<1>4. ASSUME NEW i \in DOMAIN closedIDs, closedIDs' = [closedIDs EXCEPT ![i].expired = TRUE] PROVE Fine
  <2>1. closedIDs[i] \in Markers
    BY <1>0, <1>4
  <2> DEFINE m == [closedIDs[i] EXCEPT !.expired = TRUE]
  <2>2. m \in Markers /\ m.id = closedIDs[i].id /\ m.expired = TRUE
    BY <2>1, Zenon DEF Markers
  <2>3. closedIDs' = [closedIDs EXCEPT ![i] = m]
    BY <1>4, Zenon
  <2> HIDE DEF m
  <2>4. /\ closedIDs' \in Seq(Markers) /\ Len(closedIDs') = Len(closedIDs) /\ DOMAIN closedIDs' = DOMAIN closedIDs
        /\ closedIDs'[i] = m /\ \A j \in DOMAIN closedIDs : j # i => closedIDs'[j] = closedIDs[j]
    BY <1>0, <2>2, <2>3
  <2>5. \A j \in DOMAIN closedIDs : closedIDs'[j].id = closedIDs[j].id
    BY <2>2, <2>4, Zenon
  <2>6. OneEach(closedIDs')
    BY <1>0, <2>4, <2>5, Zenon DEF OneEach
  <2>7. ASSUME NEW x \in Ids, Fresh(x, closedIDs') PROVE Fresh(x, closedIDs)
    <3>1. PICK j \in DOMAIN closedIDs : closedIDs'[j] = [id |-> x, expired |-> FALSE]
      BY <2>4, <2>7, Zenon
    <3>2. j # i
      <4>1. ASSUME j = i PROVE FALSE
        BY <2>2, <2>4, <3>1, <4>1
      <4> QED
        BY <4>1, Zenon
    <3> QED
      BY <2>4, <3>1, <3>2, Zenon
  <2> QED
    BY <1>0, <2>4, <2>6, <2>7, Zenon
<1>5. ASSUME NEW id \in Ids, RemoveChannel(id), closedIDs' = MarkClosed(id) PROVE Fine
  <2>1. /\ closedIDs' \in Seq(Markers) /\ Len(closedIDs') <= MaxClosedIDs
        /\ OneEach(closedIDs') /\ From(closedIDs', id)
    BY <1>0, <1>5, MarkedTable, Zenon
  <2>2. ASSUME NEW x \in Ids, Fresh(x, closedIDs') PROVE Fresh(x, closedIDs) \/ x = id
    <3>1. PICK i \in DOMAIN closedIDs' : closedIDs'[i] = [id |-> x, expired |-> FALSE]
      BY <2>2, Zenon
    <3>2. closedIDs'[i].id = x
      BY <3>1
    <3> QED
      BY <2>1, <3>1, <3>2, Zenon DEF From
  <2> QED
    BY <1>5, <2>1, <2>2, Zenon
<1>6. ASSUME closedIDs' = <<>> PROVE Fine
  <2>1. <<>> \in Seq(Markers) /\ Len(<<>>) = 0 /\ DOMAIN <<>> = {}
    OBVIOUS
  <2>2. 0 <= MaxClosedIDs
    BY <1>0
  <2>3. OneEach(closedIDs') /\ \A x \in Ids : ~Fresh(x, closedIDs')
    BY <1>6, <2>1, Zenon DEF OneEach
  <2> QED
    BY <1>6, <2>1, <2>2, <2>3, Zenon
<1>7. Fine
  <2> HIDE DEF Fine
  <2> QED
    BY <1>2, <1>3, <1>4, <1>5, <1>6, MarkerMoves, Zenon
<1> QED
  BY <1>1, <1>7, Zenon DEF MarkerInv

-----------------------------------------------------------------------------
(* Every step keeps the types                                              *)

\* The steps of the read loop keep the types.
LEMMA ReceiveTypes ==
  ASSUME TypeOK, MarkerInv, [Next]_vars, UNCHANGED sessVars, NEW id \in Ids, NEW f \in Inputs,
         reading' = ~closed',
         \/ ReceiveOpen(id, f) \/ ReceiveLate(id, f) \/ ReceiveEarly(id, f)
         \/ ReceiveDropped(id, f) \/ ReceiveEnd(id, f)
  PROVE  TypeOK'
<1>0. /\ TypeOK /\ f \in Frames /\ f.len \in Nat /\ arrived + 1 \in Nat /\ closedIDs' \in Seq(Markers)
      /\ received \in Nat /\ fed \in Nat /\ credited \in Nat /\ lost \in Nat /\ unknown \in Nat /\ MaxUnknown \in Nat
      /\ 0 \in Nat
  <2>1. 0 \in Nat
    OBVIOUS
  <2> QED
    BY <2>1, InputTypes, MarkerStep, EarlyAssumption, Zenon DEF TypeOK, EarlyAssumption
<1>1. Arrives(id, f)
  BY Zenon DEF ReceiveOpen, ReceiveLate, ReceiveEarly, ReceiveDropped, ReceiveEnd
<1>2. /\ arrived' \in Nat /\ received' \in Nat /\ UNCHANGED <<cleared, opening, shut, reliability, datagram>>
      /\ fed + f.len \in Nat /\ credited + Credit(f.len) \in Nat /\ lost + Credit(f.len) \in Nat /\ unknown + 1 \in Nat
  <2>1. Credit(f.len) \in Nat
    BY <1>0, CreditNat, Zenon
  <2>2. arrived' = arrived + 1 /\ received' = received + f.len
    BY <1>1, Zenon DEF Arrives
  <2>3. /\ received + f.len \in Nat /\ fed + f.len \in Nat /\ credited + Credit(f.len) \in Nat
        /\ lost + Credit(f.len) \in Nat /\ unknown + 1 \in Nat
    <3>1. \A a, b \in Nat : a + b \in Nat /\ a + 1 \in Nat
      OBVIOUS
    <3> QED
      BY <1>0, <2>1, <3>1, Zenon
  <2> QED
    BY <1>0, <1>1, <2>2, <2>3, Zenon DEF Arrives, sessVars
<1>3. /\ UNCHANGED <<channels, held, opened>>
      /\ resets' \in SUBSET Ids /\ unknown' \in Nat /\ lost' \in Nat
  BY <1>0, <1>2, Zenon DEF ReceiveOpen, ReceiveLate, ReceiveEarly, ReceiveDropped, ReceiveEnd, TypeOK
<1>4. closed' \in BOOLEAN /\ reading' \in BOOLEAN
  <2>1. closed' = closed \/ closed' = (unknown' > MaxUnknown)
    BY Zenon DEF ReceiveOpen, ReceiveLate, ReceiveEarly, ReceiveDropped, ReceiveEnd
  <2>2. (unknown' > MaxUnknown) \in BOOLEAN
    BY <1>0, <1>3
  <2>3. closed' \in BOOLEAN
    BY <1>0, <2>1, <2>2, Zenon DEF TypeOK
  <2>4. reading' = ~closed'
    OBVIOUS
  <2>5. (~closed') \in BOOLEAN
    BY Zenon
  <2> QED
    BY <2>3, <2>4, <2>5, Zenon
<1>5. got' \in Queues /\ fed' \in Nat
  <2>1. \A q \in Seq(Frames) : Append(q, f) \in Seq(Frames)
    BY <1>0
  <2>2. \/ got' = got /\ fed' = fed
        \/ got' = [got EXCEPT ![id] = Append(got[id], f)] /\ fed' = fed + f.len
    BY Zenon DEF ReceiveOpen, ReceiveLate, ReceiveEarly, ReceiveDropped, ReceiveEnd
  <2>3. got \in Queues /\ got[id] \in Seq(Frames)
    BY Zenon DEF TypeOK, Queues
  <2>4. [got EXCEPT ![id] = Append(got[id], f)] \in Queues
    BY <2>1, <2>3, Zenon DEF Queues
  <2> QED
    BY <1>0, <1>2, <2>2, <2>3, <2>4, Zenon
<1>6. pending' \in Queues /\ pendingBytes' \in Int /\ credited' \in Nat /\ expired' \in SUBSET Ids
  <2>1. \/ UNCHANGED stashVars /\ credited' \in {credited, credited + Credit(f.len)}
        \/ Stash(id, f, f.len) \/ Stash(id, f, 0)
    BY Zenon DEF ReceiveOpen, ReceiveLate, ReceiveEarly, ReceiveDropped, ReceiveEnd
  <2>2. ASSUME Stash(id, f, f.len) \/ Stash(id, f, 0)
        PROVE  pending' \in Queues /\ pendingBytes' \in Int /\ credited' \in Nat /\ expired' \in SUBSET Ids
    BY <1>0, <2>2, StashShape, Zenon
  <2>3. ASSUME UNCHANGED stashVars, credited' \in {credited, credited + Credit(f.len)}
        PROVE  pending' \in Queues /\ pendingBytes' \in Int /\ credited' \in Nat /\ expired' \in SUBSET Ids
    BY <1>0, <1>2, <2>3, Zenon DEF stashVars, TypeOK
  <2> QED
    BY <2>1, <2>2, <2>3, Zenon
<1> QED
  BY <1>0, <1>2, <1>3, <1>4, <1>5, <1>6, Zenon DEF TypeOK

\* The other steps keep the types.
LEMMA OtherTypes ==
  ASSUME TypeOK, MarkerInv, [Next]_vars, UNCHANGED sessVars,
         \/ \E id \in Ids : \/ OpenStart(id) \/ OpenChannel(id) \/ DeliverPending(id)
                          \/ CloseChannel(id) \/ RemoveChannel(id)
         \/ Prune \/ Expire \/ CloseSession \/ CloseClears
  PROVE  TypeOK'
<1>0. /\ TypeOK /\ closedIDs' \in Seq(Markers) /\ UNCHANGED <<reliability, datagram>>
  BY MarkerStep, Zenon DEF sessVars
<1>t. TRUE \in BOOLEAN /\ 0 \in Int /\ {} \in SUBSET Ids /\ <<>> \in Seq(Frames)
  OBVIOUS
<1>c. \A n \in Nat : credited + Credit(n) \in Nat
  <2>1. credited \in Nat /\ \A n \in Nat : Credit(n) \in Nat
    BY CreditNat, Zenon DEF TypeOK
  <2>2. \A a, b \in Nat : a + b \in Nat
    OBVIOUS
  <2> QED
    BY <2>1, <2>2, Zenon
<1>1. ASSUME NEW id \in Ids, OpenStart(id) \/ CloseChannel(id) PROVE TypeOK'
  BY <1>0, <1>1, Zenon DEF OpenStart, CloseChannel, TypeOK, stashVars, loopVars, byteVars
<1>2. ASSUME NEW id \in Ids, OpenChannel(id) PROVE TypeOK'
  <2>1. Erases({id}) /\ {id} \in SUBSET Ids
    BY <1>2, Releases, Zenon
  <2>2. pending' \in Queues /\ pendingBytes' \in Int /\ Released({id}) \in Nat
    BY <2>1, EraseShape, Zenon
  <2>3. opened[id] + 1 \in Nat
    BY DEF TypeOK
  <2>4. opened' = [opened EXCEPT ![id] = opened[id] + 1]
    BY <1>2, Zenon DEF OpenChannel
  <2>5. opened' \in [Ids -> Nat]
    BY <2>3, <2>4, Zenon DEF TypeOK
  <2>6. held' \in Queues /\ got' \in Queues
    BY <1>2, <1>t, Zenon DEF OpenChannel, TypeOK, Queues
  <2>7. credited' \in Nat
    <3>1. credited + 0 \in Nat
      BY DEF TypeOK
    <3>2. credited' = credited + IF id \in expired THEN Credit(Released({id})) ELSE 0
      BY <1>2, Zenon DEF OpenChannel
    <3>3. credited + Credit(Released({id})) \in Nat
      BY <1>c, <2>2, Zenon
    <3>4. CASE id \in expired
      BY <3>2, <3>3, <3>4, Zenon
    <3>5. CASE id \notin expired
      BY <3>1, <3>2, <3>5, Zenon
    <3> QED
      BY <3>4, <3>5, Zenon
  <2>8. channels' \in SUBSET Ids /\ opening' \in SUBSET Ids /\ expired' \in SUBSET Ids
    BY <1>2, Zenon DEF OpenChannel, TypeOK
  <2>9. UNCHANGED <<shut, cleared, loopVars, received, fed, lost>>
    BY <1>2, Zenon DEF OpenChannel
  <2> QED
    BY <1>0, <2>2, <2>5, <2>6, <2>7, <2>8, <2>9, Zenon DEF TypeOK, loopVars
<1>3. ASSUME NEW id \in Ids, DeliverPending(id) PROVE TypeOK'
  <2> DEFINE f == Head(held[id])
  <2>1. held[id] \in Seq(Frames) /\ held[id] # <<>> /\ got[id] \in Seq(Frames)
    BY <1>3, Zenon DEF DeliverPending, TypeOK, Queues
  <2>2. f \in Frames /\ Tail(held[id]) \in Seq(Frames) /\ Append(got[id], f) \in Seq(Frames)
    BY <2>1
  <2>3. f.len \in Nat
    BY <2>2, FrameFacts, Zenon
  <2>4. /\ held' = [held EXCEPT ![id] = Tail(held[id])]
        /\ \/ credited' = credited + Credit(f.len) /\ got' = got /\ fed' = fed
           \/ credited' = credited /\ got' = [got EXCEPT ![id] = Append(got[id], f)] /\ fed' = fed + f.len
        /\ UNCHANGED <<channels, shut, stashVars, opening, cleared, loopVars, opened, received, lost>>
    BY <1>3, Zenon DEF DeliverPending
  <2> HIDE DEF f
  <2>5. fed + f.len \in Nat /\ credited + Credit(f.len) \in Nat
    <3>1. fed \in Nat
      BY Zenon DEF TypeOK
    <3> QED
      BY <1>c, <2>3, <3>1
  <2>6. held' \in Queues /\ got' \in Queues
    BY <2>2, <2>4, Zenon DEF TypeOK, Queues
  <2>7. fed' \in Nat /\ credited' \in Nat
    BY <2>4, <2>5, Zenon DEF TypeOK
  <2> QED
    BY <1>0, <2>4, <2>6, <2>7, Zenon DEF TypeOK, loopVars, stashVars
<1>4. ASSUME NEW id \in Ids, RemoveChannel(id) PROVE TypeOK'
  <2>1. PICK S \in SUBSET Ids : Erases(S) /\ credited' = credited + Credit(Released(S))
    BY <1>4, Releases, Zenon
  <2>2. pending' \in Queues /\ pendingBytes' \in Int /\ Released(S) \in Nat
    BY <2>1, EraseShape, Zenon
  <2>3. credited' \in Nat
    BY <1>c, <2>1, <2>2, Zenon
  <2>4. /\ channels' \in SUBSET Ids /\ shut' \in SUBSET Ids /\ expired' \in SUBSET Ids
        /\ UNCHANGED <<opening, held, cleared, loopVars, opened, got, received, fed, lost>>
    BY <1>4, Zenon DEF RemoveChannel, TypeOK
  <2> QED
    BY <1>0, <2>2, <2>3, <2>4, Zenon DEF TypeOK, loopVars
<1>5. ASSUME Prune PROVE TypeOK'
  <2>1. Erases(expired) /\ expired \in SUBSET Ids
    BY <1>5, Releases, Zenon DEF TypeOK
  <2>2. pending' \in Queues /\ pendingBytes' \in Int /\ Released(expired) \in Nat
    BY <2>1, EraseShape, Zenon
  <2>3. credited' \in Nat
    BY <1>5, <1>c, <2>2, Zenon DEF Prune
  <2>4. /\ expired' = {}
        /\ UNCHANGED <<channels, shut, opening, held, cleared, loopVars, opened, got, received, fed, lost>>
    BY <1>5, Zenon DEF Prune
  <2> QED
    BY <1>0, <1>t, <2>2, <2>3, <2>4, Zenon DEF TypeOK, loopVars
<1>6. ASSUME Expire PROVE TypeOK'
  <2>1. expired' \in SUBSET Ids
    BY <1>6, Zenon DEF Expire, TypeOK, Queued
  <2>2. UNCHANGED <<channels, shut, pending, pendingBytes, opening, held, cleared, loopVars, opened, got, byteVars>>
    BY <1>6, Zenon DEF Expire
  <2> QED
    BY <1>0, <2>1, <2>2, Zenon DEF TypeOK, loopVars, byteVars
<1>7. ASSUME CloseSession PROVE TypeOK'
  BY <1>0, <1>7, <1>t, Zenon DEF CloseSession, TypeOK, stashVars, byteVars
<1>8. ASSUME CloseClears PROVE TypeOK'
  <2>1. pending' \in Queues
    BY <1>8, <1>t, Zenon DEF CloseClears, Queues
  <2> QED
    BY <1>0, <1>8, <1>t, <2>1, Zenon DEF CloseClears, TypeOK, loopVars, byteVars
<1> QED
  BY <1>1, <1>2, <1>3, <1>4, <1>5, <1>6, <1>7, <1>8, Zenon

\* Every step keeps the types.
LEMMA TypeStep ==
  ASSUME TypeOK, MarkerInv, [Next]_vars
  PROVE  TypeOK'
<1>1. CASE UNCHANGED vars
  BY <1>1, Zenon DEF vars, sessVars, stashVars, loopVars, byteVars, TypeOK
<1>2. CASE Cases /\ UNCHANGED sessVars
  BY <1>2, ReceiveTypes, OtherTypes, Zenon DEF Cases
<1> QED
  BY <1>1, <1>2, NextCases, Zenon

-----------------------------------------------------------------------------
(* The accounting and the limits of the stash                              *)

\* The queues p, with b bytes, are within the limits, and b is what they hold.
Within(p, b) ==
  /\ b = Total(p) /\ b <= MaxEarlyBytes
  /\ Cardinality({id \in Ids : p[id] # <<>>}) <= MaxPendingChannels
  /\ \A id \in Ids : Len(p[id]) <= MaxEarlyFrames

StashLimits == Within(pending, pendingBytes)

\* The limits are numbers, and none is 0.
LEMMA LimitTypes ==
  /\ MaxPendingChannels \in Nat /\ MaxEarlyBytes \in Nat /\ MaxEarlyFrames \in Nat
  /\ MaxEarlyFrames # 0 /\ IsFiniteSet(Ids)
BY EarlyAssumption, Zenon DEF EarlyAssumption

\* The number of queues of a part of the ids.
LEMMA QueueCount ==
  ASSUME NEW A \in SUBSET Ids, NEW B \in SUBSET Ids
  PROVE  /\ Cardinality(A) \in Nat /\ Cardinality(B) \in Nat
         /\ A \subseteq B => Cardinality(A) <= Cardinality(B)
         /\ \A x : A \subseteq B \union {x} => Cardinality(A) <= Cardinality(B) + 1
<1>1. IsFiniteSet(A) /\ IsFiniteSet(B) /\ Cardinality(A) \in Nat /\ Cardinality(B) \in Nat
  BY LimitTypes, FS_Subset, FS_CardinalityType, Zenon
<1>2. A \subseteq B => Cardinality(A) <= Cardinality(B)
  BY <1>1, FS_Subset, Zenon
<1>3. ASSUME NEW x, A \subseteq B \union {x} PROVE Cardinality(A) <= Cardinality(B) + 1
  <2> DEFINE C == B \union {x}
  <2>1. IsFiniteSet(C) /\ Cardinality(C) = IF x \in B THEN Cardinality(B) ELSE Cardinality(B) + 1
    BY <1>1, FS_AddElement, Zenon
  <2>2. Cardinality(A) <= Cardinality(C)
    <3>1. A \in SUBSET C
      BY <1>3, Zenon
    <3> HIDE DEF C
    <3> QED
      BY <2>1, <3>1, FS_Subset, Zenon
  <2> HIDE DEF C
  <2> QED
    BY <1>1, <2>1, <2>2
<1> QED
  BY <1>1, <1>2, <1>3, Zenon

\* Releasing queues keeps the limits.
LEMMA ErasedLimits ==
  ASSUME pending \in Queues, pendingBytes \in Int, StashLimits, NEW S \in SUBSET Ids, NEW q,
         q = [id \in Ids |-> IF id \in S THEN <<>> ELSE pending[id]]
  PROVE  /\ Within(q, pendingBytes - Released(S))
         /\ pendingBytes - Released(S) \in Int /\ q \in Queues
<1>1. /\ q \in Queues /\ Released(S) \in Nat /\ Total(pending) \in Nat
      /\ Total(q) = Total(pending) - Released(S)
  BY TotalRelease, Zenon
<1>2. /\ pendingBytes = Total(pending) /\ pendingBytes <= MaxEarlyBytes
      /\ Cardinality(Queued) <= MaxPendingChannels
      /\ \A id \in Ids : Len(pending[id]) <= MaxEarlyFrames
  BY Zenon DEF StashLimits, Within, Queued
<1>3. pendingBytes - Released(S) = Total(q)
  BY <1>1, <1>2, Zenon
<1>4. pendingBytes - Released(S) <= MaxEarlyBytes /\ pendingBytes - Released(S) \in Int
  BY <1>1, <1>2, LimitTypes
<1>5. Cardinality({id \in Ids : q[id] # <<>>}) <= MaxPendingChannels
  <2> DEFINE A == {id \in Ids : q[id] # <<>>}
  <2>1. A \subseteq Queued /\ A \in SUBSET Ids /\ Queued \in SUBSET Ids
    BY Zenon DEF Queued
  <2> HIDE DEF A
  <2>2. Cardinality(A) \in Nat /\ Cardinality(Queued) \in Nat /\ Cardinality(A) <= Cardinality(Queued)
    BY <2>1, QueueCount, Zenon
  <2>3. Cardinality(A) <= MaxPendingChannels
    BY <1>2, <2>2, LimitTypes
  <2> QED
    BY <2>3, Zenon DEF A
<1>6. \A id \in Ids : Len(q[id]) <= MaxEarlyFrames
  <2>1. Len(<<>>) = 0 /\ 0 <= MaxEarlyFrames
    BY LimitTypes
  <2> QED
    BY <1>2, <2>1, Zenon
<1> QED
  BY <1>1, <1>3, <1>4, <1>5, <1>6, Zenon DEF Within

\* stashLocked keeps the limits, though it tests the frames of a queue only when
\* there is one.
LEMMA StashedLimits ==
  ASSUME TypeOK, StashLimits, NEW id \in Ids, NEW f \in Frames, NEW r \in Nat, Stash(id, f, r)
  PROVE  StashLimits'
<1> DEFINE b == pendingBytes - Released(expired)
           K == {i \in Ids : Kept[i] # <<>>}
<1>0. pending \in Queues /\ pendingBytes \in Int /\ expired \in SUBSET Ids
  BY Zenon DEF TypeOK
<1>1. Within(Kept, b) /\ b \in Int /\ Kept \in Queues
  BY <1>0, ErasedLimits, Zenon DEF Kept
<1>2. CASE ~Room(id, f.len)
  <2>1. pending' = Kept /\ pendingBytes' = b
    BY <1>2, Zenon DEF Stash
  <2> HIDE DEF b
  <2>2. Within(pending', pendingBytes')
    BY <1>1, <2>1, Zenon
  <2> QED
    BY <2>2, Zenon DEF StashLimits, Within
<1>3. CASE Room(id, f.len)
  <2>1. pending' = [Kept EXCEPT ![id] = Append(Kept[id], f)] /\ pendingBytes' = b + f.len
    BY <1>3, Zenon DEF Stash
  <2>2. /\ Kept[id] = <<>> => Cardinality(K) < MaxPendingChannels
        /\ b + f.len <= MaxEarlyBytes
        /\ Kept[id] # <<>> => Len(Kept[id]) < MaxEarlyFrames
    BY <1>3, Zenon DEF Room
  <2>3. /\ b = Total(Kept) /\ Cardinality(K) <= MaxPendingChannels
        /\ \A i \in Ids : Len(Kept[i]) <= MaxEarlyFrames
    BY <1>1, Zenon DEF Within
  <2> HIDE DEF b
  <2>4. PICK q \in Seq(Frames) : q = Kept[id]
    BY <1>1, Zenon DEF Queues
  <2>5. /\ Append(q, f) \in Seq(Frames) /\ Append(q, f) # <<>> /\ Len(Append(q, f)) = Len(q) + 1
        /\ Len(q) \in Nat /\ (q = <<>> => Len(q) = 0)
    OBVIOUS
  <2>6. /\ pending' \in Queues /\ pending'[id] = Append(q, f)
        /\ \A i \in Ids \ {id} : pending'[i] = Kept[i]
    BY <1>1, <2>1, <2>4, <2>5, Zenon DEF Queues
  <2>7. pendingBytes' = Total(pending')
    <3>1. f.len \in Int /\ Bytes(pending'[id]) = Bytes(Kept[id]) + f.len
      BY <2>4, <2>6, BytesFacts, FrameFacts, Zenon
    <3>2. Total(pending') = Total(Kept) + f.len
      BY <1>1, <2>6, <3>1, TotalChange, Zenon
    <3> QED
      BY <2>1, <2>3, <3>2, Zenon
  <2>8. \A i \in Ids : Len(pending'[i]) <= MaxEarlyFrames
    <3>1. Len(Append(q, f)) <= MaxEarlyFrames
      BY <2>2, <2>4, <2>5, LimitTypes
    <3> QED
      BY <2>3, <2>6, <3>1, Zenon
  <2>9. Cardinality({i \in Ids : pending'[i] # <<>>}) <= MaxPendingChannels
    <3> DEFINE A == {i \in Ids : pending'[i] # <<>>}
    <3>1. A \in SUBSET Ids /\ K \in SUBSET Ids /\ A \subseteq K \union {id} /\ (q # <<>> => A \subseteq K)
      BY <2>4, <2>6, Zenon
    <3> HIDE DEF A, K
    <3>2. /\ Cardinality(A) \in Nat /\ Cardinality(K) \in Nat /\ Cardinality(A) <= Cardinality(K) + 1
          /\ q # <<>> => Cardinality(A) <= Cardinality(K)
      BY <3>1, QueueCount, Zenon
    <3>3. Cardinality(A) <= MaxPendingChannels
      <4>1. CASE q = <<>>
        <5>1. Cardinality(K) < MaxPendingChannels
          BY <2>2, <2>4, <4>1, Zenon
        <5> QED
          BY <3>2, <5>1, LimitTypes
      <4>2. CASE q # <<>>
        BY <2>3, <3>2, <4>2, LimitTypes
      <4> QED
        BY <4>1, <4>2, Zenon
    <3> QED
      BY <3>3, Zenon DEF A
  <2>10. pendingBytes' <= MaxEarlyBytes
    BY <2>1, <2>2, Zenon
  <2> QED
    BY <2>7, <2>8, <2>9, <2>10, Zenon DEF StashLimits, Within
<1> QED
  BY <1>2, <1>3, Zenon

\* Every step keeps the accounting and the limits of the stash.
LEMMA LimitStep ==
  ASSUME TypeOK, StashLimits, [Next]_vars
  PROVE  StashLimits'
<1>0. /\ TypeOK /\ pending \in Queues /\ pendingBytes \in Int /\ expired \in SUBSET Ids
  BY Zenon DEF TypeOK
<1>1. UNCHANGED <<pending, pendingBytes>> => StashLimits'
  BY Zenon DEF StashLimits, Within
<1>2. ASSUME NEW S \in SUBSET Ids, Erases(S) PROVE StashLimits'
  <2>1. Within(pending', pendingBytes')
    BY <1>0, <1>2, ErasedLimits, Zenon DEF Erases
  <2> QED
    BY <2>1, Zenon DEF StashLimits, Within
<1>3. ASSUME NEW id \in Ids, NEW f \in Inputs,
             \/ ReceiveOpen(id, f) \/ ReceiveLate(id, f) \/ ReceiveEarly(id, f)
             \/ ReceiveDropped(id, f) \/ ReceiveEnd(id, f)
      PROVE  StashLimits'
  <2>1. f \in Frames /\ f.len \in Nat
    BY InputTypes, Zenon
  <2>2. 0 \in Nat
    OBVIOUS
  <2>3. UNCHANGED stashVars \/ Stash(id, f, f.len) \/ Stash(id, f, 0)
    BY <1>3, Zenon DEF ReceiveOpen, ReceiveLate, ReceiveEarly, ReceiveDropped, ReceiveEnd
  <2>4. CASE UNCHANGED stashVars
    BY <1>1, <2>4, Zenon DEF stashVars
  <2> QED
    BY <2>1, <2>2, <2>3, <2>4, StashedLimits, Zenon
<1>4. ASSUME NEW id \in Ids, OpenStart(id) \/ DeliverPending(id) \/ CloseChannel(id) PROVE StashLimits'
  BY <1>1, <1>4, Zenon DEF OpenStart, DeliverPending, CloseChannel, stashVars
<1>5. ASSUME NEW id \in Ids, OpenChannel(id) \/ RemoveChannel(id) PROVE StashLimits'
  <2>1. {id} \in SUBSET Ids
    BY Zenon
  <2> QED
    BY <1>2, <1>5, <2>1, Releases, Zenon
<1>6. Prune => StashLimits'
  BY <1>0, <1>2, Releases, Zenon
<1>7. Expire \/ CloseSession => StashLimits'
  BY <1>1, Zenon DEF Expire, CloseSession, stashVars
<1>8. ASSUME CloseClears PROVE StashLimits'
  <2>1. Ids \in SUBSET Ids /\ pending' = [id \in Ids |-> IF id \in Ids THEN <<>> ELSE pending[id]]
    BY <1>8, Zenon DEF CloseClears
  <2>2. pendingBytes' = pendingBytes - Released(Ids)
    <3>1. pendingBytes = Released(Ids)
      BY Zenon DEF StashLimits, Within, Total, Released
    <3>2. pendingBytes' = 0
      BY <1>8, Zenon DEF CloseClears
    <3> QED
      BY <1>0, <3>1, <3>2
  <2> QED
    BY <1>2, <2>1, <2>2, Zenon DEF Erases
<1>9. UNCHANGED vars => StashLimits'
  BY <1>1, Zenon DEF vars, stashVars
<1> QED
  BY <1>3, <1>4, <1>5, <1>6, <1>7, <1>8, <1>9, NextCases, Zenon DEF Cases

-----------------------------------------------------------------------------
(* The stash is separate from the open and the recently closed labels      *)

\* A queue gets its first frame only for a label that is neither open nor recently
\* closed.
LEMMA NewQueues ==
  ASSUME TypeOK, [Next]_vars, NEW x \in Ids, pending'[x] # <<>>
  PROVE  pending[x] # <<>> \/ (x \notin channels /\ ~RecentlyClosed(x))
<1> DEFINE G == pending[x] # <<>> \/ (x \notin channels /\ ~RecentlyClosed(x))
<1>0. pending \in Queues
  BY Zenon DEF TypeOK
<1>1. pending' = pending => G
  BY Zenon
<1>2. ASSUME NEW S \in SUBSET Ids, Erases(S) PROVE G
  BY <1>2, Zenon DEF Erases
<1>3. ASSUME NEW id \in Ids, NEW f \in Frames, NEW r \in Nat, Stash(id, f, r), x # id PROVE G
  <2>1. Kept[x] # <<>>
    BY <1>3, StashShape, Zenon DEF Queues
  <2> QED
    BY <2>1, Zenon DEF Kept
<1>4. ASSUME NEW id \in Ids, NEW f \in Inputs,
             \/ ReceiveOpen(id, f) \/ ReceiveLate(id, f) \/ ReceiveEarly(id, f)
             \/ ReceiveDropped(id, f) \/ ReceiveEnd(id, f)
      PROVE  G
  <2>1. f \in Frames /\ f.len \in Nat
    BY InputTypes, Zenon
  <2>2. 0 \in Nat
    OBVIOUS
  <2>3. \/ UNCHANGED stashVars
        \/ (Stash(id, f, f.len) \/ Stash(id, f, 0)) /\ id \notin channels /\ ~RecentlyClosed(id)
    BY <1>4, Zenon DEF ReceiveOpen, ReceiveLate, ReceiveEarly, ReceiveDropped, ReceiveEnd
  <2>4. CASE UNCHANGED stashVars
    BY <1>1, <2>4, Zenon DEF stashVars
  <2> QED
    BY <1>3, <2>1, <2>2, <2>3, <2>4, Zenon
<1>5. ASSUME NEW id \in Ids, OpenStart(id) \/ DeliverPending(id) \/ CloseChannel(id) PROVE G
  BY <1>1, <1>5, Zenon DEF OpenStart, DeliverPending, CloseChannel, stashVars
<1>6. ASSUME NEW id \in Ids, OpenChannel(id) \/ RemoveChannel(id) PROVE G
  <2>1. {id} \in SUBSET Ids
    BY Zenon
  <2> QED
    BY <1>2, <1>6, <2>1, Releases, Zenon
<1>7. Prune => G
  BY <1>2, Releases, Zenon DEF TypeOK
<1>8. Expire \/ CloseSession => G
  BY <1>1, Zenon DEF Expire, CloseSession, stashVars
<1>9. CloseClears => G
  BY Zenon DEF CloseClears
<1>10. UNCHANGED vars => G
  BY <1>1, Zenon DEF vars, stashVars
<1> HIDE DEF G
<1>11. G
  BY <1>4, <1>5, <1>6, <1>7, <1>8, <1>9, <1>10, NextCases, Zenon DEF Cases
<1> QED
  BY <1>11, Zenon DEF G

\* Every step keeps the stash separate.
LEMMA SeparateStep ==
  ASSUME TypeOK, MarkerInv, StashSeparate, [Next]_vars
  PROVE  StashSeparate'
<1>1. SUFFICES ASSUME NEW x \in Ids, pending'[x] # <<>>
               PROVE  x \notin channels' /\ ~RecentlyClosed(x)'
  BY Zenon DEF StashSeparate, Queued
<1>2. x \notin channels /\ ~RecentlyClosed(x)
  BY <1>1, NewQueues, Zenon DEF StashSeparate, Queued
<1>3. ~OpenChannel(x) /\ ~RemoveChannel(x)
  <2>1. ASSUME NEW S \in SUBSET Ids, x \in S, Erases(S) PROVE pending'[x] = <<>>
    BY <2>1, Zenon DEF Erases
  <2>2. {x} \in SUBSET Ids /\ x \in {x}
    BY Zenon
  <2> QED
    BY <1>1, <2>1, <2>2, Releases, Zenon
<1>4. x \in channels' => x \in channels \/ OpenChannel(x)
  <2>1. ASSUME NEW id \in Ids, NEW f \in Inputs,
               \/ ReceiveOpen(id, f) \/ ReceiveLate(id, f) \/ ReceiveEarly(id, f)
               \/ ReceiveDropped(id, f) \/ ReceiveEnd(id, f)
        PROVE  channels' = channels
    BY <2>1, Zenon DEF ReceiveOpen, ReceiveLate, ReceiveEarly, ReceiveDropped, ReceiveEnd
  <2>2. ASSUME NEW id \in Ids, \/ OpenStart(id) \/ OpenChannel(id) \/ DeliverPending(id)
                                \/ CloseChannel(id) \/ RemoveChannel(id)
        PROVE  x \in channels' => x \in channels \/ OpenChannel(x)
    <3>1. OpenChannel(id) => channels' = channels \union {id}
      BY Zenon DEF OpenChannel
    <3>2. RemoveChannel(id) => channels' = channels \ {id}
      BY Zenon DEF RemoveChannel
    <3>3. OpenStart(id) \/ DeliverPending(id) \/ CloseChannel(id) => channels' = channels
      BY Zenon DEF OpenStart, DeliverPending, CloseChannel
    <3> QED
      BY <2>2, <3>1, <3>2, <3>3, Zenon
  <2>3. Prune \/ Expire \/ CloseSession \/ CloseClears => channels' = channels \/ channels' = {}
    BY Zenon DEF Prune, Expire, CloseSession, CloseClears
  <2>4. UNCHANGED vars => channels' = channels
    BY Zenon DEF vars
  <2> QED
    BY <2>1, <2>2, <2>3, <2>4, NextCases, Zenon DEF Cases
<1>5. RecentlyClosed(x)' => RecentlyClosed(x) \/ RemoveChannel(x)
  BY MarkerStep, Zenon
<1> QED
  BY <1>2, <1>3, <1>4, <1>5, Zenon

-----------------------------------------------------------------------------
(* The order of the frames                                                 *)

\* An id that is being opened has no undelivered early frames.
OpenInv == \A id \in opening : held[id] = <<>>

\* The frames of q are no later than n; in the order of arrival; in that order but
\* for RST; those of g, but for RST, before those of h.
Upto(q, n) == \A i \in DOMAIN q : q[i].n <= n
Ascending(q) == \A i, j \in DOMAIN q : i < j => q[i].n < q[j].n
InOrder(q) ==
  \A i, j \in DOMAIN q : i < j /\ q[i].flag # "RST" /\ q[j].flag # "RST" => q[i].n < q[j].n
Precedes(g, h) == \A i \in DOMAIN g, j \in DOMAIN h : g[i].flag # "RST" => g[i].n < h[j].n

\* The frames stashed, delivered and undelivered for a label, after n arrivals.
OrderOf(p, g, h, n) ==
  /\ Upto(p, n) /\ Ascending(p) /\ Upto(g, n) /\ InOrder(g)
  /\ Upto(h, n) /\ Ascending(h) /\ Precedes(g, h)

OrderInv == \A id \in Ids : OrderOf(pending[id], got[id], held[id], arrived)

\* Every step keeps an opening id without undelivered frames.
LEMMA OpenStep ==
  ASSUME TypeOK, OpenInv, [Next]_vars
  PROVE  OpenInv'
<1>0. held \in Queues /\ opening \in SUBSET Ids
  BY Zenon DEF TypeOK
<1>1. UNCHANGED <<opening, held>> => OpenInv'
  BY Zenon DEF OpenInv
<1>2. ASSUME NEW id \in Ids, NEW f \in Inputs,
             \/ ReceiveOpen(id, f) \/ ReceiveLate(id, f) \/ ReceiveEarly(id, f)
             \/ ReceiveDropped(id, f) \/ ReceiveEnd(id, f)
      PROVE  OpenInv'
  BY <1>1, <1>2, Zenon DEF ReceiveOpen, ReceiveLate, ReceiveEarly, ReceiveDropped, ReceiveEnd, Arrives
<1>3. ASSUME NEW id \in Ids, OpenStart(id) PROVE OpenInv'
  BY <1>3, Zenon DEF OpenStart, OpenInv
<1>4. ASSUME NEW id \in Ids, OpenChannel(id) PROVE OpenInv'
  <2>1. opening' = opening \ {id} /\ \A i \in Ids : i # id => held'[i] = held[i]
    BY <1>0, <1>4, Zenon DEF OpenChannel, Queues
  <2> QED
    BY <1>0, <2>1, Zenon DEF OpenInv
<1>5. ASSUME NEW id \in Ids, DeliverPending(id) PROVE OpenInv'
  <2>1. held[id] # <<>> /\ opening' = opening /\ \A i \in Ids : i # id => held'[i] = held[i]
    BY <1>0, <1>5, Zenon DEF DeliverPending, Queues
  <2> QED
    BY <1>0, <2>1, Zenon DEF OpenInv
<1>6. ASSUME NEW id \in Ids, CloseChannel(id) \/ RemoveChannel(id) PROVE OpenInv'
  BY <1>1, <1>6, Zenon DEF CloseChannel, RemoveChannel
<1>7. Prune \/ Expire \/ CloseSession \/ CloseClears => OpenInv'
  BY <1>1, Zenon DEF Prune, Expire, CloseSession, CloseClears
<1>8. UNCHANGED vars => OpenInv'
  BY <1>1, Zenon DEF vars
<1> QED
  BY <1>2, <1>3, <1>4, <1>5, <1>6, <1>7, <1>8, NextCases, Zenon DEF Cases

\* An empty queue is in order.
LEMMA EmptyOrder ==
  /\ \A n : Upto(<<>>, n)
  /\ Ascending(<<>>) /\ InOrder(<<>>)
  /\ \A q : Precedes(<<>>, q) /\ Precedes(q, <<>>)
<1>1. DOMAIN <<>> = {}
  OBVIOUS
<1> QED
  BY <1>1, Zenon DEF Upto, Ascending, InOrder, Precedes

\* The arrival numbers of a queue are integers, and its indices too.
LEMMA QueueNumbers ==
  ASSUME NEW q \in Seq(Frames)
  PROVE  \A i \in DOMAIN q : i \in Int /\ q[i].n \in Int
<1>1. DOMAIN q = 1..Len(q) /\ \A i \in DOMAIN q : q[i].n \in Nat
  BY FrameFacts, Zenon
<1> QED
  BY <1>1

\* A frame that arrives later goes to the end of a queue.
LEMMA AppendOrder ==
  ASSUME NEW q \in Seq(Frames), NEW f \in Frames, NEW n \in Nat, Upto(q, n), f.n = n + 1
  PROVE  /\ Upto(q, n + 1) /\ Upto(Append(q, f), n + 1)
         /\ Ascending(q) => Ascending(Append(q, f))
         /\ InOrder(q) => InOrder(Append(q, f))
<1> DEFINE v == Append(q, f)
<1>1. /\ Len(q) \in Nat /\ DOMAIN q = 1..Len(q) /\ DOMAIN v = 1..Len(q)+1
      /\ (\A i \in 1..Len(q) : v[i] = q[i]) /\ v[Len(q)+1] = f
  OBVIOUS
<1> HIDE DEF v
<1>2. \A i \in DOMAIN q : q[i].n <= n /\ q[i].n < f.n /\ q[i].n <= n + 1
  <2>1. SUFFICES ASSUME NEW i \in DOMAIN q PROVE q[i].n <= n /\ q[i].n < f.n /\ q[i].n <= n + 1
    BY Zenon
  <2>2. PICK k \in Int : k = q[i].n /\ k <= n
    BY QueueNumbers, Zenon DEF Upto
  <2>3. k < n + 1 /\ k <= n + 1
    BY <2>2
  <2> QED
    BY <2>2, <2>3, Zenon
<1>3. f.n <= n + 1
  OBVIOUS
<1>4. \A i \in DOMAIN v : (i \in DOMAIN q /\ v[i] = q[i]) \/ (i = Len(q)+1 /\ v[i] = f)
  <2>1. \A i \in 1..Len(q)+1 : i \in 1..Len(q) \/ i = Len(q)+1
    BY <1>1
  <2> QED
    BY <1>1, <2>1, Zenon
<1>5. Upto(q, n + 1)
  BY <1>2, Zenon DEF Upto
<1>6. Upto(v, n + 1)
  <2>1. SUFFICES ASSUME NEW i \in DOMAIN v PROVE v[i].n <= n + 1
    BY Zenon DEF Upto
  <2> QED
    BY <1>2, <1>3, <1>4, Zenon
<1>7. ASSUME NEW i \in DOMAIN v, NEW j \in DOMAIN v, i < j
      PROVE  i \in DOMAIN q /\ v[i] = q[i]
  <2>1. i # Len(q)+1
    <3>1. \A a, b \in 1..Len(q)+1 : a < b => a # Len(q)+1
      BY <1>1
    <3> QED
      BY <1>1, <1>7, <3>1, Zenon
  <2> QED
    BY <1>4, <2>1, Zenon
<1>8. ASSUME Ascending(q) PROVE Ascending(v)
  <2>1. SUFFICES ASSUME NEW i \in DOMAIN v, NEW j \in DOMAIN v, i < j PROVE v[i].n < v[j].n
    BY Zenon DEF Ascending
  <2>2. i \in DOMAIN q /\ v[i] = q[i]
    BY <1>7, <2>1, Zenon
  <2>3. CASE j \in DOMAIN q /\ v[j] = q[j]
    BY <1>8, <2>1, <2>2, <2>3, Zenon DEF Ascending
  <2>4. CASE v[j] = f
    BY <1>2, <2>2, <2>4, Zenon
  <2> QED
    BY <1>4, <2>3, <2>4, Zenon
<1>9. ASSUME InOrder(q) PROVE InOrder(v)
  <2>1. SUFFICES ASSUME NEW i \in DOMAIN v, NEW j \in DOMAIN v,
                        i < j, v[i].flag # "RST", v[j].flag # "RST"
                 PROVE  v[i].n < v[j].n
    BY Zenon DEF InOrder
  <2>2. i \in DOMAIN q /\ v[i] = q[i]
    BY <1>7, <2>1, Zenon
  <2>3. CASE j \in DOMAIN q /\ v[j] = q[j]
    BY <1>9, <2>1, <2>2, <2>3, Zenon DEF InOrder
  <2>4. CASE v[j] = f
    BY <1>2, <2>2, <2>4, Zenon
  <2> QED
    BY <1>4, <2>3, <2>4, Zenon
<1> QED
  BY <1>5, <1>6, <1>8, <1>9, Zenon DEF v

\* deliverPending gives the first undelivered frame to the channel.
LEMMA DeliverOrder ==
  ASSUME NEW g \in Seq(Frames), NEW h \in Seq(Frames), h # <<>>, NEW n,
         Upto(g, n), InOrder(g), Upto(h, n), Ascending(h), Precedes(g, h)
  PROVE  LET v == Append(g, Head(h)) IN
         /\ Upto(Tail(h), n) /\ Ascending(Tail(h)) /\ Precedes(g, Tail(h))
         /\ Upto(v, n) /\ InOrder(v) /\ Precedes(v, Tail(h))
<1> DEFINE v == Append(g, Head(h))
           t == Tail(h)
<1>1. /\ Len(g) \in Nat /\ DOMAIN g = 1..Len(g) /\ DOMAIN v = 1..Len(g)+1
      /\ (\A i \in 1..Len(g) : v[i] = g[i]) /\ v[Len(g)+1] = h[1] /\ 1 \in DOMAIN h
  <2>1. Head(h) \in Frames /\ Head(h) = h[1] /\ Len(h) \in Nat /\ Len(h) # 0 /\ DOMAIN h = 1..Len(h)
    BY FrameFacts, Zenon
  <2>2. 1 \in DOMAIN h
    BY <2>1
  <2>3. PICK f \in Frames : f = Head(h)
    BY <2>1, Zenon
  <2>4. /\ Len(g) \in Nat /\ DOMAIN g = 1..Len(g) /\ DOMAIN Append(g, f) = 1..Len(g)+1
        /\ (\A i \in 1..Len(g) : Append(g, f)[i] = g[i]) /\ Append(g, f)[Len(g)+1] = f
    OBVIOUS
  <2> QED
    BY <2>1, <2>2, <2>3, <2>4, Zenon
<1>2. \A i \in DOMAIN t : i \in Nat /\ i+1 \in DOMAIN h /\ t[i] = h[i+1] /\ 1 < i+1
  OBVIOUS
<1> HIDE DEF v, t
<1>3. \A i \in DOMAIN v : (i \in DOMAIN g /\ v[i] = g[i]) \/ (i = Len(g)+1 /\ v[i] = h[1])
  <2>1. \A i \in 1..Len(g)+1 : i \in 1..Len(g) \/ i = Len(g)+1
    BY <1>1
  <2> QED
    BY <1>1, <2>1, Zenon
<1>4. Upto(t, n)
  BY <1>2, Zenon DEF Upto
<1>5. Ascending(t)
  <2>1. SUFFICES ASSUME NEW i \in DOMAIN t, NEW j \in DOMAIN t, i < j PROVE t[i].n < t[j].n
    BY Zenon DEF Ascending
  <2>2. i+1 < j+1
    <3>1. i \in Nat /\ j \in Nat
      BY <1>2, Zenon
    <3> QED
      BY <2>1, <3>1
  <2> QED
    BY <1>2, <2>2, Zenon DEF Ascending
<1>6. Precedes(g, t)
  <2>1. SUFFICES ASSUME NEW i \in DOMAIN g, NEW j \in DOMAIN t, g[i].flag # "RST" PROVE g[i].n < t[j].n
    BY Zenon DEF Precedes
  <2>2. j+1 \in DOMAIN h /\ t[j] = h[j+1]
    BY <1>2, Zenon
  <2> QED
    BY <2>1, <2>2, Zenon DEF Precedes
<1>7. Upto(v, n)
  <2>1. SUFFICES ASSUME NEW i \in DOMAIN v PROVE v[i].n <= n
    BY Zenon DEF Upto
  <2> QED
    BY <1>1, <1>3, Zenon DEF Upto
<1>8. InOrder(v)
  <2>1. SUFFICES ASSUME NEW i \in DOMAIN v, NEW j \in DOMAIN v,
                        i < j, v[i].flag # "RST", v[j].flag # "RST"
                 PROVE  v[i].n < v[j].n
    BY Zenon DEF InOrder
  <2>2. i \in DOMAIN g /\ v[i] = g[i]
    <3>1. \A a, b \in 1..Len(g)+1 : a < b => a # Len(g)+1
      BY <1>1
    <3> QED
      BY <1>1, <1>3, <2>1, <3>1, Zenon
  <2>3. CASE j \in DOMAIN g /\ v[j] = g[j]
    BY <2>1, <2>2, <2>3, Zenon DEF InOrder
  <2>4. CASE v[j] = h[1]
    BY <1>1, <2>1, <2>2, <2>4, Zenon DEF Precedes
  <2> QED
    BY <1>3, <2>3, <2>4, Zenon
<1>9. Precedes(v, t)
  <2>1. SUFFICES ASSUME NEW i \in DOMAIN v, NEW j \in DOMAIN t, v[i].flag # "RST" PROVE v[i].n < t[j].n
    BY Zenon DEF Precedes
  <2>2. j+1 \in DOMAIN h /\ t[j] = h[j+1] /\ 1 < j+1
    BY <1>2, Zenon
  <2>3. CASE i \in DOMAIN g /\ v[i] = g[i]
    BY <1>6, <2>1, <2>3, Zenon DEF Precedes
  <2>4. CASE v[i] = h[1]
    BY <1>1, <2>2, <2>4, Zenon DEF Ascending
  <2> QED
    BY <1>3, <2>3, <2>4, Zenon
<1> QED
  BY <1>4, <1>5, <1>6, <1>7, <1>8, <1>9, Zenon DEF v, t

\* What the channel has been given, followed by what it is still to be given, is in
\* the order of arrival.
LEMMA ConcatOrder ==
  ASSUME NEW g \in Seq(Frames), NEW h \in Seq(Frames), InOrder(g), Ascending(h), Precedes(g, h)
  PROVE  InOrder(g \o h)
<1> DEFINE all == g \o h
<1>1. /\ Len(g) \in Nat /\ Len(h) \in Nat /\ DOMAIN g = 1..Len(g) /\ DOMAIN h = 1..Len(h)
      /\ DOMAIN all = 1..Len(g)+Len(h)
      /\ (\A i \in 1..Len(g) : all[i] = g[i])
      /\ \A i \in Len(g)+1..Len(g)+Len(h) : all[i] = h[i - Len(g)]
  OBVIOUS
<1> HIDE DEF all
<1>2. PICK a \in Nat, b \in Nat : a = Len(g) /\ b = Len(h)
  BY <1>1, Zenon
<1>3. \A i \in 1..a+b : /\ i \in Int
                        /\ i \in 1..a \/ (i \in a+1..a+b /\ i - a \in 1..b)
  OBVIOUS
<1>4. SUFFICES ASSUME NEW i \in 1..a+b, NEW j \in 1..a+b,
                      i < j, all[i].flag # "RST", all[j].flag # "RST"
               PROVE  all[i].n < all[j].n
  BY <1>1, <1>2, Zenon DEF InOrder, all
<1>5. CASE i \in 1..a /\ j \in 1..a
  <2>1. all[i] = g[i] /\ all[j] = g[j] /\ i \in DOMAIN g /\ j \in DOMAIN g
    BY <1>1, <1>2, <1>5, Zenon
  <2> QED
    BY <1>4, <2>1, Zenon DEF InOrder
<1>6. CASE i \in 1..a /\ j \in a+1..a+b /\ j - a \in 1..b
  <2>1. all[i] = g[i] /\ all[j] = h[j - a] /\ i \in DOMAIN g /\ j - a \in DOMAIN h
    BY <1>1, <1>2, <1>6, Zenon
  <2> QED
    BY <1>4, <2>1, Zenon DEF Precedes
<1>7. CASE i \in a+1..a+b /\ i - a \in 1..b /\ j \in a+1..a+b /\ j - a \in 1..b
  <2>1. all[i] = h[i - a] /\ all[j] = h[j - a] /\ i - a \in DOMAIN h /\ j - a \in DOMAIN h
    BY <1>1, <1>2, <1>7, Zenon
  <2>2. i - a < j - a
    BY <1>4
  <2> QED
    BY <2>1, <2>2, Zenon DEF Ascending
<1>8. ~(i \in a+1..a+b /\ j \in 1..a)
  BY <1>4
<1> QED
  BY <1>3, <1>5, <1>6, <1>7, <1>8, Zenon

\* The order of a label's frames is kept by what the operations do to its queues:
\* another frame arrives, is stashed or is given to the channel; the stash is
\* released; a channel takes it; a frame of it is delivered.
LEMMA LabelOrder ==
  ASSUME NEW p \in Seq(Frames), NEW g \in Seq(Frames), NEW h \in Seq(Frames), NEW n \in Nat,
         OrderOf(p, g, h, n)
  PROVE  /\ OrderOf(p, g, h, n + 1) /\ OrderOf(<<>>, g, h, n)
         /\ OrderOf(<<>>, <<>>, p, n) /\ OrderOf(<<>>, <<>>, <<>>, n)
         /\ \A f \in Frames : f.n = n + 1 =>
              /\ OrderOf(Append(p, f), g, h, n + 1) /\ OrderOf(Append(<<>>, f), g, h, n + 1)
              /\ f.flag = "RST" \/ h = <<>> => OrderOf(p, Append(g, f), h, n + 1)
         /\ h # <<>> => OrderOf(p, g, Tail(h), n) /\ OrderOf(p, Append(g, Head(h)), Tail(h), n)
<1>0. /\ Upto(p, n) /\ Ascending(p) /\ Upto(g, n) /\ InOrder(g)
      /\ Upto(h, n) /\ Ascending(h) /\ Precedes(g, h)
  BY Zenon DEF OrderOf
<1>1. ASSUME NEW q \in Seq(Frames), Upto(q, n) PROVE Upto(q, n + 1)
  <2>1. \A i \in DOMAIN q : q[i].n \in Int /\ q[i].n <= n
    BY <1>1, QueueNumbers, Zenon DEF Upto
  <2>2. \A k \in Int : k <= n => k <= n + 1
    OBVIOUS
  <2> QED
    BY <2>1, <2>2, Zenon DEF Upto
<1>2. Upto(p, n + 1) /\ Upto(g, n + 1) /\ Upto(h, n + 1)
  BY <1>0, <1>1, Zenon
<1>3. OrderOf(p, g, h, n + 1)
  BY <1>0, <1>2, Zenon DEF OrderOf
<1>4. OrderOf(<<>>, g, h, n) /\ OrderOf(<<>>, <<>>, p, n) /\ OrderOf(<<>>, <<>>, <<>>, n)
  BY <1>0, EmptyOrder, Zenon DEF OrderOf
<1>5. ASSUME NEW f \in Frames, f.n = n + 1
      PROVE  /\ OrderOf(Append(p, f), g, h, n + 1) /\ OrderOf(Append(<<>>, f), g, h, n + 1)
             /\ f.flag = "RST" \/ h = <<>> => OrderOf(p, Append(g, f), h, n + 1)
  <2>1. Upto(Append(p, f), n + 1) /\ Ascending(Append(p, f))
    BY <1>0, <1>5, AppendOrder, Zenon
  <2>2. Upto(Append(<<>>, f), n + 1) /\ Ascending(Append(<<>>, f))
    <3>1. <<>> \in Seq(Frames)
      OBVIOUS
    <3> QED
      BY <1>5, <3>1, EmptyOrder, AppendOrder, Zenon
  <2>3. Upto(Append(g, f), n + 1) /\ InOrder(Append(g, f))
    BY <1>0, <1>5, AppendOrder, Zenon
  <2>4. ASSUME f.flag = "RST" PROVE Precedes(Append(g, f), h)
    <3>1. \A i \in DOMAIN Append(g, f) : (i \in DOMAIN g /\ Append(g, f)[i] = g[i]) \/ Append(g, f)[i] = f
      OBVIOUS
    <3> QED
      BY <1>0, <2>4, <3>1, Zenon DEF Precedes
  <2>5. h = <<>> => Precedes(Append(g, f), h)
    BY EmptyOrder, Zenon
  <2> QED
    BY <1>0, <1>2, <2>1, <2>2, <2>3, <2>4, <2>5, Zenon DEF OrderOf
<1>6. ASSUME h # <<>> PROVE OrderOf(p, g, Tail(h), n) /\ OrderOf(p, Append(g, Head(h)), Tail(h), n)
  BY <1>0, <1>6, DeliverOrder, Zenon DEF OrderOf
<1> QED
  BY <1>3, <1>4, <1>5, <1>6, Zenon

\* What the operations do to the queues of a label x.
LEMMA LabelMoves ==
  ASSUME TypeOK, [Next]_vars, NEW x \in Ids
  PROVE  LET p == pending[x]
             g == got[x]
             h == held[x]
             n == arrived
         IN \/ pending'[x] \in {p, <<>>} /\ got'[x] = g /\ held'[x] = h /\ arrived' = n
            \/ pending'[x] \in {p, <<>>} /\ got'[x] = g /\ held'[x] = h /\ arrived' = n + 1
            \/ \E f \in Frames : /\ f.n = n + 1 /\ pending'[x] \in {Append(p, f), Append(<<>>, f)}
                                 /\ got'[x] = g /\ held'[x] = h /\ arrived' = n + 1
            \/ \E f \in Frames : /\ f.n = n + 1 /\ (f.flag = "RST" \/ h = <<>>) /\ pending'[x] = p
                                 /\ got'[x] = Append(g, f) /\ held'[x] = h /\ arrived' = n + 1
            \/ pending'[x] = <<>> /\ got'[x] = <<>> /\ held'[x] \in {p, <<>>} /\ arrived' = n
            \/ /\ h # <<>> /\ pending'[x] = p /\ held'[x] = Tail(h) /\ arrived' = n
               /\ got'[x] \in {g, Append(g, Head(h))}
<1> DEFINE p == pending[x]
           g == got[x]
           h == held[x]
           n == arrived
           Same == pending'[x] \in {p, <<>>} /\ got'[x] = g /\ held'[x] = h /\ arrived' = n
           Later == pending'[x] \in {p, <<>>} /\ got'[x] = g /\ held'[x] = h /\ arrived' = n + 1
           Stashed == \E f \in Frames : /\ f.n = n + 1 /\ pending'[x] \in {Append(p, f), Append(<<>>, f)}
                                        /\ got'[x] = g /\ held'[x] = h /\ arrived' = n + 1
           Fed == \E f \in Frames : /\ f.n = n + 1 /\ (f.flag = "RST" \/ h = <<>>) /\ pending'[x] = p
                                    /\ got'[x] = Append(g, f) /\ held'[x] = h /\ arrived' = n + 1
           Opened == pending'[x] = <<>> /\ got'[x] = <<>> /\ held'[x] \in {p, <<>>} /\ arrived' = n
           Delivered == /\ h # <<>> /\ pending'[x] = p /\ held'[x] = Tail(h) /\ arrived' = n
                        /\ got'[x] \in {g, Append(g, Head(h))}
           Moves == Same \/ Later \/ Stashed \/ Fed \/ Opened \/ Delivered
<1>0. pending \in Queues /\ got \in Queues /\ held \in Queues
  BY Zenon DEF TypeOK
<1>1. ASSUME NEW S \in SUBSET Ids, Erases(S), UNCHANGED <<got, held, arrived>> PROVE Moves
  <2>1. pending'[x] \in {p, <<>>}
    BY <1>1, Zenon DEF Erases
  <2> QED
    BY <1>1, <2>1, Zenon
<1>2. ASSUME UNCHANGED <<pending, got, held, arrived>> PROVE Moves
  BY <1>2, Zenon
<1>3. ASSUME UNCHANGED <<pending, got, held>>, arrived' = n + 1 PROVE Moves
  BY <1>3, Zenon
<1>4. ASSUME NEW id \in Ids, NEW f \in Frames, NEW r \in Nat, f.n = n + 1, Stash(id, f, r),
             UNCHANGED <<got, held>>, arrived' = n + 1
      PROVE  Moves
  <2>1. Kept \in Queues /\ Kept[x] \in {p, <<>>}
    BY <1>4, StashShape, Zenon DEF Kept
  <2>2. pending' = [Kept EXCEPT ![id] = Append(@, f)] \/ pending' = Kept
    BY <1>4, StashShape, Zenon
  <2>3. CASE pending'[x] = Kept[x]
    BY <1>4, <2>1, <2>3, Zenon
  <2>4. CASE pending'[x] = Append(Kept[x], f)
    <3>1. pending'[x] \in {Append(p, f), Append(<<>>, f)}
      BY <2>1, <2>4, Zenon
    <3> QED
      BY <1>4, <3>1, Zenon
  <2>5. pending'[x] = Kept[x] \/ pending'[x] = Append(Kept[x], f)
    BY <2>1, <2>2, Zenon DEF Queues
  <2> QED
    BY <2>3, <2>4, <2>5, Zenon
<1>5. ASSUME NEW id \in Ids, NEW f \in Frames, f.n = n + 1, f.flag = "RST" \/ held[id] = <<>>,
             got' = [got EXCEPT ![id] = Append(@, f)], UNCHANGED <<pending, held>>, arrived' = n + 1
      PROVE  Moves
  <2>1. got'[x] = IF x = id THEN Append(g, f) ELSE g
    BY <1>0, <1>5, Zenon DEF Queues
  <2>2. CASE x = id
    <3>1. Fed
      BY <1>5, <2>1, <2>2, Zenon
    <3> QED
      BY <3>1, Zenon
  <2>3. CASE x # id
    BY <1>5, <2>1, <2>3, Zenon
  <2> QED
    BY <2>2, <2>3, Zenon
<1>6. ASSUME NEW id \in Ids, OpenChannel(id) PROVE Moves
  <2>1. /\ held' = [held EXCEPT ![id] = IF id \in expired THEN <<>> ELSE pending[id]]
        /\ pending' = [pending EXCEPT ![id] = <<>>] /\ got' = [got EXCEPT ![id] = <<>>] /\ arrived' = n
    BY <1>6, Zenon DEF OpenChannel, loopVars
  <2>2. CASE x = id
    <3>1. pending'[x] = <<>> /\ got'[x] = <<>> /\ held'[x] \in {p, <<>>}
      BY <1>0, <2>1, <2>2, Zenon DEF Queues
    <3> QED
      BY <2>1, <3>1, Zenon
  <2>3. CASE x # id
    <3>1. pending'[x] = p /\ got'[x] = g /\ held'[x] = h
      BY <1>0, <2>1, <2>3, Zenon DEF Queues
    <3> QED
      BY <2>1, <3>1, Zenon
  <2> QED
    BY <2>2, <2>3, Zenon
<1>7. ASSUME NEW id \in Ids, DeliverPending(id) PROVE Moves
  <2>1. /\ held[id] # <<>> /\ held' = [held EXCEPT ![id] = Tail(@)] /\ pending' = pending /\ arrived' = n
        /\ got' = got \/ got' = [got EXCEPT ![id] = Append(@, Head(held[id]))]
    BY <1>7, Zenon DEF DeliverPending, loopVars, stashVars
  <2>2. CASE x = id
    <3>1. h # <<>> /\ held'[x] = Tail(h) /\ got'[x] \in {g, Append(g, Head(h))}
      BY <1>0, <2>1, <2>2, Zenon DEF Queues
    <3> QED
      BY <2>1, <3>1, Zenon
  <2>3. CASE x # id
    <3>1. got'[x] = g /\ held'[x] = h
      BY <1>0, <2>1, <2>3, Zenon DEF Queues
    <3> QED
      BY <2>1, <3>1, Zenon
  <2> QED
    BY <2>2, <2>3, Zenon
<1> HIDE DEF Moves
<1>8. ASSUME NEW id \in Ids, NEW f \in Inputs,
             \/ ReceiveOpen(id, f) \/ ReceiveLate(id, f) \/ ReceiveEarly(id, f)
             \/ ReceiveDropped(id, f) \/ ReceiveEnd(id, f)
      PROVE  Moves
  <2>1. f \in Frames /\ f.len \in Nat /\ f.n = n + 1 /\ 0 \in Nat
    BY InputTypes
  <2>2. arrived' = n + 1
    BY <1>8, Zenon DEF ReceiveOpen, ReceiveLate, ReceiveEarly, ReceiveDropped, ReceiveEnd, Arrives
  <2>3. CASE ReceiveOpen(id, f)
    <3>1. /\ f.flag = "RST" \/ held[id] = <<>>
          /\ UNCHANGED <<pending, held>>
          /\ got' = got \/ got' = [got EXCEPT ![id] = Append(@, f)]
      BY <2>3, Zenon DEF ReceiveOpen, stashVars
    <3> QED
      BY <1>3, <1>5, <2>1, <2>2, <3>1, Zenon
  <2>4. CASE ReceiveLate(id, f) \/ ReceiveDropped(id, f)
    BY <1>3, <2>2, <2>4, Zenon DEF ReceiveLate, ReceiveDropped, stashVars
  <2>5. CASE ReceiveEarly(id, f)
    BY <1>4, <2>1, <2>2, <2>5, Zenon DEF ReceiveEarly
  <2>6. CASE ReceiveEnd(id, f)
    <3>1. (UNCHANGED pending \/ Stash(id, f, 0)) /\ UNCHANGED <<got, held>>
      BY <2>6, Zenon DEF ReceiveEnd, stashVars
    <3> QED
      BY <1>3, <1>4, <2>1, <2>2, <3>1, Zenon
  <2> QED
    BY <1>8, <2>3, <2>4, <2>5, <2>6, Zenon
<1>9. ASSUME NEW id \in Ids, OpenStart(id) \/ CloseChannel(id) PROVE Moves
  BY <1>2, <1>9, Zenon DEF OpenStart, CloseChannel, stashVars, loopVars
<1>10. ASSUME NEW id \in Ids, RemoveChannel(id) PROVE Moves
  <2>1. UNCHANGED <<got, held, arrived>>
    BY <1>10, Zenon DEF RemoveChannel, loopVars
  <2> QED
    BY <1>1, <1>10, <2>1, Releases, Zenon
<1>11. ASSUME Prune PROVE Moves
  <2>1. UNCHANGED <<got, held, arrived>> /\ expired \in SUBSET Ids
    BY <1>11, Zenon DEF Prune, loopVars, TypeOK
  <2> QED
    BY <1>1, <1>11, <2>1, Releases, Zenon
<1>12. Expire \/ CloseSession => Moves
  BY <1>2, Zenon DEF Expire, CloseSession, stashVars, loopVars
<1>13. ASSUME CloseClears PROVE Moves
  <2>1. UNCHANGED <<got, held, arrived>> /\ pending'[x] = <<>>
    BY <1>13, Zenon DEF CloseClears, loopVars
  <2> QED
    BY <2>1, Zenon DEF Moves
<1>14. UNCHANGED vars => Moves
  BY <1>2, Zenon DEF vars, stashVars, loopVars
<1>15. Moves
  BY <1>6, <1>7, <1>8, <1>9, <1>10, <1>11, <1>12, <1>13, <1>14, NextCases, Zenon DEF Cases
<1> QED
  BY <1>15, Zenon DEF Moves

\* Every step keeps the order.
LEMMA OrderStep ==
  ASSUME TypeOK, OrderInv, [Next]_vars
  PROVE  OrderInv'
<1>1. SUFFICES ASSUME NEW x \in Ids PROVE OrderOf(pending'[x], got'[x], held'[x], arrived')
  BY Zenon DEF OrderInv, OrderOf, Upto, Ascending, InOrder, Precedes
<1>2. PICK p \in Seq(Frames), g \in Seq(Frames), h \in Seq(Frames), n \in Nat :
        p = pending[x] /\ g = got[x] /\ h = held[x] /\ n = arrived
  BY Zenon DEF TypeOK, Queues
<1>3. OrderOf(p, g, h, n)
  BY <1>2, Zenon DEF OrderInv
<1>4. /\ OrderOf(p, g, h, n + 1) /\ OrderOf(<<>>, g, h, n)
      /\ OrderOf(<<>>, <<>>, p, n) /\ OrderOf(<<>>, <<>>, <<>>, n)
      /\ \A f \in Frames : f.n = n + 1 =>
           /\ OrderOf(Append(p, f), g, h, n + 1) /\ OrderOf(Append(<<>>, f), g, h, n + 1)
           /\ f.flag = "RST" \/ h = <<>> => OrderOf(p, Append(g, f), h, n + 1)
      /\ h # <<>> => OrderOf(p, g, Tail(h), n) /\ OrderOf(p, Append(g, Head(h)), Tail(h), n)
  BY <1>3, LabelOrder, Zenon
<1>5. OrderOf(<<>>, g, h, n + 1)
  <2>1. <<>> \in Seq(Frames)
    OBVIOUS
  <2> QED
    BY <1>4, <2>1, LabelOrder, Zenon
<1>6. \/ pending'[x] \in {p, <<>>} /\ got'[x] = g /\ held'[x] = h /\ arrived' = n
      \/ pending'[x] \in {p, <<>>} /\ got'[x] = g /\ held'[x] = h /\ arrived' = n + 1
      \/ \E f \in Frames : /\ f.n = n + 1 /\ pending'[x] \in {Append(p, f), Append(<<>>, f)}
                           /\ got'[x] = g /\ held'[x] = h /\ arrived' = n + 1
      \/ \E f \in Frames : /\ f.n = n + 1 /\ (f.flag = "RST" \/ h = <<>>) /\ pending'[x] = p
                           /\ got'[x] = Append(g, f) /\ held'[x] = h /\ arrived' = n + 1
      \/ pending'[x] = <<>> /\ got'[x] = <<>> /\ held'[x] \in {p, <<>>} /\ arrived' = n
      \/ /\ h # <<>> /\ pending'[x] = p /\ held'[x] = Tail(h) /\ arrived' = n
         /\ got'[x] \in {g, Append(g, Head(h))}
  BY <1>2, LabelMoves, Zenon
<1> QED
  BY <1>3, <1>4, <1>5, <1>6, Zenon

\* The order of the queues is the order in which frames reach a channel.
LEMMA OrderImplies ==
  ASSUME TypeOK, OrderInv
  PROVE  EarlyInOrder
<1>1. SUFFICES ASSUME NEW id \in channels PROVE InOrder(got[id] \o held[id])
  BY Zenon DEF EarlyInOrder, InOrder
<1>2. got[id] \in Seq(Frames) /\ held[id] \in Seq(Frames) /\ id \in Ids
  BY Zenon DEF TypeOK, Queues
<1> QED
  BY <1>2, ConcatOrder, Zenon DEF OrderInv, OrderOf

-----------------------------------------------------------------------------
(* Every payload byte is accounted for                                     *)

\* stashLocked, and its caller's credit for a refused frame, account for the bytes
\* of the frame and of the queues that have expired.
LEMMA StashBytes ==
  ASSUME TypeOK, ~reliability, NEW id \in Ids, NEW f \in Frames, Stash(id, f, f.len)
  PROVE  credited' + pendingBytes' = credited + pendingBytes + f.len
<1>1. Released(expired) \in Nat /\ f.len \in Nat
  BY FrameFacts, StashShape, Zenon
<1>2. pendingBytes \in Int /\ credited \in Nat
  BY Zenon DEF TypeOK
<1>3. CASE Room(id, f.len)
  <2>1. /\ pendingBytes' = pendingBytes - Released(expired) + f.len
        /\ credited' = credited + Credit(Released(expired))
    BY <1>3, Zenon DEF Stash
  <2>2. Credit(Released(expired)) = Released(expired)
    BY <1>1, CreditNat, Zenon
  <2> QED
    BY <1>1, <1>2, <2>1, <2>2
<1>4. CASE ~Room(id, f.len)
  <2>1. /\ pendingBytes' = pendingBytes - Released(expired)
        /\ credited' = credited + Credit(Released(expired) + f.len)
    BY <1>4, Zenon DEF Stash
  <2>2. Credit(Released(expired) + f.len) = Released(expired) + f.len
    <3>1. Released(expired) + f.len \in Nat
      BY <1>1
    <3> QED
      BY <3>1, CreditNat, Zenon
  <2> QED
    BY <1>1, <1>2, <2>1, <2>2
<1> QED
  BY <1>3, <1>4, Zenon

\* Releasing one queue releases its bytes.
LEMMA ReleasedOne ==
  ASSUME TypeOK, NEW id \in Ids
  PROVE  Released({id}) = Bytes(pending[id]) /\ Bytes(pending[id]) \in Nat
<1>1. Bytes(pending[id]) \in Nat
  BY BytesFacts, Zenon DEF TypeOK, Queues
<1>2. Bytes(pending[id]) \in Int
  BY <1>1
<1> DEFINE v == Bytes(pending[id])
<1>3. SumFunction([y \in {id} |-> v]) = v
  <2> HIDE DEF v
  <2>1. v \in Int
    BY <1>2, Zenon DEF v
  <2> QED
    BY <2>1, SumOne, Zenon
<1>4. [y \in {id} |-> v] = [y \in {id} |-> Bytes(pending[y])]
  BY Zenon
<1> QED
  BY <1>1, <1>3, <1>4, Zenon DEF Released

\* A session that is closed stays closed.
LEMMA StaysClosed ==
  ASSUME TypeOK, [Next]_vars, closed
  PROVE  closed'
<1>1. ASSUME NEW id \in Ids, NEW f \in Inputs,
             \/ ReceiveOpen(id, f) \/ ReceiveLate(id, f) \/ ReceiveEarly(id, f)
             \/ ReceiveDropped(id, f) \/ ReceiveEnd(id, f)
      PROVE  closed'
  BY <1>1, Zenon DEF ReceiveOpen, ReceiveLate, ReceiveEarly, ReceiveDropped, ReceiveEnd
<1>2. ASSUME NEW id \in Ids, \/ OpenStart(id) \/ OpenChannel(id) \/ DeliverPending(id)
                              \/ CloseChannel(id) \/ RemoveChannel(id)
      PROVE  closed'
  BY <1>2, Zenon DEF OpenStart, OpenChannel, DeliverPending, CloseChannel, RemoveChannel, loopVars
<1>3. Prune \/ Expire \/ CloseSession \/ CloseClears => closed'
  BY Zenon DEF Prune, Expire, CloseSession, CloseClears, loopVars
<1>4. UNCHANGED vars => closed'
  BY Zenon DEF vars, loopVars
<1> QED
  BY <1>1, <1>2, <1>3, <1>4, NextCases, Zenon DEF Cases

\* Every step of a session without Reliability that is not closed keeps the
\* account of the bytes.
LEMMA BytesStep ==
  ASSUME TypeOK, OpenInv, BytesAccounted, [Next]_vars
  PROVE  BytesAccounted'
<1> DEFINE Balance == received' = fed' + credited' + lost' + pendingBytes' + Total(held')
<1>0. reliability' = reliability /\ datagram' = datagram
  BY NextCases, Zenon DEF vars, sessVars
<1>1. SUFFICES ASSUME ~reliability, ~closed, ~closed' PROVE Balance /\ (lost' > 0 => datagram)
  BY <1>0, StaysClosed, Zenon DEF BytesAccounted, Total
<1>2. /\ received = fed + credited + lost + pendingBytes + Total(held)
      /\ lost > 0 => datagram
      /\ received \in Nat /\ fed \in Nat /\ credited \in Nat /\ lost \in Nat /\ pendingBytes \in Int
      /\ held \in Queues
  BY <1>1, Zenon DEF BytesAccounted, Total, TypeOK
<1>3. Total(held) \in Int
  <2>1. IsFiniteSet(Ids) /\ \A i \in Ids : Bytes(held[i]) \in Nat
    BY <1>2, LimitTypes, BytesFacts, Zenon DEF Queues
  <2> DEFINE e == [i \in Ids |-> Bytes(held[i])]
  <2>2. e \in [Ids -> Int]
    BY <2>1
  <2> HIDE DEF e
  <2>3. SumFunction(e) \in Int
    BY <2>1, <2>2, SumInt, Zenon
  <2> QED
    BY <2>3, Zenon DEF Total, e
<1>4. PICK R \in Int, F \in Int, C \in Int, L \in Int, B \in Int, H \in Int :
        /\ R = received /\ F = fed /\ C = credited /\ L = lost /\ B = pendingBytes /\ H = Total(held)
        /\ R = F + C + L + B + H
  <2>1. \A a \in Nat : a \in Int
    OBVIOUS
  <2> QED
    BY <1>2, <1>3, <2>1, Zenon
<1>5. ASSUME UNCHANGED <<byteVars, pendingBytes, held>> PROVE Balance
  BY <1>2, <1>5, Zenon DEF byteVars
<1>6. ASSUME NEW k \in Int, received' = received + k, fed' = fed, lost' = lost, held' = held,
             credited' + pendingBytes' = credited + pendingBytes + k,
             credited' \in Int, pendingBytes' \in Int
      PROVE  Balance
  <2>1. PICK c \in Int, b \in Int : c = credited' /\ b = pendingBytes'
    BY <1>6, Zenon
  <2>2. c + b = C + B + k
    BY <1>4, <1>6, <2>1, Zenon
  <2>3. R + k = F + c + L + b + H
    BY <1>4, <2>2
  <2> QED
    BY <1>4, <1>6, <2>1, <2>3, Zenon
<1>7. ASSUME NEW k \in Int, received' = received + k, fed' = fed + k,
             UNCHANGED <<credited, lost, pendingBytes, held>>
      PROVE  Balance
  <2>1. R + k = F + k + C + L + B + H
    BY <1>4
  <2> QED
    BY <1>4, <1>7, <2>1, Zenon
<1>8. ASSUME NEW k \in Int, received' = received + k, UNCHANGED <<fed, pendingBytes, held>>,
             \/ credited' = credited + k /\ lost' = lost
             \/ credited' = credited /\ lost' = lost + k
      PROVE  Balance
  <2>1. R + k = F + (C + k) + L + B + H /\ R + k = F + C + (L + k) + B + H
    BY <1>4
  <2> QED
    BY <1>4, <1>8, <2>1, Zenon
<1>9. ASSUME NEW S \in SUBSET Ids, Erases(S), credited' = credited + Credit(Released(S)),
             UNCHANGED <<received, fed, lost, held>>
      PROVE  Balance
  <2>1. Released(S) \in Nat
    BY <1>9, EraseShape, Zenon
  <2>2. PICK k \in Int : k = Released(S) /\ k = Credit(Released(S))
    <3>1. \A a \in Nat : a \in Int
      OBVIOUS
    <3> QED
      BY <1>1, <2>1, <3>1, CreditNat, Zenon
  <2>3. pendingBytes' = B - k /\ credited' = C + k
    BY <1>4, <1>9, <2>2, Zenon DEF Erases
  <2>4. R = F + (C + k) + L + (B - k) + H
    BY <1>4
  <2> QED
    BY <1>4, <1>9, <2>3, <2>4, Zenon
<1>10. ASSUME NEW id \in Ids, NEW f \in Inputs,
              \/ ReceiveOpen(id, f) \/ ReceiveLate(id, f) \/ ReceiveEarly(id, f)
              \/ ReceiveDropped(id, f) \/ ReceiveEnd(id, f)
       PROVE  Balance
  <2> HIDE DEF Balance
  <2>1. /\ f \in Frames /\ f.len \in Nat /\ f.len \in Int /\ Credit(f.len) = f.len
        /\ f.flag # "DATA" => f.len = 0
    BY <1>1, InputTypes, FrameFacts, CreditNat, Zenon
  <2>2. received' = received + f.len
    BY <1>10, Zenon DEF ReceiveOpen, ReceiveLate, ReceiveEarly, ReceiveDropped, ReceiveEnd, Arrives
  <2>3. CASE ReceiveOpen(id, f)
    <3>1. /\ UNCHANGED <<pendingBytes, held>>
          /\ \/ fed' = fed + f.len /\ UNCHANGED <<credited, lost>>
             \/ credited' = credited + f.len /\ UNCHANGED <<fed, lost>>
             \/ lost' = lost + f.len /\ UNCHANGED <<fed, credited>>
      BY <2>1, <2>3, Zenon DEF ReceiveOpen, stashVars
    <3> QED
      BY <1>7, <1>8, <2>1, <2>2, <3>1, Zenon
  <2>4. CASE ReceiveLate(id, f) \/ ReceiveDropped(id, f)
    <3>1. credited' = credited + f.len /\ UNCHANGED <<fed, lost, pendingBytes, held>>
      BY <2>1, <2>4, Zenon DEF ReceiveLate, ReceiveDropped, stashVars
    <3> QED
      BY <1>8, <2>1, <2>2, <3>1, Zenon
  <2>5. ASSUME Stash(id, f, f.len), UNCHANGED <<held, fed, lost>> PROVE Balance
    <3>1. credited' + pendingBytes' = credited + pendingBytes + f.len
      BY <1>1, <2>1, <2>5, StashBytes, Zenon
    <3>2. credited' \in Nat /\ pendingBytes' \in Int
      BY <2>1, <2>5, StashShape, Zenon
    <3>3. credited' \in Int
      BY <3>2
    <3> QED
      BY <1>6, <2>1, <2>2, <2>5, <3>1, <3>2, <3>3, Zenon
  <2>6. CASE ReceiveEarly(id, f)
    BY <2>5, <2>6, Zenon DEF ReceiveEarly
  <2>7. CASE ReceiveEnd(id, f)
    <3>1. /\ UNCHANGED <<stashVars, credited>> \/ Stash(id, f, 0)
          /\ UNCHANGED <<held, fed, lost>> /\ f.flag \in {"FIN", "RST"}
      BY <2>7, Zenon DEF ReceiveEnd
    <3>2. f.len = 0
      <4>1. "FIN" # "DATA" /\ "RST" # "DATA"
        OBVIOUS
      <4> QED
        BY <2>1, <3>1, <4>1, Zenon
    <3>3. CASE UNCHANGED <<stashVars, credited>>
      <4>1. received' = received
        BY <1>2, <2>2, <3>2
      <4> QED
        BY <1>5, <3>1, <3>3, <4>1, Zenon DEF stashVars, byteVars
    <3>4. CASE Stash(id, f, 0)
      BY <2>5, <3>1, <3>2, <3>4, Zenon
    <3> QED
      BY <3>1, <3>3, <3>4, Zenon
  <2> QED
    BY <1>10, <2>3, <2>4, <2>6, <2>7, Zenon
<1>11. ASSUME NEW id \in Ids, OpenChannel(id) PROVE Balance
  <2>1. Released({id}) = Bytes(pending[id]) /\ Bytes(pending[id]) \in Nat
    BY ReleasedOne, Zenon
  <2>2. PICK k \in Int : k = Released({id}) /\ k = Bytes(pending[id]) /\ k = Credit(Released({id}))
    <3>1. \A a \in Nat : a \in Int
      OBVIOUS
    <3> QED
      BY <1>1, <2>1, <3>1, CreditNat, Zenon
  <2>3. /\ held' = [held EXCEPT ![id] = IF id \in expired THEN <<>> ELSE pending[id]]
        /\ credited' = credited + IF id \in expired THEN Credit(Released({id})) ELSE 0
        /\ pendingBytes' = pendingBytes - Released({id}) /\ UNCHANGED <<received, fed, lost>>
    BY <1>11, Zenon DEF OpenChannel
  <2>4. held[id] = <<>> /\ Bytes(held[id]) = 0
    BY <1>11, BytesFacts, Zenon DEF OpenInv, OpenChannel
  <2>5. CASE id \in expired
    <3>1. held' = held
      <4>1. held' = [held EXCEPT ![id] = held[id]]
        BY <2>3, <2>4, <2>5, Zenon
      <4> QED
        BY <1>2, <4>1, Zenon DEF Queues
    <3>2. credited' = C + k /\ pendingBytes' = B - k
      BY <1>4, <2>2, <2>3, <2>5, Zenon
    <3>3. R = F + (C + k) + L + (B - k) + H
      BY <1>4
    <3> QED
      BY <1>4, <2>3, <3>1, <3>2, <3>3, Zenon
  <2>6. CASE id \notin expired
    <3>1. held' \in Queues /\ held'[id] = pending[id] /\ \A i \in Ids \ {id} : held'[i] = held[i]
      BY <1>2, <2>3, <2>6, Zenon DEF TypeOK, Queues
    <3>2. Bytes(held'[id]) = Bytes(held[id]) + k
      <4>1. 0 + k = k
        OBVIOUS
      <4> QED
        BY <2>2, <2>4, <3>1, <4>1, Zenon
    <3>3. Total(held') = H + k
      BY <1>2, <1>4, <3>1, <3>2, TotalChange, Zenon
    <3>4. credited' = C /\ pendingBytes' = B - k
      <4>1. C + 0 = C
        OBVIOUS
      <4> QED
        BY <1>4, <2>2, <2>3, <2>6, <4>1, Zenon
    <3>5. R = F + C + L + (B - k) + (H + k)
      BY <1>4
    <3> QED
      BY <1>4, <2>3, <3>3, <3>4, <3>5, Zenon
  <2> QED
    BY <2>5, <2>6, Zenon
<1>12. ASSUME NEW id \in Ids, DeliverPending(id) PROVE Balance
  <2>1. /\ held[id] # <<>> /\ held' = [held EXCEPT ![id] = Tail(@)]
        /\ \/ fed' = fed + Head(held[id]).len /\ credited' = credited
           \/ fed' = fed /\ credited' = credited + Credit(Head(held[id]).len)
        /\ UNCHANGED <<received, lost, pendingBytes>>
    BY <1>12, Zenon DEF DeliverPending, stashVars
  <2>2. PICK q \in Seq(Frames) : q = held[id] /\ q # <<>>
    BY <1>2, <2>1, Zenon DEF Queues
  <2>3. PICK k \in Int : k = Head(q).len /\ k = Credit(Head(q).len)
    <3>1. Head(q) \in Frames
      BY <2>2
    <3> QED
      BY <1>1, <3>1, FrameFacts, CreditNat, Zenon
  <2>4. Tail(q) \in Seq(Frames)
    BY <2>2
  <2>5. held' \in Queues /\ held'[id] = Tail(q) /\ \A i \in Ids \ {id} : held'[i] = held[i]
    BY <1>2, <2>1, <2>2, <2>4, Zenon DEF Queues
  <2>6. Bytes(held'[id]) = Bytes(held[id]) + (-k) /\ -k \in Int
    <3>1. Bytes(Tail(q)) = Bytes(q) - k /\ Bytes(q) \in Nat
      BY <2>2, <2>3, BytesFacts, Zenon
    <3>2. Bytes(q) - k = Bytes(q) + (-k) /\ -k \in Int
      BY <3>1
    <3> QED
      BY <2>2, <2>5, <3>1, <3>2, Zenon
  <2>7. Total(held') = H + (-k)
    BY <1>2, <1>4, <2>5, <2>6, TotalChange, Zenon
  <2>8. R = (F + k) + C + L + B + (H + (-k)) /\ R = F + (C + k) + L + B + (H + (-k))
    BY <1>4
  <2> QED
    BY <1>4, <2>1, <2>2, <2>3, <2>7, <2>8, Zenon
<1>13. ASSUME NEW id \in Ids, RemoveChannel(id) PROVE Balance
  <2>1. UNCHANGED <<received, fed, lost, held>>
    BY <1>13, Zenon DEF RemoveChannel
  <2> QED
    BY <1>9, <1>13, <2>1, Releases, Zenon
<1>14. ASSUME Prune PROVE Balance
  <2>1. /\ UNCHANGED <<received, fed, lost, held>> /\ expired \in SUBSET Ids
        /\ credited' = credited + Credit(Released(expired))
    BY <1>14, Zenon DEF Prune, TypeOK
  <2> QED
    BY <1>9, <1>14, <2>1, Releases, Zenon
<1>15. ASSUME NEW id \in Ids, OpenStart(id) \/ CloseChannel(id) PROVE Balance
  BY <1>5, <1>15, Zenon DEF OpenStart, CloseChannel, stashVars
<1>16. Expire \/ CloseSession => Balance
  BY <1>5, Zenon DEF Expire, CloseSession, stashVars
<1>17. ~CloseClears
  BY <1>1, Zenon DEF CloseClears
<1>18. UNCHANGED vars => Balance
  BY <1>5, Zenon DEF vars, stashVars
<1>19. lost' = lost \/ datagram
  <2>1. ASSUME NEW id \in Ids, NEW f \in Inputs,
               \/ ReceiveOpen(id, f) \/ ReceiveLate(id, f) \/ ReceiveEarly(id, f)
               \/ ReceiveDropped(id, f) \/ ReceiveEnd(id, f)
        PROVE  lost' = lost \/ datagram
    BY <2>1, Zenon DEF ReceiveOpen, ReceiveLate, ReceiveEarly, ReceiveDropped, ReceiveEnd
  <2>2. ASSUME NEW id \in Ids, \/ OpenStart(id) \/ OpenChannel(id) \/ DeliverPending(id)
                                \/ CloseChannel(id) \/ RemoveChannel(id)
        PROVE  lost' = lost
    BY <2>2, Zenon DEF OpenStart, OpenChannel, DeliverPending, CloseChannel, RemoveChannel, byteVars
  <2>3. Prune \/ Expire \/ CloseSession \/ CloseClears \/ UNCHANGED vars => lost' = lost
    BY Zenon DEF Prune, Expire, CloseSession, CloseClears, vars, byteVars
  <2> QED
    BY <2>1, <2>2, <2>3, NextCases, Zenon DEF Cases
<1>20. lost' > 0 => datagram
  BY <1>2, <1>19, Zenon
<1> HIDE DEF Balance
<1> QED
  BY <1>10, <1>11, <1>12, <1>13, <1>14, <1>15, <1>16, <1>17, <1>18, <1>20, NextCases, Zenon DEF Cases

-----------------------------------------------------------------------------
(* The theorems                                                            *)

\* The inductive invariant.
IInv ==
  /\ TypeOK /\ MarkerInv /\ StashLimits /\ StashSeparate /\ OpenInv /\ OrderInv
  /\ BytesAccounted

\* A new session holds nothing.
LEMMA IInvInit ==
  ASSUME Init
  PROVE  IInv
<1> DEFINE none == [id \in Ids |-> <<>>]
<1>1. /\ reliability \in BOOLEAN /\ datagram \in BOOLEAN
      /\ channels = {} /\ shut = {} /\ pending = none /\ expired = {} /\ pendingBytes = 0
      /\ closedIDs = <<>> /\ held = none /\ unknown = 0 /\ closed = FALSE
      /\ opening = {} /\ cleared = FALSE /\ reading = TRUE
      /\ resets = {} /\ arrived = 0 /\ opened = [id \in Ids |-> 0] /\ got = none
      /\ received = 0 /\ fed = 0 /\ credited = 0 /\ lost = 0
  BY Zenon DEF Init
<1>2. 0 \in Nat /\ 0 \in Int /\ <<>> \in Seq(Frames) /\ <<>> \in Seq(Markers)
      /\ DOMAIN <<>> = {} /\ Len(<<>>) = 0 /\ 0 + 0 + 0 + 0 + 0 = 0 /\ ~(0 > 0)
  OBVIOUS
<1>3. none \in Queues /\ (\A id \in Ids : none[id] = <<>>) /\ Queued = {}
  BY <1>1, <1>2, Zenon DEF Queues, Queued
<1>4. Total(none) = 0
  <2>1. [id \in Ids |-> Bytes(none[id])] = [id \in Ids |-> 0]
    BY <1>3, BytesFacts, Zenon
  <2> QED
    BY <2>1, SumZero, LimitTypes, Zenon DEF Total
<1> HIDE DEF none
<1>5. TypeOK
  <2>1. opened \in [Ids -> Nat] /\ closed \in BOOLEAN /\ cleared \in BOOLEAN /\ reading \in BOOLEAN
    BY <1>1, <1>2, Zenon
  <2> QED
    BY <1>1, <1>2, <1>3, <2>1, Zenon DEF TypeOK
<1>6. MarkerInv
  <2>1. 0 <= MaxClosedIDs
    BY EarlyAssumption DEF EarlyAssumption
  <2> QED
    BY <1>1, <1>2, <2>1, Zenon DEF MarkerInv, OneEach
<1>7. StashLimits
  <2>1. 0 <= MaxEarlyBytes /\ 0 <= MaxPendingChannels /\ 0 <= MaxEarlyFrames
    BY LimitTypes
  <2>2. Cardinality({id \in Ids : none[id] # <<>>}) = 0
    <3>1. {id \in Ids : none[id] # <<>>} = {}
      BY <1>3, Zenon
    <3> QED
      BY <3>1, FS_EmptySet, Zenon
  <2> QED
    BY <1>1, <1>2, <1>3, <1>4, <2>1, <2>2, Zenon DEF StashLimits, Within
<1>8. StashSeparate /\ OpenInv
  BY <1>1, <1>3, Zenon DEF StashSeparate, OpenInv
<1>9. OrderInv
  <2>1. OrderOf(<<>>, <<>>, <<>>, 0)
    BY EmptyOrder, Zenon DEF OrderOf
  <2> QED
    BY <1>1, <1>3, <2>1, Zenon DEF OrderInv
<1>10. BytesAccounted
  BY <1>1, <1>2, <1>4, Zenon DEF BytesAccounted, Total
<1> QED
  BY <1>5, <1>6, <1>7, <1>8, <1>9, <1>10, Zenon DEF IInv

\* Every step keeps the invariant.
LEMMA IInvStep ==
  ASSUME IInv, [Next]_vars
  PROVE  IInv'
<1>1. /\ TypeOK /\ MarkerInv /\ StashLimits /\ StashSeparate /\ OpenInv /\ OrderInv
      /\ BytesAccounted
  BY Zenon DEF IInv
<1>2. TypeOK' /\ MarkerInv'
  BY <1>1, TypeStep, MarkerStep, Zenon
<1>3. StashLimits' /\ StashSeparate'
  BY <1>1, LimitStep, SeparateStep, Zenon
<1>4. OpenInv' /\ OrderInv' /\ BytesAccounted'
  BY <1>1, OpenStep, OrderStep, BytesStep, Zenon
<1> QED
  BY <1>2, <1>3, <1>4, Zenon DEF IInv

\* The invariant holds always.
THEOREM Invariant == Spec => []IInv
BY IInvInit, IInvStep, PTL DEF Spec

\* pendingBytes is what the queues of early frames hold, and stashLocked,
\* OpenChannel, releasePendingLocked and markClosedLocked keep the limits of the
\* stash and of the marker table.
THEOREM StashIsAccounted == Spec => []StashAccounted
<1>1. IInv => StashAccounted
  <2>1. SUFFICES ASSUME MarkerInv, StashLimits PROVE StashAccounted
    BY Zenon DEF IInv
  <2>2. Released(Ids) = Total(pending)
    BY Zenon DEF Released, Total
  <2> QED
    BY <2>1, <2>2, Zenon DEF StashAccounted, StashLimits, Within, MarkerInv, OneEach, Queued
<1> QED
  BY <1>1, Invariant, PTL

\* No frame waits in the stash for a label that is open or was recently closed:
\* stashLocked is not reached for one, and OpenChannel and removeChannelIf release
\* the label's queue.
THEOREM StashIsSeparate == Spec => []StashSeparate
<1>1. IInv => StashSeparate
  BY Zenon DEF IInv
<1> QED
  BY <1>1, Invariant, PTL

\* Frames reach a channel in the order in which they arrived, though the read loop
\* goes on while OpenChannel delivers the early ones under feedMu.
THEOREM EarlyStayInOrder == Spec => []EarlyInOrder
<1>1. IInv => EarlyInOrder
  BY OrderImplies, Zenon DEF IInv
<1> QED
  BY <1>1, Invariant, PTL

\* Without Reliability and while the session is open, every payload byte received was
\* given to a channel, waits in the stash or with OpenChannel, or was credited; the
\* only exception is what datagramReadLoop brings to a closed channel, whose refusal
\* it ignores.
THEOREM BytesAreAccounted == Spec => []BytesAccounted
<1>1. IInv => BytesAccounted
  BY Zenon DEF IInv
<1> QED
  BY <1>1, Invariant, PTL

=============================================================================
