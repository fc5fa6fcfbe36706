------------------------- MODULE FlowControlProofs -------------------------
(***************************************************************************)
(* Proofs about FlowControl, for any set of channels and any windows: no   *)
(* credit of a stream or of the session is minted or leaked,               *)
(* AcquireCredits never sleeps through a wake-up, and its refund path is   *)
(* dead.                                                                   *)
(***************************************************************************)
EXTENDS FlowControl, FiniteSums

\* Whose flow an actor is working on, its channel's or the session's, and where
\* in OnRead it carries nothing.
ActorInv ==
  \A a \in Actors : /\ actor[a].flow \in {a, Session}
                    /\ actor[a].pc \in {"idle", "swap", "cas"} => actor[a].n = 0
                    /\ actor[a].pc = "idle" => actor[a].flow = Session

\* What AcquireCredits knows of the stream credit: what it has loaded, or is
\* about to take, is there.
TakeInv ==
  \A c \in Channels : writer[c] \in {"load", "deduct", "taken"} => take[c] <= sendCredits[c]

\* NoLostWakeup, from the load of the stream credit on.
Awake(c) == winNotify[c] \/ c \in waking
WakeInv ==
  \A c \in Channels :
    /\ (writer[c] \in {"load", "wait"} /\ writeClosed[c]) => Awake(c)
    /\ (writer[c] = "load" /\ take[c] = 0 /\ sendCredits[c] > 0) => Awake(c)
    /\ (writer[c] = "wait" /\ sendCredits[c] > 0 /\ (Enabled => sendCredits[Session] > 0)) => Awake(c)

ActorTypes ==
  [pc : {"idle", "add", "swap", "unflush", "cas"}, flow : Flows, n : Nat, of : Nat]

\* The windows and thresholds are what newStreamFlow and newSessionFlow make them.
LEMMA WindowType == \A f \in Flows : Window(f) \in Nat /\ Threshold(f) \in Int
BY FlowAssumption DEF FlowAssumption, Window, Threshold

\* The records an actor goes through in OnRead have the right type.
LEMMA ActorType ==
  ASSUME TypeOK, NEW a \in Actors, NEW n \in Nat
  PROVE  /\ NoOp \in ActorTypes /\ Finish(a) \in ActorTypes
         /\ \A f \in Flows, m \in Nat : Begin(f, n, m) \in ActorTypes
         /\ \A pc \in {"swap", "unflush", "cas"} : Moves(a, pc, n) \in ActorTypes
<1>1. Session \in Flows /\ actor[a] \in ActorTypes
  BY Zenon DEF Flows, TypeOK, ActorTypes
<1>2. NoOp \in ActorTypes
  BY <1>1, Zenon DEF NoOp, ActorTypes
<1>3. \A f \in Flows, m, k \in Nat : Begin(f, k, m) \in ActorTypes
  BY Zenon DEF Begin, ActorTypes
<1>4. actor[a].of \in Nat
  BY <1>1, Zenon DEF ActorTypes
<1>5. Finish(a) \in ActorTypes
  BY <1>1, <1>2, <1>3, <1>4, Zenon DEF Finish
<1>6. \A pc \in {"swap", "unflush", "cas"} : Moves(a, pc, n) \in ActorTypes
  BY <1>1, Zenon DEF Moves, ActorTypes
<1> QED
  BY <1>2, <1>3, <1>5, <1>6, Zenon

\* The type invariant holds when both ends have just been created.
LEMMA InitType == Init => TypeOK
<1> SUFFICES ASSUME Init PROVE TypeOK
  BY Zenon
<1>1. NoOp \in ActorTypes
  BY Zenon DEF NoOp, ActorTypes, Flows
<1>2. actor \in [Actors -> ActorTypes]
  BY <1>1, Zenon DEF Init
<1>3. sendCredits \in [Flows -> Nat]
  BY WindowType, Zenon DEF Init
<1>4. resolving \in [Flows -> Nat \union {NoDelta}]
  BY Zenon DEF Init
<1> QED
  BY <1>2, <1>3, <1>4, Zenon DEF Init, TypeOK, ActorTypes

\* The sending end keeps the types: credit is never driven below zero.
LEMMA WritingType ==
  ASSUME TypeOK, NEW c \in Channels, Writing(c) \/ CloseWrite(c)
  PROVE  TypeOK'
<1> USE FlowAssumption DEF FlowAssumption
<1>0. c \in Flows /\ Session \in Flows
  BY Zenon DEF Flows
<1>1. CASE LoadStream(c)
  <2>1. take' \in [Channels -> Nat] /\ writer' \in [Channels -> {"idle", "load", "wait", "deduct", "taken"}]
    BY <1>0, <1>1, Zenon DEF LoadStream, TypeOK
  <2> QED
    BY <1>1, <2>1, Zenon DEF LoadStream, TypeOK, rcvVars, updVars, schVars
<1>2. ASSUME NEW n \in 1..MaxFrame, LoadSession(c, n) PROVE TypeOK'
  <2>1. take[c] \in Nat /\ sendCredits[Session] \in Nat /\ n \in Nat
    BY <1>0 DEF TypeOK
  <2>2. take' \in [Channels -> Nat] /\ writer' \in [Channels -> {"idle", "load", "wait", "deduct", "taken"}]
    BY <1>2, <2>1 DEF LoadSession, TypeOK, Lesser
  <2> QED
    BY <1>2, <2>2, Zenon DEF LoadSession, TypeOK, rcvVars, updVars, schVars
<1>3. CASE DeductSession(c)
  <2>1. take[c] \in Nat /\ sendCredits[Session] \in Nat
    BY <1>0, Zenon DEF TypeOK
  <2>2. sendCredits' \in [Flows -> Nat]
    BY <1>0, <1>3, <2>1 DEF DeductSession, TypeOK
  <2>3. take' \in [Channels -> Nat] /\ writer' \in [Channels -> {"idle", "load", "wait", "deduct", "taken"}]
    BY <1>3 DEF DeductSession, TypeOK
  <2> QED
    BY <1>3, <2>2, <2>3, Zenon DEF DeductSession, TypeOK, rcvVars, updVars, schVars
<1>4. CASE DeductStream(c)
  <2>1. take[c] \in Nat /\ sendCredits[c] \in Nat /\ sendCredits[Session] \in Nat /\ dataWire[c] \in Nat
    BY <1>0, Zenon DEF TypeOK
  <2>2. sendCredits' \in [Flows -> Nat]
    BY <1>0, <1>4, <2>1 DEF DeductStream, TypeOK
  <2>3. dataWire' \in [Channels -> Nat]
    BY <1>4, <2>1 DEF DeductStream, TypeOK
  <2>5. winNotify' \in [Channels -> BOOLEAN]
    BY <1>4, Zenon DEF DeductStream, TypeOK
  <2>4. take' \in [Channels -> Nat] /\ writer' \in [Channels -> {"idle", "load", "wait", "deduct", "taken"}]
    BY <1>4, Zenon DEF DeductStream, TypeOK
  <2> QED
    BY <1>4, <2>2, <2>3, <2>4, <2>5, Zenon DEF DeductStream, TypeOK, rcvVars, updVars, schVars
<1>5. CASE TakeNotify(c)
  BY <1>0, <1>5, Zenon DEF TakeNotify, TypeOK, rcvVars, updVars, schVars
<1>6. CASE CloseWrite(c)
  BY <1>0, <1>6, Zenon DEF CloseWrite, TypeOK, rcvVars, updVars, schVars
<1> QED
  BY <1>1, <1>2, <1>3, <1>4, <1>5, <1>6, Zenon DEF Writing

\* So do the arrival of credit and the wake-ups.
LEMMA CreditingType == TypeOK /\ Crediting => TypeOK'
<1> USE FlowAssumption DEF FlowAssumption
<1>1. ASSUME TypeOK, NEW f \in Flows, NEW n \in 1..updWire[f], AddCredits(f, n) PROVE TypeOK'
  BY <1>1 DEF AddCredits, TypeOK, Flows, rcvVars, updVars, schVars
<1>2. ASSUME TypeOK, NEW c \in Channels, WakeWriter(c) PROVE TypeOK'
  BY <1>2, Zenon DEF WakeWriter, TypeOK, rcvVars, updVars, schVars
<1> QED
  BY <1>1, <1>2, Zenon DEF Crediting

\* An actor inside OnRead keeps the types.
LEMMA ConsumingType ==
  ASSUME TypeOK, NEW a \in Actors, Consuming(a)
  PROVE  TypeOK'
<1> DEFINE f == actor[a].flow
<1>0. f \in Flows /\ actor[a].n \in Nat /\ consumed[f] \in Nat /\ unflushed[f] \in Nat
      /\ 0 \in Nat /\ actor \in [Actors -> ActorTypes]
  BY Zenon DEF TypeOK, ActorTypes
<1>1. CASE AddConsumed(a)
  <2>1. actor' \in [Actors -> ActorTypes]
    BY <1>0, <1>1, ActorType, Zenon DEF AddConsumed
  <2>2. consumed' \in [Flows -> Nat]
    BY <1>0, <1>1 DEF AddConsumed, TypeOK
  <2> QED
    BY <1>1, <2>1, <2>2, Zenon DEF AddConsumed, TypeOK, ActorTypes, sndVars, rcvVars, schVars
<1>2. CASE SwapConsumed(a)
  <2>1. actor' \in [Actors -> ActorTypes]
    BY <1>0, <1>2, ActorType, Zenon DEF SwapConsumed
  <2>2. consumed' \in [Flows -> Nat]
    BY <1>0, <1>2, Zenon DEF SwapConsumed, TypeOK
  <2> QED
    BY <1>2, <2>1, <2>2, Zenon DEF SwapConsumed, TypeOK, ActorTypes, sndVars, rcvVars, schVars
<1>3. CASE AddUnflushed(a)
  <2>1. actor' \in [Actors -> ActorTypes]
    BY <1>0, <1>3, ActorType, Zenon DEF AddUnflushed
  <2>2. unflushed' \in [Flows -> Nat]
    BY <1>0, <1>3 DEF AddUnflushed, TypeOK
  <2> QED
    BY <1>3, <2>1, <2>2, Zenon DEF AddUnflushed, TypeOK, ActorTypes, sndVars, rcvVars, schVars
<1>4. CASE QueueUpdate(a)
  <2>1. actor' \in [Actors -> ActorTypes]
    BY <1>0, <1>4, ActorType, Zenon DEF QueueUpdate
  <2>2. updPending' \in [Flows -> BOOLEAN] /\ queued' \subseteq Flows
    BY <1>0, <1>4, Zenon DEF QueueUpdate, TypeOK
  <2> QED
    BY <1>4, <2>1, <2>2, Zenon DEF QueueUpdate, TypeOK, ActorTypes, sndVars, rcvVars
<1> QED
  BY <1>1, <1>2, <1>3, <1>4, Zenon DEF Consuming

\* The receiving channel keeps the types.
LEMMA ReceivingType ==
  ASSUME TypeOK, NEW c \in Channels, Reading(c) \/ Feeding(c) \/ Close(c) \/ Draining(c)
  PROVE  TypeOK'
<1>0. /\ c \in Flows /\ Session \in Flows /\ c \in Actors /\ Loop \in Actors /\ 0 \in Nat
      /\ ring[c] \in Nat /\ feeding[c] \in Nat /\ gone[c] \in Nat /\ dataWire[c] \in Nat
      /\ lost \in Nat /\ actor \in [Actors -> ActorTypes]
  BY Zenon DEF TypeOK, ActorTypes, Flows, Actors
<1>1. ASSUME NEW n \in 1..ring[c], Read(c, n) PROVE TypeOK'
  <2>1. n \in Nat /\ Begin(c, n, n) \in ActorTypes
    BY <1>0, ActorType
  <2>2. actor' \in [Actors -> ActorTypes]
    BY <1>0, <1>1, <2>1, Zenon DEF Read
  <2>3. ring' \in [Channels -> Nat]
    BY <1>0, <1>1, <2>1 DEF Read, TypeOK
  <2> QED
    BY <1>1, <2>2, <2>3, Zenon DEF Read, TypeOK, ActorTypes, sndVars, schVars
<1>2. ASSUME NEW n \in 1..dataWire[c], FeedCheck(c, n) PROVE TypeOK'
  <2>0. n \in Nat
    BY <1>0
  <2>1. Begin(Session, n, 0) \in ActorTypes /\ NoOp \in ActorTypes
    BY <1>0, <2>0, ActorType, Zenon
  <2>2. actor' \in [Actors -> ActorTypes]
    BY <1>0, <1>2, <2>0, <2>1, Zenon DEF FeedCheck
  <2>3. dataWire' \in [Channels -> Nat]
    BY <1>0, <1>2, <2>0, <2>1 DEF FeedCheck, TypeOK
  <2>4. feeding' \in [Channels -> Nat] /\ gone' \in [Channels -> Nat]
    BY <1>0, <1>2, <2>0, <2>1 DEF FeedCheck, TypeOK
  <2> QED
    BY <1>2, <2>2, <2>3, <2>4, Zenon DEF FeedCheck, TypeOK, ActorTypes, sndVars, schVars
<1>3. CASE FeedPush(c)
  <2>1. feeding' \in [Channels -> Nat] /\ gone' \in [Channels -> Nat]
    BY <1>0, <1>3 DEF FeedPush, TypeOK
  <2>2. ring' \in [Channels -> Nat] /\ lost' \in Nat
    BY <1>0, <1>3, SMTT(20) DEF FeedPush, TypeOK
  <2> QED
    BY <1>3, <2>1, <2>2, Zenon DEF FeedPush, TypeOK, sndVars, updVars, schVars
<1>4. CASE Close(c)
  BY <1>4, Zenon DEF Close, TypeOK, sndVars, updVars, schVars
<1>5. CASE DrainRing(c)
  <2>1. Begin(Session, ring[c], 0) \in ActorTypes /\ NoOp \in ActorTypes
    BY <1>0, ActorType, Zenon
  <2>2. actor' \in [Actors -> ActorTypes]
    BY <1>0, <1>5, <2>1, Zenon DEF DrainRing
  <2>3. ring' \in [Channels -> Nat] /\ gone' \in [Channels -> Nat]
        /\ drained' \in [Channels -> {"no", "popped", "closed"}]
    BY <1>0, <1>5 DEF DrainRing, TypeOK
  <2> QED
    BY <1>5, <2>2, <2>3, Zenon DEF DrainRing, TypeOK, ActorTypes, sndVars, schVars
<1>6. CASE CloseRing(c)
  <2>1. ring' \in [Channels -> Nat] /\ gone' \in [Channels -> Nat] /\ lost' \in Nat
        /\ drained' \in [Channels -> {"no", "popped", "closed"}]
    BY <1>0, <1>6 DEF CloseRing, TypeOK
  <2> QED
    BY <1>6, <2>1, Zenon DEF CloseRing, TypeOK, sndVars, updVars, schVars
<1> QED
  BY <1>1, <1>2, <1>3, <1>4, <1>5, <1>6, Zenon DEF Reading, Feeding, Draining

\* The scheduler keeps the types.
LEMMA ResolvingType == TypeOK /\ Resolving => TypeOK'
<1> SUFFICES ASSUME TypeOK, NEW f \in Flows, ResolveSwap(f) \/ ResolveClear(f) PROVE TypeOK'
  BY Zenon DEF Resolving
<1>1. CASE ResolveSwap(f)
  BY <1>1, Zenon DEF ResolveSwap, TypeOK, sndVars, rcvVars
<1>2. CASE ResolveClear(f)
  <2>1. resolving[f] \in Nat
    BY <1>2, Zenon DEF ResolveClear, TypeOK
  <2>2. updWire' \in [Flows -> Nat]
    BY <1>2, <2>1 DEF ResolveClear, TypeOK
  <2> QED
    BY <1>2, <2>2, Zenon DEF ResolveClear, TypeOK, sndVars, rcvVars
<1> QED
  BY <1>1, <1>2, Zenon

\* Every step keeps the types.
LEMMA StepType == TypeOK /\ [Next]_vars => TypeOK'
<1>1. TypeOK /\ UNCHANGED vars => TypeOK'
  BY Zenon DEF TypeOK, vars, sndVars, rcvVars, updVars, schVars
<1> QED
  BY <1>1, WritingType, CreditingType, ConsumingType, ReceivingType, ResolvingType, Zenon DEF Next

-----------------------------------------------------------------------------
(* Whose flow an actor works on                                            *)

\* OnRead of a channel turns to the session's flow and to no other.
LEMMA ActorStep == TypeOK /\ ActorInv /\ [Next]_vars => ActorInv'
<1> SUFFICES ASSUME TypeOK, ActorInv, [Next]_vars PROVE ActorInv'
  BY Zenon
<1> USE DEF ActorInv
<1>0. actor \in [Actors -> ActorTypes] /\ Channels \subseteq Actors /\ Loop \in Actors
  BY Zenon DEF TypeOK, ActorTypes, Actors
<1>1. CASE UNCHANGED actor
  BY <1>1, Zenon
<1>2. ASSUME NEW a \in Actors, Consuming(a) PROVE ActorInv'
  <2>1. /\ Finish(a).flow = Session /\ Finish(a).pc \in {"idle", "add"}
        /\ Finish(a).pc = "idle" => Finish(a).n = 0
    BY Zenon DEF Finish, NoOp, Begin
  <2>3. \A pc, n : /\ Moves(a, pc, n).flow = actor[a].flow
                   /\ Moves(a, pc, n).pc = pc /\ Moves(a, pc, n).n = n
    BY <1>0, Zenon DEF Moves, ActorTypes
  <2>2. PICK r : /\ actor' = [actor EXCEPT ![a] = r] /\ r.flow \in {actor[a].flow, Session}
                 /\ r.pc \in {"idle", "swap", "cas"} => r.n = 0
                 /\ r.pc = "idle" => r.flow = Session
    BY <1>2, <2>1, <2>3 DEF Consuming, AddConsumed, SwapConsumed, AddUnflushed, QueueUpdate
  <2> QED
    BY <1>0, <2>2, Zenon
<1>3. ASSUME NEW c \in Channels, Reading(c) \/ Feeding(c) \/ Draining(c) PROVE ActorInv'
  <2>1. /\ \A f, n, m : Begin(f, n, m).flow = f /\ Begin(f, n, m).pc = "add"
        /\ NoOp.flow = Session /\ NoOp.n = 0
    BY Zenon DEF Begin, NoOp
  <2>2. CASE Reading(c)
    BY <1>0, <2>1, <2>2 DEF Reading, Read
  <2>3. CASE Feeding(c)
    BY <1>0, <1>1, <2>1, <2>3 DEF Feeding, FeedCheck, FeedPush, updVars
  <2>4. CASE Draining(c)
    BY <1>0, <1>1, <2>1, <2>4 DEF Draining, DrainRing, CloseRing, updVars
  <2> QED
    BY <1>3, <2>2, <2>3, <2>4, Zenon
<1>4. ASSUME NEW c \in Channels, Writing(c) \/ CloseWrite(c) \/ Close(c) PROVE UNCHANGED actor
  BY <1>4, Zenon DEF Writing, LoadStream, LoadSession, DeductSession, DeductStream, TakeNotify,
              CloseWrite, Close, updVars
<1>5. CASE Crediting \/ Resolving
  BY <1>1, <1>5, Zenon DEF Crediting, AddCredits, WakeWriter, Resolving, ResolveSwap, ResolveClear, updVars
<1>6. CASE UNCHANGED vars
  BY <1>1, <1>6, Zenon DEF vars, updVars
<1> QED
  BY <1>1, <1>2, <1>3, <1>4, <1>5, <1>6, Zenon DEF Next

-----------------------------------------------------------------------------
(* What AcquireCredits relies on                                           *)

\* Only the channel's own writer spends its stream credit.
LEMMA TakeStep == TypeOK /\ TakeInv /\ [Next]_vars => TakeInv'
<1> SUFFICES ASSUME TypeOK, TakeInv, [Next]_vars PROVE TakeInv'
  BY Zenon
<1> USE DEF TakeInv
<1>0. /\ sendCredits \in [Flows -> Nat] /\ take \in [Channels -> Nat]
      /\ DOMAIN writer = Channels /\ Channels \subseteq Flows
      /\ Session \in Flows /\ Session \notin Channels
  BY FlowAssumption, Zenon DEF TypeOK, Flows, FlowAssumption
<1>1. CASE UNCHANGED <<sendCredits, take, writer>>
  BY <1>1, Zenon
<1>2. ASSUME NEW c \in Channels, Writing(c) PROVE TakeInv'
  <2>1. CASE LoadStream(c)
    BY <1>0, <2>1 DEF LoadStream
  <2>2. ASSUME NEW n \in 1..MaxFrame, LoadSession(c, n) PROVE TakeInv'
    <3>1. take[c] \in Nat /\ sendCredits[c] \in Nat /\ sendCredits[Session] \in Nat /\ n \in Nat
      BY <1>0, <2>2
    <3> QED
      BY <1>0, <2>2, <3>1 DEF LoadSession, Lesser
  <2>3. CASE DeductSession(c)
    BY <1>0, <2>3, Zenon DEF DeductSession
  <2>4. CASE DeductStream(c)
    BY <1>0, <2>4, Zenon DEF DeductStream
  <2>5. CASE TakeNotify(c)
    BY <1>0, <2>5, Zenon DEF TakeNotify
  <2> QED
    BY <1>2, <2>1, <2>2, <2>3, <2>4, <2>5, Zenon DEF Writing
<1>3. ASSUME NEW f \in Flows, NEW n \in 1..updWire[f], AddCredits(f, n) PROVE TakeInv'
  <2>1. n \in Nat
    BY <1>3 DEF TypeOK
  <2>2. \A c \in Channels : sendCredits'[c] >= sendCredits[c]
    BY <1>0, <1>3, <2>1 DEF AddCredits
  <2>3. \A c \in Channels : sendCredits'[c] \in Nat
    BY <1>0, <1>3, <2>1 DEF AddCredits
  <2>4. UNCHANGED <<take, writer>>
    BY <1>3, Zenon DEF AddCredits
  <2> QED
    BY <1>0, <2>2, <2>3, <2>4
<1>4. ASSUME NEW c \in Channels, CloseWrite(c) \/ WakeWriter(c) \/ Close(c) PROVE TakeInv'
  BY <1>1, <1>4, Zenon DEF CloseWrite, WakeWriter, Close, sndVars
<1>5. ASSUME NEW c \in Channels, Reading(c) \/ Feeding(c) \/ Draining(c) PROVE TakeInv'
  BY <1>1, <1>5, Zenon DEF Reading, Read, Feeding, FeedCheck, FeedPush, Draining, DrainRing, CloseRing, sndVars
<1>6. ASSUME NEW a \in Actors, Consuming(a) PROVE TakeInv'
  BY <1>1, <1>6, Zenon DEF Consuming, AddConsumed, SwapConsumed, AddUnflushed, QueueUpdate, sndVars
<1>7. CASE Resolving
  BY <1>1, <1>7, Zenon DEF Resolving, ResolveSwap, ResolveClear, sndVars
<1>8. CASE UNCHANGED vars
  BY <1>1, <1>8, Zenon DEF vars, sndVars
<1> QED
  BY <1>2, <1>3, <1>4, <1>5, <1>6, <1>7, <1>8, Zenon DEF Next, Crediting

\* A step that leaves the writers alone and takes no wake-up away keeps WakeInv.
LEMMA WakeKept ==
  ASSUME WakeInv, UNCHANGED <<sendCredits, writer, take, writeClosed>>,
         \A c \in Channels : Awake(c) => Awake(c)'
  PROVE  WakeInv'
BY Zenon DEF WakeInv

\* AcquireCredits and its wakers: no interleaving loses the token.
LEMMA WakeStep == TypeOK /\ WakeInv /\ [Next]_vars => WakeInv'
<1> SUFFICES ASSUME TypeOK, WakeInv, [Next]_vars PROVE WakeInv'
  BY Zenon
<1>0. /\ sendCredits \in [Flows -> Nat] /\ take \in [Channels -> Nat]
      /\ DOMAIN writer = Channels /\ DOMAIN winNotify = Channels
      /\ DOMAIN writeClosed = Channels /\ Channels \subseteq Flows
      /\ Session \in Flows /\ Session \notin Channels
  BY FlowAssumption, Zenon DEF TypeOK, Flows, FlowAssumption
<1>1. CASE UNCHANGED sndVars
  BY <1>1, WakeKept, Zenon DEF sndVars, Awake
<1>2. ASSUME NEW d \in Channels, Writing(d) PROVE WakeInv'
  <2>1. CASE LoadStream(d)
    BY <1>0, <2>1 DEF LoadStream, WakeInv, Awake
  <2>2. ASSUME NEW n \in 1..MaxFrame, LoadSession(d, n) PROVE WakeInv'
    <3>1. \A c \in Channels : Awake(c)' <=> Awake(c)
      BY <2>2, Zenon DEF LoadSession, Awake
    <3>2. \A c \in Channels \ {d} : writer'[c] = writer[c] /\ take'[c] = take[c]
      BY <1>0, <2>2, Zenon DEF LoadSession
    <3>3. UNCHANGED <<sendCredits, writeClosed>> /\ writer[d] = "load"
      BY <2>2, Zenon DEF LoadSession
    <3>4. writer'[d] = "wait" => take[d] = 0 \/ (Enabled /\ sendCredits[Session] = 0)
      BY <1>0, <2>2 DEF LoadSession, Lesser
    <3>5. writer'[d] # "load"
      BY <1>0, <2>2, Zenon DEF LoadSession
    <3> QED
      BY <1>0, <3>1, <3>2, <3>3, <3>4, <3>5 DEF WakeInv
  <2>3. CASE DeductSession(d)
    <3>1. \A c \in Channels : Awake(c)' <=> Awake(c)
      BY <2>3, Zenon DEF DeductSession, Awake
    <3>2. \A c \in Channels \ {d} : writer'[c] = writer[c] /\ take'[c] = take[c]
      BY <1>0, <2>3, Zenon DEF DeductSession
    <3>3. UNCHANGED writeClosed /\ writer'[d] \in {"taken", "idle"}
      BY <1>0, <2>3, Zenon DEF DeductSession
    <3>4. \A c \in Channels : sendCredits'[c] = sendCredits[c]
      BY <1>0, <2>3, Zenon DEF DeductSession
    <3>5. sendCredits'[Session] > 0 => sendCredits[Session] > 0
      BY <1>0, <2>3 DEF DeductSession
    <3> QED
      BY <1>0, <3>1, <3>2, <3>3, <3>4, <3>5, Zenon DEF WakeInv
  <2>4. CASE DeductStream(d)
    <3>1. CASE sendCredits[d] >= take[d]
      <4>1. \A c \in Channels : Awake(c)' <=> Awake(c)
        BY <2>4, <3>1, Zenon DEF DeductStream, Awake
      <4>2. \A c \in Channels \ {d} : writer'[c] = writer[c] /\ take'[c] = take[c]
                                       /\ sendCredits'[c] = sendCredits[c]
        BY <1>0, <2>4, <3>1, Zenon DEF DeductStream
      <4>3. UNCHANGED writeClosed /\ writer'[d] = "idle" /\ sendCredits'[Session] = sendCredits[Session]
        BY <1>0, <2>4, <3>1, Zenon DEF DeductStream
      <4> QED
        BY <1>0, <4>1, <4>2, <4>3, Zenon DEF WakeInv
    <3>2. CASE ~(sendCredits[d] >= take[d])
      BY <2>4, <3>2, Zenon DEF DeductStream, WakeInv, Awake
    <3> QED
      BY <3>1, <3>2, Zenon
  <2>5. CASE TakeNotify(d)
    BY <1>0, <2>5, Zenon DEF TakeNotify, WakeInv, Awake
  <2> QED
    BY <1>2, <2>1, <2>2, <2>3, <2>4, <2>5, Zenon DEF Writing
<1>3. ASSUME NEW f \in Flows, NEW n \in 1..updWire[f], AddCredits(f, n) PROVE WakeInv'
  <2>1. UNCHANGED <<winNotify, writeClosed, writer, take>> /\ waking = {}
    BY <1>3, Zenon DEF AddCredits
  <2>2. CASE f = Session
    BY <1>3, <2>2, Zenon DEF AddCredits, WakeInv, Awake
  <2>3. CASE f # Session
    <3>1. sendCredits'[Session] = sendCredits[Session]
      BY <1>0, <1>3, <2>3, Zenon DEF AddCredits
    <3>2. \A c \in Channels \ {f} : sendCredits'[c] = sendCredits[c]
      BY <1>0, <1>3, Zenon DEF AddCredits
    <3>3. waking' = {f}
      BY <1>3, <2>3, Zenon DEF AddCredits
    <3> QED
      BY <2>1, <3>1, <3>2, <3>3, Zenon DEF WakeInv, Awake
  <2> QED
    BY <2>2, <2>3, Zenon
<1>4. ASSUME NEW d \in Channels, WakeWriter(d) PROVE WakeInv'
  BY <1>0, <1>4, WakeKept, Zenon DEF WakeWriter, Awake
<1>5. ASSUME NEW d \in Channels, CloseWrite(d) PROVE WakeInv'
  BY <1>0, <1>5, Zenon DEF CloseWrite, WakeInv, Awake
<1>6. ASSUME NEW c \in Channels, Reading(c) \/ Feeding(c) \/ Draining(c) \/ Close(c) PROVE WakeInv'
  BY <1>1, <1>6, Zenon DEF Reading, Read, Feeding, FeedCheck, FeedPush, Draining, DrainRing, CloseRing, Close
<1>7. ASSUME NEW a \in Actors, Consuming(a) PROVE WakeInv'
  BY <1>1, <1>7, Zenon DEF Consuming, AddConsumed, SwapConsumed, AddUnflushed, QueueUpdate
<1>8. CASE Resolving \/ UNCHANGED vars
  BY <1>1, <1>8, Zenon DEF Resolving, ResolveSwap, ResolveClear, vars
<1> QED
  BY <1>2, <1>3, <1>4, <1>5, <1>6, <1>7, <1>8, Zenon DEF Next, Crediting

-----------------------------------------------------------------------------
(* Conservation of stream credit                                           *)

Total(c) ==
  sendCredits[c] + dataWire[c] + feeding[c] + ring[c] + gone[c] + Carried(c, c)
    + consumed[c] + unflushed[c] + Resolved(c) + updWire[c]

\* The summands of Total(c) are numbers.
Summable(c) ==
  /\ sendCredits[c] \in Nat /\ dataWire[c] \in Nat /\ feeding[c] \in Nat
  /\ ring[c] \in Nat /\ gone[c] \in Nat /\ consumed[c] \in Nat /\ unflushed[c] \in Nat
  /\ updWire[c] \in Nat /\ Resolved(c) \in Nat /\ actor[c].n \in Nat /\ take[c] \in Nat
  /\ c \in Flows /\ c \in Actors /\ c # Session /\ c # Loop
  /\ Carried(c, c) = IF actor[c].flow = c THEN actor[c].n ELSE 0

\* Type correctness makes every summand of a channel's total a number.
LEMMA Summands ==
  ASSUME TypeOK, NEW c \in Channels
  PROVE  Summable(c)
<1>1. c \in Flows /\ c \in Actors /\ c # Session /\ c # Loop
  BY FlowAssumption, Zenon DEF Flows, Actors, FlowAssumption
<1>2. Resolved(c) \in Nat
  BY <1>1, Zenon DEF TypeOK, Resolved
<1>3. actor[c].n \in Nat
  BY <1>1, Zenon DEF TypeOK
<1> QED
  BY <1>1, <1>2, <1>3, Zenon DEF Summable, TypeOK, Carried

\* The writer's steps move credit to the wire, or none.
LEMMA WritingTotal ==
  ASSUME TypeOK, TakeInv, NEW d \in Channels, Writing(d), NEW c \in Channels
  PROVE  Total(c)' = Total(c)
<1>s. Summable(c)
  BY Summands, Zenon
<1>0. UNCHANGED <<rcvVars, updVars, schVars, updWire>>
  BY Zenon DEF Writing, LoadStream, LoadSession, DeductSession, DeductStream, TakeNotify
<1>1. UNCHANGED <<feeding, ring, gone, consumed, unflushed, resolving, actor>>
  BY <1>0, Zenon DEF rcvVars, updVars, schVars
<1>2. sendCredits'[c] + dataWire'[c] = sendCredits[c] + dataWire[c]
  <2>0. sendCredits \in [Flows -> Nat] /\ dataWire \in [Channels -> Nat]
    BY Zenon DEF TypeOK
  <2>1. CASE LoadStream(d) \/ TakeNotify(d) \/ \E n \in 1..MaxFrame : LoadSession(d, n)
    BY <2>1, Zenon DEF LoadStream, TakeNotify, LoadSession
  <2>2. CASE DeductSession(d)
    BY <2>0, <2>2, <1>s, Zenon DEF Summable, DeductSession
  <2>3. CASE DeductStream(d)
    <3>1. sendCredits[d] >= take[d]
      BY <2>3, Zenon DEF DeductStream, TakeInv, TypeOK, Flows
    <3> QED
      BY <2>0, <2>3, <3>1, <1>s DEF Summable, DeductStream
  <2> QED
    BY <2>1, <2>2, <2>3, Zenon DEF Writing
<1>3. sendCredits'[c] \in Nat /\ dataWire'[c] \in Nat
  BY WritingType, <1>s, Zenon DEF Summable, TypeOK
<1> QED
  BY <1>0, <1>1, <1>2, <1>3, <1>s, Zenon DEF Summable, Total, Carried, Resolved

\* OnRead passes a channel's bytes from hand to hand: the actor, consumed, the
\* actor again, unflushed.
LEMMA ConsumingTotal ==
  ASSUME TypeOK, ActorInv, NEW a \in Actors, Consuming(a), NEW c \in Channels
  PROVE  Total(c)' = Total(c)
<1>s. Summable(c)
  BY Summands, Zenon
<1>c. c \in Flows /\ c \in Actors /\ c # Session /\ c # Loop
  BY <1>s, Zenon DEF Summable
<1>n. /\ dataWire[c] \in Nat /\ feeding[c] \in Nat /\ ring[c] \in Nat /\ gone[c] \in Nat
      /\ consumed[c] \in Nat /\ sendCredits[c] \in Nat /\ unflushed[c] \in Nat
      /\ Resolved(c) \in Nat /\ updWire[c] \in Nat
  BY <1>s, Zenon DEF Summable
<1>0. UNCHANGED <<sendCredits, dataWire, feeding, ring, gone, resolving, updWire>>
  BY Zenon DEF Consuming, AddConsumed, SwapConsumed, AddUnflushed, QueueUpdate, sndVars, rcvVars, schVars
<1>1. Carried(c, c)' + consumed'[c] + unflushed'[c] = Carried(c, c) + consumed[c] + unflushed[c]
  <2> DEFINE f == actor[a].flow
  <2>0. /\ actor \in [Actors -> ActorTypes] /\ consumed \in [Flows -> Nat] /\ unflushed \in [Flows -> Nat]
        /\ f \in {a, Session} /\ f \in Flows /\ actor[a].n \in Nat
        /\ actor[a].pc \in {"swap", "cas"} => actor[a].n = 0
    BY Zenon DEF TypeOK, ActorTypes, ActorInv
  <2>1. Finish(a).flow = Session
    BY Zenon DEF Finish, NoOp, Begin
  <2>2. \A pc, n : Moves(a, pc, n).flow = f /\ Moves(a, pc, n).n = n
    BY <2>0, Zenon DEF Moves, ActorTypes
  <2>3. CASE a # c
    <3>1. f # c
      BY <2>0, <2>3, <1>c, Zenon
    <3>2. actor'[c] = actor[c]
      BY <2>0, <2>3, <1>c, Zenon DEF Consuming, AddConsumed, SwapConsumed, AddUnflushed, QueueUpdate
    <3>3. consumed'[c] = consumed[c] /\ unflushed'[c] = unflushed[c]
      BY <2>0, <3>1, <1>c, Zenon DEF Consuming, AddConsumed, SwapConsumed, AddUnflushed, QueueUpdate
    <3> QED
      BY <3>2, <3>3, Zenon DEF Carried
  <2>4. CASE a = c /\ f = Session
    <3>1. actor'[c].flow = Session
      BY <2>0, <2>1, <2>2, <2>4, <1>c DEF Consuming, AddConsumed, SwapConsumed, AddUnflushed, QueueUpdate
    <3>2. consumed'[c] = consumed[c] /\ unflushed'[c] = unflushed[c]
      BY <2>0, <2>4, <1>c, Zenon DEF Consuming, AddConsumed, SwapConsumed, AddUnflushed, QueueUpdate
    <3> QED
      BY <2>4, <3>1, <3>2, <1>c, Zenon DEF Carried
  <2>5. CASE a = c /\ f = c
    <3>0. Carried(c, c) = actor[c].n /\ consumed[c] \in Nat /\ unflushed[c] \in Nat /\ c # Session
      BY <2>5, <1>s, Zenon DEF Summable
    <3>1. CASE AddConsumed(c)
      <4>1. consumed'[c] = consumed[c] + actor[c].n /\ unflushed'[c] = unflushed[c]
        BY <2>0, <2>5, <3>1, <1>c, <1>n, Zenon DEF AddConsumed
      <4>2. Carried(c, c)' = 0
        BY <2>0, <2>1, <2>2, <2>5, <3>0, <3>1 DEF AddConsumed, Carried
      <4> QED
        BY <2>0, <2>5, <3>0, <4>1, <4>2
    <3>2. CASE SwapConsumed(c)
      <4>1. consumed'[c] = 0 /\ unflushed'[c] = unflushed[c] /\ actor[c].n = 0
        BY <2>0, <2>5, <3>2, <1>c, <1>n, Zenon DEF SwapConsumed
      <4>2. Carried(c, c)' = consumed[c]
        BY <2>0, <2>1, <2>2, <2>5, <3>0, <3>2 DEF SwapConsumed, Carried
      <4> QED
        BY <2>0, <2>5, <3>0, <4>1, <4>2
    <3>3. CASE AddUnflushed(c)
      <4>1. consumed'[c] = consumed[c] /\ unflushed'[c] = unflushed[c] + actor[c].n
        BY <2>0, <2>5, <3>3, <1>c, <1>n, Zenon DEF AddUnflushed
      <4>2. Carried(c, c)' = 0
        BY <2>0, <2>1, <2>2, <2>5, <3>0, <3>3 DEF AddUnflushed, Carried
      <4> QED
        BY <2>0, <2>5, <3>0, <4>1, <4>2
    <3>4. CASE QueueUpdate(c)
      <4>1. consumed'[c] = consumed[c] /\ unflushed'[c] = unflushed[c] /\ actor[c].n = 0
        BY <2>0, <2>5, <3>4, Zenon DEF QueueUpdate
      <4>2. Carried(c, c)' = 0
        BY <2>0, <2>1, <2>5, <3>0, <3>4, Zenon DEF QueueUpdate, Carried
      <4> QED
        BY <3>0, <4>1, <4>2, Zenon
    <3> QED
      BY <2>5, <3>1, <3>2, <3>3, <3>4, Zenon DEF Consuming
  <2> QED
    BY <2>0, <2>3, <2>4, <2>5, Zenon
<1>2. Carried(c, c)' \in Nat /\ consumed'[c] \in Nat /\ unflushed'[c] \in Nat
  <2>1. TypeOK'
    BY ConsumingType, Zenon
  <2>2. actor'[c].n \in Nat /\ consumed'[c] \in Nat /\ unflushed'[c] \in Nat
    BY <2>1, <1>s, Zenon DEF Summable, TypeOK
  <2> QED
    BY <2>2, <1>c, <1>n, Zenon DEF Carried
<1>3. Carried(c, c) \in Nat /\ Resolved(c)' = Resolved(c)
  BY <1>0, <1>s DEF Summable, Resolved
<1> QED
  BY <1>0, <1>1, <1>2, <1>3, <1>s DEF Summable, Total

\* Reading, feeding and draining move bytes between the wire, the hands of
\* readLoop, the ring, the reader, and nowhere.
LEMMA ReceivingTotal ==
  ASSUME TypeOK, ActorInv, NEW d \in Channels, NEW c \in Channels,
         Reading(d) \/ Feeding(d) \/ Close(d) \/ Draining(d)
  PROVE  Total(c)' = Total(c)
<1>s. Summable(c)
  BY Summands, Zenon
<1>c. c \in Flows /\ c \in Actors /\ c # Session /\ c # Loop
  BY <1>s, Zenon DEF Summable
<1>n. /\ dataWire[c] \in Nat /\ feeding[c] \in Nat /\ ring[c] \in Nat /\ gone[c] \in Nat
      /\ consumed[c] \in Nat /\ sendCredits[c] \in Nat /\ unflushed[c] \in Nat
      /\ Resolved(c) \in Nat /\ updWire[c] \in Nat
  BY <1>s, Zenon DEF Summable
<1>0. /\ actor \in [Actors -> ActorTypes] /\ ring \in [Channels -> Nat] /\ gone \in [Channels -> Nat]
      /\ feeding \in [Channels -> Nat] /\ dataWire \in [Channels -> Nat]
      /\ actor[c].pc = "idle" => Carried(c, c) = 0
  BY <1>s, Zenon DEF Summable, TypeOK, ActorTypes, ActorInv
<1>1. \A f, n, m : Begin(f, n, m).flow = f /\ Begin(f, n, m).n = n /\ NoOp.flow = Session
  BY Zenon DEF Begin, NoOp
<1>2. UNCHANGED <<sendCredits, consumed, unflushed, resolving, updWire>>
  BY Zenon DEF Reading, Read, Feeding, FeedCheck, FeedPush, Close, Draining, DrainRing, CloseRing,
         sndVars, updVars, schVars
<1>3. /\ dataWire'[c] + feeding'[c] + ring'[c] + gone'[c] + Carried(c, c)'
         = dataWire[c] + feeding[c] + ring[c] + gone[c] + Carried(c, c)
      /\ Carried(c, c)' \in Nat
  <2>0. Carried(c, c) \in Nat
    BY <1>s DEF Summable
  <2>1. ASSUME NEW n \in 1..ring[d], Read(d, n) PROVE <1>3!1 /\ <1>3!2
    <3>1. ring'[c] = IF c = d THEN ring[c] - n ELSE ring[c]
      BY <1>0, <2>1, Zenon DEF Read
    <3>0. actor'[c] = IF c = d THEN Begin(c, n, n) ELSE actor[c]
      BY <1>0, <1>c, <2>1, Zenon DEF Read
    <3>2. Carried(c, c)' = IF c = d THEN n ELSE Carried(c, c)
      BY <1>1, <3>0 DEF Carried
    <3>3. UNCHANGED <<dataWire, feeding, gone>> /\ n \in Nat /\ (c = d => actor[c].pc = "idle")
      BY <2>1 DEF Read
    <3> QED
      BY <1>0, <2>0, <3>1, <3>2, <3>3, <1>n
  <2>2. ASSUME NEW n \in 1..dataWire[d], FeedCheck(d, n) PROVE <1>3!1 /\ <1>3!2
    <3>1. dataWire'[c] = IF c = d THEN dataWire[c] - n ELSE dataWire[c]
      BY <1>0, <2>2, Zenon DEF FeedCheck
    <3>2. Carried(c, c)' = Carried(c, c) /\ ring' = ring
      BY <1>0, <2>2, <1>c, <1>n DEF FeedCheck, Carried
    <3>3. gone'[c] + feeding'[c] = IF c = d THEN gone[c] + feeding[c] + n ELSE gone[c] + feeding[c]
      BY <1>0, <2>2, <1>c, <1>n DEF FeedCheck
    <3>4. gone'[c] \in Nat /\ feeding'[c] \in Nat /\ n \in Nat
      BY <1>0, <2>2, <1>c, <1>n DEF FeedCheck
    <3> QED
      BY <2>0, <3>1, <3>2, <3>3, <3>4, <1>n
  <2>3. CASE FeedPush(d)
    <3>1. Carried(c, c)' = Carried(c, c) /\ dataWire' = dataWire
      BY <2>3, Zenon DEF FeedPush, Carried, updVars
    <3>2. feeding'[c] + ring'[c] + gone'[c] = feeding[c] + ring[c] + gone[c]
      BY <1>0, <2>3, <1>c, <1>n DEF FeedPush
    <3>3. feeding'[c] \in Nat /\ ring'[c] \in Nat /\ gone'[c] \in Nat
      BY <1>0, <2>3, <1>c, <1>n DEF FeedPush
    <3> QED
      BY <2>0, <3>1, <3>2, <3>3, <1>n
  <2>4. CASE Close(d)
    BY <2>0, <2>4, Zenon DEF Close, Carried, updVars
  <2>5. CASE DrainRing(d)
    <3>1. Carried(c, c)' = Carried(c, c)
      BY <1>0, <1>1, <2>5, <1>c, <1>n DEF DrainRing, Carried
    <3>2. ring'[c] + gone'[c] = ring[c] + gone[c]
      BY <1>0, <2>5, <1>c, <1>n DEF DrainRing
    <3>3. ring'[c] \in Nat /\ gone'[c] \in Nat /\ UNCHANGED <<dataWire, feeding>>
      BY <1>0, <2>5, <1>c, <1>n DEF DrainRing
    <3> QED
      BY <2>0, <3>1, <3>2, <3>3, <1>n
  <2>6. CASE CloseRing(d)
    <3>1. Carried(c, c)' = Carried(c, c)
      BY <2>6, Zenon DEF CloseRing, Carried, updVars
    <3>2. ring'[c] + gone'[c] = ring[c] + gone[c]
      BY <1>0, <2>6, <1>c, <1>n DEF CloseRing
    <3>3. ring'[c] \in Nat /\ gone'[c] \in Nat /\ UNCHANGED <<dataWire, feeding>>
      BY <1>0, <2>6, <1>c, <1>n DEF CloseRing
    <3> QED
      BY <2>0, <3>1, <3>2, <3>3, <1>n
  <2> QED
    BY <2>1, <2>2, <2>3, <2>4, <2>5, <2>6, Zenon DEF Reading, Feeding, Draining
<1>4. TypeOK'
  BY ReceivingType, Zenon
<1>5. dataWire'[c] \in Nat /\ feeding'[c] \in Nat /\ ring'[c] \in Nat /\ gone'[c] \in Nat
  BY <1>4, Zenon DEF TypeOK
<1>6. Resolved(c)' = Resolved(c) /\ Carried(c, c) \in Nat
  BY <1>2, <1>s DEF Summable, Resolved
<1> QED
  BY <1>2, <1>3, <1>5, <1>6, <1>s DEF Summable, Total

\* The scheduler moves credit from unflushed to the wire, the sending readLoop
\* from the wire to the writer.
LEMMA ReturningTotal ==
  ASSUME TypeOK, NEW c \in Channels, Crediting \/ Resolving
  PROVE  Total(c)' = Total(c)
<1>s. Summable(c)
  BY Summands, Zenon
<1>c. c \in Flows /\ c \in Actors /\ c # Session /\ c # Loop
  BY <1>s, Zenon DEF Summable
<1>n. /\ dataWire[c] \in Nat /\ feeding[c] \in Nat /\ ring[c] \in Nat /\ gone[c] \in Nat
      /\ consumed[c] \in Nat /\ sendCredits[c] \in Nat /\ unflushed[c] \in Nat
      /\ Resolved(c) \in Nat /\ updWire[c] \in Nat
  BY <1>s, Zenon DEF Summable
<1>0. /\ sendCredits \in [Flows -> Nat] /\ updWire \in [Flows -> Nat] /\ unflushed \in [Flows -> Nat]
      /\ resolving \in [Flows -> Nat \union {NoDelta}]
  BY Zenon DEF TypeOK
<1>1. UNCHANGED <<dataWire, feeding, ring, gone, consumed, actor>>
  BY Zenon DEF Crediting, AddCredits, WakeWriter, Resolving, ResolveSwap, ResolveClear, rcvVars, updVars
<1>2. /\ sendCredits'[c] + unflushed'[c] + Resolved(c)' + updWire'[c]
         = sendCredits[c] + unflushed[c] + Resolved(c) + updWire[c]
      /\ sendCredits'[c] \in Nat /\ unflushed'[c] \in Nat /\ Resolved(c)' \in Nat /\ updWire'[c] \in Nat
  <2>1. ASSUME NEW f \in Flows, NEW n \in 1..updWire[f], AddCredits(f, n) PROVE <1>2!1 /\ <1>2!2
    <3>1. n \in Nat /\ n <= updWire[f]
      BY <1>0, <2>1
    <3>2. UNCHANGED <<unflushed, resolving>>
      BY <2>1, Zenon DEF AddCredits, updVars, schVars
    <3>3. sendCredits'[c] = IF c = f THEN sendCredits[c] + n ELSE sendCredits[c]
      BY <1>0, <2>1, <1>c, Zenon DEF AddCredits
    <3>4. updWire'[c] = IF c = f THEN updWire[c] - n ELSE updWire[c]
      BY <1>0, <2>1, <1>c, Zenon DEF AddCredits
    <3> QED
      BY <3>1, <3>2, <3>3, <3>4, <1>s DEF Summable, Resolved
  <2>2. ASSUME NEW d \in Channels, WakeWriter(d) PROVE <1>2!1 /\ <1>2!2
    BY <2>2, <1>c, <1>n, Zenon DEF WakeWriter, updVars, schVars, Resolved
  <2>3. ASSUME NEW f \in Flows, ResolveSwap(f) PROVE <1>2!1 /\ <1>2!2
    <3>1. UNCHANGED <<sendCredits, updWire>>
      BY <2>3, Zenon DEF ResolveSwap, sndVars
    <3>2. unflushed'[c] = IF c = f THEN 0 ELSE unflushed[c]
      BY <1>0, <2>3, <1>c, Zenon DEF ResolveSwap
    <3>3. Resolved(c)' = (IF c = f THEN unflushed[c] ELSE Resolved(c)) /\ (c = f => Resolved(c) = 0)
      BY <1>0, <2>3, <1>c, <1>n DEF ResolveSwap, Resolved, NoDelta
    <3> QED
      BY <3>1, <3>2, <3>3, <1>n
  <2>4. ASSUME NEW f \in Flows, ResolveClear(f) PROVE <1>2!1 /\ <1>2!2
    <3>1. UNCHANGED <<sendCredits, unflushed>>
      BY <2>4, Zenon DEF ResolveClear, sndVars
    <3>2. Resolved(c)' = IF c = f THEN 0 ELSE Resolved(c)
      BY <1>0, <2>4, <1>c, <1>n, Zenon DEF ResolveClear, Resolved
    <3>3. updWire'[c] = IF c = f THEN updWire[c] + Resolved(c) ELSE updWire[c]
      BY <1>0, <2>4, <1>c, <1>n, Zenon DEF ResolveClear, Resolved
    <3> QED
      BY <3>1, <3>2, <3>3, <1>n
  <2> QED
    BY <2>1, <2>2, <2>3, <2>4, Zenon DEF Crediting, Resolving
<1>3. Carried(c, c)' = Carried(c, c) /\ Carried(c, c) \in Nat
  BY <1>1, <1>s, Zenon DEF Summable, Carried
<1>4. /\ dataWire'[c] = dataWire[c] /\ feeding'[c] = feeding[c] /\ ring'[c] = ring[c]
      /\ gone'[c] = gone[c] /\ consumed'[c] = consumed[c]
  BY <1>1, Zenon
<1> QED
  BY <1>2, <1>3, <1>4, <1>n DEF Total

-----------------------------------------------------------------------------
(* Conservation of session credit                                          *)

\* There are finitely many channels and actors.
LEMMA FinitelyMany == IsFiniteSet(Channels) /\ IsFiniteSet(Actors)
BY FlowAssumption, FS_AddElement, Zenon DEF FlowAssumption, Actors

\* The session's credit outside channels and actors, and all of it.
Local ==
  sendCredits[Session] + lost + consumed[Session] + unflushed[Session] + Resolved(Session)
    + updWire[Session]
SessionTotal ==
  Local + SumFunction([c \in Channels |-> InUse(c)])
    + SumFunction([a \in Actors |-> Carried(a, Session)])

\* What is summed up are integers.
LEMMA SessionSummands ==
  ASSUME TypeOK
  PROVE  /\ Local \in Int /\ Session \in Flows /\ Channels \subseteq Actors /\ Loop \in Actors
         /\ \A c \in Channels : InUse(c) \in Int
         /\ \A a \in Actors : Carried(a, Session) \in Int
<1>1. Session \in Flows /\ Channels \subseteq Actors /\ Loop \in Actors
  BY Zenon DEF Flows, Actors
<1>2. Local \in Int
  BY <1>1 DEF TypeOK, Local, Resolved
<1>3. \A c \in Channels : InUse(c) \in Int
  BY DEF TypeOK, InUse
<1>4. \A a \in Actors : Carried(a, Session) \in Int
  BY DEF TypeOK, Carried
<1> QED
  BY <1>1, <1>2, <1>3, <1>4, Zenon

\* A step moves credit between one channel, one actor and the rest: d is the channel
\* and k what it gains, a the actor and m what it gains.
Moved(d, k, a, m) ==
  /\ \A c \in Channels : InUse(c)' = InUse(c) + IF c = d THEN k ELSE 0
  /\ \A b \in Actors : Carried(b, Session)' = Carried(b, Session) + IF b = a THEN m ELSE 0
  /\ d = Session => k = 0
  /\ Local' + k + m = Local

\* Such a step keeps the sum over all channels and actors.
LEMMA MovedTotal ==
  ASSUME TypeOK, TypeOK', NEW d \in Flows, NEW k \in Int, NEW a \in Actors, NEW m \in Int, Moved(d, k, a, m)
  PROVE  SessionTotal' = SessionTotal
<1> DEFINE f1 == [c \in Channels |-> InUse(c)]
           f2 == [c \in Channels |-> InUse(c)']
           h1 == [b \in Actors |-> Carried(b, Session)]
           h2 == [b \in Actors |-> Carried(b, Session)']
<1>1. Local \in Int /\ Local' \in Int /\ IsFiniteSet(Channels) /\ IsFiniteSet(Actors)
  <2>1. Local' \in Int
    BY DEF TypeOK, Local, Resolved, Flows
  <2> QED
    BY <2>1, SessionSummands, FinitelyMany, Zenon
<1>2. /\ f1 \in [Channels -> Int] /\ f2 \in [Channels -> Int]
      /\ h1 \in [Actors -> Int] /\ h2 \in [Actors -> Int]
  <2>1. (\A c \in Channels : InUse(c)' \in Int) /\ \A b \in Actors : Carried(b, Session)' \in Int
    BY DEF TypeOK, InUse, Carried
  <2> QED
    BY <2>1, SessionSummands, Zenon
<1>3. Local' + k + m = Local
  BY Zenon DEF Moved
<1>4. Shift(Channels, f1, f2, d, k) /\ Shift(Actors, h1, h2, a, m)
  BY Zenon DEF Moved, Shift
<1>5. SessionTotal = Local + SumFunction(f1) + SumFunction(h1)
  BY Zenon DEF SessionTotal
<1>6. SessionTotal' = Local' + SumFunction(f2) + SumFunction(h2)
  BY Zenon DEF SessionTotal
<1>7. d \notin Channels => k = 0 /\ f2 = f1
  <2>1. d \notin Channels => d = Session
    BY Zenon DEF Flows
  <2>2. d = Session => k = 0
    BY Zenon DEF Moved
  <2> QED
    BY <1>2, <2>1, <2>2 DEF Moved
<1> HIDE DEF f1, f2, h1, h2
<1>8. SumFunction(f1) \in Int /\ SumFunction(f2) = SumFunction(f1) + k
  <2>1. CASE d \in Channels
    BY <1>1, <1>2, <1>4, <2>1, SumShift
  <2>2. CASE d \notin Channels
    BY <1>1, <1>2, <1>7, <2>2, SumInt
  <2> QED
    BY <2>1, <2>2, Zenon
<1>9. SumFunction(h1) \in Int /\ SumFunction(h2) = SumFunction(h1) + m
  BY <1>1, <1>2, <1>4, SumShift
<1>10. PICK x \in Int, y \in Int : x = SumFunction(f1) /\ y = SumFunction(h1)
  BY <1>8, <1>9, Zenon
<1>11. SessionTotal = Local + x + y /\ SessionTotal' = Local' + (x + k) + (y + m)
  BY <1>5, <1>6, <1>8, <1>9, <1>10, Zenon
<1>12. PICK l1 \in Int, l2 \in Int : l1 = Local /\ l2 = Local'
  BY <1>1, Zenon
<1>13. l2 + k + m = l1
  BY <1>3, <1>12, Zenon
<1>14. l2 + (x + k) + (y + m) = l1 + x + y
  BY <1>13
<1> QED
  BY <1>11, <1>12, <1>14, Zenon

\* The writer's steps take session credit for its channel, or none.
LEMMA WritingSession ==
  ASSUME TypeOK, TypeOK', TakeInv, Enabled, NEW d \in Channels, Writing(d)
  PROVE  SessionTotal' = SessionTotal
<1>0. /\ UNCHANGED <<feeding, ring, lost, consumed, unflushed, resolving, actor, updWire>>
      /\ \A c \in Channels \ {d} : /\ dataWire'[c] = dataWire[c] /\ take'[c] = take[c]
                                   /\ writer'[c] = writer[c]
  BY DEF Writing, LoadStream, LoadSession, DeductSession, DeductStream, TakeNotify,
         rcvVars, updVars, schVars, TypeOK
<1>1. /\ \A c \in Channels \ {d} : InUse(c)' = InUse(c)
      /\ \A b \in Actors : Carried(b, Session)' = Carried(b, Session)
  BY <1>0, Zenon DEF InUse, Carried
<1>2. PICK k \in Int : InUse(d)' = InUse(d) + k /\ Local' + k = Local
  <2>0. /\ sendCredits \in [Flows -> Nat] /\ dataWire \in [Channels -> Nat] /\ take \in [Channels -> Nat]
        /\ Session \in Flows /\ d \in Flows /\ d # Session /\ d \in Channels
        /\ writer \in [Channels -> {"idle", "load", "wait", "deduct", "taken"}]
        /\ feeding[d] \in Nat /\ ring[d] \in Nat
    BY FlowAssumption, Zenon DEF TypeOK, Flows, FlowAssumption
  <2>1. ASSUME UNCHANGED <<sendCredits, dataWire>>, writer[d] # "taken", writer'[d] # "taken"
        PROVE  InUse(d)' = InUse(d) + 0 /\ Local' + 0 = Local
    BY <1>0, <2>0, <2>1, SessionSummands DEF InUse, Local, Resolved
  <2>2. CASE LoadStream(d) \/ TakeNotify(d) \/ \E n \in 1..MaxFrame : LoadSession(d, n)
    <3>1. writer[d] # "taken" /\ writer'[d] # "taken" /\ UNCHANGED <<sendCredits, dataWire>>
      BY <2>0, <2>2, Zenon DEF LoadStream, TakeNotify, LoadSession
    <3> QED
      BY <2>1, <3>1
  <2>3. CASE DeductSession(d) /\ sendCredits[Session] < take[d]
    <3>1. writer[d] # "taken" /\ writer'[d] # "taken" /\ UNCHANGED <<sendCredits, dataWire>>
      BY <2>0, <2>3 DEF DeductSession
    <3> QED
      BY <2>1, <3>1
  <2>4. CASE DeductSession(d) /\ sendCredits[Session] >= take[d]
    <3>1. /\ sendCredits'[Session] = sendCredits[Session] - take[d]
          /\ writer[d] = "deduct" /\ writer'[d] = "taken" /\ UNCHANGED <<take, dataWire>>
      BY <2>0, <2>4, Zenon DEF DeductSession
    <3>2. InUse(d)' = InUse(d) + take[d]
      BY <1>0, <2>0, <3>1 DEF InUse
    <3>3. Local' + take[d] = Local
      BY <1>0, <2>0, <3>1 DEF Local, Resolved, TypeOK
    <3> QED
      BY <2>0, <3>2, <3>3
  <2>5. CASE DeductStream(d)
    <3>1. sendCredits[d] >= take[d] /\ writer[d] = "taken"
      BY <2>0, <2>5, Zenon DEF DeductStream, TakeInv
    <3>2. /\ sendCredits'[Session] = sendCredits[Session]
          /\ dataWire'[d] = dataWire[d] + take[d] /\ writer'[d] = "idle"
      BY <2>0, <2>5, <3>1, Zenon DEF DeductStream
    <3>3. InUse(d)' = InUse(d) + 0
      <4>1. feeding'[d] = feeding[d] /\ ring'[d] = ring[d] /\ dataWire[d] \in Nat /\ take[d] \in Nat
        BY <1>0, <2>0, Zenon
      <4> QED
        BY <2>0, <3>1, <3>2, <4>1 DEF InUse
    <3>4. Local' = Local
      BY <1>0, <3>2, Zenon DEF Local, Resolved
    <3>5. Local \in Int
      BY SessionSummands, Zenon
    <3> QED
      BY <3>3, <3>4, <3>5
  <2> QED
    BY <2>0, <2>2, <2>3, <2>4, <2>5 DEF Writing
<1>3. Moved(d, k, Loop, 0)
  BY <1>1, <1>2, SessionSummands, FlowAssumption DEF Moved, FlowAssumption
<1> QED
  BY <1>3, MovedTotal, SessionSummands DEF Flows

\* The scheduler and the sending readLoop move session credit that is with no
\* channel and no actor.
LEMMA ReturningSession ==
  ASSUME TypeOK, TypeOK', Crediting \/ Resolving
  PROVE  SessionTotal' = SessionTotal
<1>0. UNCHANGED <<dataWire, feeding, ring, writer, take, lost, consumed, actor>>
  BY Zenon DEF Crediting, AddCredits, WakeWriter, Resolving, ResolveSwap, ResolveClear, sndVars, rcvVars, updVars
<1>1. /\ sendCredits \in [Flows -> Nat] /\ updWire \in [Flows -> Nat] /\ unflushed \in [Flows -> Nat]
      /\ resolving \in [Flows -> Nat \union {NoDelta}] /\ Session \in Flows
      /\ lost \in Nat /\ consumed[Session] \in Nat
  BY Zenon DEF TypeOK, Flows
<1>2. Local' = Local
  <2>1. ASSUME NEW f \in Flows, NEW n \in 1..updWire[f], AddCredits(f, n) PROVE Local' = Local
    <3>1. UNCHANGED <<unflushed, resolving>> /\ n \in Nat /\ n <= updWire[f]
      BY <1>1, <2>1 DEF AddCredits, updVars, schVars
    <3>2. /\ sendCredits'[Session] = IF f = Session THEN sendCredits[Session] + n ELSE sendCredits[Session]
          /\ updWire'[Session] = IF f = Session THEN updWire[Session] - n ELSE updWire[Session]
      BY <1>1, <2>1, Zenon DEF AddCredits
    <3> QED
      BY <1>0, <1>1, <3>1, <3>2 DEF Local, Resolved
  <2>2. ASSUME NEW d \in Channels, WakeWriter(d) PROVE Local' = Local
    BY <1>0, <2>2, Zenon DEF WakeWriter, updVars, schVars, Local, Resolved
  <2>3. ASSUME NEW f \in Flows, ResolveSwap(f) PROVE Local' = Local
    <3>1. UNCHANGED <<sendCredits, updWire>>
      BY <2>3, Zenon DEF ResolveSwap, sndVars
    <3>2. /\ unflushed'[Session] = IF f = Session THEN 0 ELSE unflushed[Session]
          /\ Resolved(Session)' = IF f = Session THEN unflushed[Session] ELSE Resolved(Session)
          /\ f = Session => Resolved(Session) = 0
      BY <1>1, <2>3 DEF ResolveSwap, Resolved, NoDelta
    <3>3. Resolved(Session) \in Nat
      BY <1>1, Zenon DEF Resolved
    <3> QED
      BY <1>0, <1>1, <3>1, <3>2, <3>3 DEF Local
  <2>4. ASSUME NEW f \in Flows, ResolveClear(f) PROVE Local' = Local
    <3>1. UNCHANGED <<sendCredits, unflushed>>
      BY <2>4, Zenon DEF ResolveClear, sndVars
    <3>2. /\ Resolved(Session)' = IF f = Session THEN 0 ELSE Resolved(Session)
          /\ updWire'[Session] = updWire[Session] + IF f = Session THEN Resolved(Session) ELSE 0
      BY <1>1, <2>4 DEF ResolveClear, Resolved
    <3>3. Resolved(Session) \in Nat
      BY <1>1, Zenon DEF Resolved
    <3> QED
      BY <1>0, <1>1, <3>1, <3>2, <3>3 DEF Local
  <2> QED
    BY <2>1, <2>2, <2>3, <2>4, Zenon DEF Crediting, Resolving
<1>3. Moved(Session, 0, Loop, 0)
  BY <1>0, <1>2, SessionSummands DEF Moved, InUse, Carried
<1> QED
  BY <1>3, MovedTotal, SessionSummands

\* Reading, feeding and draining move bytes between a channel and an actor, or lose
\* them.
LEMMA ReceivingSession ==
  ASSUME TypeOK, TypeOK', ActorInv, Enabled, NEW d \in Channels,
         Reading(d) \/ Feeding(d) \/ Close(d) \/ Draining(d)
  PROVE  SessionTotal' = SessionTotal
<1>0. /\ actor \in [Actors -> ActorTypes] /\ ring \in [Channels -> Nat] /\ lost \in Nat
      /\ feeding \in [Channels -> Nat] /\ dataWire \in [Channels -> Nat]
      /\ d \in Actors /\ Loop \in Actors /\ d # Session /\ d # Loop
      /\ take[d] \in Nat
      /\ \A a \in Actors : actor[a].pc = "idle" => Carried(a, Session) = 0
  BY FlowAssumption, Zenon DEF FlowAssumption, TypeOK, ActorTypes, Actors, ActorInv, Carried
<1>1. /\ \A n, m : Begin(Session, n, m).flow = Session /\ Begin(Session, n, m).n = n
      /\ \A n, m : Begin(d, n, m).flow = d /\ Begin(d, n, m).of = m
      /\ NoOp.flow = Session /\ NoOp.n = 0
  BY Zenon DEF Begin, NoOp
<1>2. /\ UNCHANGED <<sendCredits, consumed, unflushed, resolving, updWire, writer, take>>
      /\ \A c \in Channels \ {d} : /\ dataWire'[c] = dataWire[c] /\ feeding'[c] = feeding[c]
                                   /\ ring'[c] = ring[c]
  BY <1>0, Zenon DEF Reading, Read, Feeding, FeedCheck, FeedPush, Close, Draining, DrainRing, CloseRing,
         sndVars, updVars, schVars
<1>3. \A c \in Channels \ {d} : InUse(c)' = InUse(c)
  BY <1>2, Zenon DEF InUse
<1>4. \A k \in Int : dataWire'[d] + feeding'[d] + ring'[d] = dataWire[d] + feeding[d] + ring[d] + k
                      => InUse(d)' = InUse(d) + k
  <2>1. dataWire'[d] \in Nat /\ feeding'[d] \in Nat /\ ring'[d] \in Nat
    BY Zenon DEF TypeOK
  <2> QED
    BY <1>0, <1>2, <2>1 DEF InUse
<1>5. /\ \A k \in Int : lost' + k = lost => Local' + k = Local
      /\ UNCHANGED lost => Local' = Local
  <2>1. Resolved(Session)' = Resolved(Session)
    BY <1>2, Zenon DEF Resolved
  <2>2. /\ sendCredits[Session] \in Nat /\ consumed[Session] \in Nat /\ unflushed[Session] \in Nat
        /\ Resolved(Session) \in Nat /\ updWire[Session] \in Nat /\ lost' \in Nat
    BY Zenon DEF TypeOK, Flows, Resolved
  <2>3. /\ sendCredits'[Session] = sendCredits[Session] /\ consumed'[Session] = consumed[Session]
        /\ unflushed'[Session] = unflushed[Session] /\ updWire'[Session] = updWire[Session]
    BY <1>2, Zenon
  <2>4. PICK r \in Int : Local = lost + r /\ Local' = lost' + r
    <3> DEFINE q == sendCredits[Session] + consumed[Session] + unflushed[Session]
                      + Resolved(Session) + updWire[Session]
    <3>1. q \in Int /\ Local = lost + q
      BY <1>0, <2>2 DEF Local
    <3>2. Local' = lost' + q
      <4>1. Local' = sendCredits[Session] + lost' + consumed[Session] + unflushed[Session]
                       + Resolved(Session) + updWire[Session]
        BY <2>1, <2>3, Zenon DEF Local
      <4> QED
        BY <2>2, <4>1
    <3> QED
      BY <3>1, <3>2, Zenon
  <2>5. UNCHANGED lost => Local' = Local
    BY <2>1, <2>3, Zenon DEF Local
  <2>6. ASSUME NEW k \in Int, lost' + k = lost PROVE Local' + k = Local
    <3>1. PICK x \in Int, y \in Int : x = lost /\ y = lost'
      BY <1>0, <2>2
    <3>2. y + k = x /\ Local = x + r /\ Local' = y + r
      BY <2>4, <2>6, <3>1, Zenon
    <3> QED
      BY <3>2
  <2> QED
    BY <2>5, <2>6, Zenon
<1> DEFINE Takes(x, m) ==
      \A b \in Actors : Carried(b, Session)' = Carried(b, Session) + IF b = x THEN m ELSE 0
           Puts(x, r) == actor[x].pc = "idle" /\ actor' = [actor EXCEPT ![x] = r]
           Owes(r, m) == (r.flow = Session /\ r.n = m) \/ (r.flow # Session /\ r.of = m)
<1> HIDE DEF Takes, Puts, Owes
<1>a. ASSUME NEW x \in Actors, NEW r, NEW m \in Nat, Puts(x, r), Owes(r, m)
      PROVE  Takes(x, m)
  <2>1. Carried(x, Session) = 0 /\ Carried(x, Session)' = m
    BY <1>0, <1>a, Zenon DEF Carried, Puts, Owes
  <2>2. \A b \in Actors \ {x} : Carried(b, Session)' = Carried(b, Session)
    BY <1>0, <1>a, Zenon DEF Carried, Puts, Owes
  <2> QED
    BY <2>1, <2>2, SessionSummands DEF Takes
<1>b. d \in Actors /\ Loop \in Actors
  BY <1>0, Zenon
<1>e. /\ ring \in [Channels -> Nat] /\ feeding \in [Channels -> Nat] /\ dataWire \in [Channels -> Nat]
      /\ ring[d] \in Nat /\ feeding[d] \in Nat /\ dataWire[d] \in Nat
  BY <1>0, Zenon
<1>c. \A n : Owes(Begin(Session, n, 0), n) /\ Owes(Begin(d, n, n), n)
  BY <1>0 DEF Owes, Begin
<1>d. Owes(NoOp, 0)
  BY <1>1, Zenon DEF Owes
<1>6. ASSUME NEW n \in 1..ring[d], Read(d, n) PROVE Moved(d, -n, d, n)
  <2>1. InUse(d)' = InUse(d) + (-n)
    <3>1. ring'[d] = ring[d] - n /\ UNCHANGED <<dataWire, feeding>>
      BY <1>e, <1>6, Zenon DEF Read
    <3>2. n \in Nat /\ -n \in Int
      BY <1>e
    <3> QED
      BY <1>e, <1>4, <3>1, <3>2
  <2>2. Takes(d, n)
    <3>1. n \in Nat
      BY <1>0, <1>6
    <3> DEFINE r == Begin(d, n, n)
    <3>2. Puts(d, r)
      BY <1>6, Zenon DEF Read, Puts
    <3>3. Owes(r, n)
      BY <1>c, Zenon
    <3> HIDE DEF r
    <3> QED
      BY <1>a, <1>b, <3>1, <3>2, <3>3, Zenon
  <2>3. Local' = Local
    BY <1>5, <1>6, Zenon DEF Read
  <2> QED
    BY <1>0, <1>3, <2>1, <2>2, <2>3, SessionSummands DEF Moved, Takes
<1>7. ASSUME NEW n \in 1..dataWire[d], FeedCheck(d, n), closed[d] PROVE Moved(d, -n, Loop, n)
  <2>1. InUse(d)' = InUse(d) + (-n)
    <3>1. dataWire'[d] = dataWire[d] - n /\ UNCHANGED <<feeding, ring>>
      BY <1>e, <1>7, Zenon DEF FeedCheck
    <3>2. n \in Nat /\ -n \in Int
      BY <1>e
    <3> QED
      BY <1>e, <1>4, <3>1, <3>2
  <2>2. Takes(Loop, n)
    <3>1. n \in Nat
      BY <1>0, <1>7
    <3> DEFINE r == IF Enabled THEN Begin(Session, n, 0) ELSE NoOp
    <3>2. Puts(Loop, r)
      BY <1>7, Zenon DEF FeedCheck, Puts
    <3>3. Owes(r, n)
      BY <1>c, Zenon
    <3> HIDE DEF r
    <3> QED
      BY <1>a, <1>b, <3>1, <3>2, <3>3, Zenon
  <2>3. Local' = Local
    BY <1>5, <1>7, Zenon DEF FeedCheck
  <2> QED
    BY <1>0, <1>3, <2>1, <2>2, <2>3, SessionSummands DEF Moved, Takes
<1>8. ASSUME NEW k \in Int, UNCHANGED actor, lost' + k = lost,
             dataWire'[d] + feeding'[d] + ring'[d] = dataWire[d] + feeding[d] + ring[d] + k
      PROVE  Moved(d, k, Loop, 0)
  <2>1. InUse(d)' = InUse(d) + k /\ Local' + k = Local
    BY <1>4, <1>5, <1>8, Zenon
  <2>2. \A b \in Actors : Carried(b, Session)' = Carried(b, Session)
    BY <1>8, Zenon DEF Carried
  <2> QED
    BY <1>0, <1>3, <2>1, <2>2, SessionSummands DEF Moved
<1>9. ASSUME NEW n \in 1..dataWire[d], FeedCheck(d, n), ~closed[d] PROVE Moved(d, 0, Loop, 0)
  <2>1. /\ dataWire'[d] = dataWire[d] - n /\ feeding'[d] = n /\ feeding[d] = 0 /\ n \in Nat
        /\ UNCHANGED <<ring, actor, lost>>
    BY <1>0, <1>9 DEF FeedCheck
  <2> QED
    BY <1>0, <1>8, <2>1
<1>10. CASE FeedPush(d)
  <2>1. feeding'[d] = 0 /\ UNCHANGED <<dataWire, actor>>
    BY <1>0, <1>10, Zenon DEF FeedPush, updVars
  <2>2. CASE drained[d] = "closed"
    <3>1. lost' = lost + feeding[d] /\ UNCHANGED ring
      BY <1>10, <2>2, Zenon DEF FeedPush
    <3>2. Moved(d, -feeding[d], Loop, 0)
      BY <1>0, <1>8, <2>1, <3>1
    <3> QED
      BY <1>0, <3>2, MovedTotal DEF Flows
  <2>3. CASE drained[d] # "closed"
    <3>1. ring'[d] = ring[d] + feeding[d] /\ UNCHANGED lost
      BY <1>0, <1>10, <2>3, Zenon DEF FeedPush
    <3>2. Moved(d, 0, Loop, 0)
      BY <1>0, <1>8, <2>1, <3>1
    <3> QED
      BY <1>0, <3>2, MovedTotal DEF Flows
  <2> QED
    BY <2>2, <2>3, Zenon
<1>11. CASE Close(d)
  <2>1. UNCHANGED <<dataWire, feeding, ring, lost, actor>>
    BY <1>11, Zenon DEF Close, updVars
  <2>2. Moved(d, 0, Loop, 0)
    BY <1>0, <1>8, <2>1
  <2> QED
    BY <1>0, <2>2, MovedTotal DEF Flows
<1>12. CASE DrainRing(d)
  <2>1. InUse(d)' = InUse(d) + (-ring[d])
    <3>1. ring'[d] = 0 /\ UNCHANGED <<dataWire, feeding>> /\ -ring[d] \in Int
      BY <1>0, <1>12 DEF DrainRing
    <3> QED
      BY <1>0, <1>4, <3>1
  <2>2. Takes(d, ring[d])
    <3>1. ring[d] \in Nat /\ (~(ring[d] > 0) => ring[d] = 0)
      BY <1>0
    <3> DEFINE r == IF Enabled /\ ring[d] > 0 THEN Begin(Session, ring[d], 0) ELSE NoOp
    <3>2. Puts(d, r)
      BY <1>12, Zenon DEF DrainRing, Puts
    <3>3. Owes(r, ring[d])
      BY <1>c, <1>d, <3>1, Zenon
    <3> HIDE DEF r
    <3> QED
      BY <1>a, <1>b, <3>1, <3>2, <3>3, Zenon
  <2>3. Local' = Local
    BY <1>5, <1>12, Zenon DEF DrainRing
  <2>4. Moved(d, -ring[d], d, ring[d])
    BY <1>0, <1>3, <2>1, <2>2, <2>3, SessionSummands DEF Moved, Takes
  <2> QED
    BY <1>0, <2>4, MovedTotal DEF Flows
<1>13. CASE CloseRing(d)
  <2>1. ring'[d] = 0 /\ lost' = lost + ring[d] /\ UNCHANGED <<dataWire, feeding, actor>>
    BY <1>0, <1>13, Zenon DEF CloseRing, updVars
  <2>2. Moved(d, -ring[d], Loop, 0)
    BY <1>0, <1>8, <2>1
  <2> QED
    BY <1>0, <2>2, MovedTotal DEF Flows
<1>14. ASSUME NEW n \in 1..ring[d], Read(d, n) PROVE SessionTotal' = SessionTotal
  <2>1. PICK k \in Int : k = -n
    OBVIOUS
  <2>2. Moved(d, k, d, n) /\ n \in Int /\ d \in Flows /\ d \in Actors
    BY <1>0, <1>6, <1>14, <2>1 DEF Flows
  <2> QED
    BY <2>2, MovedTotal, Zenon
<1>15. ASSUME NEW n \in 1..dataWire[d], FeedCheck(d, n) PROVE SessionTotal' = SessionTotal
  <2>1. CASE closed[d]
    <3>1. PICK k \in Int : k = -n
      OBVIOUS
    <3>2. Moved(d, k, Loop, n) /\ n \in Int /\ d \in Flows /\ Loop \in Actors
      BY <1>0, <1>7, <1>15, <2>1, <3>1 DEF Flows
    <3> QED
      BY <3>2, MovedTotal, Zenon
  <2>2. CASE ~closed[d]
    BY <1>0, <1>9, <1>15, <2>2, MovedTotal DEF Flows
  <2> QED
    BY <2>1, <2>2, Zenon
<1> QED
  BY <1>10, <1>11, <1>12, <1>13, <1>14, <1>15, Zenon DEF Reading, Feeding, Draining

\* OnRead passes the session's bytes from hand to hand, and while it works on the
\* stream's flow it keeps what it will hand to the session's.
LEMMA ConsumingSession ==
  ASSUME TypeOK, TypeOK', ActorInv, Enabled, NEW a \in Actors, Consuming(a)
  PROVE  SessionTotal' = SessionTotal
<1> DEFINE f == actor[a].flow
<1>0. /\ actor \in [Actors -> ActorTypes] /\ consumed \in [Flows -> Nat] /\ unflushed \in [Flows -> Nat]
      /\ f \in Flows /\ Session \in Flows /\ actor[a].n \in Nat /\ actor[a].of \in Nat
      /\ actor[a].pc \in {"swap", "cas"} => actor[a].n = 0
  BY Zenon DEF TypeOK, ActorTypes, ActorInv, Flows
<1>1. /\ UNCHANGED <<sendCredits, dataWire, feeding, ring, writer, take, lost, resolving, updWire>>
      /\ \A b \in Actors \ {a} : actor'[b] = actor[b]
  BY <1>0, Zenon DEF Consuming, AddConsumed, SwapConsumed, AddUnflushed, QueueUpdate, sndVars, rcvVars, schVars
<1>2. /\ \A c \in Channels : InUse(c)' = InUse(c)
      /\ \A b \in Actors \ {a} : Carried(b, Session)' = Carried(b, Session)
  BY <1>1 DEF InUse, Carried
<1>3. \A pc, n : /\ Moves(a, pc, n).flow = f /\ Moves(a, pc, n).n = n
                 /\ Moves(a, pc, n).of = actor[a].of
  BY <1>0, Zenon DEF Moves, ActorTypes
<1>4. /\ Finish(a).flow = Session /\ (f = Session => Finish(a).n = 0)
      /\ f # Session => Finish(a).n = actor[a].of
  BY Zenon DEF Finish, Begin, NoOp
<1>5. Carried(a, Session) = IF f = Session THEN actor[a].n ELSE actor[a].of
  BY Zenon DEF Carried
<1>6. /\ \A m \in Int : consumed'[Session] + unflushed'[Session] + m = consumed[Session] + unflushed[Session]
                          => Local' + m = Local
      /\ Local' \in Int
  <2>1. Resolved(Session)' = Resolved(Session)
    BY <1>1, Zenon DEF Resolved
  <2>2. /\ sendCredits[Session] \in Nat /\ lost \in Nat /\ Resolved(Session) \in Nat
        /\ updWire[Session] \in Nat /\ consumed'[Session] \in Nat /\ unflushed'[Session] \in Nat
    BY Zenon DEF TypeOK, Flows, Resolved
  <2>3. PICK r \in Int : r = sendCredits[Session] + lost + Resolved(Session) + updWire[Session]
    BY <2>2
  <2>4. PICK x \in Int, y \in Int : x = consumed[Session] + unflushed[Session]
                                    /\ y = consumed'[Session] + unflushed'[Session]
    BY <1>0, <2>2
  <2>5. Local = r + x
    BY <1>0, <2>2, <2>3, <2>4 DEF Local
  <2>6. Local' = r + y
    BY <1>1, <2>1, <2>2, <2>3, <2>4 DEF Local
  <2> QED
    BY <2>4, <2>5, <2>6
<1>7. ASSUME NEW m \in Int, Carried(a, Session)' = Carried(a, Session) + m,
             consumed'[Session] + unflushed'[Session] + m = consumed[Session] + unflushed[Session]
      PROVE  SessionTotal' = SessionTotal
  <2>1. Moved(Session, 0, a, m)
    BY <1>2, <1>6, <1>7, SessionSummands DEF Moved
  <2> QED
    BY <2>1, MovedTotal, SessionSummands
<1>8. CASE f # Session
  <2>1. consumed'[Session] = consumed[Session] /\ unflushed'[Session] = unflushed[Session]
    BY <1>0, <1>8, Zenon DEF Consuming, AddConsumed, SwapConsumed, AddUnflushed, QueueUpdate
  <2>2. Carried(a, Session)' = actor[a].of
    BY <1>0, <1>3, <1>4, <1>8 DEF Consuming, AddConsumed, SwapConsumed, AddUnflushed, QueueUpdate, Carried
  <2>3. PICK m \in Int : m = 0
    OBVIOUS
  <2>4. Carried(a, Session)' = Carried(a, Session) + m
    BY <1>0, <1>5, <1>8, <2>2, <2>3
  <2>5. consumed'[Session] + unflushed'[Session] + m = consumed[Session] + unflushed[Session]
    BY <1>0, <2>1, <2>3
  <2> QED
    BY <1>7, <2>4, <2>5, Zenon
<1>9. CASE f = Session
  <2>1. Carried(a, Session) = actor[a].n
    BY <1>5, <1>9, Zenon
  <2>2. CASE AddConsumed(a)
    <3>1. /\ consumed'[Session] = consumed[Session] + actor[a].n
          /\ unflushed'[Session] = unflushed[Session]
      BY <1>0, <1>9, <2>2, Zenon DEF AddConsumed
    <3>2. Carried(a, Session)' = 0
      BY <1>0, <1>3, <1>4, <1>9, <2>2 DEF AddConsumed, Carried
    <3>3. PICK m \in Int : m = -actor[a].n
      BY <1>0
    <3>4. /\ Carried(a, Session)' = Carried(a, Session) + m
          /\ consumed'[Session] + unflushed'[Session] + m = consumed[Session] + unflushed[Session]
      BY <1>0, <2>1, <3>1, <3>2, <3>3
    <3> QED
      BY <1>7, <3>4, Zenon
  <2>3. CASE SwapConsumed(a)
    <3>1. /\ consumed'[Session] = 0 /\ unflushed'[Session] = unflushed[Session]
          /\ actor[a].n = 0
      BY <1>0, <1>9, <2>3, Zenon DEF SwapConsumed
    <3>2. Carried(a, Session)' = consumed[Session]
      BY <1>0, <1>3, <1>4, <1>9, <2>3 DEF SwapConsumed, Carried
    <3> QED
      BY <1>0, <1>7, <2>1, <3>1, <3>2
  <2>4. CASE AddUnflushed(a)
    <3>1. /\ consumed'[Session] = consumed[Session]
          /\ unflushed'[Session] = unflushed[Session] + actor[a].n
      BY <1>0, <1>9, <2>4, Zenon DEF AddUnflushed
    <3>2. Carried(a, Session)' = 0
      BY <1>0, <1>3, <1>9, <2>4, Zenon DEF AddUnflushed, Carried
    <3>3. PICK m \in Int : m = -actor[a].n
      BY <1>0
    <3>4. /\ Carried(a, Session)' = Carried(a, Session) + m
          /\ consumed'[Session] + unflushed'[Session] + m = consumed[Session] + unflushed[Session]
      BY <1>0, <2>1, <3>1, <3>2, <3>3
    <3> QED
      BY <1>7, <3>4, Zenon
  <2>5. CASE QueueUpdate(a)
    <3>1. consumed' = consumed /\ unflushed' = unflushed /\ actor[a].n = 0
      BY <1>0, <2>5, Zenon DEF QueueUpdate
    <3>2. Carried(a, Session)' = 0
      BY <1>0, <1>4, <1>9, <2>5, Zenon DEF QueueUpdate, Carried
    <3> QED
      BY <1>0, <1>7, <2>1, <3>1, <3>2
  <2> QED
    BY <2>2, <2>3, <2>4, <2>5, Zenon DEF Consuming
<1> QED
  BY <1>8, <1>9, Zenon

-----------------------------------------------------------------------------
(* The theorems                                                            *)

\* The inductive invariant of the proofs.
IInv == TypeOK /\ ActorInv /\ TakeInv /\ WakeInv /\ StreamConserved /\ SessionConserved

\* Two freshly created ends satisfy the invariant.
LEMMA InitInv == Init => IInv
<1> SUFFICES ASSUME Init PROVE IInv
  BY Zenon
<1>1. TypeOK
  BY InitType, Zenon
<1>2. ActorInv /\ TakeInv /\ WakeInv
  BY Zenon DEF Init, ActorInv, TakeInv, WakeInv, NoOp
<1>3. StreamConserved
  <2> SUFFICES ASSUME NEW c \in Channels PROVE Total(c) = StreamWindow
    BY Zenon DEF StreamConserved, Total
  <2>1. sendCredits[c] = StreamWindow /\ Carried(c, c) = 0 /\ Resolved(c) = 0
    BY <1>1, Summands, Zenon DEF Summable, Init, Window, NoOp, Carried, Resolved
  <2> QED
    BY <1>1, <2>1, Summands, FlowAssumption DEF Summable, Init, Total, FlowAssumption
<1>4. ASSUME Enabled PROVE SessionTotal = SessionWindow
  <2>1. /\ [c \in Channels |-> InUse(c)] = [c \in Channels |-> 0]
        /\ [a \in Actors |-> Carried(a, Session)] = [a \in Actors |-> 0]
    BY DEF Init, InUse, Carried, NoOp
  <2>2. /\ SumFunction([c \in Channels |-> InUse(c)]) = 0
        /\ SumFunction([a \in Actors |-> Carried(a, Session)]) = 0
    BY <2>1, FinitelyMany, SumZero, Zenon
  <2>3. Local = SessionWindow
    BY FlowAssumption DEF FlowAssumption, Init, Local, Resolved, Flows, Window, NoDelta
  <2> QED
    BY <2>2, <2>3, FlowAssumption DEF SessionTotal, FlowAssumption
<1>5. SessionConserved
  BY <1>4, Zenon DEF SessionConserved, SessionTotal, Local
<1> QED
  BY <1>1, <1>2, <1>3, <1>5, Zenon DEF IInv

\* Every step of every goroutine keeps a channel's total.
LEMMA TotalStep ==
  ASSUME IInv, [Next]_vars, NEW c \in Channels
  PROVE  Total(c)' = Total(c)
<1>1. ASSUME UNCHANGED <<sendCredits, dataWire, feeding, ring, gone, actor, consumed, unflushed,
                         resolving, updWire>>
      PROVE  Total(c)' = Total(c)
  BY <1>1, Zenon DEF Total, Carried, Resolved
<1>2. ASSUME NEW d \in Channels, CloseWrite(d) PROVE Total(c)' = Total(c)
  BY <1>1, <1>2, Zenon DEF CloseWrite, rcvVars, updVars, schVars
<1>3. CASE UNCHANGED vars
  BY <1>1, <1>3, Zenon DEF vars, sndVars, rcvVars, updVars, schVars
<1> QED
  BY <1>2, <1>3, WritingTotal, ConsumingTotal, ReceivingTotal, ReturningTotal, Zenon DEF Next, IInv

\* Every step of every goroutine keeps the session's total.
LEMMA SessionStep ==
  ASSUME IInv, TypeOK', Enabled, [Next]_vars
  PROVE  SessionTotal' = SessionTotal
<1>1. ASSUME UNCHANGED <<sendCredits, dataWire, feeding, ring, writer, take, lost, actor, consumed,
                         unflushed, resolving, updWire>>
      PROVE  SessionTotal' = SessionTotal
  BY <1>1, Zenon DEF SessionTotal, Local, InUse, Carried, Resolved
<1>2. ASSUME NEW d \in Channels, CloseWrite(d) PROVE SessionTotal' = SessionTotal
  BY <1>1, <1>2, Zenon DEF CloseWrite, rcvVars, updVars, schVars
<1>3. CASE UNCHANGED vars
  BY <1>1, <1>3, Zenon DEF vars, sndVars, rcvVars, updVars, schVars
<1> QED
  BY <1>2, <1>3, WritingSession, ConsumingSession, ReceivingSession, ReturningSession, Zenon DEF Next, IInv

\* Every step of every goroutine keeps the invariant.
LEMMA StepInv == IInv /\ [Next]_vars => IInv'
<1> SUFFICES ASSUME IInv, [Next]_vars PROVE IInv'
  BY Zenon
<1>1. TypeOK' /\ ActorInv' /\ TakeInv' /\ WakeInv'
  BY StepType, ActorStep, TakeStep, WakeStep, Zenon DEF IInv
<1>2. \A c \in Channels : Total(c) = StreamWindow
  BY Zenon DEF IInv, StreamConserved, Total
<1>3. \A c \in Channels : Total(c)' = StreamWindow
  BY <1>2, TotalStep, Zenon
<1>4. StreamConserved'
  BY <1>3, Zenon DEF StreamConserved, Total
<1>5. SessionConserved'
  <2>1. Enabled => SessionTotal = SessionWindow
    BY Zenon DEF IInv, SessionConserved, SessionTotal, Local
  <2>2. Enabled => SessionTotal' = SessionWindow
    BY <1>1, <2>1, SessionStep, Zenon
  <2> QED
    BY <2>2, Zenon DEF SessionConserved, SessionTotal, Local
<1> QED
  BY <1>1, <1>4, <1>5, Zenon DEF IInv

\* The invariant holds in every reachable state.
THEOREM Invariance == Spec => []IInv
BY InitInv, StepInv, PTL DEF Spec

\* No flow has more credit than its window.
WithinWindow ==
  /\ \A c \in Channels : sendCredits[c] <= StreamWindow
  /\ Enabled => sendCredits[Session] <= SessionWindow

\* What is conserved bounds the credit: nothing else in the sums is negative.
LEMMA ConservedBounds == IInv => WithinWindow
<1> SUFFICES ASSUME IInv PROVE WithinWindow
  BY Zenon
<1>1. ASSUME NEW c \in Channels PROVE sendCredits[c] <= StreamWindow
  <2>1. Total(c) = StreamWindow
    BY Zenon DEF IInv, StreamConserved, Total
  <2> QED
    BY <2>1, Summands, FlowAssumption DEF IInv, Summable, Total, FlowAssumption
<1>2. ASSUME Enabled PROVE sendCredits[Session] <= SessionWindow
  <2> DEFINE use == [c \in Channels |-> InUse(c)]
             carry == [a \in Actors |-> Carried(a, Session)]
  <2>1. SessionTotal = SessionWindow
    BY <1>2, Zenon DEF IInv, SessionConserved, SessionTotal, Local
  <2>2. use \in [Channels -> Nat] /\ carry \in [Actors -> Nat]
    BY DEF IInv, TypeOK, InUse, Carried
  <2>3. SumFunction(use) \in Nat /\ SumFunction(carry) \in Nat
    BY <2>2, FinitelyMany, SumNat, Zenon
  <2>4. /\ sendCredits[Session] \in Nat /\ consumed[Session] \in Nat /\ unflushed[Session] \in Nat
        /\ Resolved(Session) \in Nat /\ updWire[Session] \in Nat /\ lost \in Nat
    BY Zenon DEF IInv, TypeOK, Flows, Resolved
  <2>5. Local + SumFunction(use) + SumFunction(carry) = SessionWindow
    BY <2>1, Zenon DEF SessionTotal
  <2> QED
    BY <2>3, <2>4, <2>5, FlowAssumption DEF Local, FlowAssumption
<1> QED
  BY <1>1, <1>2, Zenon DEF WithinWindow

\* Flow control state is well typed, and every credit counter stays between zero and
\* the window it started from, whichever writers race for the session's credit.
THEOREM TypeCorrect == Spec => [](TypeOK /\ WithinWindow)
<1>1. IInv => TypeOK /\ WithinWindow
  BY ConservedBounds, Zenon DEF IInv
<1> QED
  BY <1>1, Invariance, PTL

\* A stream's window is conserved by any interleaving of writers, readers,
\* readLoop and scheduler, for any windows and update ratio.
THEOREM ConservationTheorem == Spec => []StreamConserved
<1>1. IInv => StreamConserved
  BY Zenon DEF IInv
<1> QED
  BY <1>1, Invariance, PTL

\* The session's window is conserved over all channels, but for the bytes that a ring
\* closed in between has dropped.
THEOREM SessionTheorem == Spec => []SessionConserved
<1>1. IInv => SessionConserved
  BY Zenon DEF IInv
<1> QED
  BY <1>1, Invariance, PTL

\* AcquireCredits never blocks with credit at hand and no token on its way.
THEOREM WakeupTheorem == Spec => []NoLostWakeup
<1>1. IInv => NoLostWakeup
  BY Zenon DEF IInv, WakeInv, Awake, NoLostWakeup
<1> QED
  BY <1>1, Invariance, PTL

\* The refund path of AcquireCredits is never taken.
THEOREM DeductTheorem == Spec => []StreamDeductSucceeds
<1>1. IInv => StreamDeductSucceeds
  <2> SUFFICES ASSUME IInv, NEW c \in Channels, writer[c] \in {"deduct", "taken"}
               PROVE  sendCredits[c] >= take[c]
    BY Zenon DEF StreamDeductSucceeds
  <2>1. take[c] <= sendCredits[c]
    BY Zenon DEF IInv, TakeInv
  <2> QED
    BY <2>1, Summands, Zenon DEF IInv
<1> QED
  BY <1>1, Invariance, PTL

=============================================================================
