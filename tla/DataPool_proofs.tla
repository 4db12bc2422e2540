--------------------------- MODULE DataPool_proofs ---------------------------
(***************************************************************************)
(* Proofs of the safety properties of DataPool, for any sets of threads,   *)
(* any watermarks and any number of puts.                                  *)
(***************************************************************************)
EXTENDS DataPool, TLAPS, FiniteSetTheorems

-----------------------------------------------------------------------------
(* Types and the hand-over.  TypeOK is not inductive alone: the message    *)
(* that a step moves is one because of HandoffConsistent.                  *)

Base == TypeOK /\ HandoffConsistent

LEMMA InitBase == Init => Base
  BY ThreadsAssumption, BoundsAssumption DEF Init, Base, TypeOK, HandoffConsistent, Messages

LEMMA EventBase ==
  ASSUME Base, NEW t \in Threads,
         EventCheck(t) \/ EventWake(t) \/ EventTimeout(t)
  PROVE  Base'
  <1>1. pc[t] \notin {"direct", "idle", "onempty", "onfull"}
        /\ \E label \in {"sleep", "woken"} : pc' = [pc EXCEPT ![t] = label]
    BY DEF EventCheck, EventWake, EventTimeout, Consume, Goto
  <1>2. /\ signalled' \in 0..1
        /\ \E v \in 0..1 : res' = res \/ res' = [res EXCEPT ![t] = v]
        /\ UNCHANGED <<store, nwaits, nput, L, max, flags, data, timed, intr,
                      nputs, got, refused>>
    BY DEF Base, TypeOK, EventCheck, EventWake, EventTimeout, Consume, Goto,
           history, poolVars
  <1>3. TypeOK'
    BY <1>1, <1>2 DEF Base, TypeOK
  <1>4. HandoffConsistent'
    BY <1>1, <1>2 DEF Base, TypeOK, HandoffConsistent
  <1>. QED BY <1>3, <1>4 DEF Base

\* Steps that move no thread to or from sys_thread_switch and keep the data
\* where pc says it is.
LEMMA MoveBase ==
  ASSUME Base, NEW t \in Threads,
         NEW label \in {"idle", "onfull", "onempty", "check"},
         NEW m \in 0..MaxPuts,
         pc[t] # "direct",
         pc' = [pc EXCEPT ![t] = label],
         data' = [data EXCEPT ![t] = m],
         label \in {"idle", "onempty"} => m = 0,
         label = "onfull" => m # 0,
         UNCHANGED <<nput, L, max, flags, res, intr>>,
         store' \in Seq(Messages), nwaits' \in Int, signalled' \in 0..1,
         timed' \in [Threads -> 0..1], nputs' \in 0..MaxPuts,
         got' \subseteq Messages, refused' \subseteq Messages
  PROVE  Base'
  <1>1. TypeOK'
    BY DEF Base, TypeOK
  <1>2. \A u \in Threads : u # t => pc'[u] = pc[u] /\ data'[u] = data[u]
    BY DEF Base, TypeOK
  <1>3. pc'[t] = label /\ data'[t] = m /\ L # t
    BY DEF Base, TypeOK, HandoffConsistent
  <1>4. HandoffConsistent'
    BY <1>2, <1>3 DEF Base, TypeOK, HandoffConsistent
  <1>. QED BY <1>1, <1>4 DEF Base

LEMMA OfferBase ==
  ASSUME Base, NEW t \in Threads, NEW m \in Messages,
         CanOffer, Offer(t, m), pc[t] # "direct",
         UNCHANGED <<nwaits, max, flags, timed, res, intr, got, refused>>,
         nputs' \in 0..MaxPuts
  PROVE  Base'
  <1>1. TypeOK'
    BY DEF Base, TypeOK, Offer, Goto, Messages
  <1>2. HandoffConsistent'
    BY ThreadsAssumption, BoundsAssumption
    DEF Base, TypeOK, HandoffConsistent, CanOffer, Offer, Goto, Messages
  <1>. QED BY <1>1, <1>2 DEF Base

LEMMA PutDataBase ==
  ASSUME Base, NEW t \in Threads, NEW m \in Messages, PutData(t, m),
         pc[t] # "direct",
         UNCHANGED <<nwaits, max, flags, res, intr, got, refused>>,
         nputs' \in 0..MaxPuts
  PROVE  Base'
  <1>1. CASE CanOffer /\ Offer(t, m)
    BY <1>1, OfferBase DEF PutData
  <1>2. CASE Keep(t, m) /\ UNCHANGED <<L, nput>>
    <2>1. store' \in Seq(Messages) /\ signalled' \in 0..1
      BY <1>2 DEF Keep, Base, TypeOK
    <2>2. /\ pc' = [pc EXCEPT ![t] = "idle"] /\ data' = [data EXCEPT ![t] = 0]
          /\ UNCHANGED timed
      BY <1>2 DEF PutData, Keep, Goto
    <2>3. /\ 0 \in 0..MaxPuts
          /\ nwaits' \in Int /\ timed' \in [Threads -> 0..1]
          /\ got' \subseteq Messages /\ refused' \subseteq Messages
      BY <2>2, BoundsAssumption DEF Base, TypeOK
    <2>. QED BY <1>2, <2>1, <2>2, <2>3, MoveBase
  <1>. QED BY <1>1, <1>2 DEF PutData

LEMMA RefuseBase ==
  ASSUME Base, NEW t \in Threads, Refuse(t), pc[t] # "direct", data[t] # 0,
         UNCHANGED <<nwaits, max, flags, res, intr, nputs, got>>
  PROVE  Base'
  <1>1. data[t] \in Messages
    BY DEF Base, TypeOK, Messages
  <1>2. refused' \subseteq Messages
    BY <1>1 DEF Refuse, Base, TypeOK
  <1>3. /\ pc' = [pc EXCEPT ![t] = "idle"] /\ data' = [data EXCEPT ![t] = 0]
        /\ UNCHANGED <<store, nput, L, signalled, timed>>
    BY DEF Refuse, Goto
  <1>4. /\ 0 \in 0..MaxPuts
        /\ store' \in Seq(Messages) /\ nwaits' \in Int /\ signalled' \in 0..1
        /\ timed' \in [Threads -> 0..1] /\ nputs' \in 0..MaxPuts
        /\ got' \subseteq Messages
    BY <1>3, BoundsAssumption DEF Base, TypeOK
  <1>. QED BY <1>2, <1>3, <1>4, MoveBase

LEMMA WaitRoomBase ==
  ASSUME Base, NEW t \in Threads, NEW m \in Messages, WaitRoom(t, m),
         pc[t] # "direct",
         UNCHANGED <<nwaits, max, flags, res, intr, got, refused>>,
         nputs' \in 0..MaxPuts
  PROVE  Base'
  <1>1. m \in 0..MaxPuts
    BY DEF Messages
  <1>2. /\ pc' = [pc EXCEPT ![t] = "check"] /\ data' = [data EXCEPT ![t] = m]
        /\ timed' = [timed EXCEPT ![t] = 0]
        /\ UNCHANGED <<store, nput, L, signalled>>
    BY DEF WaitRoom, Goto
  <1>3. timed' \in [Threads -> 0..1]
    BY <1>2 DEF Base, TypeOK
  <1>. QED BY <1>1, <1>2, <1>3, MoveBase DEF Base, TypeOK

LEMMA dpool_putBase ==
  ASSUME Base, NEW t \in Threads, dpool_put(t)
  PROVE  Base'
  <1>1. /\ nputs + 1 \in Messages /\ nputs + 1 \in 0..MaxPuts /\ nputs + 1 # 0
        /\ nputs' \in 0..MaxPuts
    BY BoundsAssumption DEF dpool_put, Base, TypeOK, Messages
  <1>2. pc[t] # "direct" /\ UNCHANGED <<nwaits, max, flags, res, intr, got, refused>>
    BY DEF dpool_put
  <1>3. CASE /\ Goto(t, "onfull")
             /\ data' = [data EXCEPT ![t] = nputs + 1]
             /\ UNCHANGED <<store, nput, L, signalled, timed>>
    BY <1>1, <1>2, <1>3, MoveBase DEF Goto, Base, TypeOK
  <1>4. CASE WaitRoom(t, nputs + 1)
    BY <1>1, <1>2, <1>4, WaitRoomBase
  <1>5. CASE PutData(t, nputs + 1)
    BY <1>1, <1>2, <1>5, PutDataBase
  <1>. QED BY <1>3, <1>4, <1>5 DEF dpool_put

LEMMA PutOnFullBase ==
  ASSUME Base, NEW t \in Threads, PutOnFull(t)
  PROVE  Base'
  <1>1. data[t] \in Messages /\ data[t] # 0 /\ pc[t] # "direct" /\ nputs' \in 0..MaxPuts
    BY DEF PutOnFull, Base, TypeOK, HandoffConsistent, Messages
  <1>. QED BY <1>1, RefuseBase, PutDataBase DEF PutOnFull

LEMMA PutWokenBase ==
  ASSUME Base, NEW t \in Threads, PutWoken(t)
  PROVE  Base'
  <1>1. /\ data[t] \in Messages /\ data[t] \in 0..MaxPuts /\ data[t] # 0
        /\ pc[t] # "direct" /\ nputs' \in 0..MaxPuts
        /\ UNCHANGED <<nwaits, max, flags, res, intr, nputs, got>>
    BY DEF PutWoken, Base, TypeOK, Messages
  <1>2. CASE Refuse(t)
    BY <1>1, <1>2, RefuseBase
  <1>3. CASE WaitRoom(t, data[t]) /\ UNCHANGED refused
    BY <1>1, <1>3, WaitRoomBase DEF Base, TypeOK
  <1>4. CASE PutData(t, data[t]) /\ UNCHANGED refused
    BY <1>1, <1>4, PutDataBase
  <1>. QED BY <1>2, <1>3, <1>4 DEF PutWoken

LEMMA PutSwitchedBase ==
  ASSUME Base, NEW t \in Threads, PutSwitched(t)
  PROVE  Base'
  <1>1. L = t /\ (nput = 1 <=> data[t] # 0) /\ \A u \in Threads : u # t => pc[u] # "direct"
    BY ThreadsAssumption DEF PutSwitched, Base, HandoffConsistent
  <1>2. /\ store' \in Seq(Messages) /\ signalled' \in 0..1
        /\ data' = [data EXCEPT ![t] = 0]
        /\ pc' = [pc EXCEPT ![t] = "idle"]
        /\ L' = NoThread /\ nput' = 0
        /\ UNCHANGED <<nwaits, max, flags, timed, res, intr, nputs, got, refused>>
    <2>1. CASE nput = 0
      BY <1>1, <2>1 DEF PutSwitched, Base, TypeOK, Goto, history
    <2>2. CASE nput # 0
      <3>1. data[t] \in Messages
        BY <1>1, <2>2 DEF Base, TypeOK, Messages
      <3>2. Keep(t, data[t])
        BY <2>2 DEF PutSwitched
      <3>3. store' \in Seq(Messages) /\ signalled' \in 0..1
        BY <3>1, <3>2 DEF Keep, Base, TypeOK
      <3>. QED BY <3>2, <3>3 DEF PutSwitched, Keep, Goto, history
    <2>. QED BY <2>1, <2>2
  <1>3. TypeOK'
    BY <1>2, BoundsAssumption DEF Base, TypeOK
  <1>4. HandoffConsistent'
    BY <1>1, <1>2, ThreadsAssumption, BoundsAssumption DEF Base, TypeOK, HandoffConsistent
  <1>. QED BY <1>3, <1>4 DEF Base

LEMMA FetchBase ==
  ASSUME Base, NEW t \in Threads, NEW nw \in Int, Fetch(t, nw),
         pc[t] # "direct", data[t] = 0, timed' \in [Threads -> 0..1],
         UNCHANGED <<L, max, flags, res, intr, nputs, refused>>
  PROVE  Base'
  <1>1. data' = [data EXCEPT ![t] = 0] /\ UNCHANGED nput
    BY DEF Fetch, Base, TypeOK
  <1>2. CASE store # <<>>
    <2>1. Head(store) \in Messages /\ Tail(store) \in Seq(Messages)
      BY <1>2 DEF Base, TypeOK
    <2>2. store' = Tail(store) /\ got' = got \cup {Head(store)} /\ nwaits' = nw
          /\ pc' = [pc EXCEPT ![t] = "idle"]
          /\ signalled' = IF Len(store) = max THEN 1 ELSE signalled
      BY <1>2 DEF Fetch, Goto
    <2>3. store' \in Seq(Messages) /\ got' \subseteq Messages /\ signalled' \in 0..1
      BY <2>1, <2>2 DEF Base, TypeOK
    <2>. QED BY <1>1, <2>2, <2>3, MoveBase, BoundsAssumption DEF Base, TypeOK
  <1>3. CASE store = <<>>
    <2>1. /\ nwaits' \in Int /\ UNCHANGED <<store, got, signalled>>
          /\ pc' = [pc EXCEPT ![t] = "check"]
      BY <1>3 DEF Fetch, Goto
    <2>. QED BY <1>1, <2>1, MoveBase, BoundsAssumption DEF Base, TypeOK
  <1>. QED BY <1>2, <1>3

LEMMA dpool_getBase ==
  ASSUME Base, NEW t \in Threads, NEW timeout \in 0..1, dpool_get(t, timeout)
  PROVE  Base'
  <1>1. /\ pc[t] # "direct" /\ data[t] = 0 /\ timed' \in [Threads -> 0..1]
        /\ nwaits \in Int
        /\ UNCHANGED <<L, max, flags, res, intr, nputs, refused>>
    BY DEF dpool_get, Base, TypeOK, HandoffConsistent
  <1>2. CASE /\ Goto(t, "onempty")
             /\ UNCHANGED <<store, nwaits, nput, signalled, data, got>>
    <2>1. data' = [data EXCEPT ![t] = 0]
      BY <1>1, <1>2 DEF Base, TypeOK
    <2>. QED BY <1>1, <1>2, <2>1, MoveBase, BoundsAssumption DEF Goto, Base, TypeOK
  <1>3. CASE Fetch(t, nwaits)
    BY <1>1, <1>3, FetchBase
  <1>. QED BY <1>2, <1>3 DEF dpool_get

LEMMA GetOnEmptyBase ==
  ASSUME Base, NEW t \in Threads, GetOnEmpty(t)
  PROVE  Base'
  <1>1. /\ pc[t] # "direct" /\ data[t] = 0 /\ timed' \in [Threads -> 0..1]
        /\ nwaits \in Int
        /\ UNCHANGED <<L, max, flags, timed, res, intr, nputs, refused>>
    BY DEF GetOnEmpty, Base, TypeOK, HandoffConsistent
  <1>2. CASE /\ Goto(t, "idle")
             /\ UNCHANGED <<store, nwaits, nput, signalled, data, got>>
    <2>1. data' = [data EXCEPT ![t] = 0]
      BY <1>1, <1>2 DEF Base, TypeOK
    <2>. QED BY <1>1, <1>2, <2>1, MoveBase, BoundsAssumption DEF Goto, Base, TypeOK
  <1>3. CASE Fetch(t, nwaits)
    BY <1>1, <1>3, FetchBase
  <1>. QED BY <1>2, <1>3 DEF GetOnEmpty

LEMMA GetWokenBase ==
  ASSUME Base, NEW t \in Threads, GetWoken(t)
  PROVE  Base'
  <1>1. /\ pc[t] = "woken" /\ data[t] = 0 /\ timed' \in [Threads -> 0..1]
        /\ nwaits - 1 \in Int
        /\ UNCHANGED <<L, max, flags, timed, res, intr, nputs, refused>>
    BY DEF GetWoken, Base, TypeOK
  <1>2. CASE GiveUp(t)
    <2>1. data' = [data EXCEPT ![t] = 0]
      BY <1>1, <1>2 DEF GiveUp, Base, TypeOK
    <2>. QED BY <1>1, <1>2, <2>1, MoveBase, BoundsAssumption DEF GiveUp, Goto, Base, TypeOK
  <1>3. CASE nput # 0 /\ TakeOffer(t)
    <2>1. L \in Threads /\ data[L] \in Messages /\ pc[L] = "direct" /\ L # t
      BY <1>1, <1>3 DEF Base, TypeOK, HandoffConsistent, Messages
    <2>2. TypeOK'
      BY <1>1, <1>3, <2>1, BoundsAssumption DEF TakeOffer, Base, TypeOK, Goto
    <2>3. HandoffConsistent'
      BY <1>1, <1>3, <2>1, BoundsAssumption DEF TakeOffer, Base, TypeOK, HandoffConsistent, Goto
    <2>. QED BY <2>2, <2>3 DEF Base
  <1>4. CASE Fetch(t, nwaits - 1)
    BY <1>1, <1>4, FetchBase
  <1>. QED BY <1>2, <1>3, <1>4 DEF GetWoken

LEMMA NextBase == Base /\ [Next]_vars => Base'
  <1>. SUFFICES ASSUME Base, [Next]_vars PROVE Base'
    OBVIOUS
  <1>1. ASSUME NEW t \in Threads, Step(t) \/ EventTimeout(t) PROVE Base'
    BY <1>1, EventBase, PutOnFullBase, PutWokenBase, PutSwitchedBase,
       GetOnEmptyBase, GetWokenBase
    DEF Step
  <1>2. ASSUME NEW t \in Writers, dpool_put(t) PROVE Base'
    BY <1>2, dpool_putBase DEF Threads
  <1>3. ASSUME NEW t \in Readers, NEW timeout \in 0..1, dpool_get(t, timeout) PROVE Base'
    BY <1>3, dpool_getBase DEF Threads
  <1>4. ASSUME NEW m \in Maxes, dpool_max(m) PROVE Base'
    BY <1>4, BoundsAssumption
    DEF dpool_max, Base, TypeOK, HandoffConsistent, threadVars, history
  <1>5. ASSUME NEW cb \in Callbacks, dpool_callbacks(cb) PROVE Base'
    BY <1>5, BoundsAssumption
    DEF dpool_callbacks, CallbackFlags, Base, TypeOK, HandoffConsistent, threadVars, history
  <1>6. ASSUME NEW t \in Interruptible, thread_set_interrupt(t) PROVE Base'
    <2>0. t \in Threads /\ intr[t] \in 0..1 /\ 1 - intr[t] \in 0..1
      BY <1>6, ThreadsAssumption DEF Base, TypeOK
    <2>1. intr' \in [Threads -> 0..1]
      BY <1>6, <2>0 DEF thread_set_interrupt, Base, TypeOK
    <2>. QED BY <1>6, <2>1
         DEF thread_set_interrupt, Base, TypeOK, HandoffConsistent, poolVars, history
  <1>7. CASE UNCHANGED vars
    BY <1>7 DEF vars, Base, TypeOK, HandoffConsistent
  <1>. QED BY <1>1, <1>2, <1>3, <1>4, <1>5, <1>6, <1>7 DEF Next

LEMMA SpecBase == Spec => []Base
  BY InitBase, NextBase, PTL DEF Spec

\* Every variable of the pool keeps its type in every behaviour of the code.
THEOREM TypeCorrect == Spec => []TypeOK
  BY SpecBase, PTL DEF Base

\* dp->L and dp->nput always agree with where the writers stand and with what is
\* on their stacks (thread_dpool.c:96-104, 193-199).
THEOREM HandoffCorrect == Spec => []HandoffConsistent
  BY SpecBase, PTL DEF Base

-----------------------------------------------------------------------------
(* Where the data goes.  A step of the code has one of seven effects on    *)
(* the messages; each preserves Conservation and is a step of MessagePool. *)

Stay == UNCHANGED <<data, store, got, refused, nputs>>

NewOnStack(t) ==
    /\ data[t] = 0 /\ nputs + 1 \in Messages /\ nputs' = nputs + 1
    /\ data' = [data EXCEPT ![t] = nputs + 1]
    /\ UNCHANGED <<store, got, refused>>

NewInStore ==
    /\ nputs + 1 \in Messages /\ nputs' = nputs + 1
    /\ store' = Append(store, nputs + 1)
    /\ UNCHANGED <<data, got, refused>>

StackToStore(t) ==
    /\ data[t] # 0 /\ data' = [data EXCEPT ![t] = 0]
    /\ store' = Append(store, data[t])
    /\ UNCHANGED <<got, refused, nputs>>

StackToRefused(t) ==
    /\ data[t] # 0 /\ data' = [data EXCEPT ![t] = 0]
    /\ refused' = refused \cup {data[t]}
    /\ UNCHANGED <<store, got, nputs>>

StackToReader(t) ==
    /\ data[t] # 0 /\ data' = [data EXCEPT ![t] = 0]
    /\ got' = got \cup {data[t]}
    /\ UNCHANGED <<store, refused, nputs>>

StoreToReader ==
    /\ store # <<>> /\ store' = Tail(store)
    /\ got' = got \cup {Head(store)}
    /\ UNCHANGED <<data, refused, nputs>>

Flow ==
    \/ Stay \/ NewInStore \/ StoreToReader
    \/ \E t \in Threads : \/ NewOnStack(t) \/ StackToStore(t)
                          \/ StackToRefused(t) \/ StackToReader(t)

LEMMA ExceptSame ==
  ASSUME Base, NEW t \in Threads
  PROVE  [data EXCEPT ![t] = data[t]] = data
  BY DEF Base, TypeOK

LEMMA PutFlow ==
  ASSUME Base, NEW t \in Threads,
         dpool_put(t) \/ PutOnFull(t) \/ PutWoken(t) \/ PutSwitched(t)
  PROVE  Flow
  <1>1. ASSUME dpool_put(t) PROVE Flow
    <2>1. data[t] = 0 /\ nputs + 1 \in Messages /\ nputs' = nputs + 1
          /\ UNCHANGED <<got, refused>>
      BY <1>1, BoundsAssumption DEF dpool_put, Base, TypeOK, HandoffConsistent, Messages
    <2>2. CASE data' = [data EXCEPT ![t] = nputs + 1] /\ UNCHANGED store
      BY <2>1, <2>2 DEF NewOnStack, Flow
    <2>3. CASE Keep(t, nputs + 1)
      BY <2>1, <2>3, ExceptSame DEF Keep, NewInStore, Flow
    <2>. QED BY <1>1, <2>2, <2>3 DEF dpool_put, WaitRoom, PutData, Offer
  <1>2. ASSUME data[t] # 0, PutData(t, data[t]), UNCHANGED <<got, refused, nputs>>
        PROVE  Flow
    <2>1. CASE Offer(t, data[t])
      BY <1>2, <2>1, ExceptSame DEF Offer, Stay, Flow
    <2>2. CASE Keep(t, data[t])
      BY <1>2, <2>2 DEF Keep, StackToStore, Flow
    <2>. QED BY <1>2, <2>1, <2>2 DEF PutData
  <1>3. ASSUME data[t] # 0, Refuse(t), UNCHANGED <<got, nputs>>
        PROVE  Flow
    BY <1>3 DEF Refuse, StackToRefused, Flow
  <1>4. ASSUME PutOnFull(t) PROVE Flow
    <2>1. data[t] # 0 /\ UNCHANGED <<got, nputs>>
      BY <1>4 DEF PutOnFull, Base, HandoffConsistent
    <2>. QED BY <1>2, <1>3, <1>4, <2>1 DEF PutOnFull
  <1>5. ASSUME PutWoken(t) PROVE Flow
    <2>1. data[t] # 0 /\ UNCHANGED <<got, nputs>>
      BY <1>5 DEF PutWoken
    <2>2. CASE WaitRoom(t, data[t]) /\ UNCHANGED refused
      BY <2>1, <2>2, ExceptSame DEF WaitRoom, Stay, Flow
    <2>. QED BY <1>2, <1>3, <1>5, <2>1, <2>2 DEF PutWoken
  <1>6. ASSUME PutSwitched(t) PROVE Flow
    <2>1. CASE nput = 0
      BY <1>6, <2>1 DEF PutSwitched, Stay, Flow, history
    <2>2. CASE nput # 0
      <3>1. data[t] # 0
        BY <1>6, <2>2 DEF PutSwitched, Base, TypeOK, HandoffConsistent
      <3>. QED BY <1>6, <2>2, <3>1 DEF PutSwitched, Keep, StackToStore, Flow, history
    <2>. QED BY <2>1, <2>2
  <1>. QED BY <1>1, <1>4, <1>5, <1>6

LEMMA GetFlow ==
  ASSUME Base, NEW t \in Threads,
         (\E timeout \in 0..1 : dpool_get(t, timeout)) \/ GetOnEmpty(t) \/ GetWoken(t)
  PROVE  Flow
  <1>1. ASSUME NEW nw \in Int, Fetch(t, nw), UNCHANGED <<refused, nputs>>
        PROVE  Flow
    BY <1>1 DEF Fetch, StoreToReader, Stay, Flow
  <1>2. nwaits \in Int /\ nwaits - 1 \in Int
    BY DEF Base, TypeOK
  <1>3. ASSUME NEW timeout \in 0..1, dpool_get(t, timeout) PROVE Flow
    BY <1>1, <1>2, <1>3 DEF dpool_get, Stay, Flow
  <1>4. ASSUME GetOnEmpty(t) PROVE Flow
    BY <1>1, <1>2, <1>4 DEF GetOnEmpty, Stay, Flow
  <1>5. ASSUME GetWoken(t) PROVE Flow
    <2>1. CASE nput # 0 /\ TakeOffer(t)
      <3>1. L \in Threads /\ data[L] # 0
        BY <2>1 DEF Base, TypeOK, HandoffConsistent
      <3>. QED BY <1>5, <2>1, <3>1 DEF GetWoken, TakeOffer, StackToReader, Flow
    <2>2. CASE GiveUp(t)
      BY <1>5, <2>2 DEF GetWoken, GiveUp, Stay, Flow
    <2>. QED BY <1>1, <1>2, <1>5, <2>1, <2>2 DEF GetWoken
  <1>. QED BY <1>3, <1>4, <1>5

LEMMA NextFlow == Base /\ [Next]_vars => Flow
  <1>. SUFFICES ASSUME Base, [Next]_vars PROVE Flow
    OBVIOUS
  <1>1. ASSUME NEW t \in Threads, EventCheck(t) \/ EventWake(t) \/ EventTimeout(t)
        PROVE  Flow
    BY <1>1 DEF EventCheck, EventWake, EventTimeout, poolVars, history, Stay, Flow
  <1>2. ASSUME NEW t \in Threads, Step(t) \/ EventTimeout(t) PROVE Flow
    BY <1>1, <1>2, PutFlow, GetFlow DEF Step
  <1>3. ASSUME NEW t \in Writers, dpool_put(t) PROVE Flow
    BY <1>3, PutFlow DEF Threads
  <1>4. ASSUME NEW t \in Readers, NEW timeout \in 0..1, dpool_get(t, timeout) PROVE Flow
    BY <1>4, GetFlow DEF Threads
  <1>5. ASSUME NEW m \in Maxes, dpool_max(m) PROVE Flow
    BY <1>5 DEF dpool_max, threadVars, history, Stay, Flow
  <1>6. ASSUME NEW cb \in Callbacks, dpool_callbacks(cb) PROVE Flow
    BY <1>6 DEF dpool_callbacks, threadVars, history, Stay, Flow
  <1>7. ASSUME NEW t \in Interruptible, thread_set_interrupt(t) PROVE Flow
    BY <1>7 DEF thread_set_interrupt, poolVars, history, Stay, Flow
  <1>8. CASE UNCHANGED vars
    BY <1>8 DEF vars, Stay, Flow
  <1>. QED BY <1>2, <1>3, <1>4, <1>5, <1>6, <1>7, <1>8 DEF Next

\* The sets of stored and of held messages after each kind of move.
LEMMA StoredAppend ==
  ASSUME NEW s \in Seq(Messages), NEW m
  PROVE  StoredIn(Append(s, m)) = StoredIn(s) \cup {m}
  <1>1. Len(Append(s, m)) = Len(s) + 1 /\ Len(s) \in Nat
    OBVIOUS
  <1>2. \A i \in 1..Len(s) : Append(s, m)[i] = s[i]
    OBVIOUS
  <1>3. Append(s, m)[Len(s) + 1] = m
    OBVIOUS
  <1>. QED BY <1>1, <1>2, <1>3 DEF StoredIn

LEMMA StoredTail ==
  ASSUME NEW s \in Seq(Messages), s # <<>>,
         \A i, j \in 1..Len(s) : s[i] = s[j] => i = j
  PROVE  /\ StoredIn(Tail(s)) = StoredIn(s) \ {Head(s)}
         /\ Head(s) \in StoredIn(s)
         /\ \A i, j \in 1..Len(Tail(s)) : Tail(s)[i] = Tail(s)[j] => i = j
  <1>1. Len(s) \in Nat /\ Len(s) > 0 /\ Len(Tail(s)) = Len(s) - 1 /\ Head(s) = s[1]
    OBVIOUS
  <1>2. \A i \in 1..Len(Tail(s)) : Tail(s)[i] = s[i + 1] /\ i + 1 \in 1..Len(s)
    BY <1>1
  <1>3. ASSUME NEW m \in StoredIn(s), m # Head(s) PROVE m \in StoredIn(Tail(s))
    <2>1. PICK i \in 1..Len(s) : s[i] = m
      BY DEF StoredIn
    <2>2. i - 1 \in 1..Len(Tail(s)) /\ Tail(s)[i - 1] = m
      BY <1>1, <1>2, <1>3, <2>1
    <2>. QED BY <2>2 DEF StoredIn
  <1>4. ASSUME NEW m \in StoredIn(Tail(s)) PROVE m \in StoredIn(s) /\ m # Head(s)
    <2>1. PICK i \in 1..Len(Tail(s)) : Tail(s)[i] = m
      BY DEF StoredIn
    <2>2. s[i + 1] = m /\ i + 1 \in 1..Len(s) /\ i + 1 # 1 /\ 1 \in 1..Len(s)
      BY <1>1, <1>2, <2>1
    <2>3. m # s[1]
      BY <2>2
    <2>. QED BY <1>1, <2>2, <2>3 DEF StoredIn
  <1>5. StoredIn(Tail(s)) = StoredIn(s) \ {Head(s)}
    BY <1>3, <1>4
  <1>6. Head(s) \in StoredIn(s)
    BY <1>1 DEF StoredIn
  <1>7. ASSUME NEW i \in 1..Len(Tail(s)), NEW j \in 1..Len(Tail(s)), Tail(s)[i] = Tail(s)[j]
        PROVE  i = j
    <2>1. i + 1 = j + 1
      BY <1>2, <1>7
    <2>. QED BY <1>1, <2>1
  <1>. QED BY <1>5, <1>6, <1>7

LEMMA HeldAdd ==
  ASSUME Base, NEW t \in Threads, NewOnStack(t)
  PROVE  HeldOn(data') = HeldOn(data) \cup {nputs + 1}
  <1>1. nputs + 1 # 0
    BY DEF Base, TypeOK
  <1>2. data'[t] = nputs + 1 /\ data[t] = 0 /\ \A u \in Threads : u # t => data'[u] = data[u]
    BY DEF NewOnStack, Base, TypeOK
  <1>. QED BY <1>1, <1>2 DEF HeldOn

LEMMA HeldRemove ==
  ASSUME NEW d \in [Threads -> 0..MaxPuts], NEW t \in Threads, d[t] # 0,
         \A u, v \in Threads : d[u] = d[v] /\ d[u] # 0 => u = v
  PROVE  /\ HeldOn([d EXCEPT ![t] = 0]) = HeldOn(d) \ {d[t]}
         /\ d[t] \in HeldOn(d)
         /\ \A u, v \in Threads :
               /\ [d EXCEPT ![t] = 0][u] = [d EXCEPT ![t] = 0][v]
               /\ [d EXCEPT ![t] = 0][u] # 0
               => u = v
  <1>. DEFINE e == [d EXCEPT ![t] = 0]
  <1>1. e[t] = 0 /\ \A u \in Threads : u # t => e[u] = d[u]
    OBVIOUS
  <1>. HIDE DEF e
  <1>2. HeldOn(e) = HeldOn(d) \ {d[t]} /\ d[t] \in HeldOn(d)
    BY <1>1 DEF HeldOn
  <1>3. \A u, v \in Threads : e[u] = e[v] /\ e[u] # 0 => u = v
    BY <1>1
  <1>. QED BY <1>2, <1>3 DEF e

\* The storage stays duplicate-free when a message that is not in it is added.
LEMMA AppendDistinct ==
  ASSUME NEW s \in Seq(Messages), NEW m \in Messages, m \notin StoredIn(s),
         \A i, j \in 1..Len(s) : s[i] = s[j] => i = j
  PROVE  \A i, j \in 1..Len(Append(s, m)) : Append(s, m)[i] = Append(s, m)[j] => i = j
  <1>1. /\ Len(s) \in Nat /\ Len(Append(s, m)) = Len(s) + 1
        /\ \A i \in 1..Len(s) : Append(s, m)[i] = s[i] /\ s[i] # m
        /\ Append(s, m)[Len(s) + 1] = m
    BY DEF StoredIn
  <1>. QED BY <1>1

\* Four places that partition a set of messages, and a message that moves.
Partition(M, H, S, G, R) ==
    /\ M = H \cup S \cup G \cup R
    /\ H \cap S = {} /\ G \cap R = {}
    /\ (H \cup S) \cap (G \cup R) = {}

LEMMA PartitionMove ==
  ASSUME NEW M, NEW H, NEW S, NEW G, NEW R, Partition(M, H, S, G, R), NEW m \in H
  PROVE  /\ Partition(M, H \ {m}, S \cup {m}, G, R)
         /\ Partition(M, H \ {m}, S, G \cup {m}, R)
         /\ Partition(M, H \ {m}, S, G, R \cup {m})
  BY DEF Partition

LEMMA PartitionAdd ==
  ASSUME NEW M, NEW H, NEW S, NEW G, NEW R, Partition(M, H, S, G, R), NEW m, m \notin M
  PROVE  /\ Partition(M \cup {m}, H \cup {m}, S, G, R)
         /\ Partition(M \cup {m}, H, S \cup {m}, G, R)
  BY DEF Partition

LEMMA FlowConservation ==
  ASSUME Base, Conservation, Flow
  PROVE  Conservation'
  <1>. DEFINE H == HeldOn(data)  S == StoredIn(store)
  <1>0. /\ data \in [Threads -> 0..MaxPuts] /\ store \in Seq(Messages)
        /\ nputs \in Nat /\ MaxPuts \in Nat
        /\ Partition(1..nputs, H, S, got, refused)
        /\ \A i, j \in 1..Len(store) : store[i] = store[j] => i = j
        /\ \A t, u \in Threads : data[t] = data[u] /\ data[t] # 0 => t = u
    BY BoundsAssumption DEF Base, TypeOK, Conservation, Partition
  <1>1. nputs + 1 \notin 1..nputs /\ 1..(nputs + 1) = (1..nputs) \cup {nputs + 1}
    BY <1>0
  <1>. HIDE DEF H, S
  <1>2. CASE Stay
    <2>1. HeldOn(data') = H /\ StoredIn(store') = S
      BY <1>2 DEF Stay, H, S
    <2>. QED BY <1>0, <1>2, <2>1 DEF Stay, Conservation, Partition
  <1>3. CASE NewInStore
    <2>1. nputs + 1 \notin S
      BY <1>0, <1>1 DEF Partition
    <2>2. StoredIn(store') = S \cup {nputs + 1} /\ HeldOn(data') = H
      BY <1>0, <1>3, StoredAppend DEF NewInStore, H, S
    <2>3. \A i, j \in 1..Len(store') : store'[i] = store'[j] => i = j
      BY <1>0, <1>3, <2>1, AppendDistinct DEF NewInStore, S
    <2>b. Partition((1..nputs) \cup {nputs + 1}, H, S \cup {nputs + 1}, got, refused)
      BY <1>0, <1>1, <2>2, PartitionAdd
    <2>4. Partition(1..nputs', HeldOn(data'), StoredIn(store'), got', refused')
      BY <2>b, <1>1, <1>3, <2>2 DEF NewInStore
    <2>. QED BY <1>0, <1>3, <2>3, <2>4 DEF NewInStore, Conservation, Partition
  <1>4. CASE StoreToReader
    <2>1. /\ StoredIn(store') = S \ {Head(store)} /\ Head(store) \in S
          /\ HeldOn(data') = H
          /\ \A i, j \in 1..Len(store') : store'[i] = store'[j] => i = j
      BY <1>0, <1>4, StoredTail DEF StoreToReader, H, S
    <2>2. Partition(1..nputs', HeldOn(data'), StoredIn(store'), got', refused')
      BY <1>0, <1>4, <2>1 DEF StoreToReader, Partition
    <2>. QED BY <1>0, <1>4, <2>1, <2>2 DEF StoreToReader, Conservation, Partition
  <1>5. ASSUME NEW t \in Threads, NewOnStack(t) PROVE Conservation'
    <2>1. HeldOn(data') = H \cup {nputs + 1} /\ StoredIn(store') = S
      BY <1>5, HeldAdd DEF NewOnStack, H, S
    <2>2. \A u \in Threads : data[u] # nputs + 1
      BY <1>0, <1>1 DEF H, HeldOn, Partition
    <2>3. \A u, v \in Threads : data'[u] = data'[v] /\ data'[u] # 0 => u = v
      BY <1>0, <1>5, <2>2 DEF NewOnStack
    <2>b. Partition((1..nputs) \cup {nputs + 1}, H \cup {nputs + 1}, S, got, refused)
      BY <1>0, <1>1, <2>1, PartitionAdd
    <2>4. Partition(1..nputs', HeldOn(data'), StoredIn(store'), got', refused')
      BY <2>b, <1>1, <1>5, <2>1 DEF NewOnStack
    <2>. QED BY <1>0, <1>5, <2>3, <2>4, ZenonT(30) DEF NewOnStack, Conservation, Partition
  <1>6. ASSUME NEW t \in Threads, data[t] # 0, data' = [data EXCEPT ![t] = 0]
        PROVE  /\ HeldOn(data') = H \ {data[t]} /\ data[t] \in H
               /\ \A u, v \in Threads : data'[u] = data'[v] /\ data'[u] # 0 => u = v
    BY <1>0, <1>6, HeldRemove DEF H
  <1>7. ASSUME NEW t \in Threads, StackToStore(t) PROVE Conservation'
    <2>1. /\ HeldOn(data') = H \ {data[t]} /\ data[t] \in H
          /\ \A u, v \in Threads : data'[u] = data'[v] /\ data'[u] # 0 => u = v
      BY <1>6, <1>7 DEF StackToStore
    <2>2. data[t] \notin S /\ data[t] \in Messages
      BY <1>0, <1>7, <2>1 DEF StackToStore, Messages, Partition
    <2>3. StoredIn(store') = S \cup {data[t]}
      BY <1>0, <1>7, StoredAppend DEF StackToStore, S
    <2>4. \A i, j \in 1..Len(store') : store'[i] = store'[j] => i = j
      BY <1>0, <1>7, <2>2, AppendDistinct DEF StackToStore, S
    <2>b. Partition(1..nputs, H \ {data[t]}, S \cup {data[t]}, got, refused)
      BY <1>0, <1>1, <2>1, PartitionMove
    <2>a. Partition(1..nputs', HeldOn(data'), StoredIn(store'), got', refused')
      BY <2>b, <1>1, <1>7, <2>1, <2>3 DEF StackToStore
    <2>. QED BY <2>1, <2>4, <2>a DEF Conservation, Partition
  <1>8. ASSUME NEW t \in Threads, StackToRefused(t) PROVE Conservation'
    <2>1. /\ HeldOn(data') = H \ {data[t]} /\ data[t] \in H
          /\ \A u, v \in Threads : data'[u] = data'[v] /\ data'[u] # 0 => u = v
      BY <1>6, <1>8 DEF StackToRefused
    <2>2. StoredIn(store') = S
      BY <1>8 DEF StackToRefused, S
    <2>b. Partition(1..nputs, H \ {data[t]}, S, got, refused \cup {data[t]})
      BY <1>0, <1>1, <2>1, PartitionMove
    <2>a. Partition(1..nputs', HeldOn(data'), StoredIn(store'), got', refused')
      BY <2>b, <1>1, <1>8, <2>1, <2>2 DEF StackToRefused
    <2>. QED BY <1>0, <1>8, <2>1, <2>a DEF StackToRefused, Conservation, Partition
  <1>9. ASSUME NEW t \in Threads, StackToReader(t) PROVE Conservation'
    <2>1. /\ HeldOn(data') = H \ {data[t]} /\ data[t] \in H
          /\ \A u, v \in Threads : data'[u] = data'[v] /\ data'[u] # 0 => u = v
      BY <1>6, <1>9 DEF StackToReader
    <2>2. StoredIn(store') = S
      BY <1>9 DEF StackToReader, S
    <2>b. Partition(1..nputs, H \ {data[t]}, S, got \cup {data[t]}, refused)
      BY <1>0, <1>1, <2>1, PartitionMove
    <2>a. Partition(1..nputs', HeldOn(data'), StoredIn(store'), got', refused')
      BY <2>b, <1>1, <1>9, <2>1, <2>2 DEF StackToReader
    <2>. QED BY <1>0, <1>9, <2>1, <2>2, <2>a DEF StackToReader, Conservation, Partition
  <1>. QED BY <1>2, <1>3, <1>4, <1>5, <1>7, <1>8, <1>9 DEF Flow

LEMMA InitConservation == Init => Conservation
  <1>. SUFFICES ASSUME Init PROVE Conservation
    OBVIOUS
  <1>1. HeldOn(data) = {} /\ StoredIn(store) = {} /\ 1..nputs = {} /\ Len(store) = 0
    BY DEF Init, HeldOn, StoredIn
  <1>. QED BY <1>1 DEF Init, Conservation

LEMMA SpecConservation == Spec => [](Base /\ Conservation)
  <1>1. Base /\ Conservation /\ [Next]_vars => (Base /\ Conservation)'
    BY NextBase, NextFlow, FlowConservation
  <1>. QED BY <1>1, InitBase, InitConservation, PTL DEF Spec

\* Nothing that is put into the pool is lost or duplicated, by any number of
\* readers and writers, callbacks, timeouts and interrupts: each message is on
\* one writer's stack, in one slot of the storage, returned once, or refused.
THEOREM ConservationCorrect == Spec => []Conservation
  BY SpecConservation, PTL

\* The pool implements MessagePool: every behaviour of dpool_put and dpool_get
\* is one of the abstract pool, whose messages leave it exactly once.
THEOREM PoolRefinement == Spec => ImplementsPool
  <1>1. Init => Pool!Init
    <2>. SUFFICES ASSUME Init PROVE Pool!Init
      OBVIOUS
    <2>1. HeldOn(data) = {} /\ StoredIn(store) = {}
      BY DEF Init, HeldOn, StoredIn
    <2>. QED BY <2>1 DEF Init, Pool!Init
  <1>2. Base /\ Conservation /\ [Next]_vars => [Pool!Next]_(Pool!vars)
    <2>. SUFFICES ASSUME Base, Conservation, Flow PROVE [Pool!Next]_(Pool!vars)
      BY NextFlow
    <2>. DEFINE H == HeldOn(data)  S == StoredIn(store)
    <2>0. /\ data \in [Threads -> 0..MaxPuts] /\ store \in Seq(Messages)
          /\ H \cap S = {}
          /\ \A i, j \in 1..Len(store) : store[i] = store[j] => i = j
          /\ \A t, u \in Threads : data[t] = data[u] /\ data[t] # 0 => t = u
      BY DEF Base, TypeOK, Conservation
    <2>. HIDE DEF H, S
    <2>1. CASE Stay
      BY <2>1 DEF Stay, Pool!vars
    <2>2. CASE NewInStore
      <3>1. StoredIn(store') = S \cup {nputs + 1} /\ HeldOn(data') = H
        BY <2>0, <2>2, StoredAppend DEF NewInStore, H, S
      <3>. QED BY <2>2, <3>1 DEF NewInStore, Pool!Next, Pool!Put, H, S
    <2>3. CASE StoreToReader
      <3>1. /\ StoredIn(store') = S \ {Head(store)} /\ Head(store) \in S
            /\ HeldOn(data') = H
        BY <2>0, <2>3, StoredTail DEF StoreToReader, H, S
      <3>2. (H \cup S) \ {Head(store)} = H \cup (S \ {Head(store)})
        BY <2>0, <3>1
      <3>. QED BY <2>3, <3>1, <3>2 DEF StoreToReader, Pool!Next, Pool!Deliver, H, S
    <2>4. ASSUME NEW t \in Threads, NewOnStack(t) PROVE [Pool!Next]_(Pool!vars)
      <3>2. HeldOn(data') = H \cup {nputs + 1} /\ StoredIn(store') = S
        BY <2>4, HeldAdd DEF NewOnStack, H, S
      <3>. QED BY <2>4, <3>2 DEF NewOnStack, Pool!Next, Pool!Put, H, S
    <2>5. ASSUME NEW t \in Threads, data[t] # 0, data' = [data EXCEPT ![t] = 0]
          PROVE  /\ HeldOn(data') = H \ {data[t]} /\ data[t] \in H /\ data[t] \notin S
                 /\ (H \cup S) \ {data[t]} = (H \ {data[t]}) \cup S
      <3>1. HeldOn(data') = H \ {data[t]} /\ data[t] \in H
        BY <2>0, <2>5, HeldRemove DEF H
      <3>. QED BY <2>0, <3>1
    <2>6. ASSUME NEW t \in Threads, StackToStore(t) PROVE [Pool!Next]_(Pool!vars)
      <3>1. HeldOn(data') = H \ {data[t]} /\ data[t] \in H
        BY <2>5, <2>6 DEF StackToStore
      <3>2. StoredIn(store') = S \cup {data[t]}
        BY <2>0, <2>6, StoredAppend DEF StackToStore, S
      <3>. QED BY <2>6, <3>1, <3>2 DEF StackToStore, Pool!vars, H, S
    <2>7. ASSUME NEW t \in Threads, StackToRefused(t) PROVE [Pool!Next]_(Pool!vars)
      <3>1. /\ HeldOn(data') = H \ {data[t]} /\ data[t] \in H
            /\ (H \cup S) \ {data[t]} = (H \ {data[t]}) \cup S
        BY <2>5, <2>7 DEF StackToRefused
      <3>2. StoredIn(store') = S
        BY <2>7 DEF StackToRefused, S
      <3>. QED BY <2>7, <3>1, <3>2 DEF StackToRefused, Pool!Next, Pool!Drop, H, S
    <2>8. ASSUME NEW t \in Threads, StackToReader(t) PROVE [Pool!Next]_(Pool!vars)
      <3>1. /\ HeldOn(data') = H \ {data[t]} /\ data[t] \in H
            /\ (H \cup S) \ {data[t]} = (H \ {data[t]}) \cup S
        BY <2>5, <2>8 DEF StackToReader
      <3>2. StoredIn(store') = S
        BY <2>8 DEF StackToReader, S
      <3>. QED BY <2>8, <3>1, <3>2 DEF StackToReader, Pool!Next, Pool!Deliver, H, S
    <2>. QED BY <2>1, <2>2, <2>3, <2>4, <2>6, <2>7, <2>8 DEF Flow
  <1>. QED BY <1>1, <1>2, SpecConservation, PTL DEF Spec, ImplementsPool, Pool!Spec

-----------------------------------------------------------------------------
(* The count of blocked readers.                                           *)

\* A step moves at most one thread into or out of the set of blocked readers.
OnlyMoves(t) ==
    \A u \in Threads : u # t => (u \in BlockedReaders' <=> u \in BlockedReaders)

Counted(t) ==
    \/ (t \in BlockedReaders' <=> t \in BlockedReaders) /\ nwaits' = nwaits
    \/ t \notin BlockedReaders /\ t \in BlockedReaders' /\ nwaits' = nwaits + 1
    \/ t \in BlockedReaders /\ t \notin BlockedReaders' /\ nwaits' = nwaits - 1

LEMMA BlockedIsFinite == IsFiniteSet(BlockedReaders) /\ Cardinality(BlockedReaders) \in Nat
  <1>1. BlockedReaders \in SUBSET Threads
    BY DEF BlockedReaders
  <1>2. IsFiniteSet(BlockedReaders)
    BY <1>1, ThreadsAssumption, FS_Subset
  <1>. QED BY <1>2, FS_CardinalityType

LEMMA CountStep ==
  ASSUME NwaitsExact, NEW t \in Threads, OnlyMoves(t), Counted(t)
  PROVE  NwaitsExact'
  <1>. DEFINE B == BlockedReaders  C == BlockedReaders'
  <1>1. B \subseteq Threads /\ C \subseteq Threads
    BY DEF BlockedReaders
  <1>2. IsFiniteSet(B) /\ Cardinality(B) \in Nat /\ nwaits = Cardinality(B)
    BY BlockedIsFinite DEF NwaitsExact
  <1>3. \A u \in Threads : u # t => (u \in C <=> u \in B)
    BY DEF OnlyMoves
  <1>4. NwaitsExact' <=> nwaits' = Cardinality(C)
    BY DEF NwaitsExact
  <1>5. CASE (t \in C <=> t \in B) /\ nwaits' = nwaits
    <2>1. C = B
      BY <1>1, <1>3, <1>5
    <2>. QED BY <1>2, <1>4, <1>5, <2>1
  <1>6. CASE t \notin B /\ t \in C /\ nwaits' = nwaits + 1
    <2>1. C = B \cup {t}
      BY <1>1, <1>3, <1>6
    <2>2. Cardinality(B \cup {t}) = Cardinality(B) + 1
      BY <1>2, <1>6, FS_AddElement
    <2>. QED BY <1>2, <1>4, <1>6, <2>1, <2>2
  <1>7. CASE t \in B /\ t \notin C /\ nwaits' = nwaits - 1
    <2>1. C = B \ {t}
      BY <1>1, <1>3, <1>7
    <2>2. Cardinality(B \ {t}) = Cardinality(B) - 1
      BY <1>2, <1>7, FS_RemoveElement
    <2>. QED BY <1>2, <1>4, <1>7, <2>1, <2>2
  <1>. QED BY <1>5, <1>6, <1>7 DEF Counted

\* Membership, spelled out for the two states of a step.
LEMMA BlockedMember ==
  ASSUME NEW u \in Threads
  PROVE  /\ u \in BlockedReaders <=> (pc[u] \in {"check", "sleep", "woken"} /\ data[u] = 0)
         /\ u \in BlockedReaders' <=> (pc'[u] \in {"check", "sleep", "woken"} /\ data'[u] = 0)
  BY DEF BlockedReaders, Waiting

LEMMA MoveCount ==
  ASSUME Base, NEW t \in Threads, NEW label, NEW m,
         pc' = [pc EXCEPT ![t] = label],
         data' = [data EXCEPT ![t] = m]
  PROVE  /\ OnlyMoves(t)
         /\ t \in BlockedReaders' <=> (label \in {"check", "sleep", "woken"} /\ m = 0)
  <1>1. pc'[t] = label /\ data'[t] = m
    BY DEF Base, TypeOK
  <1>2. \A u \in Threads : u # t => pc'[u] = pc[u] /\ data'[u] = data[u]
    BY DEF Base, TypeOK
  <1>3. OnlyMoves(t)
    BY <1>2, BlockedMember DEF OnlyMoves
  <1>. QED BY <1>1, <1>3, BlockedMember

LEMMA StillCount ==
  ASSUME NwaitsExact, UNCHANGED <<pc, data, nwaits>>
  PROVE  NwaitsExact'
  <1>1. BlockedReaders' = BlockedReaders
    BY DEF BlockedReaders, Waiting
  <1>. QED BY <1>1 DEF NwaitsExact

LEMMA EventCount ==
  ASSUME Base, NwaitsExact, NEW t \in Threads,
         EventCheck(t) \/ EventWake(t) \/ EventTimeout(t)
  PROVE  NwaitsExact'
  <1>1. PICK label \in {"sleep", "woken"} : pc' = [pc EXCEPT ![t] = label]
    BY DEF EventCheck, EventWake, EventTimeout, Consume, Goto
  <1>2. pc[t] \in {"check", "sleep"} /\ data' = data /\ nwaits' = nwaits
    BY DEF EventCheck, EventWake, EventTimeout, poolVars
  <1>3. data' = [data EXCEPT ![t] = data[t]]
    BY <1>2, ExceptSame
  <1>4. OnlyMoves(t)
    BY <1>1, <1>3, MoveCount
  <1>5. pc'[t] = label /\ data'[t] = data[t]
    BY <1>1, <1>2 DEF Base, TypeOK
  <1>6. t \in BlockedReaders' <=> t \in BlockedReaders
    BY <1>2, <1>5, BlockedMember
  <1>7. Counted(t)
    BY <1>2, <1>6 DEF Counted
  <1>. QED BY <1>4, <1>7, CountStep

\* The writers' steps: a writer that waits holds data, so it is never counted.
LEMMA PutCount ==
  ASSUME Base, NwaitsExact, NEW t \in Threads,
         dpool_put(t) \/ PutOnFull(t) \/ PutWoken(t) \/ PutSwitched(t)
  PROVE  NwaitsExact'
  <1>1. ASSUME NEW label \in {"idle", "onfull", "direct", "check"}, NEW m,
               pc' = [pc EXCEPT ![t] = label], data' = [data EXCEPT ![t] = m],
               label = "check" => m # 0, t \notin BlockedReaders, nwaits' = nwaits
        PROVE  NwaitsExact'
    <2>1. OnlyMoves(t)
      BY <1>1, MoveCount
    <2>2. pc'[t] = label /\ data'[t] = m
      BY <1>1 DEF Base, TypeOK
    <2>3. t \notin BlockedReaders'
      BY <1>1, <2>2, BlockedMember
    <2>. QED BY <1>1, <2>1, <2>3, CountStep DEF Counted
  <1>2. ASSUME NEW m, PutData(t, m) \/ Refuse(t), t \notin BlockedReaders, nwaits' = nwaits
        PROVE  NwaitsExact'
    BY <1>1, <1>2 DEF PutData, Refuse, Offer, Keep, Goto
  <1>3. ASSUME NEW m, m # 0, WaitRoom(t, m), t \notin BlockedReaders, nwaits' = nwaits
        PROVE  NwaitsExact'
    BY <1>1, <1>3 DEF WaitRoom, Goto
  <1>4. CASE dpool_put(t)
    <2>1. t \notin BlockedReaders /\ nwaits' = nwaits /\ nputs + 1 # 0
      <3>1. pc[t] = "idle" /\ nwaits' = nwaits /\ nputs + 1 # 0
        BY <1>4 DEF dpool_put, Base, TypeOK
      <3>. QED BY <3>1, BlockedMember
    <2>2. CASE Goto(t, "onfull") /\ data' = [data EXCEPT ![t] = nputs + 1]
      BY <1>1, <2>1, <2>2 DEF Goto
    <2>. QED BY <1>2, <1>3, <1>4, <2>1, <2>2 DEF dpool_put
  <1>5. CASE PutOnFull(t)
    <2>1. t \notin BlockedReaders /\ nwaits' = nwaits
      BY <1>5, BlockedMember DEF PutOnFull
    <2>. QED BY <1>2, <1>5, <2>1 DEF PutOnFull
  <1>6. CASE PutWoken(t)
    <2>1. t \notin BlockedReaders /\ nwaits' = nwaits /\ data[t] # 0
      BY <1>6, BlockedMember DEF PutWoken
    <2>. QED BY <1>2, <1>3, <1>6, <2>1 DEF PutWoken
  <1>7. CASE PutSwitched(t)
    <2>1. t \notin BlockedReaders /\ nwaits' = nwaits /\ pc' = [pc EXCEPT ![t] = "idle"]
      BY <1>7, BlockedMember DEF PutSwitched, Keep, Goto
    <2>2. PICK m : data' = [data EXCEPT ![t] = m]
      BY <1>7, ExceptSame DEF PutSwitched, Keep
    <2>. QED BY <1>1, <2>1, <2>2
  <1>. QED BY <1>4, <1>5, <1>6, <1>7

LEMMA GetCount ==
  ASSUME Base, NwaitsExact, NEW t \in Threads,
         (\E timeout \in 0..1 : dpool_get(t, timeout)) \/ GetOnEmpty(t) \/ GetWoken(t)
  PROVE  NwaitsExact'
  <1>0. nwaits \in Int
    BY DEF Base, TypeOK
  <1>1. ASSUME data[t] = 0, Fetch(t, nwaits), t \notin BlockedReaders
        PROVE  NwaitsExact'
    <2>1. data' = [data EXCEPT ![t] = 0]
      BY <1>1, ExceptSame DEF Fetch
    <2>2. CASE nwaits' = nwaits /\ pc' = [pc EXCEPT ![t] = "idle"]
      <3>1. OnlyMoves(t)
        BY <2>1, <2>2, MoveCount
      <3>2. t \notin BlockedReaders'
        BY <2>1, <2>2, BlockedMember DEF Base, TypeOK
      <3>. QED BY <1>1, <2>2, <3>1, <3>2, CountStep DEF Counted
    <2>3. CASE nwaits' = nwaits + 1 /\ pc' = [pc EXCEPT ![t] = "check"]
      <3>1. OnlyMoves(t) /\ t \in BlockedReaders'
        BY <2>1, <2>3, MoveCount
      <3>. QED BY <1>1, <2>3, <3>1, CountStep DEF Counted
    <2>. QED BY <1>1, <2>2, <2>3 DEF Fetch, Goto
  <1>2. ASSUME NEW label \in {"idle", "onempty"}, pc' = [pc EXCEPT ![t] = label],
               UNCHANGED data, nwaits' = nwaits, t \notin BlockedReaders
        PROVE  NwaitsExact'
    <2>1. data' = [data EXCEPT ![t] = data[t]]
      BY <1>2, ExceptSame
    <2>2. OnlyMoves(t) /\ t \notin BlockedReaders'
      BY <1>2, <2>1, MoveCount
    <2>. QED BY <1>2, <2>2, CountStep DEF Counted
  <1>3. ASSUME NEW timeout \in 0..1, dpool_get(t, timeout) PROVE NwaitsExact'
    <2>1. data[t] = 0 /\ t \notin BlockedReaders
      BY <1>3, BlockedMember DEF dpool_get, Base, HandoffConsistent
    <2>. QED BY <1>1, <1>2, <1>3, <2>1 DEF dpool_get, Goto
  <1>4. CASE GetOnEmpty(t)
    <2>1. data[t] = 0 /\ t \notin BlockedReaders
      BY <1>4, BlockedMember DEF GetOnEmpty, Base, HandoffConsistent
    <2>. QED BY <1>1, <1>2, <1>4, <2>1 DEF GetOnEmpty, Goto
  <1>5. CASE GetWoken(t)
    <2>1. pc[t] = "woken" /\ data[t] = 0 /\ t \in BlockedReaders
      BY <1>5, BlockedMember DEF GetWoken
    <2>2. ASSUME pc' = [pc EXCEPT ![t] = "idle"], UNCHANGED data, nwaits' = nwaits - 1
          PROVE  NwaitsExact'
      <3>1. data' = [data EXCEPT ![t] = data[t]]
        BY <2>2, ExceptSame
      <3>2. OnlyMoves(t) /\ t \notin BlockedReaders'
        BY <2>2, <3>1, MoveCount
      <3>. QED BY <2>1, <2>2, <3>2, CountStep DEF Counted
    <2>3. CASE GiveUp(t)
      BY <2>2, <2>3 DEF GiveUp, Goto
    <2>4. CASE nput # 0 /\ TakeOffer(t)
      <3>1. L \in Threads /\ pc[L] = "direct" /\ L # t
        BY <2>1, <2>4 DEF Base, TypeOK, HandoffConsistent
      <3>2. /\ pc'[t] = "idle" /\ nwaits' = nwaits - 1
            /\ \A u \in Threads : u # t => pc'[u] = pc[u]
            /\ \A u \in Threads : u # L => data'[u] = data[u]
        BY <2>4 DEF TakeOffer, Goto, Base, TypeOK
      <3>3. OnlyMoves(t)
        BY <3>1, <3>2, BlockedMember DEF OnlyMoves
      <3>4. t \notin BlockedReaders'
        BY <3>2, BlockedMember
      <3>. QED BY <2>1, <3>2, <3>3, <3>4, CountStep DEF Counted
    <2>5. CASE Fetch(t, nwaits - 1)
      <3>1. CASE store # <<>>
        BY <2>2, <2>5, <3>1 DEF Fetch, Goto
      <3>2. CASE store = <<>>
        <4>1. /\ pc' = [pc EXCEPT ![t] = "check"] /\ UNCHANGED data
              /\ nwaits' = (nwaits - 1) + 1
          BY <2>5, <3>2 DEF Fetch, Goto
        <4>2. nwaits' = nwaits /\ data' = [data EXCEPT ![t] = 0]
          BY <1>0, <2>1, <4>1, ExceptSame
        <4>3. OnlyMoves(t) /\ t \in BlockedReaders'
          BY <4>1, <4>2, MoveCount
        <4>. QED BY <2>1, <4>2, <4>3, CountStep DEF Counted
      <3>. QED BY <3>1, <3>2
    <2>. QED BY <1>5, <2>3, <2>4, <2>5 DEF GetWoken
  <1>. QED BY <1>3, <1>4, <1>5

LEMMA NextCount == Base /\ NwaitsExact /\ [Next]_vars => NwaitsExact'
  <1>. SUFFICES ASSUME Base, NwaitsExact, [Next]_vars PROVE NwaitsExact'
    OBVIOUS
  <1>1. ASSUME NEW t \in Threads, Step(t) \/ EventTimeout(t) PROVE NwaitsExact'
    BY <1>1, EventCount, PutCount, GetCount DEF Step
  <1>2. ASSUME NEW t \in Writers, dpool_put(t) PROVE NwaitsExact'
    BY <1>2, PutCount DEF Threads
  <1>3. ASSUME NEW t \in Readers, NEW timeout \in 0..1, dpool_get(t, timeout)
        PROVE  NwaitsExact'
    BY <1>3, GetCount DEF Threads
  <1>4. ASSUME NEW m \in Maxes, dpool_max(m) PROVE NwaitsExact'
    BY <1>4, StillCount DEF dpool_max, threadVars
  <1>5. ASSUME NEW cb \in Callbacks, dpool_callbacks(cb) PROVE NwaitsExact'
    BY <1>5, StillCount DEF dpool_callbacks, threadVars
  <1>6. ASSUME NEW t \in Interruptible, thread_set_interrupt(t) PROVE NwaitsExact'
    BY <1>6, StillCount DEF thread_set_interrupt, poolVars
  <1>7. CASE UNCHANGED vars
    BY <1>7, StillCount DEF vars
  <1>. QED BY <1>1, <1>2, <1>3, <1>4, <1>5, <1>6, <1>7 DEF Next

LEMMA InitCount == Init => NwaitsExact
  <1>. SUFFICES ASSUME Init PROVE NwaitsExact
    OBVIOUS
  <1>1. BlockedReaders = {}
    BY DEF Init, BlockedReaders, Waiting
  <1>. QED BY <1>1, FS_EmptySet DEF Init, NwaitsExact

\* dp->nwaits is the number of blocked readers, for any number of threads: the
\* direct hand-over is tried exactly when a reader is there to take the data.
THEOREM NwaitsCorrect == Spec => []NwaitsExact
  <1>1. Base /\ NwaitsExact /\ [Next]_vars => (Base /\ NwaitsExact)'
    BY NextBase, NextCount
  <1>2. Spec => [](Base /\ NwaitsExact)
    BY <1>1, InitBase, InitCount, PTL DEF Spec
  <1>. QED BY <1>2, PTL

-----------------------------------------------------------------------------
(* No wake-up is lost with one reader and no watermark.  The strengthening *)
(* says that then the pool is never full, so that no writer ever waits on  *)
(* the event and takes the reader's signal.                                *)

Wake ==
    /\ max = Unlimited
    /\ \A t \in Threads : Waiting(t) => data[t] = 0 /\ t \in Readers
    /\ \A t \in Threads : pc[t] = "onempty" => t \in Readers
    /\ \A t \in Threads : pc[t] \in {"check", "sleep"} /\ store # <<>> => signalled = 1

LEMMA IntervalCardinality ==
  ASSUME NEW n \in Nat
  PROVE  IsFiniteSet(1..n) /\ Cardinality(1..n) = n
  <1>1. IsFiniteSet(1..n) /\ Cardinality(1..n) = IF 1 > n THEN 0 ELSE n - 1 + 1
    BY FS_Interval
  <1>2. (IF 1 > n THEN 0 ELSE n - 1 + 1) = n
    OBVIOUS
  <1>. QED BY <1>1, <1>2

LEMMA StoreBounded ==
  ASSUME Base, Conservation
  PROVE  Len(store) <= MaxPuts
  <1>1. /\ Len(store) \in Nat /\ store \in [1..Len(store) -> 1..MaxPuts]
        /\ MaxPuts \in Nat
    BY BoundsAssumption DEF Base, TypeOK, Messages
  <1>2. /\ IsFiniteSet(1..Len(store)) /\ Cardinality(1..Len(store)) = Len(store)
        /\ IsFiniteSet(1..MaxPuts) /\ Cardinality(1..MaxPuts) = MaxPuts
    BY <1>1, IntervalCardinality
  <1>3. \A i, j \in 1..Len(store) : store[i] = store[j] => i = j
    BY DEF Conservation
  <1>4. ASSUME MaxPuts < Len(store) PROVE FALSE
    <2>1. \E i, j \in 1..Len(store) : i # j /\ store[i] = store[j]
      BY <1>1, <1>2, <1>4, FS_PigeonHole
    <2>. QED BY <1>3, <2>1
  <1>. QED BY <1>1, <1>4

LEMMA NeverFull ==
  ASSUME Base, Conservation, Wake
  PROVE  ~Full
  BY StoreBounded, BoundsAssumption DEF Full, Wake, Base, TypeOK

LEMMA WakeMember ==
  ASSUME NEW t \in Threads
  PROVE  /\ Waiting(t) <=> pc[t] \in {"check", "sleep", "woken"}
         /\ Waiting(t)' <=> pc'[t] \in {"check", "sleep", "woken"}
  BY DEF Waiting

\* Steps after which thread t does not wait, or waits as a reader with the
\* storage empty, and which leave a signal when they fill the storage.
LEMMA QuietWake ==
  ASSUME Base, Wake, NEW t \in Threads, NEW label,
         pc' = [pc EXCEPT ![t] = label],
         \A u \in Threads : data[u] = 0 => u = t \/ data'[u] = 0,
         max' = max,
         label \in {"check", "sleep", "woken", "onempty"} => t \in Readers,
         label \in {"check", "sleep", "woken"} => data'[t] = 0,
         label \in {"check", "sleep"} => store' = <<>> \/ signalled' = 1,
         store' # <<>> => signalled' = 1 \/ (signalled' = signalled /\ store # <<>>)
  PROVE  Wake'
  <1>1. pc'[t] = label /\ \A u \in Threads : u # t => pc'[u] = pc[u]
    BY DEF Base, TypeOK
  <1>2. ASSUME NEW u \in Threads, Waiting(u)' PROVE data'[u] = 0 /\ u \in Readers
    <2>1. CASE u = t
      BY <1>1, <1>2, <2>1, WakeMember
    <2>2. CASE u # t
      BY <1>1, <1>2, <2>2, WakeMember DEF Wake
    <2>. QED BY <2>1, <2>2
  <1>3. ASSUME NEW u \in Threads, pc'[u] = "onempty" PROVE u \in Readers
    BY <1>1, <1>3 DEF Wake
  <1>4. ASSUME NEW u \in Threads, pc'[u] \in {"check", "sleep"}, store' # <<>>
        PROVE  signalled' = 1
    BY <1>1, <1>4 DEF Wake
  <1>. QED BY <1>2, <1>3, <1>4 DEF Wake

LEMMA EventWakeup ==
  ASSUME Base, Wake, NEW t \in Threads, NEW r, Readers = {r},
         EventCheck(t) \/ EventWake(t) \/ EventTimeout(t)
  PROVE  Wake'
  <1>1. /\ pc[t] \in {"check", "sleep"} /\ t = r /\ data[t] = 0
        /\ UNCHANGED <<store, max, data>>
    BY WakeMember DEF EventCheck, EventWake, EventTimeout, Wake, poolVars
  <1>2. \A u \in Threads : pc[u] \in {"check", "sleep"} => u = t
    BY <1>1, WakeMember DEF Wake
  <1>3. CASE pc' = [pc EXCEPT ![t] = "woken"]
    <2>1. pc'[t] = "woken" /\ \A u \in Threads : u # t => pc'[u] = pc[u]
      BY <1>3 DEF Base, TypeOK
    <2>2. \A u \in Threads : pc'[u] \notin {"check", "sleep"}
      BY <1>2, <2>1
    <2>3. ASSUME NEW u \in Threads, Waiting(u)' PROVE data'[u] = 0 /\ u \in Readers
      BY <1>1, <2>1, <2>3, WakeMember DEF Wake
    <2>4. \A u \in Threads : pc'[u] = "onempty" => u \in Readers
      BY <2>1 DEF Wake
    <2>. QED BY <1>1, <2>2, <2>3, <2>4 DEF Wake
  <1>4. CASE signalled = 0 /\ Goto(t, "sleep") /\ UNCHANGED signalled
    <2>1. store = <<>>
      BY <1>1, <1>4 DEF Wake
    <2>. QED BY <1>1, <1>4, <2>1, QuietWake DEF Goto
  <1>. QED BY <1>3, <1>4 DEF EventCheck, EventWake, EventTimeout, Consume, Goto

LEMMA PutWakeup ==
  ASSUME Base, Conservation, Wake, NEW t \in Threads,
         dpool_put(t) \/ PutOnFull(t) \/ PutWoken(t) \/ PutSwitched(t)
  PROVE  Wake'
  <1>1. ASSUME NEW m, Keep(t, m), UNCHANGED max PROVE Wake'
    <2>1. /\ pc' = [pc EXCEPT ![t] = "idle"]
          /\ \A u \in Threads : data[u] = 0 => u = t \/ data'[u] = 0
          /\ store' # <<>> => signalled' = 1 \/ (signalled' = signalled /\ store # <<>>)
      BY <1>1 DEF Keep, Goto, Base, TypeOK
    <2>. QED BY <1>1, <2>1, QuietWake
  <1>2. ASSUME NEW m, Offer(t, m), UNCHANGED max PROVE Wake'
    <2>1. /\ pc' = [pc EXCEPT ![t] = "direct"] /\ signalled' = 1
          /\ \A u \in Threads : data[u] = 0 => u = t \/ data'[u] = 0
      BY <1>2 DEF Offer, Goto, Base, TypeOK
    <2>. QED BY <1>2, <2>1, QuietWake
  <1>3. ASSUME Refuse(t), UNCHANGED max PROVE Wake'
    <2>1. /\ pc' = [pc EXCEPT ![t] = "idle"] /\ UNCHANGED <<store, signalled>>
          /\ \A u \in Threads : data[u] = 0 => u = t \/ data'[u] = 0
      BY <1>3 DEF Refuse, Goto, Base, TypeOK
    <2>. QED BY <1>3, <2>1, QuietWake
  <1>4. CASE dpool_put(t)
    BY <1>1, <1>2, <1>4, NeverFull DEF dpool_put, PutData
  <1>5. CASE PutOnFull(t)
    BY <1>1, <1>2, <1>3, <1>5 DEF PutOnFull, PutData
  <1>6. CASE PutWoken(t)
    BY <1>6, WakeMember DEF PutWoken, Wake
  <1>7. CASE PutSwitched(t)
    <2>1. CASE nput = 0
      <3>1. pc' = [pc EXCEPT ![t] = "idle"] /\ UNCHANGED <<store, signalled, data, max>>
        BY <1>7, <2>1 DEF PutSwitched, Goto
      <3>. QED BY <3>1, QuietWake
    <2>2. CASE nput # 0
      BY <1>1, <1>7, <2>2 DEF PutSwitched
    <2>. QED BY <2>1, <2>2
  <1>. QED BY <1>4, <1>5, <1>6, <1>7

LEMMA GetWakeup ==
  ASSUME Base, Wake, NEW t \in Threads,
         \/ t \in Readers /\ \E timeout \in 0..1 : dpool_get(t, timeout)
         \/ GetOnEmpty(t) \/ GetWoken(t)
  PROVE  Wake'
  <1>1. ASSUME NEW nw, Fetch(t, nw), data[t] = 0, t \in Readers, UNCHANGED max
        PROVE  Wake'
    <2>1. CASE store # <<>>
      <3>1. /\ pc' = [pc EXCEPT ![t] = "idle"] /\ UNCHANGED data
            /\ signalled' = 1 \/ signalled' = signalled
        BY <1>1, <2>1 DEF Fetch, Goto
      <3>. QED BY <1>1, <2>1, <3>1, QuietWake
    <2>2. CASE store = <<>>
      <3>1. pc' = [pc EXCEPT ![t] = "check"] /\ UNCHANGED <<data, store, signalled>>
        BY <1>1, <2>2 DEF Fetch, Goto
      <3>. QED BY <1>1, <2>2, <3>1, QuietWake
    <2>. QED BY <2>1, <2>2
  <1>2. ASSUME NEW label \in {"idle", "onempty"}, Goto(t, label), t \in Readers,
               UNCHANGED <<store, signalled, data, max>>
        PROVE  Wake'
    BY <1>2, QuietWake DEF Goto
  <1>3. ASSUME NEW timeout \in 0..1, dpool_get(t, timeout), t \in Readers PROVE Wake'
    <2>1. data[t] = 0
      BY <1>3 DEF dpool_get, Base, HandoffConsistent
    <2>. QED BY <1>1, <1>2, <1>3, <2>1 DEF dpool_get
  <1>4. CASE GetOnEmpty(t)
    <2>1. data[t] = 0 /\ t \in Readers
      BY <1>4 DEF GetOnEmpty, Base, HandoffConsistent, Wake
    <2>. QED BY <1>1, <1>2, <1>4, <2>1 DEF GetOnEmpty
  <1>5. CASE GetWoken(t)
    <2>1. data[t] = 0 /\ t \in Readers /\ UNCHANGED max
      BY <1>5, WakeMember DEF GetWoken, Wake
    <2>2. CASE GiveUp(t)
      BY <1>2, <2>1, <2>2 DEF GiveUp
    <2>3. CASE nput # 0 /\ TakeOffer(t)
      <3>1. /\ pc' = [pc EXCEPT ![t] = "idle"] /\ UNCHANGED <<store, signalled>>
            /\ \A u \in Threads : data[u] = 0 => data'[u] = 0
        BY <2>3 DEF TakeOffer, Goto, Base, TypeOK
      <3>. QED BY <2>1, <3>1, QuietWake
    <2>4. CASE Fetch(t, nwaits - 1)
      BY <1>1, <2>1, <2>4
    <2>. QED BY <1>5, <2>2, <2>3, <2>4 DEF GetWoken
  <1>. QED BY <1>3, <1>4, <1>5

LEMMA NextWakeup ==
  ASSUME SoleReader, Base, Conservation, Wake, [Next]_vars
  PROVE  Wake'
  <1>1. IsFiniteSet(Readers)
    <2>1. Readers \in SUBSET Threads
      BY DEF Threads
    <2>. QED BY <2>1, ThreadsAssumption, FS_Subset
  <1>2. PICK r : Readers = {r}
    BY <1>1, FS_Singleton DEF SoleReader
  <1>3. ASSUME NEW t \in Threads, Step(t) \/ EventTimeout(t) PROVE Wake'
    BY <1>2, <1>3, EventWakeup, PutWakeup, GetWakeup DEF Step
  <1>4. ASSUME NEW t \in Writers, dpool_put(t) PROVE Wake'
    BY <1>4, PutWakeup DEF Threads
  <1>5. ASSUME NEW t \in Readers, NEW timeout \in 0..1, dpool_get(t, timeout) PROVE Wake'
    BY <1>5, GetWakeup DEF Threads
  <1>6. ASSUME UNCHANGED <<store, max, signalled, pc, data>> PROVE Wake'
    BY <1>6 DEF Wake, Waiting
  <1>7. ASSUME NEW m \in Maxes, dpool_max(m) PROVE Wake'
    BY <1>7 DEF SoleReader
  <1>8. ASSUME NEW cb \in Callbacks, dpool_callbacks(cb) PROVE Wake'
    BY <1>6, <1>8 DEF dpool_callbacks, threadVars
  <1>9. ASSUME NEW t \in Interruptible, thread_set_interrupt(t) PROVE Wake'
    BY <1>6, <1>9 DEF thread_set_interrupt, poolVars
  <1>10. CASE UNCHANGED vars
    BY <1>6, <1>10 DEF vars
  <1>. QED BY <1>3, <1>4, <1>5, <1>7, <1>8, <1>9, <1>10 DEF Next

\* With one reader and no watermark no wake-up is lost, for any number of writers
\* and any interleaving of hand-overs, fallbacks to the storage, timeouts and
\* interrupts: a reader that sleeps on the event while there is data has a signal.
THEOREM WakeupCorrect == Spec => []NoLostWakeup
  <1>1. Init => (SoleReader => Wake)
    BY DEF Init, Wake, SoleReader, Waiting
  <1>2. Base /\ Conservation /\ (SoleReader => Wake) /\ [Next]_vars => (SoleReader => Wake)'
    <2>1. SoleReader' = SoleReader
      BY DEF SoleReader
    <2>. QED BY <2>1, NextWakeup
  <1>3. (SoleReader => Wake) => NoLostWakeup
    BY DEF Wake, NoLostWakeup, BlockedReaders
  <1>4. Base /\ Conservation /\ [Next]_vars => (Base /\ Conservation)'
    BY NextBase, NextFlow, FlowConservation
  <1>. QED BY <1>1, <1>2, <1>3, <1>4, InitBase, InitConservation, PTL DEF Spec
=============================================================================
