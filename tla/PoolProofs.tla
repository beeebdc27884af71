---------------------------- MODULE PoolProofs ----------------------------
(* Proofs about Pool, for every set of tasks, connections and configurations.*)
EXTENDS Pool, FiniteSetTheorems, SequenceTheorems, TLAPS

(* pop_front and push_back on the idle queue.                                *)
LEMMA PopFacts ==
    ASSUME NEW s \in Seq(Conns), s # <<>>
    PROVE  /\ Head(s) \in Conns /\ Tail(s) \in Seq(Conns)
           /\ Len(s) \in Nat /\ Len(s) > 0 /\ Len(Tail(s)) = Len(s) - 1
           /\ Head(s) = s[1]
           /\ \A i \in 1..(Len(s) - 1) : Tail(s)[i] = s[i + 1]
OBVIOUS

(* What push_back leaves in the queue.                                       *)
LEMMA PushFacts ==
    ASSUME NEW s \in Seq(Conns), NEW c \in Conns
    PROVE  /\ Append(s, c) \in Seq(Conns)
           /\ Len(s) \in Nat /\ Len(Append(s, c)) = Len(s) + 1
           /\ Append(s, c)[Len(s) + 1] = c
           /\ \A i \in 1..Len(s) : Append(s, c)[i] = s[i]
OBVIOUS

(* The positions maintain() keeps, and their number.                         *)
LEMMA KeptFinite ==
    ASSUME NEW s \in Seq(Conns), NEW kept, kept \subseteq 1..Len(s)
    PROVE  Cardinality(kept) \in Nat /\ Cardinality(kept) <= Len(s)
<1>0. Len(s) \in Nat
  OBVIOUS
<1> DEFINE m == Len(s)
<1> HIDE DEF m
<1>1. IsFiniteSet(1..m) /\ Cardinality(1..m) = m
  <2>1. m \in Nat /\ m \in Int /\ 1 \in Int
    BY <1>0 DEF m
  <2>2. IsFiniteSet(1..m) /\ Cardinality(1..m) = IF 1 > m THEN 0 ELSE m - 1 + 1
    BY <2>1, FS_Interval
  <2> QED
    BY <2>1, <2>2
<1>2. IsFiniteSet(kept) /\ Cardinality(kept) <= m
  BY <1>1, FS_Subset DEF m
<1> QED
  BY <1>2, FS_CardinalityType DEF m

(* Pool::new builds a well-typed pool.                                       *)
LEMMA InitTypeOK == Init => TypeOK
<1> SUFFICES ASSUME Init PROVE TypeOK
  OBVIOUS
<1>1. PICK n \in 0..config.min_idle :
         idle \in {s \in [1..n -> Conns] : \A i, j \in 1..n : s[i] = s[j] => i = j}
  BY DEF Init, new
<1>2. config \in PoolConfig
  BY ConfigsAssumption DEF Init, new
<1>3. idle \in Seq(Conns)
  BY <1>1, <1>2 DEF PoolConfig
<1> QED
  BY <1>3 DEF Init, new, TypeOK, Points, TransactionStatus

(* maintain() leaves a queue of connections.                                 *)
LEMMA MaintainIdle ==
    ASSUME TypeOK, NEW t \in Tasks, Maintain(t)
    PROVE  /\ idle' \in Seq(Conns)
           /\ Len(idle') <= Len(idle)
           /\ \E f \in [1..Len(idle') -> 1..Len(idle)] :
                 /\ \A i, j \in 1..Len(idle') : f[i] = f[j] => i = j
                 /\ \A i \in 1..Len(idle') : idle'[i] = idle[f[i]] /\ ~is_expired(idle[f[i]])
<1> DEFINE kept == {i \in 1..Len(idle) : ~is_expired(idle[i])}
           n == Cardinality(kept)
<1>1. idle \in Seq(Conns)
  BY DEF TypeOK
<1>2. n \in Nat /\ n <= Len(idle)
  <2>1. kept \subseteq 1..Len(idle)
    OBVIOUS
  <2> QED
    BY <1>1, <2>1, KeptFinite
<1>3. PICK f \in [1..n -> kept] :
              /\ \A i, j \in 1..n : i < j => f[i] < f[j]
              /\ idle' = [i \in 1..n |-> idle[f[i]]]
  BY DEF Maintain
<1> HIDE DEF n
<1>4. \A i \in 1..n : f[i] \in 1..Len(idle) /\ ~is_expired(idle[f[i]])
  BY <1>3
<1>5. idle' \in Seq(Conns) /\ Len(idle') = n
  BY <1>1, <1>2, <1>3, <1>4
<1>6. \A i, j \in 1..n : f[i] = f[j] => i = j
  <2> SUFFICES ASSUME NEW i \in 1..n, NEW j \in 1..n, f[i] = f[j], i # j PROVE FALSE
    OBVIOUS
  <2>1. i < j \/ j < i
    BY <1>2
  <2> QED
    BY <1>1, <1>2, <1>3, <1>4, <2>1
<1>7. f \in [1..Len(idle') -> 1..Len(idle)]
  BY <1>3, <1>4, <1>5
<1> QED
  BY <1>2, <1>3, <1>4, <1>5, <1>6, <1>7

(* Every step of every task keeps the types.                                 *)
LEMMA TypeOKStep == TypeOK /\ [Next]_vars => TypeOK'
<1> SUFFICES ASSUME TypeOK, [Next]_vars PROVE TypeOK'
  OBVIOUS
<1>c. config \in PoolConfig
  BY ConfigsAssumption DEF TypeOK
<1> USE <1>c DEF TypeOK, inner, connVars, callVars, Points, TransactionStatus, Goto, Hold,
               Finish, Forget, notify_waiters, saturating_sub, PopFront, PushBack
<1>1. CASE UNCHANGED vars
  BY <1>1 DEF vars
<1>2. ASSUME NEW t \in Tasks, TaskStep(t) PROVE TypeOK'
  <2>1. CASE DecideClosed(t) \/ DecideIdle(t) \/ DecideCreate(t) \/ DecideExhausted(t)
    BY <2>1 DEF DecideClosed, DecideIdle, DecideCreate, DecideExhausted, ExhaustedUntimed,
       ExhaustedTimed
  <2>2. CASE DiscardExpired(t) \/ NeedsHealthCheck(t) \/ Ready(t)
    <3>1. PopFront(t)
      BY <2>2 DEF DiscardExpired, NeedsHealthCheck, Ready
    <3>2. idle' \in Seq(Conns) /\ hand' \in [Tasks -> SUBSET Conns]
      <4>1. Head(idle) \in Conns /\ Tail(idle) \in Seq(Conns)
        BY <3>1, PopFacts
      <4> DEFINE h == {Head(idle)}
      <4>2. h \in SUBSET Conns /\ hand' = [hand EXCEPT ![t] = h]
        BY <3>1, <4>1
      <4> HIDE DEF h
      <4>3. hand' \in [Tasks -> SUBSET Conns]
        BY <4>2
      <4> QED
        BY <3>1, <4>1, <4>3
    <3> HIDE DEF PopFront
    <3>3. CASE Ready(t)
      BY <3>2, <3>3 DEF Ready
    <3>4. CASE DiscardExpired(t) \/ NeedsHealthCheck(t)
      BY <3>2, <3>4 DEF DiscardExpired, NeedsHealthCheck
    <3> QED
      BY <2>2, <3>3, <3>4
  <2>3. CASE LostRace(t) \/ PingOk(t) \/ PingErr(t)
    BY <2>3 DEF LostRace, PingOk, PingErr
  <2>4. CASE CreateOk(t)
    BY <2>4 DEF CreateOk, Free
  <2>4b. CASE CreateErr(t) \/ WaitEnds(t)
    BY <2>4b DEF CreateErr, WaitEnds
  <2>5. CASE ResetOk(t) \/ ResetErr(t)
    BY <2>5 DEF ResetOk, ResetErr
  <2>5b. CASE Return(t)
    <3>1. PICK c \in hand[t] : PushBack(c) /\ unclean' = unclean \ {c}
      BY <2>5b DEF Return
    <3>2. idle' \in Seq(Conns)
      BY <3>1, PushFacts
    <3> QED
      BY <2>5b, <3>1, <3>2 DEF Return
  <2>6. CASE MinIdleDecide(t) \/ MinIdleFailed(t)
    BY <2>6 DEF MinIdleDecide, MinIdleFailed
  <2>6b. CASE MinIdleCreated(t)
    <3>1. PICK c \in Free :
          IF closed \/ Len(idle) >= config.min_idle
          THEN /\ Hold(t, {c}) /\ Goto(t, "close_end")
               /\ UNCHANGED <<idle, stale, wake>>
          ELSE PushBack(c) /\ notify_waiters /\ Goto(t, "rest") /\ UNCHANGED hand
      BY <2>6b DEF MinIdleCreated
    <3>2. c \in Conns
      BY DEF Free
    <3>3. CASE Hold(t, {c}) /\ Goto(t, "close_end") /\ UNCHANGED <<idle, stale, wake>>
      BY <2>6b, <3>2, <3>3 DEF MinIdleCreated
    <3>4. CASE PushBack(c) /\ notify_waiters /\ Goto(t, "rest") /\ UNCHANGED hand
      <4>1. idle' \in Seq(Conns)
        BY <3>2, <3>4, PushFacts
      <4> QED
        BY <2>6b, <3>4, <4>1 DEF MinIdleCreated
    <3> QED
      BY <3>1, <3>3, <3>4
  <2>7. CASE CloseConnection(t)
    <3>1. AfterClose(pc[t]) \in Points
      BY DEF AfterClose
    <3> QED
      BY <2>7, <3>1 DEF CloseConnection
  <2> QED
    BY <1>2, <2>1, <2>2, <2>3, <2>4, <2>5, <2>6, <2>7, <2>4b, <2>5b, <2>6b DEF TaskStep
<1>3. ASSUME NEW t \in Tasks, CallerStep(t) PROVE TypeOK'
  <2>1. CASE \E kind \in {"acquire", "acquire_resilient"} : Acquire(t, kind)
    BY <2>1 DEF Acquire
  <2>2. CASE Release(t) \/ detach(t)
    BY <2>2 DEF Release, detach
  <2>2b. CASE DropGuard(t)
    <3>1. CASE hand[t] \cap busy # {} \/ closed
      BY <2>2b, <3>1 DEF DropGuard
    <3>2. CASE ~(hand[t] \cap busy # {} \/ closed)
      <4>1. PICK c \in hand[t] : PushBack(c) /\ unclean' = unclean \cup {c}
        BY <2>2b, <3>2 DEF DropGuard
      <4>2. idle' \in Seq(Conns)
        BY <4>1, PushFacts
      <4> QED
        BY <2>2b, <3>2, <4>1, <4>2 DEF DropGuard
    <3> QED
      BY <3>1, <3>2
  <2>3. CASE UseConnection(t)
    BY <2>3 DEF UseConnection
  <2>4. CASE Close(t)
    BY <2>4 DEF Close, InIdle
  <2>5. CASE Maintain(t)
    <3>1. idle' \in Seq(Conns)
      BY <2>5, MaintainIdle
    <3>2. {c \in InIdle : is_expired(c)} \in SUBSET Conns
      BY DEF InIdle
    <3> QED
      BY <2>5, <3>1, <3>2 DEF Maintain
  <2>6. CASE Cancel(t)
    BY <2>6 DEF Cancel
  <2> QED
    BY <1>3, <2>1, <2>2, <2>3, <2>4, <2>5, <2>6, <2>2b DEF CallerStep
<1>4. CASE Environment
  <2>1. CASE DropPool
    BY <2>1 DEF DropPool
  <2>2. CASE \E c \in Conns : ServerDies(c) \/ LifetimePasses(c) \/ IdleTimePasses(c)
    BY <2>2 DEF ServerDies, LifetimePasses, IdleTimePasses
  <2>3. CASE \E t \in Tasks : DeadlinePasses(t)
    BY <2>3 DEF DeadlinePasses
  <2> QED
    BY <1>4, <2>1, <2>2, <2>3 DEF Environment
<1> QED
  BY <1>1, <1>2, <1>3, <1>4 DEF Next

(* Every value PoolInner, the tasks and the connections take has its type.   *)
THEOREM TypeCorrect == Spec => []TypeOK
<1>1. Init => TypeOK
  BY InitTypeOK
<1>2. TypeOK /\ [Next]_vars => TypeOK'
  BY TypeOKStep
<1> QED
  BY <1>1, <1>2, PTL DEF Spec

-----------------------------------------------------------------------------
(* Pool implements Ownership                                                 *)

(* What a task can own at each program point.                                *)
EmptyHanded == {"rest", "decide", "discard", "check", "ready", "create", "wait",
                "maintain_min_idle", "min_create"}

(* What each task holds, by the step it is at.                               *)
HandShape ==
    \A t \in Tasks :
        /\ pc[t] \in EmptyHanded => hand[t] = {}
        /\ pc[t] \in {"ping", "guard", "reset", "put"} => \E c \in Conns : hand[t] = {c}

(* Every step keeps the number of connections in hand that its point allows. *)
LEMMA HandShapeStep == TypeOK /\ HandShape /\ [Next]_vars => HandShape'
<1> SUFFICES ASSUME TypeOK, HandShape, [Next]_vars PROVE HandShape'
  OBVIOUS
<1> USE DEF TypeOK, HandShape, EmptyHanded, inner, connVars, callVars, Points, Goto, Hold,
            Finish
<1>1. CASE UNCHANGED vars
  BY <1>1 DEF vars
<1>2. ASSUME NEW t \in Tasks, TaskStep(t) PROVE HandShape'
  <2>1. CASE DecideClosed(t) \/ DecideIdle(t) \/ DecideCreate(t) \/ DecideExhausted(t)
    BY <2>1 DEF DecideClosed, DecideIdle, DecideCreate, DecideExhausted, ExhaustedUntimed,
       ExhaustedTimed
  <2>2. CASE DiscardExpired(t) \/ NeedsHealthCheck(t) \/ Ready(t)
    <3>1. PopFront(t)
      BY <2>2 DEF DiscardExpired, NeedsHealthCheck, Ready
    <3>2. Head(idle) \in Conns /\ hand' = [hand EXCEPT ![t] = {Head(idle)}]
      BY <3>1, PopFacts DEF PopFront
    <3> QED
      BY <2>2, <3>2 DEF DiscardExpired, NeedsHealthCheck, Ready
  <2>3. CASE LostRace(t) \/ PingOk(t) \/ PingErr(t)
    BY <2>3 DEF LostRace, PingOk, PingErr
  <2>4. CASE CreateOk(t)
    BY <2>4 DEF CreateOk, Free
  <2>5. CASE CreateErr(t) \/ WaitEnds(t)
    BY <2>5 DEF CreateErr, WaitEnds
  <2>6. CASE ResetOk(t) \/ ResetErr(t) \/ Return(t)
    BY <2>6 DEF ResetOk, ResetErr, Return
  <2>7. CASE MinIdleDecide(t) \/ MinIdleCreated(t) \/ MinIdleFailed(t)
    BY <2>7 DEF MinIdleDecide, MinIdleCreated, MinIdleFailed
  <2>8. CASE CloseConnection(t)
    BY <2>8 DEF CloseConnection, AfterClose
  <2> QED
    BY <1>2, <2>1, <2>2, <2>3, <2>4, <2>5, <2>6, <2>7, <2>8 DEF TaskStep
<1>3. ASSUME NEW t \in Tasks, CallerStep(t) PROVE HandShape'
  <2>1. CASE \E kind \in {"acquire", "acquire_resilient"} : Acquire(t, kind)
    BY <2>1 DEF Acquire
  <2>2. CASE Release(t) \/ DropGuard(t) \/ detach(t) \/ UseConnection(t)
    BY <2>2 DEF Release, DropGuard, detach, UseConnection
  <2>3. CASE Close(t)
    <3>1. idle = <<>> => InIdle = {}
      BY DEF InIdle
    <3> QED
      BY <2>3, <3>1 DEF Close
  <2>4. CASE Maintain(t)
    <3>1. {i \in 1..Len(idle) : ~is_expired(idle[i])} = 1..Len(idle)
             => {c \in InIdle : is_expired(c)} = {}
      BY DEF InIdle
    <3> QED
      BY <2>4, <3>1 DEF Maintain
  <2>5. CASE Cancel(t)
    BY <2>5 DEF Cancel
  <2> QED
    BY <1>3, <2>1, <2>2, <2>3, <2>4, <2>5 DEF CallerStep
<1>4. CASE Environment
  BY <1>4 DEF Environment, DropPool, ServerDies, LifetimePasses, IdleTimePasses,
              DeadlinePasses
<1> QED
  BY <1>1, <1>2, <1>3, <1>4 DEF Next

(* A new pool is an initial state of Ownership.                              *)
LEMMA OwnershipInit == Init => Own!Init
<1> SUFFICES ASSUME Init PROVE Own!Init
  OBVIOUS
<1>1. TypeOK
  BY InitTypeOK
<1>2. PICK n \in 0..config.min_idle :
         idle \in {s \in [1..n -> Conns] : \A i, j \in 1..n : s[i] = s[j] => i = j}
  BY DEF Init, new
<1>3. n \in Nat
  BY <1>1, ConfigsAssumption DEF TypeOK, PoolConfig
<1>4. Len(idle) = n
  BY <1>2, <1>3
<1> QED
  BY <1>1, <1>2, <1>4 DEF Init, TypeOK, Own!Init, Own!NoDuplicates

(* The critical section of maintain() is a Sweep.                            *)
LEMMA MaintainIsSweep ==
    ASSUME TypeOK, HandShape, NEW t \in Tasks, Maintain(t)
    PROVE  Own!Sweep(t)
<1> DEFINE kept == {i \in 1..Len(idle) : ~is_expired(idle[i])}
           n == Cardinality(kept)
<1>1. idle \in Seq(Conns) /\ Len(idle) \in Nat
  BY DEF TypeOK
<1>2. n \in Nat
  <2>1. kept \subseteq 1..Len(idle)
    OBVIOUS
  <2> QED
    BY <1>1, <2>1, KeptFinite
<1>3. PICK f \in [1..n -> kept] :
              /\ \A i, j \in 1..n : i < j => f[i] < f[j]
              /\ idle' = [i \in 1..n |-> idle[f[i]]]
  BY DEF Maintain
<1>4. hand[t] = {} /\ hand' = [hand EXCEPT ![t] = {c \in InIdle : is_expired(c)}]
  BY DEF Maintain, HandShape, EmptyHanded, Hold
<1>5. InIdle \ {idle[f[i]] : i \in 1..n} = {c \in InIdle : is_expired(c)}
  <2>1. \A i \in 1..n : ~is_expired(idle[f[i]])
    BY <1>3
  <2>2. ASSUME NEW k \in kept PROVE \E i \in 1..n : f[i] = k
    <3>1. IsFiniteSet(kept)
      <4>1. kept \subseteq 1..Len(idle) /\ IsFiniteSet(1..Len(idle))
        BY <1>1, FS_Interval
      <4> QED
        BY <4>1, FS_Subset
    <3>2. \A i, j \in 1..n : f[i] = f[j] => i = j
      <4> SUFFICES ASSUME NEW i \in 1..n, NEW j \in 1..n, f[i] = f[j], i # j PROVE FALSE
        OBVIOUS
      <4>1. i < j \/ j < i
        BY <1>2
      <4>2. f[i] \in 1..Len(idle) /\ f[j] \in 1..Len(idle)
        BY <1>3
      <4> QED
        BY <1>1, <1>3, <4>1, <4>2
    <3> DEFINE img == {f[i] : i \in 1..n}
    <3>3. f \in Injection(1..n, img) /\ f \in Surjection(1..n, img)
      BY <1>3, <3>2 DEF Injection, Surjection, IsInjective
    <3>4. f \in Bijection(1..n, img)
      BY <3>3 DEF Bijection
    <3>5. img \subseteq kept /\ IsFiniteSet(img)
      BY <1>3, <3>1, FS_Subset
    <3>6. Cardinality(img) = n
      BY <1>2, <3>4, <3>5, FS_CountingElements DEF ExistsBijection
    <3>7. img = kept
      BY <3>1, <3>5, <3>6, FS_Subset
    <3> QED
      BY <3>7
  <2> QED
    BY <2>1, <2>2 DEF InIdle
<1>6. idle' \in Seq(Conns) /\ Len(idle') = n
  <2>1. \A i \in 1..n : idle[f[i]] \in Conns
    BY <1>1, <1>3
  <2> HIDE DEF n, kept
  <2> QED
    BY <1>2, <1>3, <2>1
<1> HIDE DEF n
<1>7. f \in [1..Len(idle') -> 1..Len(idle)]
  BY <1>3, <1>6
<1>8. /\ \A i, j \in 1..Len(idle') : i < j => f[i] < f[j]
      /\ \A i \in 1..Len(idle') : idle'[i] = idle[f[i]]
  BY <1>3, <1>6
<1>9. Own!Give(t, Own!OnShelf \ {idle[f[i]] : i \in 1..Len(idle')})
  BY <1>4, <1>5, <1>6 DEF Own!Give, Own!OnShelf, InIdle
<1> QED
  BY <1>4, <1>6, <1>7, <1>8, <1>9 DEF Own!Sweep

(* Every step of the pool is a step of Ownership or changes no ownership.    *)
LEMMA OwnershipStep ==
    TypeOK /\ HandShape /\ [Next]_vars => [Own!Next]_(Own!vars)
<1> SUFFICES ASSUME TypeOK, HandShape, [Next]_vars PROVE Own!Next \/ UNCHANGED Own!vars
  OBVIOUS
<1> USE DEF Own!vars, inner, Hold, Own!Give
<1>f. Own!Fresh = Free
  BY DEF Own!Fresh, Own!OnShelf, Free, Open, InIdle
<1>h. ASSUME NEW t \in Tasks PROVE hand[t] \in SUBSET Conns
  BY DEF TypeOK
<1>1. CASE UNCHANGED vars
  BY <1>1 DEF vars
<1>2. ASSUME NEW t \in Tasks, TaskStep(t) PROVE Own!Next \/ UNCHANGED Own!vars
  <2>1. CASE DecideClosed(t) \/ DecideIdle(t) \/ DecideCreate(t) \/ DecideExhausted(t)
    BY <2>1 DEF DecideClosed, DecideIdle, DecideCreate, DecideExhausted, ExhaustedUntimed,
       ExhaustedTimed
  <2>2. CASE DiscardExpired(t) \/ NeedsHealthCheck(t) \/ Ready(t)
    <3>1. PopFront(t) /\ hand[t] = {}
      BY <2>2 DEF DiscardExpired, NeedsHealthCheck, Ready, HandShape, EmptyHanded
    <3>2. Own!Take(t)
      BY <3>1 DEF PopFront, Own!Take
    <3> QED
      BY <3>2 DEF Own!Next
  <2>3. CASE LostRace(t) \/ PingOk(t) \/ PingErr(t) \/ CreateErr(t) \/ WaitEnds(t)
    BY <2>3 DEF LostRace, PingOk, PingErr, CreateErr, WaitEnds
  <2>4. CASE CreateOk(t)
    <3>1. Own!Establish(t)
      BY <2>4, <1>f DEF CreateOk, Own!Establish, HandShape, EmptyHanded
    <3> QED
      BY <3>1 DEF Own!Next
  <2>5. CASE ResetOk(t) \/ ResetErr(t)
    BY <2>5 DEF ResetOk, ResetErr
  <2>6. CASE Return(t)
    <3>1. Own!GiveBack(t)
      BY <2>6 DEF Return, PushBack, HandShape, Own!GiveBack
    <3> QED
      BY <3>1 DEF Own!Next
  <2>7. CASE MinIdleDecide(t) \/ MinIdleFailed(t)
    BY <2>7 DEF MinIdleDecide, MinIdleFailed
  <2>8. CASE MinIdleCreated(t)
    <3>1. Own!Establish(t) \/ Own!Stock
      BY <2>8, <1>f DEF MinIdleCreated, PushBack, Own!Establish, Own!Stock, HandShape,
                        EmptyHanded
    <3> QED
      BY <3>1 DEF Own!Next
  <2>9. CASE CloseConnection(t)
    <3>1. PICK c \in hand[t] : Hold(t, hand[t] \ {c})
      BY <2>9 DEF CloseConnection
    <3>2. Own!Dispose(t)
      BY <2>9, <3>1 DEF CloseConnection, Own!Dispose
    <3> QED
      BY <3>2 DEF Own!Next
  <2> QED
    BY <1>2, <2>1, <2>2, <2>3, <2>4, <2>5, <2>6, <2>7, <2>8, <2>9 DEF TaskStep
<1>3. ASSUME NEW t \in Tasks, CallerStep(t) PROVE Own!Next \/ UNCHANGED Own!vars
  <2>1. CASE \E kind \in {"acquire", "acquire_resilient"} : Acquire(t, kind)
    BY <2>1 DEF Acquire
  <2>2. CASE Release(t) \/ UseConnection(t)
    BY <2>2 DEF Release, UseConnection
  <2>3. CASE DropGuard(t)
    <3>1. CASE hand[t] \cap busy # {} \/ closed
      <4>1. Own!Dispose(t)
        BY <2>3, <3>1 DEF DropGuard, Own!Dispose
      <4> QED
        BY <4>1 DEF Own!Next
    <3>2. CASE ~(hand[t] \cap busy # {} \/ closed)
      <4>1. Own!GiveBack(t)
        BY <2>3, <3>2 DEF DropGuard, PushBack, HandShape, Own!GiveBack
      <4> QED
        BY <4>1 DEF Own!Next
    <3> QED
      BY <3>1, <3>2
  <2>4. CASE detach(t) \/ Cancel(t)
    <3>1. Own!Dispose(t)
      BY <2>4 DEF detach, Cancel, Own!Dispose
    <3> QED
      BY <3>1 DEF Own!Next
  <2>5. CASE Close(t)
    <3>1. idle' = <<>> /\ hand[t] = {} /\ hand' = [hand EXCEPT ![t] = InIdle]
      BY <2>5 DEF Close, HandShape, EmptyHanded
    <3>2. idle' \in Seq(Conns) /\ Len(idle') = 0
      BY <3>1
    <3> DEFINE f == [i \in 1..Len(idle') |-> i]
    <3>3. f \in [1..Len(idle') -> 1..Len(idle)]
      BY <3>2
    <3>4. /\ \A i, j \in 1..Len(idle') : i < j => f[i] < f[j]
          /\ \A i \in 1..Len(idle') : idle'[i] = idle[f[i]]
      BY <3>2
    <3>5. Own!OnShelf \ {idle[f[i]] : i \in 1..Len(idle')} = InIdle
      BY <3>2 DEF Own!OnShelf, InIdle
    <3> HIDE DEF f
    <3>6. Own!Sweep(t)
      BY <3>1, <3>2, <3>3, <3>4, <3>5 DEF Own!Sweep
    <3> QED
      BY <3>6 DEF Own!Next
  <2>6. CASE Maintain(t)
    BY <2>6, MaintainIsSweep DEF Own!Next
  <2> QED
    BY <1>3, <2>1, <2>2, <2>3, <2>4, <2>5, <2>6 DEF CallerStep
<1>4. CASE Environment
  <2>1. CASE DropPool
    BY <2>1 DEF DropPool, Own!Next, Own!Scrap
  <2>2. CASE ~DropPool
    BY <1>4, <2>2 DEF Environment, ServerDies, LifetimePasses, IdleTimePasses, DeadlinePasses
  <2> QED
    BY <2>1, <2>2
<1> QED
  BY <1>1, <1>2, <1>3, <1>4 DEF Next

(* The pool implements Ownership: every step of every task, with all its     *)
(* races and cancellations, is a step of the abstract specification.         *)
THEOREM PoolImplementsOwnership == Spec => ImplementsOwnership
<1>1. Init => HandShape
  BY DEF Init, HandShape, EmptyHanded
<1>2. TypeOK /\ HandShape /\ [Next]_vars => HandShape'
  BY HandShapeStep
<1>3. Spec => []HandShape
  BY <1>1, <1>2, TypeCorrect, PTL DEF Spec
<1>4. Init => Own!Init
  BY OwnershipInit
<1>5. TypeOK /\ HandShape /\ [Next]_vars => [Own!Next]_(Own!vars)
  BY OwnershipStep
<1> QED
  BY <1>3, <1>4, <1>5, TypeCorrect, PTL DEF Spec, ImplementsOwnership, Own!Spec

(* The proofs of the abstract specification, under the refinement mapping.   *)
OwnProofs == INSTANCE OwnershipProofs WITH shelf <- idle

(* What the exclusiveness of Ownership says of idle and hand.                *)
SingleOwner ==
    /\ \A i, j \in 1..Len(idle) : idle[i] = idle[j] => i = j
    /\ \A t \in Tasks : hand[t] \cap InIdle = {}
    /\ \A t, u \in Tasks : t # u => hand[t] \cap hand[u] = {}

(* The pool inherits it: no connection is ever held by two tasks, waits      *)
(* twice in idle, or waits there while a task still holds it.                *)
LEMMA PoolSingleOwner == Spec => []SingleOwner
<1>1. Init => OwnProofs!Init
  BY OwnershipInit DEF Own!Init, Own!NoDuplicates, OwnProofs!Init, OwnProofs!NoDuplicates
<1>2. [Own!Next]_(Own!vars) => [OwnProofs!Next]_(OwnProofs!vars)
  BY DEF Own!Next, Own!vars, Own!Take, Own!Establish, Own!GiveBack, Own!Stock, Own!Dispose,
         Own!Sweep, Own!Scrap, Own!Give, Own!Fresh, Own!OnShelf,
         OwnProofs!Next, OwnProofs!vars, OwnProofs!Take, OwnProofs!Establish,
         OwnProofs!GiveBack, OwnProofs!Stock, OwnProofs!Dispose, OwnProofs!Sweep,
         OwnProofs!Scrap, OwnProofs!Give, OwnProofs!Fresh, OwnProofs!OnShelf
<1>3. OwnProofs!Exclusive => SingleOwner
  BY DEF OwnProofs!Exclusive, OwnProofs!NoDuplicates, OwnProofs!OnShelf, SingleOwner, InIdle
<1> QED
  BY <1>1, <1>2, <1>3, PoolImplementsOwnership, OwnProofs!OwnershipIsExclusive, PTL
     DEF Spec, ImplementsOwnership, Own!Spec, OwnProofs!Spec

-----------------------------------------------------------------------------
(* Counting tasks by program point                                           *)

(* Finitely many tasks are at any program point.                             *)
LEMMA AtFinite ==
    ASSUME NEW S
    PROVE  /\ IsFiniteSet(At(S)) /\ Cardinality(At(S)) \in Nat
           /\ IsFiniteSet(At(S)') /\ Cardinality(At(S)') \in Nat
<1>1. At(S) \subseteq Tasks /\ At(S)' \subseteq Tasks
  BY DEF At
<1>2. IsFiniteSet(At(S)) /\ IsFiniteSet(At(S)')
  BY <1>1, TasksAssumption, FS_Subset
<1> QED
  BY <1>2, FS_CardinalityType

(* One task moves: the number of tasks at the points S changes by what that  *)
(* task contributes.                                                         *)
LEMMA CountMove ==
    ASSUME TypeOK, NEW t \in Tasks, NEW x, pc' = [pc EXCEPT ![t] = x], NEW S
    PROVE  /\ pc[t] \in S /\ x \in S => Cardinality(At(S)') = Cardinality(At(S))
           /\ pc[t] \notin S /\ x \notin S => Cardinality(At(S)') = Cardinality(At(S))
           /\ pc[t] \in S /\ x \notin S => Cardinality(At(S)') = Cardinality(At(S)) - 1
           /\ pc[t] \notin S /\ x \in S => Cardinality(At(S)') = Cardinality(At(S)) + 1
<1>1. \A u \in Tasks : pc'[u] = IF u = t THEN x ELSE pc[u]
  BY DEF TypeOK
<1>2. pc[t] \in S /\ x \in S => At(S)' = At(S)
  BY <1>1 DEF At
<1>3. pc[t] \notin S /\ x \notin S => At(S)' = At(S)
  BY <1>1 DEF At
<1>4. pc[t] \in S /\ x \notin S => At(S)' = At(S) \ {t} /\ t \in At(S)
  BY <1>1 DEF At
<1>5. pc[t] \notin S /\ x \in S => At(S)' = At(S) \cup {t} /\ t \notin At(S)
  BY <1>1 DEF At
<1>6. /\ Cardinality(At(S) \ {t}) = IF t \in At(S) THEN Cardinality(At(S)) - 1
                                   ELSE Cardinality(At(S))
      /\ Cardinality(At(S) \cup {t}) = IF t \in At(S) THEN Cardinality(At(S))
                                       ELSE Cardinality(At(S)) + 1
  BY AtFinite, FS_AddElement, FS_RemoveElement
<1> QED
  BY <1>2, <1>3, <1>4, <1>5, <1>6

(* A task that is at a counted point is counted.                             *)
LEMMA CountPositive ==
    ASSUME NEW t \in Tasks, NEW S, pc[t] \in S
    PROVE  Cardinality(At(S)) >= 1
<1>1. t \in At(S)
  BY DEF At
<1>2. IsFiniteSet(At(S)) /\ Cardinality(At(S)) \in Nat
  BY AtFinite
<1>3. Cardinality(At(S)) # 0
  BY <1>1, <1>2, FS_EmptySet
<1> QED
  BY <1>2, <1>3

-----------------------------------------------------------------------------
(* The counters miss nothing                                                 *)

(* A task at "guard" or inside a connect is in the counter it will decrement.*)
LEMMA CountsPositive ==
    ASSUME TypeOK, NothingUncounted, NEW t \in Tasks
    PROVE  /\ pc[t] = "guard" => /\ saturating_sub(active_count) = active_count - 1
                                 /\ active_count >= 1
           /\ pc[t] \in {"create", "min_create"} =>
                 /\ saturating_sub(pending_count) = pending_count - 1
                 /\ pending_count >= 1
<1>1. pc[t] = "guard" => Cardinality(At({"guard"})) >= 1
  BY CountPositive
<1>2. pc[t] \in {"create", "min_create"} => Cardinality(At({"create", "min_create"})) >= 1
  BY CountPositive
<1>3. Cardinality(At({"create", "min_create"})) \in Nat /\ Cardinality(At({"guard"})) \in Nat
  BY AtFinite
<1> QED
  BY <1>1, <1>2, <1>3 DEF NothingUncounted, TypeOK, saturating_sub

(* If the counters move as the task does, or d above that, they miss nothing.*)
LEMMA CountsFollow ==
    ASSUME TypeOK, NothingUncounted, NEW t \in Tasks, NEW x, pc' = [pc EXCEPT ![t] = x],
           active_count' = active_count + (IF x = "guard" THEN 1 ELSE 0)
                                        - (IF pc[t] = "guard" THEN 1 ELSE 0),
           NEW d \in Nat,
           pending_count' = pending_count + d
                              + (IF x \in {"create", "min_create"} THEN 1 ELSE 0)
                              - (IF pc[t] \in {"create", "min_create"} THEN 1 ELSE 0)
    PROVE  NothingUncounted'
<1> DEFINE G == {"guard"}
           C == {"create", "min_create"}
           g == Cardinality(At(G))
           h == Cardinality(At(C))
           gp == Cardinality(At(G)')
           hp == Cardinality(At(C)')
<1>1. /\ pc[t] \in G /\ x \in G => gp = g
      /\ pc[t] \notin G /\ x \notin G => gp = g
      /\ pc[t] \in G /\ x \notin G => gp = g - 1
      /\ pc[t] \notin G /\ x \in G => gp = g + 1
  BY CountMove
<1>2. /\ pc[t] \in C /\ x \in C => hp = h
      /\ pc[t] \notin C /\ x \notin C => hp = h
      /\ pc[t] \in C /\ x \notin C => hp = h - 1
      /\ pc[t] \notin C /\ x \in C => hp = h + 1
  BY CountMove
<1>3. g \in Nat /\ h \in Nat /\ gp \in Nat /\ hp \in Nat
  BY AtFinite
<1>4. active_count = g /\ pending_count >= h /\ pending_count \in Nat
  BY DEF NothingUncounted, TypeOK
<1>5. NothingUncounted' <=> active_count' = gp /\ pending_count' >= hp
  BY DEF NothingUncounted
<1>6. /\ active_count' = active_count + (IF x \in G THEN 1 ELSE 0) - (IF pc[t] \in G THEN 1 ELSE 0)
      /\ pending_count' = pending_count + d + (IF x \in C THEN 1 ELSE 0)
                                           - (IF pc[t] \in C THEN 1 ELSE 0)
  OBVIOUS
<1> HIDE DEF G, C, g, h, gp, hp
<1>7. active_count' = gp
  BY <1>1, <1>3, <1>4, <1>6
<1>8. pending_count' >= hp
  BY <1>2, <1>3, <1>4, <1>6
<1> QED
  BY <1>5, <1>7, <1>8

(* Every step moves the counters with the tasks they count.                  *)
LEMMA CountsStep == TypeOK /\ NothingUncounted /\ [Next]_vars => NothingUncounted'
<1> SUFFICES ASSUME TypeOK, NothingUncounted, [Next]_vars PROVE NothingUncounted'
  OBVIOUS
<1>t. active_count \in Nat /\ pending_count \in Nat
  BY DEF TypeOK
<1>u. ASSUME UNCHANGED <<pc, active_count, pending_count>> PROVE NothingUncounted'
  BY <1>u DEF NothingUncounted, At
<1>n. ASSUME NEW t \in Tasks, NEW x, pc' = [pc EXCEPT ![t] = x],
             x \notin {"guard", "create", "min_create"},
             pc[t] \notin {"guard", "create", "min_create"},
             UNCHANGED <<active_count, pending_count>>
      PROVE  NothingUncounted'
  <2>1. active_count' = active_count + (IF x = "guard" THEN 1 ELSE 0)
                                     - (IF pc[t] = "guard" THEN 1 ELSE 0)
    BY <1>n, <1>t
  <2>3. pending_count' = pending_count + 0
                           + (IF x \in {"create", "min_create"} THEN 1 ELSE 0)
                           - (IF pc[t] \in {"create", "min_create"} THEN 1 ELSE 0)
    BY <1>n, <1>t
  <2> QED
    BY <1>n, <2>1, <2>3, CountsFollow
<1>e. ASSUME NEW t \in Tasks, pc' = [pc EXCEPT ![t] = "guard"],
             pc[t] \notin {"guard", "create", "min_create"},
             active_count' = active_count + 1, UNCHANGED pending_count
      PROVE  NothingUncounted'
  <2>1. active_count' = active_count + (IF "guard" = "guard" THEN 1 ELSE 0)
                                     - (IF pc[t] = "guard" THEN 1 ELSE 0)
    BY <1>e, <1>t
  <2>3. pending_count' = pending_count + 0
                           + (IF "guard" \in {"create", "min_create"} THEN 1 ELSE 0)
                           - (IF pc[t] \in {"create", "min_create"} THEN 1 ELSE 0)
    BY <1>e, <1>t
  <2> QED
    BY <1>e, <2>1, <2>3, CountsFollow
<1>l. ASSUME NEW t \in Tasks, NEW x, pc' = [pc EXCEPT ![t] = x],
             x \notin {"guard", "create", "min_create"}, pc[t] = "guard",
             active_count' = saturating_sub(active_count),
             UNCHANGED pending_count
      PROVE  NothingUncounted'
  <2>1. active_count' = active_count + (IF x = "guard" THEN 1 ELSE 0)
                                     - (IF pc[t] = "guard" THEN 1 ELSE 0)
    BY <1>l, <1>t, CountsPositive
  <2>3. pending_count' = pending_count + 0
                           + (IF x \in {"create", "min_create"} THEN 1 ELSE 0)
                           - (IF pc[t] \in {"create", "min_create"} THEN 1 ELSE 0)
    BY <1>l, <1>t, CountsPositive
  <2> QED
    BY <1>l, <2>1, <2>3, CountsFollow
<1>p. ASSUME NEW t \in Tasks, NEW x \in {"create", "min_create"}, pc' = [pc EXCEPT ![t] = x],
             pc[t] \notin {"guard", "create", "min_create"},
             pending_count' = pending_count + 1, UNCHANGED active_count
      PROVE  NothingUncounted'
  <2>1. active_count' = active_count + (IF x = "guard" THEN 1 ELSE 0)
                                     - (IF pc[t] = "guard" THEN 1 ELSE 0)
    BY <1>p, <1>t
  <2>3. pending_count' = pending_count + 0
                           + (IF x \in {"create", "min_create"} THEN 1 ELSE 0)
                           - (IF pc[t] \in {"create", "min_create"} THEN 1 ELSE 0)
    BY <1>p, <1>t
  <2> QED
    BY <1>p, <2>1, <2>3, CountsFollow
<1>q. ASSUME NEW t \in Tasks, NEW x, pc' = [pc EXCEPT ![t] = x],
             x \notin {"guard", "create", "min_create"}, pc[t] \in {"create", "min_create"},
             pending_count' = saturating_sub(pending_count),
             UNCHANGED active_count
      PROVE  NothingUncounted'
  <2>1. active_count' = active_count + (IF x = "guard" THEN 1 ELSE 0)
                                     - (IF pc[t] = "guard" THEN 1 ELSE 0)
    BY <1>q, <1>t, CountsPositive
  <2>3. pending_count' = pending_count + 0
                           + (IF x \in {"create", "min_create"} THEN 1 ELSE 0)
                           - (IF pc[t] \in {"create", "min_create"} THEN 1 ELSE 0)
    BY <1>q, <1>t, CountsPositive
  <2> QED
    BY <1>q, <2>1, <2>3, CountsFollow
<1> USE DEF inner, Goto, Finish
<1>1. CASE UNCHANGED vars
  BY <1>1, <1>u DEF vars
<1>2. ASSUME NEW t \in Tasks, TaskStep(t) PROVE NothingUncounted'
  <2>1. CASE DecideClosed(t) \/ DecideIdle(t)
    BY <2>1, <1>n DEF DecideClosed, DecideIdle
  <2>2. CASE DecideCreate(t)
    BY <2>2, <1>p DEF DecideCreate
  <2>3. CASE DecideExhausted(t)
    BY <2>3, <1>n, <1>u DEF DecideExhausted, ExhaustedUntimed, ExhaustedTimed
  <2>4. CASE DiscardExpired(t) \/ NeedsHealthCheck(t) \/ LostRace(t) \/ PingErr(t)
    BY <2>4, <1>n DEF DiscardExpired, NeedsHealthCheck, LostRace, PingErr
  <2>5. CASE Ready(t) \/ PingOk(t)
    BY <2>5, <1>e DEF Ready, PingOk
  <2>6. CASE CreateOk(t)
    <3>1. CASE closed
      BY <2>6, <3>1, <1>q DEF CreateOk
    <3>2. CASE ~closed
      BY <2>6, <3>2, <1>t, CountsPositive, CountsFollow DEF CreateOk
    <3> QED
      BY <3>1, <3>2
  <2>7. CASE CreateErr(t) \/ MinIdleFailed(t)
    BY <2>7, <1>q DEF CreateErr, MinIdleFailed
  <2>8. CASE WaitEnds(t) \/ Return(t) \/ ResetErr(t)
    BY <2>8, <1>n DEF WaitEnds, Return, ResetErr
  <2>9. CASE ResetOk(t)
    BY <2>9, <1>n DEF ResetOk
  <2>10. CASE MinIdleDecide(t)
    <3>1. CASE closed \/ Len(idle) + pending_count >= config.min_idle
      BY <2>10, <3>1, <1>n DEF MinIdleDecide
    <3>2. CASE ~(closed \/ Len(idle) + pending_count >= config.min_idle)
      BY <2>10, <3>2, <1>p DEF MinIdleDecide
    <3> QED
      BY <3>1, <3>2
  <2>11. CASE MinIdleCreated(t)
    BY <2>11, <1>q DEF MinIdleCreated
  <2>12. CASE CloseConnection(t)
    <3>1. AfterClose(pc[t]) \notin {"guard", "create", "min_create"}
      BY DEF AfterClose
    <3> QED
      BY <2>12, <3>1, <1>n DEF CloseConnection
  <2> QED
    BY <1>2, <2>1, <2>2, <2>3, <2>4, <2>5, <2>6, <2>7, <2>8, <2>9, <2>10, <2>11, <2>12
       DEF TaskStep
<1>3. ASSUME NEW t \in Tasks, CallerStep(t) PROVE NothingUncounted'
  <2>1. CASE \E kind \in {"acquire", "acquire_resilient"} : Acquire(t, kind)
    BY <2>1, <1>n DEF Acquire
  <2>2. CASE Release(t) \/ DropGuard(t) \/ detach(t)
    BY <2>2, <1>l DEF Release, DropGuard, detach
  <2>3. CASE UseConnection(t)
    BY <2>3, <1>u DEF UseConnection
  <2>4. CASE Close(t) \/ Maintain(t)
    BY <2>4, <1>n DEF Close, Maintain
  <2>5. CASE Cancel(t)
    <3>1. CASE pc[t] \in {"create", "min_create"}
      <4>0. /\ pc' = [pc EXCEPT ![t] = "rest"]
            /\ UNCHANGED <<active_count, pending_count>>
        BY <2>5, <3>1 DEF Cancel
      <4>1. active_count' = active_count + (IF "rest" = "guard" THEN 1 ELSE 0)
                                         - (IF pc[t] = "guard" THEN 1 ELSE 0)
        BY <4>0, <3>1, <1>t
      <4>3. pending_count' = pending_count + 1
                               + (IF "rest" \in {"create", "min_create"} THEN 1 ELSE 0)
                               - (IF pc[t] \in {"create", "min_create"} THEN 1 ELSE 0)
        BY <4>0, <3>1, <1>t
      <4> QED
        BY <4>0, <4>1, <4>3, CountsFollow
    <3>2. CASE pc[t] \notin {"create", "min_create"}
      BY <2>5, <3>2, <1>n DEF Cancel, AwaitPoints
    <3> QED
      BY <3>1, <3>2
  <2> QED
    BY <1>3, <2>1, <2>2, <2>3, <2>4, <2>5 DEF CallerStep
<1>4. CASE Environment
  BY <1>4, <1>u DEF Environment, DropPool, ServerDies, LifetimePasses, IdleTimePasses,
                    DeadlinePasses
<1> QED
  BY <1>1, <1>2, <1>3, <1>4 DEF Next

(* At every step of every task active_count is the number of guards, and     *)
(* pending_count not below the number of connects under way, so no           *)
(* saturating_sub in core.rs or guard.rs hides a lost update.                *)
THEOREM PoolNothingUncounted == Spec => []NothingUncounted
<1>1. Init => NothingUncounted
  <2> SUFFICES ASSUME Init PROVE NothingUncounted
    OBVIOUS
  <2>1. At({"guard"}) = {} /\ At({"create", "min_create"}) = {}
    BY DEF Init, At
  <2>2. Cardinality({}) = 0
    BY FS_EmptySet
  <2>3. active_count = 0 /\ pending_count = 0
    BY DEF Init, new
  <2> QED
    BY <2>1, <2>2, <2>3 DEF NothingUncounted
<1>2. TypeOK /\ NothingUncounted /\ [Next]_vars => NothingUncounted'
  BY CountsStep
<1> QED
  BY <1>1, <1>2, TypeCorrect, PTL DEF Spec

-----------------------------------------------------------------------------
(* No guard after close                                                      *)

(* close() is final, and an acquire that began after it only gets as far as  *)
(* its first decision.                                                       *)
LateCallStuck ==
    \A t \in lateCall : closed /\ pc[t] \in {"rest", "decide", "close_end"}

(* A call begun after close() stays where it cannot get a connection.        *)
LEMMA LateCallStep == TypeOK /\ LateCallStuck /\ [Next]_vars => LateCallStuck'
<1> SUFFICES ASSUME TypeOK, LateCallStuck, [Next]_vars PROVE LateCallStuck'
  OBVIOUS
<1> USE DEF TypeOK, LateCallStuck, inner, callVars, Goto, Finish
<1>1. CASE UNCHANGED vars
  BY <1>1 DEF vars
<1>2. ASSUME NEW t \in Tasks, TaskStep(t) PROVE LateCallStuck'
  <2>1. CASE DecideClosed(t) \/ DecideIdle(t) \/ DecideCreate(t) \/ DecideExhausted(t)
    BY <2>1 DEF DecideClosed, DecideIdle, DecideCreate, DecideExhausted, ExhaustedUntimed,
       ExhaustedTimed
  <2>2. CASE DiscardExpired(t) \/ NeedsHealthCheck(t) \/ Ready(t) \/ LostRace(t)
    BY <2>2 DEF DiscardExpired, NeedsHealthCheck, Ready, LostRace
  <2>3. CASE PingOk(t) \/ PingErr(t) \/ CreateOk(t) \/ CreateErr(t) \/ WaitEnds(t)
    BY <2>3 DEF PingOk, PingErr, CreateOk, CreateErr, WaitEnds
  <2>4. CASE ResetOk(t) \/ ResetErr(t) \/ Return(t)
    BY <2>4 DEF ResetOk, ResetErr, Return
  <2>5. CASE MinIdleDecide(t) \/ MinIdleCreated(t) \/ MinIdleFailed(t)
    BY <2>5 DEF MinIdleDecide, MinIdleCreated, MinIdleFailed
  <2>6. CASE CloseConnection(t)
    BY <2>6 DEF CloseConnection, AfterClose
  <2> QED
    BY <1>2, <2>1, <2>2, <2>3, <2>4, <2>5, <2>6 DEF TaskStep
<1>3. ASSUME NEW t \in Tasks, CallerStep(t) PROVE LateCallStuck'
  <2>1. CASE \E kind \in {"acquire", "acquire_resilient"} : Acquire(t, kind)
    BY <2>1 DEF Acquire
  <2>2. CASE Release(t) \/ DropGuard(t) \/ detach(t) \/ UseConnection(t)
    BY <2>2 DEF Release, DropGuard, detach, UseConnection
  <2>3. CASE Close(t) \/ Maintain(t) \/ Cancel(t)
    BY <2>3 DEF Close, Maintain, Cancel
  <2> QED
    BY <1>3, <2>1, <2>2, <2>3 DEF CallerStep
<1>4. CASE Environment
  BY <1>4 DEF Environment, DropPool, ServerDies, LifetimePasses, IdleTimePasses,
              DeadlinePasses
<1> QED
  BY <1>1, <1>2, <1>3, <1>4 DEF Next

(* An acquire called after close() never returns a guard.                    *)
THEOREM PoolNoGuardAfterClose == Spec => []NoGuardAfterClose
<1>1. Init => LateCallStuck
  BY DEF Init, LateCallStuck
<1>2. TypeOK /\ LateCallStuck /\ [Next]_vars => LateCallStuck'
  BY LateCallStep
<1>3. LateCallStuck => NoGuardAfterClose
  BY DEF LateCallStuck, NoGuardAfterClose
<1> QED
  BY <1>1, <1>2, <1>3, TypeCorrect, PTL DEF Spec

-----------------------------------------------------------------------------
(* What waits in idle is between two statements                              *)

(* The strengthening: what release has already checked or reset on the way   *)
(* to idle, and a fresh connection's state.                                  *)
QuietOnTheWay ==
    /\ IdleIsQuiet
    /\ \A t \in Tasks : pc[t] \in {"reset", "put"} => hand[t] \cap busy = {}
    /\ \A t \in Tasks : pc[t] = "put" => \A c \in hand[t] : tx[c] = "Idle"
    /\ \A c \in Free : c \notin busy /\ tx[c] = "Idle"

(* Popping leaves nothing new in the queue.                                  *)
LEMMA PopIdle ==
    ASSUME TypeOK, idle # <<>>, idle' = Tail(idle)
    PROVE  InIdle = InIdle' \cup {Head(idle)}
<1>1. /\ Len(idle) \in Nat /\ Len(idle) > 0 /\ Len(idle') = Len(idle) - 1
      /\ Head(idle) = idle[1]
      /\ \A i \in 1..(Len(idle) - 1) : idle'[i] = idle[i + 1]
  BY PopFacts DEF TypeOK
<1>2. ASSUME NEW i \in 1..Len(idle) PROVE idle[i] \in InIdle' \cup {Head(idle)}
  <2>1. CASE i = 1
    BY <1>1, <2>1
  <2>2. CASE i # 1
    <3>1. i - 1 \in 1..(Len(idle) - 1) /\ (i - 1) + 1 = i
      BY <1>1, <2>2
    <3>2. idle'[i - 1] = idle[i]
      BY <1>1, <3>1
    <3> QED
      BY <1>1, <3>1, <3>2 DEF InIdle
  <2> QED
    BY <2>1, <2>2
<1>3. ASSUME NEW i \in 1..Len(idle') PROVE idle'[i] \in InIdle
  <2>1. i \in 1..(Len(idle) - 1) /\ i + 1 \in 1..Len(idle)
    BY <1>1
  <2> QED
    BY <1>1, <2>1 DEF InIdle
<1> QED
  BY <1>1, <1>2, <1>3 DEF InIdle

(* Pushing adds one connection to the queue.                                 *)
LEMMA PushIdle ==
    ASSUME TypeOK, NEW c \in Conns, idle' = Append(idle, c)
    PROVE  InIdle' = InIdle \cup {c}
<1>1. /\ Len(idle) \in Nat /\ Len(idle') = Len(idle) + 1 /\ idle'[Len(idle) + 1] = c
      /\ \A i \in 1..Len(idle) : idle'[i] = idle[i]
  BY PushFacts DEF TypeOK
<1>2. 1..Len(idle') = (1..Len(idle)) \cup {Len(idle) + 1}
  BY <1>1
<1> QED
  BY <1>1, <1>2 DEF InIdle

(* Steps that change no session, and steps that end some sessions.           *)
LEMMA QuietMove ==
    ASSUME TypeOK, QuietOnTheWay, NEW t \in Tasks, NEW x, NEW S \in SUBSET Conns,
           pc' = [pc EXCEPT ![t] = x], x \notin {"reset", "put"},
           hand' = [hand EXCEPT ![t] = S], InIdle' \subseteq InIdle, Open \subseteq Open',
           UNCHANGED <<tx, busy, unclean>>
    PROVE  QuietOnTheWay'
<1>1. Free' \subseteq Free
  BY DEF Free
<1> QED
  BY <1>1 DEF TypeOK, QuietOnTheWay, IdleIsQuiet

(* Closing connections that are not in idle disturbs no idle one.            *)
LEMMA QuietForget ==
    ASSUME TypeOK, QuietOnTheWay, NEW t \in Tasks, NEW x, NEW S \in SUBSET Conns,
           NEW F \in SUBSET Conns, pc' = [pc EXCEPT ![t] = x], x \notin {"reset", "put"},
           hand' = [hand EXCEPT ![t] = S], InIdle' \subseteq InIdle,
           Open \subseteq Open' \cup F, Forget(F)
    PROVE  QuietOnTheWay'
<1>1. Free' \subseteq Free \cup F
  BY DEF Free
<1>2. /\ busy' \subseteq busy /\ busy' \cap F = {}
      /\ \A c \in Conns : tx'[c] = IF c \in F THEN "Idle" ELSE tx[c]
      /\ \A c \in unclean : c \in F \/ c \in unclean'
  BY DEF Forget
<1>3. InIdle \subseteq Conns /\ Free' \subseteq Conns
  BY DEF TypeOK, InIdle, Free
<1>4. IdleIsQuiet'
  BY <1>2, <1>3 DEF QuietOnTheWay, IdleIsQuiet
<1>5. \A u \in Tasks : pc'[u] \in {"reset", "put"} =>
         pc'[u] = pc[u] /\ hand'[u] = hand[u] /\ hand[u] \subseteq Conns
  BY DEF TypeOK
<1>6. \A u \in Tasks : pc'[u] \in {"reset", "put"} => hand'[u] \cap busy' = {}
  BY <1>2, <1>5 DEF QuietOnTheWay
<1>7. \A u \in Tasks : pc'[u] = "put" => \A c \in hand'[u] : tx'[c] = "Idle"
  BY <1>2, <1>5 DEF QuietOnTheWay
<1>8. \A c \in Free' : c \notin busy' /\ tx'[c] = "Idle"
  BY <1>1, <1>2, <1>3 DEF QuietOnTheWay
<1> QED
  BY <1>4, <1>6, <1>7, <1>8 DEF QuietOnTheWay


(* Every step keeps idle connections, and those on their way, quiet.         *)
LEMMA QuietStep ==
    TypeOK /\ HandShape /\ SingleOwner /\ QuietOnTheWay /\ [Next]_vars => QuietOnTheWay'
<1> SUFFICES ASSUME TypeOK, HandShape, SingleOwner, QuietOnTheWay, [Next]_vars
             PROVE  QuietOnTheWay'
  OBVIOUS
<1>s. /\ InIdle \subseteq Conns /\ Free \subseteq Conns
      /\ \A t \in Tasks : hand[t] \subseteq Conns
      /\ hand \in [Tasks -> SUBSET Conns]
  BY DEF TypeOK, InIdle, Free
<1>o. \A c : c \in Open <=> c \in InIdle \/ \E t \in Tasks : c \in hand[t]
  BY DEF Open
<1>q. \A c : c \in Open' <=> c \in InIdle' \/ \E t \in Tasks : c \in hand'[t]
  BY DEF Open
<1>i. idle' = idle => InIdle' = InIdle
  BY DEF InIdle
<1>u. ASSUME UNCHANGED <<idle, pc, hand, tx, busy, unclean>> PROVE QuietOnTheWay'
  BY <1>u DEF QuietOnTheWay, IdleIsQuiet, InIdle, Free, Open
(* a task that holds nothing, or the same, moves on *)
<1>m. ASSUME NEW t \in Tasks, NEW x, pc' = [pc EXCEPT ![t] = x], x \notin {"reset", "put"},
             UNCHANGED <<idle, hand, tx, busy, unclean>>
      PROVE  QuietOnTheWay'
  <2>1. hand' = [hand EXCEPT ![t] = hand[t]]
    BY <1>m, <1>s
  <2>2. InIdle' \subseteq InIdle /\ Open \subseteq Open'
    BY <1>m DEF InIdle, Open
  <2> QED
    BY <1>m, <1>s, <2>1, <2>2, QuietMove
(* a task gives up connections and forgets them *)
<1>f. ASSUME NEW t \in Tasks, NEW x, pc' = [pc EXCEPT ![t] = x], x \notin {"reset", "put"},
             NEW F \in SUBSET Conns, hand' = [hand EXCEPT ![t] = hand[t] \ F],
             UNCHANGED idle, Forget(F)
      PROVE  QuietOnTheWay'
  <2>1. InIdle' \subseteq InIdle
    BY <1>f DEF InIdle
  <2>2. \A u \in Tasks : hand[u] \subseteq hand'[u] \cup F
    BY <1>f, <1>s
  <2>3. Open \subseteq Open' \cup F
    BY <1>f, <1>i, <2>2, <1>o, <1>q
  <2>4. hand[t] \ F \in SUBSET Conns
    BY <1>s
  <2> QED
    BY <1>f, <2>1, <2>3, <2>4, QuietForget
(* a task that held nothing takes connections from idle or from the free ones *)
<1>h. ASSUME NEW t \in Tasks, NEW x, pc' = [pc EXCEPT ![t] = x], x \notin {"reset", "put"},
             hand[t] = {}, NEW S \in SUBSET Conns, hand' = [hand EXCEPT ![t] = S],
             InIdle' \subseteq InIdle, InIdle \subseteq InIdle' \cup S,
             UNCHANGED <<tx, busy, unclean>>
      PROVE  QuietOnTheWay'
  <2>1. \A u \in Tasks : hand[u] \subseteq hand'[u]
    BY <1>h, <1>s
  <2>2. S \subseteq Open'
    BY <1>h, <1>s, <1>q
  <2>3. Open \subseteq Open'
    BY <1>h, <2>1, <2>2, <1>o, <1>q
  <2> QED
    BY <1>h, <2>3, QuietMove
(* a task puts its only connection in idle *)
<1>b. ASSUME NEW t \in Tasks, pc' = [pc EXCEPT ![t] = "rest"], NEW c \in Conns,
             hand[t] \subseteq {c}, hand' = [hand EXCEPT ![t] = {}], PushBack(c),
             UNCHANGED <<tx, busy>>, c \notin busy, tx[c] # "Idle" => c \in unclean',
             \A d \in Conns : d # c /\ d \in unclean => d \in unclean'
      PROVE  QuietOnTheWay'
  <2>1. InIdle' = InIdle \cup {c}
    BY <1>b, PushIdle DEF PushBack
  <2>2. \A u \in Tasks : hand[u] \subseteq hand'[u] \cup {c}
    BY <1>b, <1>s
  <2>3. Free' \subseteq Free
    BY <2>1, <2>2, <1>o, <1>q DEF Free
  <2>4. IdleIsQuiet'
    BY <1>b, <1>s, <2>1 DEF QuietOnTheWay, IdleIsQuiet
  <2>5. \A u \in Tasks : pc'[u] \in {"reset", "put"} => pc'[u] = pc[u] /\ hand'[u] = hand[u]
    BY <1>b, <1>s DEF TypeOK
  <2> QED
    BY <1>b, <2>3, <2>4, <2>5 DEF QuietOnTheWay
<1> USE DEF inner, connVars, Goto, Hold, Finish
<1>1. CASE UNCHANGED vars
  BY <1>1, <1>u DEF vars
<1>2. ASSUME NEW t \in Tasks, TaskStep(t) PROVE QuietOnTheWay'
  <2>1. CASE DecideClosed(t) \/ DecideIdle(t) \/ DecideCreate(t)
    <3>1. UNCHANGED <<idle, hand, tx, busy, unclean>>
      BY <2>1 DEF DecideClosed, DecideIdle, DecideCreate
    <3>2. \/ pc' = [pc EXCEPT ![t] = "rest"] \/ pc' = [pc EXCEPT ![t] = "discard"]
          \/ pc' = [pc EXCEPT ![t] = "check"] \/ pc' = [pc EXCEPT ![t] = "ready"]
          \/ pc' = [pc EXCEPT ![t] = "create"]
      BY <2>1 DEF DecideClosed, DecideIdle, DecideCreate
    <3> QED
      BY <3>1, <3>2, <1>m
  <2>2. CASE DecideExhausted(t)
    BY <2>2, <1>m, <1>u DEF DecideExhausted, ExhaustedUntimed, ExhaustedTimed
  <2>3. CASE DiscardExpired(t) \/ NeedsHealthCheck(t) \/ Ready(t)
    <3>1. PopFront(t) /\ hand[t] = {}
      BY <2>3 DEF DiscardExpired, NeedsHealthCheck, Ready, HandShape, EmptyHanded
    <3>2. Head(idle) \in Conns /\ InIdle = InIdle' \cup {Head(idle)}
      BY <3>1, PopFacts, PopIdle DEF PopFront, TypeOK
    <3> DEFINE S == {Head(idle)}
    <3>3. S \in SUBSET Conns /\ InIdle' \subseteq InIdle /\ InIdle \subseteq InIdle' \cup S
          /\ hand' = [hand EXCEPT ![t] = S]
      BY <3>1, <3>2 DEF PopFront
    <3>4. UNCHANGED <<tx, busy, unclean>>
      BY <2>3 DEF DiscardExpired, NeedsHealthCheck, Ready
    <3>5. PICK x : pc' = [pc EXCEPT ![t] = x] /\ x \notin {"reset", "put"}
      BY <2>3 DEF DiscardExpired, NeedsHealthCheck, Ready
    <3> HIDE DEF S
    <3> QED
      BY <3>1, <3>3, <3>4, <3>5, <1>h
  <2>4. CASE LostRace(t) \/ PingOk(t) \/ PingErr(t) \/ CreateErr(t) \/ WaitEnds(t)
    BY <2>4, <1>m DEF LostRace, PingOk, PingErr, CreateErr, WaitEnds
  <2>5. CASE CreateOk(t)
    <3>1. PICK c \in Free : hand' = [hand EXCEPT ![t] = {c}]
      BY <2>5 DEF CreateOk
    <3>2. hand[t] = {} /\ {c} \in SUBSET Conns /\ InIdle' = InIdle
      BY <2>5, <1>s, <1>i DEF CreateOk, HandShape, EmptyHanded
    <3>3. PICK x : pc' = [pc EXCEPT ![t] = x] /\ x \notin {"reset", "put"}
      BY <2>5 DEF CreateOk
    <3>4. UNCHANGED <<tx, busy, unclean>>
      BY <2>5 DEF CreateOk
    <3> QED
      BY <3>1, <3>2, <3>3, <3>4, <1>h
  <2>6. CASE ResetOk(t)
    <3>1. /\ pc[t] = "reset" /\ UNCHANGED <<idle, hand, busy, unclean>>
          /\ tx' = [c \in Conns |-> IF c \in hand[t] THEN "Idle" ELSE tx[c]]
          /\ \A u \in Tasks : u # t => pc'[u] = pc[u]
      BY <2>6 DEF ResetOk, TypeOK
    <3>2. InIdle' = InIdle /\ Free' = Free
      BY <3>1 DEF InIdle, Free, Open
    <3>3. \A c \in Conns : tx'[c] # "Idle" => tx[c] # "Idle" /\ c \notin hand[t]
      BY <3>1
    <3>4. IdleIsQuiet'
      BY <3>1, <3>2, <3>3, <1>s DEF QuietOnTheWay, IdleIsQuiet
    <3>5. \A u \in Tasks : pc'[u] \in {"reset", "put"} => hand'[u] \cap busy' = {}
      BY <3>1 DEF QuietOnTheWay
    <3>6. \A u \in Tasks : pc'[u] = "put" => \A c \in hand'[u] : tx'[c] = "Idle"
      BY <3>1, <3>3, <1>s DEF QuietOnTheWay
    <3> QED
      BY <3>1, <3>2, <3>3, <3>4, <3>5, <3>6, <1>s DEF QuietOnTheWay
  <2>7. CASE ResetErr(t)
    BY <2>7, <1>m DEF ResetErr
  <2>8. CASE Return(t)
    <3>1. PICK c \in hand[t] : PushBack(c) /\ unclean' = unclean \ {c}
      BY <2>8 DEF Return
    <3>2. hand[t] = {c} /\ c \in Conns /\ c \notin busy /\ tx[c] = "Idle"
      BY <2>8, <3>1, <1>s DEF Return, HandShape, QuietOnTheWay
    <3>3. /\ hand[t] \subseteq {c} /\ \A d \in Conns : d # c /\ d \in unclean => d \in unclean'
          /\ tx[c] # "Idle" => c \in unclean'
      BY <3>1, <3>2
    <3>4. /\ UNCHANGED <<tx, busy>> /\ pc' = [pc EXCEPT ![t] = "rest"]
          /\ hand' = [hand EXCEPT ![t] = {}]
      BY <2>8 DEF Return
    <3> QED
      BY <3>1, <3>2, <3>3, <3>4, <1>b
  <2>9. CASE MinIdleDecide(t) \/ MinIdleFailed(t)
    BY <2>9, <1>m DEF MinIdleDecide, MinIdleFailed
  <2>10. CASE MinIdleCreated(t)
    <3>0. hand[t] = {} /\ UNCHANGED <<tx, busy, unclean>>
      BY <2>10 DEF MinIdleCreated, HandShape, EmptyHanded
    <3>1. CASE closed \/ Len(idle) >= config.min_idle
      <4>1. PICK c \in Free : hand' = [hand EXCEPT ![t] = {c}]
        BY <2>10, <3>1 DEF MinIdleCreated
      <4>2. pc' = [pc EXCEPT ![t] = "close_end"] /\ InIdle' = InIdle
        BY <2>10, <3>1, <1>i DEF MinIdleCreated
      <4> DEFINE S == {c}
      <4>3. /\ S \in SUBSET Conns /\ hand' = [hand EXCEPT ![t] = S]
            /\ InIdle' \subseteq InIdle /\ InIdle \subseteq InIdle' \cup S
        BY <4>1, <4>2, <1>s
      <4> DEFINE x == "close_end"
      <4>4. pc' = [pc EXCEPT ![t] = x] /\ x \notin {"reset", "put"}
        BY <4>2
      <4> HIDE DEF S, x
      <4> QED
        BY <3>0, <4>3, <4>4, <1>h
    <3>2. CASE ~(closed \/ Len(idle) >= config.min_idle)
      <4>1. PICK c \in Free : PushBack(c)
        BY <2>10, <3>2 DEF MinIdleCreated
      <4>2. pc' = [pc EXCEPT ![t] = "rest"] /\ UNCHANGED hand
        BY <2>10, <3>2 DEF MinIdleCreated
      <4>3. /\ c \in Conns /\ c \notin busy /\ tx[c] = "Idle" /\ hand[t] \subseteq {c}
            /\ hand' = [hand EXCEPT ![t] = {}]
        BY <3>0, <4>1, <4>2, <1>s DEF QuietOnTheWay
      <4>4. /\ \A d \in Conns : d # c /\ d \in unclean => d \in unclean'
            /\ tx[c] # "Idle" => c \in unclean'
        BY <3>0, <4>3
      <4> QED
        BY <3>0, <4>1, <4>2, <4>3, <4>4, <1>b
    <3> QED
      BY <3>1, <3>2
  <2>11. CASE CloseConnection(t)
    <3>1. PICK c \in hand[t] : Forget({c}) /\ hand' = [hand EXCEPT ![t] = hand[t] \ {c}]
      BY <2>11 DEF CloseConnection
    <3>2. {c} \in SUBSET Conns /\ UNCHANGED idle
      BY <2>11, <3>1, <1>s DEF CloseConnection
    <3>3. PICK x : pc' = [pc EXCEPT ![t] = x] /\ x \notin {"reset", "put"}
      BY <2>11 DEF CloseConnection, AfterClose
    <3> QED
      BY <3>1, <3>2, <3>3, <1>f
  <2> QED
    BY <1>2, <2>1, <2>2, <2>3, <2>4, <2>5, <2>6, <2>7, <2>8, <2>9, <2>10, <2>11
       DEF TaskStep
<1>3. ASSUME NEW t \in Tasks, CallerStep(t) PROVE QuietOnTheWay'
  <2>1. CASE \E kind \in {"acquire", "acquire_resilient"} : Acquire(t, kind)
    <3>1. pc' = [pc EXCEPT ![t] = "decide"] /\ UNCHANGED <<idle, hand, tx, busy, unclean>>
      BY <2>1 DEF Acquire
    <3> QED
      BY <3>1, <1>m
  <2>2. CASE Release(t)
    <3>1. /\ UNCHANGED <<idle, hand, tx, busy, unclean>>
          /\ \A u \in Tasks : u # t => pc'[u] = pc[u]
          /\ pc'[t] # "put" /\ (pc'[t] = "reset" => hand[t] \cap busy = {})
      BY <2>2 DEF Release, TypeOK
    <3>2. InIdle' = InIdle /\ Free' = Free
      BY <3>1 DEF InIdle, Free, Open
    <3> QED
      BY <3>1, <3>2 DEF QuietOnTheWay, IdleIsQuiet
  <2>3. CASE DropGuard(t)
    <3>0. PICK c \in Conns : hand[t] = {c}
      BY <2>3 DEF DropGuard, HandShape
    <3>4. pc' = [pc EXCEPT ![t] = "rest"] /\ hand' = [hand EXCEPT ![t] = {}]
      BY <2>3 DEF DropGuard
    <3>1. CASE hand[t] \cap busy # {} \/ closed
      <4>1. Forget(hand[t]) /\ UNCHANGED idle
        BY <2>3, <3>1 DEF DropGuard
      <4> DEFINE F == hand[t]
      <4>2. hand' = [hand EXCEPT ![t] = hand[t] \ F] /\ F \in SUBSET Conns /\ Forget(F)
        BY <3>4, <4>1, <1>s
      <4> DEFINE x == "rest"
      <4>3. pc' = [pc EXCEPT ![t] = x] /\ x \notin {"reset", "put"}
        BY <3>4
      <4> HIDE DEF F, x
      <4> QED
        BY <4>1, <4>2, <4>3, <1>f
    <3>2. CASE ~(hand[t] \cap busy # {} \/ closed)
      <4>1. PushBack(c) /\ unclean' = unclean \cup {c} /\ UNCHANGED <<tx, busy>>
        BY <2>3, <3>2, <3>0 DEF DropGuard
      <4>2. c \notin busy /\ hand[t] \subseteq {c}
        BY <3>0, <3>2
      <4>3. /\ \A d \in Conns : d # c /\ d \in unclean => d \in unclean'
            /\ tx[c] # "Idle" => c \in unclean'
        BY <4>1
      <4> QED
        BY <3>4, <4>1, <4>2, <4>3, <1>b
    <3> QED
      BY <3>1, <3>2
  <2>4. CASE detach(t) \/ Cancel(t)
    <3>1. /\ pc' = [pc EXCEPT ![t] = "rest"] /\ hand' = [hand EXCEPT ![t] = {}]
          /\ Forget(hand[t]) /\ UNCHANGED idle
      BY <2>4 DEF detach, Cancel
    <3> DEFINE F == hand[t]
    <3>2. hand' = [hand EXCEPT ![t] = hand[t] \ F] /\ F \in SUBSET Conns /\ Forget(F)
      BY <3>1, <1>s
    <3> DEFINE x == "rest"
    <3>3. pc' = [pc EXCEPT ![t] = x] /\ x \notin {"reset", "put"}
      BY <3>1
    <3> HIDE DEF F, x
    <3> QED
      BY <3>1, <3>2, <3>3, <1>f
  <2>5. CASE UseConnection(t)
    <3>1. PICK c \in hand[t] : /\ \A d \in Conns : d # c => tx'[d] = tx[d]
                               /\ \A d \in Conns : d # c => (d \in busy' <=> d \in busy)
      BY <2>5 DEF UseConnection, TypeOK
    <3>2. UNCHANGED <<idle, pc, hand, unclean>> /\ pc[t] = "guard"
      BY <2>5 DEF UseConnection
    <3>3. InIdle' = InIdle /\ Free' = Free
      BY <3>2 DEF InIdle, Free, Open
    <3>4. c \notin InIdle /\ c \notin Free
      BY <3>1, <1>o DEF SingleOwner, Free
    <3>5. \A u \in Tasks : pc[u] \in {"reset", "put"} => c \notin hand[u]
      BY <3>1, <3>2 DEF SingleOwner
    <3>6. IdleIsQuiet'
      BY <3>1, <3>2, <3>3, <3>4, <1>s DEF QuietOnTheWay, IdleIsQuiet
    <3>7. \A u \in Tasks : pc'[u] \in {"reset", "put"} => hand'[u] \cap busy' = {}
      BY <3>1, <3>2, <3>5, <1>s DEF QuietOnTheWay
    <3>8. \A u \in Tasks : pc'[u] = "put" => \A d \in hand'[u] : tx'[d] = "Idle"
      BY <3>1, <3>2, <3>5, <1>s DEF QuietOnTheWay
    <3>9. \A d \in Free' : d \notin busy' /\ tx'[d] = "Idle"
      BY <3>1, <3>3, <3>4, <1>s DEF QuietOnTheWay
    <3> QED
      BY <3>6, <3>7, <3>8, <3>9 DEF QuietOnTheWay
  <2>6. CASE Close(t)
    <3>1. InIdle' = {}
      BY <2>6 DEF Close, InIdle
    <3>2. hand[t] = {} /\ UNCHANGED <<tx, busy, unclean>> /\ hand' = [hand EXCEPT ![t] = InIdle]
      BY <2>6 DEF Close, HandShape, EmptyHanded
    <3>3. \/ pc' = [pc EXCEPT ![t] = "rest"] \/ pc' = [pc EXCEPT ![t] = "close_end"]
      BY <2>6 DEF Close
    <3> QED
      BY <3>1, <3>2, <3>3, <1>h, <1>s
  <2>7. CASE Maintain(t)
    <3> DEFINE S == {c \in InIdle : is_expired(c)}
    <3>1. hand[t] = {} /\ UNCHANGED <<tx, busy, unclean>> /\ hand' = [hand EXCEPT ![t] = S]
      BY <2>7 DEF Maintain, HandShape, EmptyHanded
    <3>2. \/ pc' = [pc EXCEPT ![t] = "rest"] \/ pc' = [pc EXCEPT ![t] = "close_end"]
      BY <2>7 DEF Maintain
    <3>3. InIdle' \subseteq InIdle /\ InIdle \subseteq InIdle' \cup S
      <4>1. Own!Sweep(t)
        BY <2>7, MaintainIsSweep
      <4>2. PICK f \in [1..Len(idle') -> 1..Len(idle)] :
               /\ \A i \in 1..Len(idle') : idle'[i] = idle[f[i]]
               /\ hand' = [hand EXCEPT ![t] =
                             InIdle \ {idle[f[i]] : i \in 1..Len(idle')}]
        BY <4>1 DEF Own!Sweep, Own!Give, Own!OnShelf, InIdle
      <4>3. InIdle' = {idle[f[i]] : i \in 1..Len(idle')} /\ InIdle' \subseteq InIdle
        BY <4>2 DEF InIdle
      <4>4. S = InIdle \ InIdle'
        BY <3>1, <4>2, <4>3, <1>s
      <4> QED
        BY <4>3, <4>4
    <3>4. S \in SUBSET Conns
      BY <1>s
    <3> HIDE DEF S
    <3> QED
      BY <3>1, <3>2, <3>3, <3>4, <1>h
  <2> QED
    BY <1>3, <2>1, <2>2, <2>3, <2>4, <2>5, <2>6, <2>7 DEF CallerStep
<1>4. CASE Environment
  <2>1. CASE DropPool
    <3>1. InIdle' = {} /\ UNCHANGED <<pc, hand>> /\ Forget(InIdle)
      BY <2>1 DEF DropPool, InIdle
    <3>2. PICK t \in Tasks : TRUE
      BY TasksAssumption
    <3>3. pc' = [pc EXCEPT ![t] = pc[t]] /\ hand' = [hand EXCEPT ![t] = hand[t]]
      BY <3>1, <3>2 DEF TypeOK
    <3>4. pc[t] = "rest" /\ InIdle \in SUBSET Conns /\ hand[t] \in SUBSET Conns
      BY <2>1, <1>s DEF DropPool, At
    <3>5. Open \subseteq Open' \cup InIdle
      BY <3>1, <1>o, <1>q
    <3> QED
      BY <3>1, <3>3, <3>4, <3>5, QuietForget
  <2>2. CASE ~DropPool
    BY <1>4, <2>2, <1>u DEF Environment, ServerDies, LifetimePasses, IdleTimePasses,
                            DeadlinePasses
  <2> QED
    BY <2>1, <2>2
<1> QED
  BY <1>1, <1>2, <1>3, <1>4 DEF Next

(* A connection in idle is never in mid-exchange, and only PoolGuard::drop   *)
(* leaves one there with a transaction block open.                           *)
THEOREM PoolIdleIsQuiet == Spec => []IdleIsQuiet
<1>1. Init => HandShape /\ QuietOnTheWay
  <2> SUFFICES ASSUME Init PROVE HandShape /\ QuietOnTheWay
    OBVIOUS
  <2>1. HandShape
    BY DEF Init, HandShape, EmptyHanded
  <2>2. busy = {} /\ (\A c \in Conns : tx[c] = "Idle") /\ \A t \in Tasks : pc[t] = "rest"
    BY DEF Init
  <2>3. InIdle \subseteq Conns /\ Free \subseteq Conns
    BY InitTypeOK DEF TypeOK, InIdle, Free
  <2> QED
    BY <2>1, <2>2, <2>3 DEF QuietOnTheWay, IdleIsQuiet
<1>2. TypeOK /\ HandShape /\ [Next]_vars => HandShape'
  BY HandShapeStep
<1>3. TypeOK /\ HandShape /\ SingleOwner /\ QuietOnTheWay /\ [Next]_vars => QuietOnTheWay'
  BY QuietStep
<1>4. QuietOnTheWay => IdleIsQuiet
  BY DEF QuietOnTheWay
<1> QED
  BY <1>1, <1>2, <1>3, <1>4, TypeCorrect, PoolSingleOwner, PTL DEF Spec

-----------------------------------------------------------------------------
(* After close()                                                             *)

(* No task starts on the way back to idle once the pool is closed.           *)
LEMMA ClosedPoints ==
    ASSUME TypeOK, closed, [Next]_vars, NEW u \in Tasks, pc'[u] \in {"reset", "put"}
    PROVE  pc[u] \in {"reset", "put"}
<1> USE DEF TypeOK, Goto, Finish
<1>1. CASE UNCHANGED vars
  BY <1>1 DEF vars
<1>2. ASSUME NEW t \in Tasks, TaskStep(t) PROVE pc[u] \in {"reset", "put"}
  <2>1. CASE DecideClosed(t) \/ DecideIdle(t) \/ DecideCreate(t) \/ DecideExhausted(t)
    BY <2>1 DEF DecideClosed, DecideIdle, DecideCreate, DecideExhausted, ExhaustedUntimed,
       ExhaustedTimed
  <2>2. CASE DiscardExpired(t) \/ NeedsHealthCheck(t) \/ Ready(t) \/ LostRace(t)
    BY <2>2 DEF DiscardExpired, NeedsHealthCheck, Ready, LostRace
  <2>3. CASE PingOk(t) \/ PingErr(t) \/ CreateOk(t) \/ CreateErr(t) \/ WaitEnds(t)
    BY <2>3 DEF PingOk, PingErr, CreateOk, CreateErr, WaitEnds
  <2>4. CASE ResetOk(t) \/ ResetErr(t) \/ Return(t)
    BY <2>4 DEF ResetOk, ResetErr, Return
  <2>5. CASE MinIdleDecide(t) \/ MinIdleCreated(t) \/ MinIdleFailed(t)
    BY <2>5 DEF MinIdleDecide, MinIdleCreated, MinIdleFailed
  <2>6. CASE CloseConnection(t)
    BY <2>6 DEF CloseConnection, AfterClose
  <2> QED
    BY <1>2, <2>1, <2>2, <2>3, <2>4, <2>5, <2>6 DEF TaskStep
<1>3. ASSUME NEW t \in Tasks, CallerStep(t) PROVE pc[u] \in {"reset", "put"}
  <2>1. CASE \E kind \in {"acquire", "acquire_resilient"} : Acquire(t, kind)
    BY <2>1 DEF Acquire
  <2>2. CASE Release(t) \/ DropGuard(t) \/ detach(t) \/ UseConnection(t)
    BY <2>2 DEF Release, DropGuard, detach, UseConnection
  <2>3. CASE Close(t) \/ Maintain(t) \/ Cancel(t)
    BY <2>3 DEF Close, Maintain, Cancel
  <2> QED
    BY <1>3, <2>1, <2>2, <2>3 DEF CallerStep
<1>4. CASE Environment
  BY <1>4 DEF Environment, DropPool, ServerDies, LifetimePasses, IdleTimePasses,
              DeadlinePasses
<1> QED
  BY <1>1, <1>2, <1>3, <1>4 DEF Next

(* What reaches idle then was in the hands of a release past its checks.     *)
LEMMA ClosedIdle ==
    ASSUME TypeOK, closed, [Next]_vars
    PROVE  InIdle' \ InIdle \subseteq UNION {hand[t] : t \in At({"put"})}
<1> DEFINE Goal == InIdle' \ InIdle \subseteq UNION {hand[t] : t \in At({"put"})}
<1>u. ASSUME UNCHANGED idle PROVE Goal
  BY <1>u DEF InIdle
<1>e. ASSUME idle' = <<>> PROVE Goal
  BY <1>e DEF InIdle
<1>p. ASSUME NEW t \in Tasks, PopFront(t) PROVE Goal
  <2>1. InIdle = InIdle' \cup {Head(idle)}
    BY <1>p, PopIdle DEF PopFront
  <2> QED
    BY <2>1
<1>1. CASE UNCHANGED vars
  BY <1>1, <1>u DEF vars, inner
<1>2. ASSUME NEW t \in Tasks, TaskStep(t) PROVE Goal
  <2>1. CASE DiscardExpired(t) \/ NeedsHealthCheck(t) \/ Ready(t)
    BY <2>1, <1>p DEF DiscardExpired, NeedsHealthCheck, Ready
  <2>2. CASE Return(t)
    <3>1. PICK c \in hand[t] : idle' = Append(idle, c)
      BY <2>2 DEF Return, PushBack
    <3>2. c \in Conns /\ t \in At({"put"})
      BY <2>2, <3>1 DEF Return, At, TypeOK
    <3>3. InIdle' = InIdle \cup {c}
      BY <3>1, <3>2, PushIdle
    <3> QED
      BY <3>1, <3>2, <3>3
  <2>3. CASE MinIdleCreated(t)
    BY <2>3, <1>u DEF MinIdleCreated
  <2>4. CASE \/ DecideClosed(t) \/ DecideIdle(t) \/ DecideCreate(t) \/ DecideExhausted(t)
             \/ LostRace(t) \/ PingOk(t) \/ PingErr(t) \/ CreateOk(t) \/ CreateErr(t)
             \/ WaitEnds(t) \/ ResetOk(t) \/ ResetErr(t) \/ MinIdleDecide(t)
             \/ MinIdleFailed(t) \/ CloseConnection(t)
    <3>1. UNCHANGED idle
      BY <2>4 DEF DecideClosed, DecideIdle, DecideCreate, DecideExhausted, ExhaustedUntimed,
       ExhaustedTimed, LostRace, PingOk,
          PingErr, CreateOk, CreateErr, WaitEnds, ResetOk, ResetErr, MinIdleDecide,
          MinIdleFailed, CloseConnection, inner
    <3> QED
      BY <3>1, <1>u
  <2> QED
    BY <1>2, <2>1, <2>2, <2>3, <2>4 DEF TaskStep
<1>3. ASSUME NEW t \in Tasks, CallerStep(t) PROVE Goal
  <2>1. CASE \E kind \in {"acquire", "acquire_resilient"} : Acquire(t, kind)
    BY <2>1, <1>u DEF Acquire, inner
  <2>2. CASE Release(t) \/ DropGuard(t) \/ detach(t) \/ UseConnection(t) \/ Cancel(t)
    BY <2>2, <1>u DEF Release, DropGuard, detach, UseConnection, Cancel, inner
  <2>3. CASE Close(t)
    BY <2>3, <1>e DEF Close
  <2>4. CASE Maintain(t)
    <3>1. PICK f \in [1..Len(idle') -> 1..Len(idle)] :
             \A i \in 1..Len(idle') : idle'[i] = idle[f[i]]
      BY <2>4, MaintainIdle
    <3>2. InIdle' \subseteq InIdle
      BY <3>1 DEF InIdle
    <3> QED
      BY <3>2
  <2> QED
    BY <1>3, <2>1, <2>2, <2>3, <2>4 DEF CallerStep
<1>4. CASE Environment
  <2>1. UNCHANGED idle \/ idle' = <<>>
    BY <1>4 DEF Environment, DropPool, ServerDies, LifetimePasses, IdleTimePasses, DeadlinePasses,
        inner
  <2> QED
    BY <2>1, <1>u, <1>e
<1> QED
  BY <1>1, <1>2, <1>3, <1>4 DEF Next

(* After close() only the releases that had passed their check of closed     *)
(* before it still put a connection back, one each.                          *)
THEOREM PoolClosedDrains == Spec => ClosedDrains
<1> DEFINE Drains ==
        closed =>
          /\ InIdle' \ InIdle \subseteq UNION {hand[t] : t \in At({"put"})}
          /\ \A t \in Tasks : pc'[t] \in {"reset", "put"} => pc[t] \in {"reset", "put"}
<1>1. TypeOK /\ [Next]_vars => [Drains]_vars
  BY ClosedPoints, ClosedIdle
<1> QED
  BY <1>1, TypeCorrect, PTL DEF Spec, ClosedDrains
=============================================================================
