----------------------- MODULE UpstreamLimiterProofs -----------------------
(***************************************************************************)
(* The limiter's invariants, its FIFO order and its refinement of the      *)
(* abstract semaphore, for any finite set of callers and any limit.        *)
(***************************************************************************)
EXTENDS UpstreamLimiter, FiniteSetTheorems, SequenceTheorems, TLAPS

\* What splice(index, 1) leaves of a sequence.
LEMMA RemoveAtProperties ==
  ASSUME NEW S, NEW s \in Seq(S), NEW i \in 1..Len(s)
  PROVE  /\ RemoveAt(s, i) \in Seq(S)
         /\ Len(RemoveAt(s, i)) = Len(s) - 1
         /\ \A j \in 1..(Len(s) - 1) :
              RemoveAt(s, i)[j] = IF j < i THEN s[j] ELSE s[j + 1]
<1> DEFINE a == SubSeq(s, 1, i - 1)
           b == SubSeq(s, i + 1, Len(s))
<1>1. a \in Seq(S) /\ Len(a) = i - 1 /\ \A j \in 1..(i - 1) : a[j] = s[j]
  BY SMT
<1>2. b \in Seq(S) /\ Len(b) = Len(s) - i /\ \A j \in 1..(Len(s) - i) : b[j] = s[i + j]
  BY SMT
<1>3. RemoveAt(s, i) = a \o b
  BY DEF RemoveAt
<1> HIDE DEF a, b
<1>4. /\ a \o b \in Seq(S)
      /\ Len(a \o b) = Len(a) + Len(b)
      /\ \A j \in 1..(Len(a) + Len(b)) :
           (a \o b)[j] = IF j <= Len(a) THEN a[j] ELSE b[j - Len(a)]
  BY <1>1, <1>2, ConcatProperties
<1> QED
  BY <1>1, <1>2, <1>3, <1>4, LenProperties

\* The inductive invariant: what the counter and the queue say of who runs and who waits.
Inv == TypeOK /\ QueueIsWaiters /\ SlotsExact /\ WorkConserving

LEMMA InitInv == Init => Inv
<1> SUFFICES ASSUME Init PROVE Inv
  OBVIOUS
<1>1. Running = {}
  BY DEF Init, Running
<1>2. Cardinality({}) = 0
  BY FS_EmptySet
<1> QED
  BY <1>1, <1>2, LimiterAssumption
  DEF Init, Inv, TypeOK, QueueIsWaiters, SlotsExact, WorkConserving

\* Who runs is a finite set, so it can be counted.
LEMMA RunningFinite == IsFiniteSet(Running) /\ Cardinality(Running) \in Nat
BY FS_Subset, FS_CardinalityType, LimiterAssumption DEF Running

\* A caller that finds a slot: one more runs, and the queue is empty because a slot was free.
LEMMA TakeSlotInv ==
  ASSUME Inv, NEW t \in Tasks, TakeSlot(t)
  PROVE  Inv'
<1>1. Running' = Running \cup {t} /\ t \notin Running
  BY DEF Inv, TypeOK, TakeSlot, Running
<1>2. Cardinality(Running') = Cardinality(Running) + 1
  BY <1>1, RunningFinite, FS_AddElement
<1>3. TypeOK'
  BY DEF Inv, TypeOK, TakeSlot
<1>4. QueueIsWaiters'
  BY DEF Inv, TypeOK, QueueIsWaiters, TakeSlot
<1>5. SlotsExact'
  BY <1>2, LimiterAssumption DEF Inv, TypeOK, SlotsExact, TakeSlot, HasSlot
<1>6. WorkConserving'
  BY LimiterAssumption DEF Inv, TypeOK, WorkConserving, TakeSlot, HasSlot
<1> QED
  BY <1>3, <1>4, <1>5, <1>6 DEF Inv

\* A caller that finds none: the same tasks run, and the queue grows at its end.
LEMMA JoinQueueInv ==
  ASSUME Inv, NEW t \in Tasks, JoinQueue(t)
  PROVE  Inv'
<1>1. Running' = Running
  BY DEF Inv, TypeOK, JoinQueue, Running
<1>2. /\ queue' \in Seq(Tasks)
      /\ Len(queue') = Len(queue) + 1
      /\ \A i \in 1..Len(queue) : queue'[i] = queue[i]
      /\ queue'[Len(queue) + 1] = t
  BY DEF Inv, TypeOK, JoinQueue
<1>3. TypeOK'
  BY <1>2 DEF Inv, TypeOK, JoinQueue
<1>4. QueueIsWaiters'
  <2>1. \A u \in Tasks : slot'[u] = "queued" <=> u = t \/ slot[u] = "queued"
    BY DEF Inv, TypeOK, JoinQueue
  <2>2. \A u \in Tasks :
          (\E i \in 1..Len(queue') : queue'[i] = u)
            <=> u = t \/ \E i \in 1..Len(queue) : queue[i] = u
    BY <1>2, LenProperties DEF Inv, TypeOK
  <2>3. \A i \in 1..Len(queue) : queue[i] # t
    BY DEF Inv, TypeOK, QueueIsWaiters, JoinQueue
  <2>4. \A i, j \in 1..Len(queue') : queue'[i] = queue'[j] => i = j
    BY <1>2, <2>3, LenProperties DEF Inv, TypeOK, QueueIsWaiters
  <2> QED
    BY <2>1, <2>2, <2>4 DEF Inv, QueueIsWaiters
<1>5. SlotsExact'
  BY <1>1 DEF Inv, SlotsExact, JoinQueue
<1>6. WorkConserving'
  BY <1>1, LimiterAssumption, RunningFinite
  DEF Inv, TypeOK, WorkConserving, SlotsExact, JoinQueue, HasSlot
<1> QED
  BY <1>3, <1>4, <1>5, <1>6 DEF Inv

\* A waiter that gives up: its one entry goes, and nobody else's.
LEMMA WaitTimeoutInv ==
  ASSUME Inv, NEW t \in Tasks, WaitTimeout(t)
  PROVE  Inv'
<1>1. Running' = Running
  BY DEF Inv, TypeOK, WaitTimeout, Running
<1>2. PICK k \in 1..Len(queue) : queue[k] = t /\ queue' = RemoveAt(queue, k)
  BY DEF WaitTimeout
<1>3. /\ queue' \in Seq(Tasks)
      /\ Len(queue') = Len(queue) - 1
      /\ \A j \in 1..(Len(queue) - 1) :
           queue'[j] = IF j < k THEN queue[j] ELSE queue[j + 1]
  BY <1>2, RemoveAtProperties DEF Inv, TypeOK
<1>4. TypeOK'
  BY <1>3 DEF Inv, TypeOK, WaitTimeout
<1>5. QueueIsWaiters'
  <2>1. \A u \in Tasks : slot'[u] = "queued" <=> u # t /\ slot[u] = "queued"
    BY DEF Inv, TypeOK, WaitTimeout
  <2>2. \A i \in 1..Len(queue) : i # k => queue[i] # t
    BY <1>2 DEF Inv, QueueIsWaiters
  <2>3. Len(queue) \in Nat
    BY DEF Inv, TypeOK
  <2>4. ASSUME NEW u \in Tasks, NEW i \in 1..Len(queue), queue[i] = u, u # t
        PROVE  \E j \in 1..Len(queue') : queue'[j] = u
    <3>1. i # k
      BY <1>2, <2>4
    <3>2. CASE i < k
      BY <3>2, <1>3, <2>3, <2>4
    <3>3. CASE i > k
      <4>1. i - 1 \in 1..(Len(queue) - 1) /\ ~(i - 1 < k) /\ (i - 1) + 1 = i
        BY <3>3, <2>3
      <4> QED
        BY <4>1, <1>3, <2>4
    <3> QED
      BY <3>1, <3>2, <3>3, <2>3
  <2>5. ASSUME NEW u \in Tasks, NEW j \in 1..Len(queue'), queue'[j] = u
        PROVE  u # t /\ \E i \in 1..Len(queue) : queue[i] = u
    BY <1>3, <2>2, <2>3, <2>5
  <2>6. ASSUME NEW i \in 1..Len(queue'), NEW j \in 1..Len(queue'), queue'[i] = queue'[j]
        PROVE  i = j
    <3> DEFINE was(m) == IF m < k THEN m ELSE m + 1
    <3>1. was(i) \in 1..Len(queue) /\ was(j) \in 1..Len(queue)
      BY <1>3, <2>3
    <3>2. queue[was(i)] = queue'[i] /\ queue[was(j)] = queue'[j]
      BY <1>3, <2>3
    <3>3. was(i) = was(j)
      BY <2>6, <3>1, <3>2 DEF Inv, QueueIsWaiters
    <3> QED
      BY <3>3, <2>3, <1>3
  <2>7. \A u \in Tasks :
          slot'[u] = "queued" <=> \E i \in 1..Len(queue') : queue'[i] = u
    BY <2>1, <2>4, <2>5 DEF Inv, QueueIsWaiters
  <2> QED
    BY <2>6, <2>7 DEF QueueIsWaiters
<1>6. SlotsExact'
  BY <1>1 DEF Inv, SlotsExact, WaitTimeout
<1>7. WorkConserving'
  BY <1>2 DEF Inv, TypeOK, WorkConserving, WaitTimeout
<1> QED
  BY <1>4, <1>5, <1>6, <1>7 DEF Inv

\* A task that ends with nobody waiting.
LEMMA ReleaseAloneInv ==
  ASSUME Inv, NEW t \in Tasks, Release(t), queue = <<>>
  PROVE  Inv'
<1>1. Running' = Running \ {t} /\ t \in Running
  BY DEF Inv, TypeOK, Release, Running
<1>2. Cardinality(Running') = Cardinality(Running) - 1
  BY <1>1, RunningFinite, FS_RemoveElement
<1>3. active' = active - 1 /\ active > 0
  <2>1. Cardinality(Running) # 0
    BY <1>1, RunningFinite, FS_EmptySet
  <2> QED
    BY <2>1, RunningFinite DEF Inv, SlotsExact, Release
<1>4. TypeOK'
  BY <1>3 DEF Inv, TypeOK, Release
<1>5. QueueIsWaiters'
  BY DEF Inv, TypeOK, QueueIsWaiters, Release
<1>6. SlotsExact'
  BY <1>2, <1>3, RunningFinite, LimiterAssumption DEF Inv, SlotsExact
<1>7. WorkConserving'
  BY DEF WorkConserving, Release
<1> QED
  BY <1>4, <1>5, <1>6, <1>7 DEF Inv

\* A task that ends with somebody waiting: the head of the queue runs in its place.
LEMMA ReleaseHandOverInv ==
  ASSUME Inv, NEW t \in Tasks, Release(t), queue # <<>>
  PROVE  Inv'
<1> DEFINE h == Head(queue)
<1>1. /\ h \in Tasks /\ queue' = Tail(queue) /\ active' = active
      /\ slot' = [slot EXCEPT ![t] = "idle", ![h] = "running"]
  BY DEF Inv, TypeOK, Release
<1>2. /\ Len(queue) \in Nat \ {0} /\ h = queue[1]
      /\ queue' \in Seq(Tasks) /\ Len(queue') = Len(queue) - 1
      /\ \A i \in 1..(Len(queue) - 1) : queue'[i] = queue[i + 1]
  BY <1>1 DEF Inv, TypeOK
<1>3. slot[t] = "running" /\ slot[h] = "queued" /\ h # t
  <2>1. 1 \in 1..Len(queue) /\ queue[1] = h
    BY <1>2
  <2>2. slot[h] = "queued"
    BY <1>1, <2>1 DEF Inv, QueueIsWaiters
  <2>3. slot[t] = "running"
    BY DEF Release
  <2> QED
    BY <2>2, <2>3
<1> HIDE DEF h
<1>4. Running' = (Running \ {t}) \cup {h} /\ t \in Running /\ h \notin Running \ {t}
  BY <1>1, <1>3 DEF Inv, TypeOK, Running
<1>5. Cardinality(Running') = Cardinality(Running)
  <2>1. /\ IsFiniteSet(Running \ {t})
        /\ Cardinality(Running \ {t}) = Cardinality(Running) - 1
    BY <1>4, RunningFinite, FS_RemoveElement
  <2>2. Cardinality((Running \ {t}) \cup {h}) = Cardinality(Running \ {t}) + 1
    BY <1>4, <2>1, FS_AddElement
  <2> QED
    BY <1>4, <2>1, <2>2, RunningFinite
<1>6. TypeOK'
  BY <1>1, <1>2 DEF Inv, TypeOK
<1>7. QueueIsWaiters'
  <2>1. \A u \in Tasks : slot'[u] = "queued" <=> u # h /\ slot[u] = "queued"
    BY <1>1, <1>3 DEF Inv, TypeOK
  <2>2. \A i \in 1..Len(queue) : queue[i] = h => i = 1
    BY <1>2 DEF Inv, QueueIsWaiters
  <2>3. ASSUME NEW u \in Tasks, NEW i \in 1..Len(queue), queue[i] = u, u # h
        PROVE  \E j \in 1..Len(queue') : queue'[j] = u
    <3>1. i # 1
      BY <1>2, <2>3
    <3>2. i - 1 \in 1..(Len(queue) - 1) /\ (i - 1) + 1 = i
      BY <1>2, <3>1
    <3> QED
      BY <1>2, <2>3, <3>2
  <2>4. ASSUME NEW u \in Tasks, NEW j \in 1..Len(queue'), queue'[j] = u
        PROVE  u # h /\ \E i \in 1..Len(queue) : queue[i] = u
    BY <1>2, <2>2, <2>4
  <2>5. \A i, j \in 1..Len(queue') : queue'[i] = queue'[j] => i = j
    BY <1>2 DEF Inv, QueueIsWaiters
  <2>6. \A u \in Tasks :
          slot'[u] = "queued" <=> \E i \in 1..Len(queue') : queue'[i] = u
    BY <2>1, <2>3, <2>4 DEF Inv, QueueIsWaiters
  <2> QED
    BY <2>5, <2>6 DEF QueueIsWaiters
<1>8. SlotsExact'
  BY <1>1, <1>5 DEF Inv, SlotsExact
<1>9. WorkConserving'
  BY <1>1 DEF Inv, WorkConserving
<1> QED
  BY <1>6, <1>7, <1>8, <1>9 DEF Inv

LEMMA NextInv == Inv /\ [Next]_limiterVars => Inv'
<1> SUFFICES ASSUME Inv, [Next]_limiterVars PROVE Inv'
  OBVIOUS
<1>1. ASSUME NEW t \in Tasks, Acquire(t) PROVE Inv'
  BY <1>1, TakeSlotInv, JoinQueueInv DEF Acquire
<1>2. ASSUME NEW t \in Tasks, WaitTimeout(t) PROVE Inv'
  BY <1>2, WaitTimeoutInv
<1>3. ASSUME NEW t \in Tasks, Release(t) PROVE Inv'
  BY <1>3, ReleaseAloneInv, ReleaseHandOverInv
<1>4. CASE UNCHANGED limiterVars
  BY <1>4 DEF limiterVars, Inv, TypeOK, QueueIsWaiters, SlotsExact, WorkConserving, Running
<1> QED
  BY <1>1, <1>2, <1>3, <1>4 DEF Next

\* The counter, the queue and the tasks that run agree in every reachable state: no slot is
\* leaked or given twice, the limit holds, and no slot is free while somebody waits.
THEOREM LimiterInvariant ==
  Spec => [](TypeOK /\ QueueIsWaiters /\ SlotsExact /\ WorkConserving)
<1>1. Spec => []Inv
  BY InitInv, NextInv, PTL DEF Spec
<1>2. Inv => TypeOK /\ QueueIsWaiters /\ SlotsExact /\ WorkConserving
  BY DEF Inv
<1> QED
  BY <1>1, <1>2, PTL

-----------------------------------------------------------------------------

LEMMA StepIsFIFO ==
  ASSUME Inv, [Next]_limiterVars,
         NEW t \in Tasks, slot[t] = "queued", slot'[t] = "queued",
         NEW u \in Tasks, slot[u] # "running", slot'[u] = "running"
  PROVE  Ahead(u, t)
<1>1. queue # <<>> /\ ~HasSlot
  <2>1. PICK i \in 1..Len(queue) : queue[i] = t
    BY DEF Inv, QueueIsWaiters
  <2>2. queue # <<>>
    BY <2>1
  <2> QED
    BY <2>2, LimiterAssumption DEF Inv, TypeOK, WorkConserving, HasSlot
<1>2. ASSUME NEW v \in Tasks, Acquire(v) PROVE FALSE
  BY <1>1, <1>2 DEF Inv, TypeOK, Acquire, TakeSlot, JoinQueue
<1>3. ASSUME NEW v \in Tasks, WaitTimeout(v) PROVE FALSE
  BY <1>3 DEF Inv, TypeOK, WaitTimeout
<1>4. ASSUME NEW v \in Tasks, Release(v) PROVE Ahead(u, t)
  <2>1. slot' = [slot EXCEPT ![v] = "idle", ![Head(queue)] = "running"]
    BY <1>1, <1>4 DEF Release
  <2>2. u = Head(queue)
    BY <2>1 DEF Inv, TypeOK
  <2>3. u # t
    OBVIOUS
  <2>4. PICK i \in 1..Len(queue) : queue[i] = t
    BY DEF Inv, QueueIsWaiters
  <2>5. 1 \in 1..Len(queue) /\ queue[1] = u
    BY <1>1, <2>2 DEF Inv, TypeOK
  <2>6. 1 < i
    BY <2>3, <2>4, <2>5
  <2> QED
    BY <2>4, <2>5, <2>6 DEF Ahead
<1>5. CASE UNCHANGED limiterVars
  BY <1>5 DEF limiterVars
<1> QED
  BY <1>2, <1>3, <1>4, <1>5 DEF Next

\* The slots go round in the order of arrival: the claim the limiter's header makes, "Fairness
\* is FIFO", for every number of callers.
THEOREM LimiterIsFIFO == Spec => FirstComeFirstServed
<1>1. Inv /\ [Next]_limiterVars
      => [\A t, u \in Tasks :
            /\ slot[t] = "queued" /\ slot'[t] = "queued"
            /\ slot[u] # "running" /\ slot'[u] = "running"
            => Ahead(u, t)]_limiterVars
  BY StepIsFIFO
<1> QED
  BY <1>1, InitInv, NextInv, PTL DEF Spec, FirstComeFirstServed

-----------------------------------------------------------------------------

LEMMA InitRefines == Init => Abstract!Init
BY DEF Init, Abstract!Init, Running

LEMMA StepRefines == Inv /\ [Next]_limiterVars => [Abstract!Next]_Abstract!vars
<1> SUFFICES ASSUME Inv, [Next]_limiterVars PROVE [Abstract!Next]_Abstract!vars
  OBVIOUS
<1> DEFINE waiters == {t \in Tasks : slot[t] = "queued"}
<1>0. HasSlot <=> Abstract!HasRoom
  <2>1. active = Cardinality(Running)
    BY DEF Inv, SlotsExact
  <2>2. Abstract!Cardinality(Running) = Cardinality(Running)
    BY DEF Cardinality, Abstract!Cardinality
  <2> QED
    BY <2>1, <2>2 DEF HasSlot, Abstract!HasRoom
<1>1. ASSUME NEW t \in Tasks, TakeSlot(t) PROVE Abstract!Enter(t)
  <2>1. t \notin Running \cup waiters
    BY <1>1 DEF TakeSlot, Running
  <2>2. Running' = Running \cup {t} /\ waiters' = waiters
    BY <1>1 DEF Inv, TypeOK, TakeSlot, Running
  <2> QED
    BY <1>0, <1>1, <2>1, <2>2 DEF TakeSlot, Abstract!Enter
<1>2. ASSUME NEW t \in Tasks, JoinQueue(t) PROVE Abstract!Enter(t)
  <2>1. t \notin Running \cup waiters
    BY <1>2 DEF JoinQueue, Running
  <2>2. Running' = Running /\ waiters' = waiters \cup {t}
    BY <1>2 DEF Inv, TypeOK, JoinQueue, Running
  <2> QED
    BY <1>0, <1>2, <2>1, <2>2 DEF JoinQueue, Abstract!Enter
<1>3. ASSUME NEW t \in Tasks, WaitTimeout(t) PROVE Abstract!GiveUp(t)
  <2>1. Running' = Running /\ waiters' = waiters \ {t} /\ t \in waiters
    BY <1>3 DEF Inv, TypeOK, WaitTimeout, Running
  <2> QED
    BY <2>1 DEF Abstract!GiveUp
<1>4. ASSUME NEW t \in Tasks, Release(t) PROVE Abstract!Leave(t)
  <2>1. t \in Running
    BY <1>4 DEF Release, Running
  <2>2. CASE queue = <<>>
    <3>1. waiters = {}
      BY <2>2 DEF Inv, QueueIsWaiters
    <3>2. Running' = Running \ {t} /\ waiters' = waiters
      BY <1>4, <2>2 DEF Inv, TypeOK, Release, Running
    <3> QED
      BY <2>1, <3>1, <3>2 DEF Abstract!Leave
  <2>3. CASE queue # <<>>
    <3> DEFINE h == Head(queue)
    <3>1. /\ h \in Tasks /\ 1 \in 1..Len(queue) /\ queue[1] = h
          /\ slot' = [slot EXCEPT ![t] = "idle", ![h] = "running"]
      BY <1>4, <2>3 DEF Inv, TypeOK, Release
    <3>2. slot[h] = "queued" /\ slot[t] = "running"
      BY <1>4, <3>1 DEF Inv, QueueIsWaiters, Release
    <3> HIDE DEF h
    <3>3. /\ h \in waiters
          /\ Running' = (Running \ {t}) \cup {h}
          /\ waiters' = waiters \ {h}
      BY <3>1, <3>2 DEF Inv, TypeOK, Running
    <3> QED
      BY <2>1, <3>3 DEF Abstract!Leave
  <2> QED
    BY <2>2, <2>3
<1>5. CASE UNCHANGED limiterVars
  BY <1>5 DEF limiterVars, Running, Abstract!vars
<1> QED
  BY <1>1, <1>2, <1>3, <1>4, <1>5 DEF Next, Acquire, Abstract!Next

\* The counter, the queue and the states of the callers keep their types.
THEOREM LimiterTypes == Spec => []TypeOK
BY LimiterInvariant, PTL

\* createSemaphore implements the abstract semaphore.
THEOREM LimiterImplementsSemaphore == Spec => ImplementsSemaphore
BY InitInv, NextInv, InitRefines, StepRefines, PTL
DEF Spec, ImplementsSemaphore, Abstract!Spec
=============================================================================
