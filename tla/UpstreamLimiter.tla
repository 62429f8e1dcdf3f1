-------------------------- MODULE UpstreamLimiter --------------------------
(***************************************************************************)
(* createSemaphore of src/src/upstream/limiter.js: a counting semaphore    *)
(* with a FIFO queue of waiters, each with a timer of its own.             *)
(*                                                                         *)
(* A step is what runs between two turns of the event loop: resolve() of a *)
(* waiter raises `active` inside release(), so a slot changes hands        *)
(* without ever being free.  The code keeps a counter and a queue; who     *)
(* really runs is in `slot`, and the properties relate the two.            *)
(***************************************************************************)
EXTENDS Naturals, FiniteSets, SequencesExt

CONSTANTS Tasks,    \* the callers of run(); one that ended may call again
          Limit,    \* effectiveLimit; 0 means unlimited
          Patient   \* the callers whose maxWaitMs is 0, negative or infinite: no timer

ASSUME LimiterAssumption ==
  /\ IsFiniteSet(Tasks)
  /\ Limit \in Nat
  /\ Patient \subseteq Tasks

VARIABLES active,   \* let active
          queue,    \* const queue, as the tasks that wait in it
          slot      \* what each call of run() is doing

limiterVars == <<active, queue, slot>>

Running == {t \in Tasks : slot[t] = "running"}

TypeOK ==
  /\ active \in Nat
  /\ queue \in Seq(Tasks)
  /\ slot \in [Tasks -> {"idle", "queued", "running"}]

Init ==
  /\ active = 0
  /\ queue = <<>>
  /\ slot = [t \in Tasks |-> "idle"]

-----------------------------------------------------------------------------
(* acquire: a free slot is taken at once, otherwise the caller queues. *)

\* A mistake: `<=` for `<`.
HasSlotOffByOne == Limit = 0 \/ active <= Limit

HasSlot == Limit = 0 \/ active < Limit

TakeSlot(t) ==
  /\ slot[t] = "idle"
  /\ HasSlot
  /\ active' = active + 1
  /\ slot' = [slot EXCEPT ![t] = "running"]
  /\ UNCHANGED queue

JoinQueue(t) ==
  /\ slot[t] = "idle"
  /\ ~HasSlot
  /\ queue' = Append(queue, t)
  /\ slot' = [slot EXCEPT ![t] = "queued"]
  /\ UNCHANGED active

Acquire(t) == TakeSlot(t) \/ JoinQueue(t)

\* A mistake: `await acquire()` moved inside the try, so that the finally of run() releases a
\* slot the timed-out call never had.
WaitTimeoutReleases(t) ==
  /\ slot[t] = "queued" /\ t \notin Patient
  /\ active' = active - 1
  /\ \E i \in 1..Len(queue) : queue[i] = t /\ queue' = RemoveAt(queue, i)
  /\ slot' = [slot EXCEPT ![t] = "idle"]

\* The waiter's timer fires: its entry is spliced out and run() rejects with SEMAPHORE_TIMEOUT.
WaitTimeout(t) ==
  /\ slot[t] = "queued"
  /\ t \notin Patient
  /\ \E i \in 1..Len(queue) : queue[i] = t /\ queue' = RemoveAt(queue, i)
  /\ slot' = [slot EXCEPT ![t] = "idle"]
  /\ UNCHANGED active

\* A mistake: the freed slot is not passed on.
ReleaseLeavesQueue(t) ==
  /\ slot[t] = "running"
  /\ active' = active - 1
  /\ slot' = [slot EXCEPT ![t] = "idle"]
  /\ UNCHANGED queue

\* A mistake: pop() for shift().
ReleaseServesLast(t) ==
  /\ slot[t] = "running"
  /\ \/ /\ queue = <<>>
        /\ active' = active - 1
        /\ slot' = [slot EXCEPT ![t] = "idle"]
        /\ UNCHANGED queue
     \/ /\ queue # <<>>
        /\ queue' = Front(queue)
        /\ slot' = [slot EXCEPT ![t] = "idle", ![Last(queue)] = "running"]
        /\ UNCHANGED active

\* release: the counter drops, and the head of the queue, if there is one, raises it again.
Release(t) ==
  /\ slot[t] = "running"
  /\ \/ /\ queue = <<>>
        /\ active' = active - 1
        /\ slot' = [slot EXCEPT ![t] = "idle"]
        /\ UNCHANGED queue
     \/ /\ queue # <<>>
        /\ queue' = Tail(queue)
        /\ slot' = [slot EXCEPT ![t] = "idle", ![Head(queue)] = "running"]
        /\ UNCHANGED active

Next == \E t \in Tasks : Acquire(t) \/ WaitTimeout(t) \/ Release(t)

\* A task ends (its fetch has a deadline of its own) and a timer fires.
Fairness == \A t \in Tasks : WF_limiterVars(Release(t)) /\ WF_limiterVars(WaitTimeout(t))

Spec == Init /\ [][Next]_limiterVars /\ Fairness

-----------------------------------------------------------------------------
(* Properties *)

\* The queue holds exactly the calls that wait, each once: a timed-out waiter leaves no entry
\* behind for a later release() to hand a slot to.
QueueIsWaiters ==
  /\ \A t \in Tasks : slot[t] = "queued" <=> \E i \in 1..Len(queue) : queue[i] = t
  /\ \A i, j \in 1..Len(queue) : queue[i] = queue[j] => i = j

\* The counter is the number of tasks that run (no slot leaks and none is given twice), and
\* with a limit never more than `Limit` run (limiter.js, "a bounded semaphore").
SlotsExact ==
  /\ active = Cardinality(Running)
  /\ Limit > 0 => Cardinality(Running) <= Limit

\* Nobody waits while a slot is free: timeouts, releases and arrivals in any order leave no
\* slot idle beside a queue.
WorkConserving == queue # <<>> => Limit > 0 /\ active = Limit

\* t entered the queue before u.
Ahead(t, u) ==
  \E i, j \in 1..Len(queue) : i < j /\ queue[i] = t /\ queue[j] = u

\* "Fairness is FIFO" (limiter.js:15): while a call waits, the only others that can get a slot
\* are those that queued before it; in particular a newcomer never takes a slot from it.
FirstComeFirstServed ==
  [][\A t, u \in Tasks :
       /\ slot[t] = "queued" /\ slot'[t] = "queued"
       /\ slot[u] # "running" /\ slot'[u] = "running"
       => Ahead(u, t)]_limiterVars

\* A caller that queues with no wait bound gets its slot in the end, however many impatient
\* callers come, time out and come again around it.
PatientGetsSlot == \A t \in Patient : slot[t] = "queued" ~> slot[t] = "running"

\* The counter and the queue implement the abstract semaphore.
Abstract == INSTANCE Semaphore
              WITH holders <- Running, waiting <- {t \in Tasks : slot[t] = "queued"}

ImplementsSemaphore == Abstract!Spec
=============================================================================
