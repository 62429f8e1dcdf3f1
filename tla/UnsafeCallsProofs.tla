------------------------- MODULE UnsafeCallsProofs -------------------------
(***************************************************************************)
(* The safety of UnsafeCalls, for any number of calls and operations, any  *)
(* sizes and any bounds of the store and of the limiter.                   *)
(*                                                                         *)
(* The first invariant, IInv, is about coalescing, slots and answers.  It  *)
(* never looks at `results`: whatever take() finds, it holds.  The second, *)
(* Keeping, is about what the store holds and rests on the first: a put    *)
(* stores the result of the work that settled, under the fingerprint it    *)
(* was asked for.                                                          *)
(***************************************************************************)
EXTENDS UnsafeCalls, Facts

P == INSTANCE UpstreamLimiterProofs WITH Tasks <- Calls, Patient <- {}

SettledPhases == {"ok", "refused", "failed", "broken"}

Waiting(h) == pc[h] \in {"racing", "detached"}

(***************************************************************************)
(* The inductive invariant, in three parts.                                *)
(***************************************************************************)

Typing ==
  /\ request \in [Calls -> Requests \cup {None}]
  /\ pc \in [Calls -> Places]
  /\ DOMAIN gen = Calls /\ \A h \in Calls : Waiting(h) => gen[h] \in Calls
  /\ phase \in [Calls -> Unsettled \cup SettledPhases \cup {"off"}]
  /\ joiners \in [Calls -> Seq(Calls)]
  /\ inFlight \in [Fps -> Calls \cup {None}]

\* A call that has not come has started nothing, one that came has asked for something.
Arrivals ==
  \A c \in Calls : /\ pc[c] = "idle" => phase[c] = "off"
                   /\ pc[c] # "idle" => request[c] \in Requests

\* What is registered under a fingerprint works for it.  Without this, clearing an entry could
\* clear the entry of other work.
RegisteredWorks ==
  \A f \in Fps : inFlight[f] # None => Working(inFlight[f]) /\ Fp(inFlight[f]) = f

\* Who is on a list waits for that work, so nobody is on two lists or stays on one.
JoinersWait == \A d, h \in Calls : h \in Joined(d) => Waiting(h) /\ gen[h] = d

Tracking ==
  /\ Typing /\ Arrivals
  /\ OneGenerationAtATime /\ RegisteredWorks
  /\ NobodyWaitsForNothing /\ JoinersWait

Slots ==
  /\ P!Inv
  /\ \A d \in Calls : slot[d] # "idle" <=> phase[d] \in Fetching

\* Work whose request left does not go back to fetching, and a call that was told a plain
\* failure of its own work knows that its request never left, or that the body broke.
Answered ==
  /\ reply \in [Calls -> Replies \cup {None}]
  /\ outcomeUnknown \in [Calls -> BOOLEAN]
  /\ \A c \in Calls : pc[c] = "idle" => reply[c] = None
  /\ \A d \in Calls : d \in written => phase[d] \notin {"off", "fetching", "backoff"}
  /\ \A c \in Calls : reply[c] = "failed" /\ gen[c] = c
                      => /\ phase[c] \in {"failed", "broken"}
                         /\ c \in written => phase[c] = "broken"

IInv == Tracking /\ Slots /\ Answered

-----------------------------------------------------------------------------
(* The limiter's part: its own invariant, and who holds or awaits a slot. *)

LEMMA LimiterInstance == P!LimiterAssumption
BY CallsAssumption DEF P!LimiterAssumption, P!IsFiniteSet, IsFiniteSet

LEMMA LimiterStep ==
  ASSUME P!Inv, NEW d \in Calls, L!Acquire(d) \/ L!WaitTimeout(d) \/ L!Release(d)
  PROVE  P!Inv'
<1>1. [P!Next]_<<active, queue, slot>>
  BY DEF P!Next, P!Acquire, P!TakeSlot, P!JoinQueue, P!HasSlot, P!WaitTimeout, P!Release,
         P!RemoveAt, L!Acquire, L!TakeSlot, L!JoinQueue, L!HasSlot, L!WaitTimeout, L!Release,
         L!RemoveAt
<1> QED
  BY <1>1, LimiterInstance, P!NextInv DEF P!limiterVars

LEMMA LimiterIdle ==
  ASSUME P!Inv, UNCHANGED limiterVars
  PROVE  P!Inv'
BY LimiterInstance, P!NextInv DEF limiterVars, P!limiterVars

\* A caller of acquire() holds or awaits a slot, and nobody else's standing changes.
LEMMA AcquireStands ==
  ASSUME P!Inv, NEW c \in Calls, L!Acquire(c)
  PROVE  \A d \in Calls : slot'[d] # "idle" <=> d = c \/ slot[d] # "idle"
BY DEF P!Inv, P!TypeOK, L!Acquire, L!TakeSlot, L!JoinQueue

LEMMA TimeoutStands ==
  ASSUME P!Inv, NEW c \in Calls, L!WaitTimeout(c)
  PROVE  \A d \in Calls : slot'[d] # "idle" <=> d # c /\ slot[d] # "idle"
BY DEF P!Inv, P!TypeOK, L!WaitTimeout

\* A released slot may go to the head of the queue, which stood there before.
LEMMA ReleaseStands ==
  ASSUME P!Inv, NEW c \in Calls, L!Release(c)
  PROVE  \A d \in Calls : slot'[d] # "idle" <=> d # c /\ slot[d] # "idle"
<1>1. CASE queue = <<>>
  BY <1>1 DEF P!Inv, P!TypeOK, L!Release
<1>2. CASE queue # <<>>
  <2> DEFINE h == Head(queue)
  <2>1. 1 \in 1..Len(queue) /\ queue[1] = h /\ h \in Calls
    BY <1>2 DEF P!Inv, P!TypeOK
  <2>2. slot[h] = "queued"
    BY <2>1 DEF P!Inv, P!QueueIsWaiters
  <2>3. slot[c] = "running" /\ slot' = [slot EXCEPT ![c] = "idle", ![h] = "running"]
    BY <1>2 DEF L!Release
  <2> HIDE DEF h
  <2> QED
    BY <2>1, <2>2, <2>3 DEF P!Inv, P!TypeOK
<1> QED
  BY <1>1, <1>2

-----------------------------------------------------------------------------
(* What keeps Tracking, by kind of step. *)

LEMMA FpsOfCalls ==
  ASSUME NEW c \in Calls, request[c] \in Requests
  PROVE  Fp(c) \in Fps
BY CallsAssumption DEF Fp, FingerprintOf, Fps

\* Nothing that Tracking looks at moves, except a handler that does not wait.
LEMMA HandlerTracks ==
  ASSUME Tracking, NEW h \in Calls, NEW p \in Places \ {"idle", "racing", "detached"},
         pc[h] \notin {"idle", "racing", "detached"}, pc' = [pc EXCEPT ![h] = p],
         UNCHANGED <<request, gen, phase, joiners, inFlight>>
  PROVE  Tracking'
BY DEF Tracking, Typing, Arrivals, OneGenerationAtATime, RegisteredWorks, Working, Fp,
       NobodyWaitsForNothing, JoinersWait, Joined, Waiting

\* Work moves on without ending.
LEMMA WorkTracks ==
  ASSUME Tracking, NEW d \in Calls, NEW x \in Unsettled, Working(d),
         phase' = [phase EXCEPT ![d] = x],
         UNCHANGED <<request, pc, gen, joiners, inFlight>>
  PROVE  Tracking'
BY DEF Tracking, Typing, Arrivals, OneGenerationAtATime, RegisteredWorks, Working, Fp,
       NobodyWaitsForNothing, JoinersWait, Joined, Waiting, Unsettled, Fetching

\* The promise of d settles: its entry goes, and all who waited for it go on.
LEMMA SettlingTracks ==
  ASSUME Tracking, NEW d \in Calls, NEW x \in SettledPhases, Working(d),
         phase' = [phase EXCEPT ![d] = x], Clears(d),
         pc' \in [Calls -> Places],
         \A h \in Calls : IF h \in Joined(d)
                          THEN pc'[h] \notin {"idle", "racing", "detached"}
                          ELSE pc'[h] = pc[h],
         UNCHANGED <<request, gen>>
  PROVE  Tracking'
<1>1. Fp(d) \in Fps /\ inFlight[Fp(d)] = d
  BY FpsOfCalls DEF Tracking, Arrivals, OneGenerationAtATime, Working, Unsettled, Fetching
<1>2. \A c \in Calls : Working(c)' <=> c # d /\ Working(c)
  BY DEF Tracking, Typing, Working, Unsettled, Fetching, SettledPhases
<1>3. \A c \in Calls : Fp(c)' = Fp(c)
  BY DEF Fp
<1>4. \A c \in Calls : Joined(c)' = IF c = d THEN {} ELSE Joined(c)
  BY DEF Tracking, Typing, Clears, Joined, ToSet
<1>5. Typing'
  <2>1. joiners' \in [Calls -> Seq(Calls)]
    BY DEF Tracking, Typing, Clears
  <2>2. inFlight' \in [Fps -> Calls \cup {None}]
    BY <1>1 DEF Tracking, Typing, Clears
  <2> QED
    BY <2>1, <2>2 DEF Tracking, Typing, Waiting
<1>6. Arrivals'
  BY DEF Tracking, Typing, Arrivals, JoinersWait, Waiting, Working, Unsettled, Fetching
<1>7. OneGenerationAtATime'
  <2> SUFFICES ASSUME NEW c \in Calls, c # d, Working(c) PROVE inFlight'[Fp(c)] = c
    BY <1>2, <1>3 DEF OneGenerationAtATime
  <2>1. inFlight[Fp(c)] = c
    BY DEF Tracking, OneGenerationAtATime
  <2> QED
    BY <1>1, <2>1 DEF Clears, Tracking, Typing
<1>8. RegisteredWorks'
  BY <1>1, <1>2, <1>3 DEF Tracking, Typing, Clears, RegisteredWorks
<1>9. NobodyWaitsForNothing'
  BY <1>2, <1>4 DEF Tracking, Typing, NobodyWaitsForNothing, Waiting
<1>10. JoinersWait'
  BY <1>4 DEF Tracking, JoinersWait, Waiting
<1> QED
  BY <1>5, <1>6, <1>7, <1>8, <1>9, <1>10 DEF Tracking

\* A handler that waits for work answers at its deadline, and goes on waiting.
LEMMA DetachingTracks ==
  ASSUME Tracking, NEW h \in Calls, pc[h] = "racing", pc' = [pc EXCEPT ![h] = "detached"],
         UNCHANGED <<request, gen, phase, joiners, inFlight>>
  PROVE  Tracking'
BY DEF Tracking, Typing, Arrivals, OneGenerationAtATime, RegisteredWorks, Working, Fp,
       NobodyWaitsForNothing, JoinersWait, Joined, Waiting, Places

\* A newcomer changes the fingerprint of no work, and is on no list.
New(c, r) ==
  /\ c \in Calls /\ phase[c] = "off" /\ ~Working(c)
  /\ Fp(c)' \in Fps
  /\ request' \in [Calls -> Requests \cup {None}] /\ request'[c] = r
  /\ \A d \in Calls : d # c => request'[d] = request[d] /\ Fp(d)' = Fp(d)
  /\ \A d \in Calls : c \notin Joined(d)

LEMMA Newcomer ==
  ASSUME Tracking, NEW c \in Calls, pc[c] = "idle",
         NEW r \in Requests, request' = [request EXCEPT ![c] = r]
  PROVE  New(c, r)
<1>1. request' \in [Calls -> Requests \cup {None}] /\ request'[c] = r
  BY DEF Tracking, Typing
<1>2. Fp(c)' \in Fps
  BY <1>1, CallsAssumption DEF Fp, FingerprintOf, Fps
<1>3. phase[c] = "off" /\ ~Working(c)
  BY DEF Tracking, Arrivals, Working, Unsettled, Fetching
<1>4. \A d \in Calls : d # c => request'[d] = request[d] /\ Fp(d)' = Fp(d)
  BY DEF Tracking, Typing, Fp
<1>5. \A d \in Calls : c \notin Joined(d)
  BY DEF Tracking, JoinersWait, Waiting
<1> QED
  BY <1>1, <1>2, <1>3, <1>4, <1>5 DEF New

LEMMA ReplaysTracks ==
  ASSUME Tracking, NEW c \in Calls, pc[c] = "idle",
         NEW r \in Requests, request' = [request EXCEPT ![c] = r], Replays(c, Fp(c)')
  PROVE  Tracking'
<1>0. New(c, r)
  BY Newcomer
<1>1. /\ pc' \in [Calls -> Places] /\ pc'[c] = "replaying"
      /\ \A h \in Calls : h # c => pc'[h] = pc[h] /\ gen'[h] = gen[h]
      /\ DOMAIN gen' = Calls
      /\ UNCHANGED <<phase, joiners, inFlight>>
  BY DEF Tracking, Typing, Places, Replays, workVars
<1>2. Typing' /\ Arrivals'
  BY <1>1, <1>0 DEF New, Tracking, Typing, Arrivals, Waiting
<1>3. OneGenerationAtATime' /\ RegisteredWorks'
  BY <1>1, <1>0 DEF New, Tracking, Typing, OneGenerationAtATime, RegisteredWorks, Working
<1>4. NobodyWaitsForNothing' /\ JoinersWait'
  BY <1>1, <1>0
  DEF New, Tracking, NobodyWaitsForNothing, JoinersWait, Waiting, Working, Joined
<1> QED
  BY <1>2, <1>3, <1>4 DEF Tracking

LEMMA JoinsTracks ==
  ASSUME Tracking, NEW c \in Calls, pc[c] = "idle",
         NEW r \in Requests, request' = [request EXCEPT ![c] = r], Joins(c, Fp(c)')
  PROVE  Tracking'
<1>0. New(c, r)
  BY Newcomer
<1>1. PICK d \in Calls :
         /\ Working(d)
         /\ pc' = [pc EXCEPT ![c] = "racing"] /\ gen' = [gen EXCEPT ![c] = d]
         /\ joiners' = [joiners EXCEPT ![d] = Append(@, c)]
         /\ UNCHANGED <<phase, inFlight>>
  BY <1>0 DEF New, Tracking, Typing, RegisteredWorks, Joins
<1>2. /\ pc' \in [Calls -> Places] /\ pc'[c] = "racing" /\ gen'[c] = d
      /\ \A h \in Calls : h # c => pc'[h] = pc[h] /\ gen'[h] = gen[h]
      /\ DOMAIN gen' = Calls
  BY <1>1 DEF Tracking, Typing, Places
<1>3. /\ joiners' \in [Calls -> Seq(Calls)]
      /\ Joined(d)' = Joined(d) \cup {c}
      /\ \A k \in Calls : k # d => Joined(k)' = Joined(k)
  <2>1. joiners[d] \in Seq(Calls) /\ joiners'[d] = Append(joiners[d], c)
    BY <1>1 DEF Tracking, Typing
  <2>2. ToSet(joiners'[d]) = ToSet(joiners[d]) \cup {c}
    BY <2>1, ToSetAppend
  <2>3. \A k \in Calls : k # d => joiners'[k] = joiners[k]
    BY <1>1 DEF Tracking, Typing
  <2>4. joiners' \in [Calls -> Seq(Calls)]
    BY <1>1, <2>1, AppendedAt DEF Tracking, Typing
  <2> QED
    BY <2>2, <2>3, <2>4 DEF Joined
<1>4. Typing' /\ Arrivals'
  BY <1>1, <1>2, <1>3, <1>0 DEF New, Tracking, Typing, Arrivals, Waiting
<1>5. OneGenerationAtATime'
  BY <1>1, <1>0 DEF New, Tracking, OneGenerationAtATime, Working
<1>8. RegisteredWorks'
  BY <1>1, <1>0 DEF New, Tracking, Typing, RegisteredWorks, Working
<1>6. NobodyWaitsForNothing'
  <2> SUFFICES ASSUME NEW h \in Calls, pc'[h] \in {"racing", "detached"}
               PROVE  \E k \in Calls : gen'[h] = k /\ Working(k)' /\ h \in Joined(k)'
    BY DEF NobodyWaitsForNothing, Working, Joined
  <2>1. CASE h = c
    BY <1>1, <1>2, <1>3, <2>1 DEF Working
  <2>2. CASE h # c
    <3>1. PICK k \in Calls : k = gen[h] /\ gen'[h] = k /\ Working(k) /\ h \in Joined(k)
      BY <1>2, <2>2 DEF Tracking, Typing, NobodyWaitsForNothing, Waiting
    <3>2. Working(k)' /\ h \in Joined(k)'
      BY <1>1, <1>3, <3>1 DEF Working
    <3> QED
      BY <3>1, <3>2
  <2> QED
    BY <2>1, <2>2
<1>7. JoinersWait'
  <2> SUFFICES ASSUME NEW k \in Calls, NEW h \in Calls, h \in Joined(k)'
               PROVE  Waiting(h)' /\ gen'[h] = k
    BY DEF JoinersWait
  <2>1. CASE h = c
    <3>1. k = d
      BY <1>0, <1>3, <2>1 DEF New
    <3> QED
      BY <1>2, <2>1, <3>1 DEF Waiting
  <2>2. CASE h # c
    <3>1. h \in Joined(k)
      BY <1>3, <2>2
    <3> QED
      BY <1>2, <2>2, <3>1 DEF Waiting, Tracking, JoinersWait
  <2> QED
    BY <2>1, <2>2
<1> QED
  BY <1>4, <1>5, <1>6, <1>7, <1>8 DEF Tracking

LEMMA StartsTracks ==
  ASSUME Tracking, NEW c \in Calls, pc[c] = "idle",
         NEW r \in Requests, request' = [request EXCEPT ![c] = r], Starts(c, Fp(c)')
  PROVE  Tracking'
<1>0. New(c, r)
  BY Newcomer
<1>1. /\ pc' \in [Calls -> Places] /\ pc'[c] = "racing" /\ gen'[c] = c
      /\ \A h \in Calls : h # c => pc'[h] = pc[h] /\ gen'[h] = gen[h]
      /\ DOMAIN gen' = Calls
  BY DEF Tracking, Typing, Places, Starts
<1>2. /\ phase' \in [Calls -> Unsettled \cup SettledPhases \cup {"off"}]
      /\ \A d \in Calls : Working(d)' <=> d = c \/ Working(d)
      /\ \A d \in Calls : d # c => phase'[d] = phase[d]
  BY DEF Tracking, Typing, Starts, Working, Unsettled, Fetching
<1>3. /\ inFlight[Fp(c)'] = None
      /\ inFlight' \in [Fps -> Calls \cup {None}] /\ inFlight'[Fp(c)'] = c
      /\ \A f \in Fps : f # Fp(c)' => inFlight'[f] = inFlight[f]
  BY <1>0 DEF New, Tracking, Typing, Starts
<1>4. /\ joiners' \in [Calls -> Seq(Calls)]
      /\ Joined(c)' = {c}
      /\ \A k \in Calls : k # c => Joined(k)' = Joined(k)
  <2>1. joiners'[c] = <<c>> /\ joiners' \in [Calls -> Seq(Calls)]
    BY DEF Tracking, Typing, Starts
  <2>2. ToSet(<<c>>) = {c}
    BY DEF ToSet
  <2> QED
    BY <2>1, <2>2 DEF Tracking, Typing, Starts, Joined
<1>5. Typing'
  <2>1. \A h \in Calls : Waiting(h)' => gen'[h] \in Calls
    BY <1>1 DEF Tracking, Typing, Waiting
  <2> QED
    BY <1>0, <1>1, <1>2, <1>3, <1>4, <2>1 DEF New, Typing
<1>10. Arrivals'
  BY <1>1, <1>2, <1>0 DEF New, Tracking, Arrivals
<1>6. OneGenerationAtATime'
  BY <1>2, <1>3, <1>0, FpsOfCalls, CallsAssumption
  DEF New, Tracking, OneGenerationAtATime, Arrivals, Working, Unsettled, Fetching
<1>7. RegisteredWorks'
  <2> SUFFICES ASSUME NEW f \in Fps, inFlight'[f] # None
               PROVE  \E k \in Calls : inFlight'[f] = k /\ Working(k)' /\ Fp(k)' = f
    BY DEF RegisteredWorks, Working, Fp
  <2>1. CASE f = Fp(c)'
    BY <1>2, <1>3, <2>1
  <2>2. CASE f # Fp(c)'
    <3>1. PICK k \in Calls : inFlight'[f] = k /\ Working(k) /\ Fp(k) = f
      BY <1>3, <2>2 DEF Tracking, Typing, RegisteredWorks
    <3>2. Working(k)' /\ Fp(k)' = f
      BY <1>0, <1>2, <3>1 DEF New
    <3> QED
      BY <3>1, <3>2
  <2> QED
    BY <2>1, <2>2
<1>8. NobodyWaitsForNothing'
  <2> SUFFICES ASSUME NEW h \in Calls, pc'[h] \in {"racing", "detached"}
               PROVE  \E k \in Calls : gen'[h] = k /\ Working(k)' /\ h \in Joined(k)'
    BY DEF NobodyWaitsForNothing, Working, Joined
  <2>1. CASE h = c
    BY <1>1, <1>2, <1>4, <2>1
  <2>2. CASE h # c
    <3>1. PICK k \in Calls : k = gen[h] /\ gen'[h] = k /\ Working(k) /\ h \in Joined(k)
      BY <1>1, <2>2 DEF Tracking, Typing, NobodyWaitsForNothing, Waiting
    <3>2. Working(k)' /\ h \in Joined(k)'
      BY <1>0, <1>2, <1>4, <3>1 DEF New
    <3> QED
      BY <3>1, <3>2
  <2> QED
    BY <2>1, <2>2
<1>9. JoinersWait'
  <2> SUFFICES ASSUME NEW d \in Calls, NEW h \in Calls, h \in Joined(d)'
               PROVE  Waiting(h)' /\ gen'[h] = d
    BY DEF JoinersWait
  <2>1. CASE d = c
    <3>1. h = c
      BY <2>1, <1>4
    <3> QED
      BY <2>1, <3>1, <1>1 DEF Waiting
  <2>2. CASE d # c
    <3>1. h \in Joined(d) /\ h # c
      BY <2>2, <1>0, <1>4 DEF New
    <3> QED
      BY <2>2, <3>1, <1>1 DEF Waiting, Tracking, JoinersWait
  <2> QED
    BY <2>1, <2>2
<1> QED
  BY <1>5, <1>10, <1>6, <1>7, <1>8, <1>9 DEF Tracking

LEMMA UnchangedTracks ==
  ASSUME Tracking, UNCHANGED <<request, pc, gen, phase, joiners, inFlight>>
  PROVE  Tracking'
BY DEF Tracking, Typing, Arrivals, OneGenerationAtATime, RegisteredWorks, Working, Fp,
       NobodyWaitsForNothing, JoinersWait, Joined, Waiting

LEMMA RejectTracks ==
  ASSUME Tracking, NEW d \in Calls, Working(d), NEW why, Reject(d, why)
  PROVE  Tracking'
<1>1. PICK x \in SettledPhases : phase' = [phase EXCEPT ![d] = x]
  BY DEF Reject, SettledPhases
<1>2. pc' = [h \in Calls |-> IF h \in Joined(d) THEN "done" ELSE pc[h]]
  BY DEF Reject
<1>3. pc' \in [Calls -> Places]
  BY <1>2 DEF Tracking, Typing, Places
<1>4. Clears(d) /\ UNCHANGED <<request, gen>>
  BY DEF Reject
<1> QED
  BY <1>1, <1>2, <1>3, <1>4, SettlingTracks

-----------------------------------------------------------------------------
(* What keeps Slots. *)

LEMMA SlotsKept ==
  ASSUME Slots, UNCHANGED limiterVars,
         \A d \in Calls : phase'[d] \in Fetching <=> phase[d] \in Fetching
  PROVE  Slots'
<1>1. P!Inv'
  BY LimiterIdle DEF Slots
<1> QED
  BY <1>1 DEF Slots, limiterVars

LEMMA SlotsGivenBack ==
  ASSUME Tracking, Slots, NEW d \in Calls, L!Release(d) \/ L!WaitTimeout(d),
         NEW x, x \notin Fetching, phase' = [phase EXCEPT ![d] = x]
  PROVE  Slots'
<1>1. P!Inv'
  BY LimiterStep DEF Slots
<1>2. \A c \in Calls : slot'[c] # "idle" <=> c # d /\ slot[c] # "idle"
  BY ReleaseStands, TimeoutStands DEF Slots
<1>3. \A c \in Calls : phase'[c] \in Fetching <=> c # d /\ phase[c] \in Fetching
  BY DEF Tracking, Typing
<1> QED
  BY <1>1, <1>2, <1>3 DEF Slots

-----------------------------------------------------------------------------
(* What keeps Answered. *)

LEMMA HandlerAnswers ==
  ASSUME Tracking, Answered, NEW h \in Calls,
         NEW w \in Replies \ {"failed"}, Sends(h, w),
         NEW p \in Places \ {"idle"}, pc' = [pc EXCEPT ![h] = p], pc[h] # "idle",
         UNCHANGED <<gen, phase, outcomeUnknown, written>>
  PROVE  Answered'
<1>1. \A c \in Calls : reply'[c] = reply[c] \/ (c = h /\ reply'[c] = w)
  BY DEF Answered, Sends
<1>2. reply' \in [Calls -> Replies \cup {None}]
  BY DEF Answered, Sends
<1>3. \A c \in Calls : pc'[c] = "idle" => c # h /\ pc[c] = "idle"
  BY DEF Tracking, Typing
<1> QED
  BY <1>1, <1>2, <1>3 DEF Answered

\* Work that moves on has told nobody a failure, and only a request that leaves is written.
LEMMA WorkAnswers ==
  ASSUME Tracking, Answered, NEW d \in Calls, Working(d),
         NEW x \in Unsettled, phase' = [phase EXCEPT ![d] = x],
         outcomeUnknown' \in [Calls -> BOOLEAN],
         written' \in {written, written \cup {d}},
         d \in written' => x \notin {"fetching", "backoff"},
         UNCHANGED <<reply, pc, gen>>
  PROVE  Answered'
<1>1. \A c \in Calls : c # d => phase'[c] = phase[c] /\ (c \in written' <=> c \in written)
  BY DEF Tracking, Typing
<1>2. phase'[d] = x /\ x # "off"
  BY DEF Tracking, Typing, Unsettled, Fetching
<1>3. ~(reply[d] = "failed" /\ gen[d] = d)
  BY DEF Answered, Working, Unsettled, Fetching
<1> QED
  BY <1>1, <1>2, <1>3 DEF Answered

\* Work that settles without an error answers nobody in that step.
LEMMA SettlingAnswers ==
  ASSUME Tracking, Answered, NEW d \in Calls, Working(d),
         NEW x \in SettledPhases, phase' = [phase EXCEPT ![d] = x],
         \A h \in Calls : pc'[h] = "idle" => pc[h] = "idle",
         UNCHANGED <<reply, gen, outcomeUnknown, written>>
  PROVE  Answered'
<1>1. \A c \in Calls : c # d => phase'[c] = phase[c]
  BY DEF Tracking, Typing
<1>2. phase'[d] = x /\ x \notin {"off", "fetching", "backoff"}
  BY DEF Tracking, Typing, SettledPhases
<1>3. ~(reply[d] = "failed" /\ gen[d] = d)
  BY DEF Answered, Working, Unsettled, Fetching
<1> QED
  BY <1>1, <1>2, <1>3 DEF Answered

\* Work that fails tells its own client a plain failure only when its request never left, when
\* its outcome is not unknown, or when its body broke.
LEMMA RejectAnswers ==
  ASSUME Tracking, Answered, NEW d \in Calls, Working(d),
         NEW why \in {"timedOut", "failed", "saturated"}, Reject(d, why),
         outcomeUnknown' \in [Calls -> BOOLEAN], UNCHANGED written,
         \/ why # "failed" \/ phase[d] = "reading"
         \/ outcomeUnknown'[d] \/ d \notin written
  PROVE  Answered'
<1>1. /\ \A c \in Calls : c # d => phase'[c] = phase[c]
      /\ phase'[d] = IF phase[d] = "reading" THEN "broken" ELSE "failed"
      /\ UNCHANGED gen
  BY DEF Tracking, Typing, Reject
<1>2. \A c \in Calls : pc'[c] = "idle" => pc[c] = "idle" /\ c \notin Joined(d)
  BY DEF Reject
<1>3. reply' = [h \in Calls |-> IF h \in Joined(d) /\ pc[h] = "racing" /\ open[h]
                                THEN ErrorReply(h, why) ELSE reply[h]]
  BY DEF Reject
<1>4. \A h \in Calls : /\ ErrorReply(h, why) \in Replies
                       /\ ErrorReply(h, why) = "failed" => why = "failed" /\ ~outcomeUnknown'[h]
  BY DEF ErrorReply, Replies
<1>5. reply' \in [Calls -> Replies \cup {None}]
  BY <1>3, <1>4 DEF Answered
<1>6. \A c \in Calls : pc'[c] = "idle" => reply'[c] = None
  BY <1>2, <1>3 DEF Answered
<1>7. \A c \in Calls : c \in written => phase'[c] \notin {"off", "fetching", "backoff"}
  BY <1>1 DEF Answered
<1>8. ASSUME NEW c \in Calls, reply'[c] = "failed", gen'[c] = c
      PROVE  /\ phase'[c] \in {"failed", "broken"}
             /\ c \in written => phase'[c] = "broken"
  <2>1. CASE c = d
    <3>1. ~(reply[d] = "failed" /\ gen[d] = d)
      BY DEF Answered, Working, Unsettled, Fetching
    <3>2. why = "failed" /\ ~outcomeUnknown'[d]
      BY <1>1, <1>3, <1>4, <1>8, <2>1, <3>1
    <3> QED
      BY <1>1, <2>1, <3>2
  <2>2. CASE c # d
    <3>1. c \notin Joined(d)
      BY <1>1, <1>8, <2>2 DEF Tracking, JoinersWait
    <3>2. reply[c] = "failed" /\ gen[c] = c
      BY <1>1, <1>3, <1>8, <3>1
    <3> QED
      BY <1>1, <2>2, <3>2 DEF Answered
  <2> QED
    BY <2>1, <2>2
<1> QED
  BY <1>5, <1>6, <1>7, <1>8 DEF Answered

-----------------------------------------------------------------------------
(* The catch of the retry loop. *)

\* A sent request is never repeated, and its owner's outcome becomes unknown.
LEMMA CaughtCases ==
  ASSUME NEW d \in Calls, NEW e, CaughtWith(d, e)
  PROVE  /\ outcomeUnknown' = [outcomeUnknown EXCEPT ![d] = @ \/ PhaseOfError(e) = "sent"]
         /\ \/ /\ L!Release(d)
               /\ Reject(d, IF e.aborted THEN "timedOut" ELSE "failed")
               /\ UNCHANGED written
            \/ /\ PhaseOfError(e) = "connect"
               /\ phase' = [phase EXCEPT ![d] = "backoff"]
               /\ UNCHANGED <<request, reply, pc, gen, joiners, inFlight, limiterVars, written>>
<1>1. PICK remaining \in 0..1 :
        LET decision == DecideOnError(FALSE, attempt[d], MaxAttempts, e, remaining)
            repeats  == decision.retry /\ ~timedOut[d] /\ open[d]
        IN  /\ outcomeUnknown' = [outcomeUnknown EXCEPT ![d] = @ \/ decision.outcomeUnknown]
            /\ \/ /\ ~repeats
                  /\ L!Release(d)
                  /\ Reject(d, IF e.aborted THEN "timedOut" ELSE "failed")
                  /\ UNCHANGED written
               \/ /\ repeats
                  /\ phase' = [phase EXCEPT ![d] = "backoff"]
                  /\ UNCHANGED <<clientVars, handlerVars, attempt, aborted, body, joiners,
                                 limiterVars, storeVars, historyVars>>
  BY DEF CaughtWith
<1> DEFINE D == DecideOnError(FALSE, attempt[d], MaxAttempts, e, remaining)
<1>2. /\ D.outcomeUnknown = (PhaseOfError(e) = "sent")
      /\ D.retry => PhaseOfError(e) = "connect"
  BY DEF DecideOnError, Decision
<1>3. /\ outcomeUnknown' = [outcomeUnknown EXCEPT ![d] = @ \/ D.outcomeUnknown]
      /\ \/ /\ L!Release(d)
            /\ Reject(d, IF e.aborted THEN "timedOut" ELSE "failed")
            /\ UNCHANGED written
         \/ /\ D.retry
            /\ phase' = [phase EXCEPT ![d] = "backoff"]
            /\ UNCHANGED <<clientVars, handlerVars, attempt, aborted, body, joiners,
                           limiterVars, storeVars, historyVars>>
  BY <1>1
<1> HIDE DEF D
<1>4. outcomeUnknown' = [outcomeUnknown EXCEPT ![d] = @ \/ PhaseOfError(e) = "sent"]
  BY <1>2, <1>3
<1> QED
  BY <1>2, <1>3, <1>4 DEF clientVars, handlerVars, storeVars, historyVars

LEMMA CaughtKeeps ==
  ASSUME IInv, NEW d \in Calls, NEW e, phase[d] \in {"fetching", "sent"},
         phase[d] = "sent" => PhaseOfError(e) = "sent", CaughtWith(d, e)
  PROVE  IInv'
<1>1. Working(d)
  BY DEF Working, Unsettled, Fetching
<1>2. outcomeUnknown' = [outcomeUnknown EXCEPT ![d] = @ \/ PhaseOfError(e) = "sent"]
  BY CaughtCases
<1>3. /\ outcomeUnknown' \in [Calls -> BOOLEAN]
      /\ PhaseOfError(e) = "sent" => outcomeUnknown'[d]
  BY <1>2, Zenon DEF IInv, Answered
<1>4. phase[d] = "fetching" => d \notin written
  BY DEF IInv, Answered
<1>5. CASE /\ L!Release(d)
           /\ Reject(d, IF e.aborted THEN "timedOut" ELSE "failed")
           /\ UNCHANGED written
  <2>1. PICK why \in {"timedOut", "failed", "saturated"} : Reject(d, why)
    BY <1>5
  <2>2. Tracking'
    BY <1>1, <2>1, RejectTracks DEF IInv
  <2>3. Slots'
    <3>1. phase' = [phase EXCEPT ![d] = IF phase[d] = "reading" THEN "broken" ELSE "failed"]
      BY <2>1 DEF Reject
    <3>2. PICK x \in {"broken", "failed"} : phase' = [phase EXCEPT ![d] = x]
      BY <3>1
    <3>3. x \notin Fetching
      BY DEF Fetching
    <3> QED
      BY <1>5, <3>2, <3>3, SlotsGivenBack DEF IInv
  <2>4. Answered'
    <3>1. outcomeUnknown'[d] \/ d \notin written
      BY <1>3, <1>4
    <3> QED
      BY <1>1, <1>3, <1>5, <2>1, <3>1, RejectAnswers DEF IInv
  <2> QED
    BY <2>2, <2>3, <2>4 DEF IInv
<1>6. CASE /\ PhaseOfError(e) = "connect"
           /\ phase' = [phase EXCEPT ![d] = "backoff"]
           /\ UNCHANGED <<request, reply, pc, gen, joiners, inFlight, limiterVars, written>>
  <2>1. "backoff" \in Unsettled /\ "backoff" \in Fetching /\ phase[d] \in Fetching
    BY DEF Unsettled, Fetching
  <2>2. Tracking'
    BY <1>1, <1>6, <2>1, WorkTracks DEF IInv
  <2>3. Slots'
    <3>1. \A c \in Calls : phase'[c] \in Fetching <=> phase[c] \in Fetching
      BY <1>6, <2>1 DEF IInv, Tracking, Typing
    <3> QED
      BY <1>6, <3>1, SlotsKept DEF IInv
  <2>4. Answered'
    <3>1. d \notin written'
      BY <1>4, <1>6
    <3> QED
      BY <1>1, <1>3, <1>6, <2>1, <3>1, WorkAnswers DEF IInv
  <2> QED
    BY <2>2, <2>3, <2>4 DEF IInv
<1> QED
  BY <1>5, <1>6, CaughtCases

-----------------------------------------------------------------------------
(* The invariant holds at first, and every step keeps it. *)

LEMMA InitIInv == Init => IInv
<1> SUFFICES ASSUME Init PROVE IInv
  OBVIOUS
<1>1. Typing
  BY DEF Init, Typing, Places, Waiting
<1>2. \A d \in Calls : ~Working(d) /\ Joined(d) = {}
  BY DEF Init, Working, Unsettled, Fetching, Joined, ToSet
<1>3. Tracking
  BY <1>1, <1>2 DEF Init, Tracking, Arrivals, OneGenerationAtATime, RegisteredWorks,
                    NobodyWaitsForNothing, JoinersWait
<1>4. Slots
  <2>1. P!Init
    BY DEF Init, L!Init, P!Init
  <2>2. P!Inv
    BY <2>1, LimiterInstance, P!InitInv
  <2> QED
    BY <2>2 DEF Init, L!Init, Slots, Fetching
<1>5. Answered
  <2>1. outcomeUnknown \in [Calls -> BOOLEAN]
    BY Zenon DEF Init
  <2>2. reply \in [Calls -> Replies \cup {None}] /\ \A c \in Calls : reply[c] # "failed"
    BY NoneAssumption DEF Init, Replies
  <2> QED
    BY <2>1, <2>2 DEF Init, Answered
<1> QED
  BY <1>3, <1>4, <1>5 DEF IInv

\* Steps that none of the three parts looks at.
LEMMA UnseenKeeps ==
  ASSUME IInv, UNCHANGED <<request, reply, pc, gen, phase, outcomeUnknown, joiners, inFlight,
                           limiterVars, written>>
  PROVE  IInv'
<1>1. Tracking'
  BY UnchangedTracks DEF IInv
<1>2. Slots'
  BY SlotsKept DEF IInv
<1>3. Answered'
  BY DEF IInv, Answered
<1> QED
  BY <1>1, <1>2, <1>3 DEF IInv

\* A handler that answers, and no longer waits or did not.
LEMMA AnsweringKeeps ==
  ASSUME IInv, NEW h \in Calls,
         pc[h] \in {"replaying", "relaying", "finishing", "streaming"},
         NEW w \in {"result", "replay"}, Sends(h, w), pc' = [pc EXCEPT ![h] = "done"],
         UNCHANGED <<request, gen, phase, outcomeUnknown, joiners, inFlight, limiterVars, written>>
  PROVE  IInv'
<1>1. "done" \in Places \ {"idle", "racing", "detached"} /\ w \in Replies \ {"failed"}
  BY DEF Places, Replies
<1>2. Tracking'
  BY <1>1, HandlerTracks DEF IInv
<1>3. Slots'
  BY SlotsKept DEF IInv
<1>4. Answered'
  BY <1>1, HandlerAnswers DEF IInv
<1> QED
  BY <1>2, <1>3, <1>4 DEF IInv

LEMMA ArriveKeeps ==
  ASSUME IInv, NEW c \in Calls, Arrive(c)
  PROVE  IInv'
<1>1. PICK r \in Requests : /\ request' = [request EXCEPT ![c] = r]
                            /\ Replays(c, Fp(c)') \/ Joins(c, Fp(c)') \/ Starts(c, Fp(c)')
  BY DEF Arrive
<1>2. pc[c] = "idle" /\ UNCHANGED <<reply, written>>
  BY DEF Arrive
<1>3. Tracking'
  BY <1>1, <1>2, ReplaysTracks, JoinsTracks, StartsTracks DEF IInv
<1>4. New(c, r)
  BY <1>1, <1>2, Newcomer DEF IInv
<1>5. \/ UNCHANGED <<phase, limiterVars>>
      \/ phase' = [phase EXCEPT ![c] = "fetching"] /\ L!Acquire(c)
  BY <1>1 DEF Replays, Joins, Starts, workVars
<1>6. Slots'
  <2>1. CASE UNCHANGED <<phase, limiterVars>>
    BY <2>1, SlotsKept DEF IInv
  <2>2. CASE phase' = [phase EXCEPT ![c] = "fetching"] /\ L!Acquire(c)
    <3>1. P!Inv'
      BY <2>2, LimiterStep DEF IInv, Slots
    <3>2. \A d \in Calls : slot'[d] # "idle" <=> d = c \/ slot[d] # "idle"
      BY <2>2, AcquireStands DEF IInv, Slots
    <3>3. \A d \in Calls : phase'[d] \in Fetching <=> d = c \/ phase[d] \in Fetching
      BY <2>2 DEF IInv, Tracking, Typing, Fetching
    <3> QED
      BY <3>1, <3>2, <3>3 DEF IInv, Slots
  <2> QED
    BY <1>5, <2>1, <2>2
<1>7. Answered'
  <2>1. /\ \A d \in Calls : d # c => gen'[d] = gen[d]
        /\ UNCHANGED outcomeUnknown
    BY <1>1 DEF Replays, Joins, Starts, workVars, IInv, Tracking, Typing
  <2>2. \A d \in Calls : pc'[d] = "idle" => pc[d] = "idle"
    BY <1>1 DEF Replays, Joins, Starts, IInv, Tracking, Typing
  <2>3. \A d \in Calls : d # c => phase'[d] = phase[d]
    BY <1>5 DEF IInv, Tracking, Typing
  <2>4. reply[c] = None /\ c \notin written
    BY <1>2, <1>4 DEF New, IInv, Answered
  <2>5. reply[c] # "failed"
    BY <2>4, NoneAssumption DEF Replies
  <2> QED
    BY <1>2, <2>1, <2>2, <2>3, <2>4, <2>5 DEF IInv, Answered
<1> QED
  BY <1>3, <1>6, <1>7 DEF IInv

LEMMA ResolveKeeps ==
  ASSUME IInv, NEW d \in Calls, NEW ok \in BOOLEAN, NEW sse, NEW bytes,
         Resolve(d, ok, sse, bytes)
  PROVE  IInv'
<1>1. Working(d) /\ phase[d] \notin Fetching
  BY DEF Resolve, Working, Unsettled, Fetching
<1>2. PICK x \in {"ok", "refused"} : phase' = [phase EXCEPT ![d] = x]
  BY DEF Resolve
<1>3. x \in SettledPhases /\ x \notin Fetching
  BY DEF SettledPhases, Fetching
<1>4. /\ pc' \in [Calls -> Places]
      /\ \A h \in Calls : IF h \in Joined(d)
                          THEN pc'[h] \notin {"idle", "racing", "detached"}
                          ELSE pc'[h] = pc[h]
  BY DEF IInv, Tracking, Typing, Resolve, Places
<1>5. /\ Clears(d)
      /\ UNCHANGED <<request, reply, gen, outcomeUnknown, limiterVars, written>>
  BY DEF Resolve, clientVars
<1>6. Tracking'
  BY <1>1, <1>2, <1>3, <1>4, <1>5, SettlingTracks DEF IInv
<1>7. Slots'
  <2>1. \A c \in Calls : phase'[c] \in Fetching <=> phase[c] \in Fetching
    BY <1>1, <1>2, <1>3 DEF IInv, Tracking, Typing
  <2> QED
    BY <1>5, <2>1, SlotsKept DEF IInv
<1>8. Answered'
  <2>1. \A h \in Calls : pc'[h] = "idle" => pc[h] = "idle"
    BY <1>4
  <2> QED
    BY <1>1, <1>2, <1>3, <1>5, <2>1, SettlingAnswers DEF IInv
<1> QED
  BY <1>6, <1>7, <1>8 DEF IInv

\* The wait for a slot ends without one, or the reading of a body fails.
LEMMA LimiterTimeoutKeeps ==
  ASSUME IInv, NEW d \in Calls, LimiterTimeout(d)
  PROVE  IInv'
<1>1. L!WaitTimeout(d) /\ Reject(d, "saturated") /\ UNCHANGED <<outcomeUnknown, written>>
  BY DEF LimiterTimeout
<1>2. phase[d] \in Fetching /\ Working(d)
  BY <1>1 DEF IInv, Slots, L!WaitTimeout, Working, Unsettled
<1>3. phase' = [phase EXCEPT ![d] = "failed"] /\ "failed" \notin Fetching
  BY <1>1, <1>2 DEF Reject, Fetching
<1>4. Tracking'
  BY <1>1, <1>2, RejectTracks DEF IInv
<1>5. Slots'
  BY <1>1, <1>3, SlotsGivenBack DEF IInv
<1>6. outcomeUnknown' \in [Calls -> BOOLEAN]
  BY <1>1 DEF IInv, Answered
<1>7. Answered'
  BY <1>1, <1>2, <1>6, RejectAnswers DEF IInv
<1> QED
  BY <1>4, <1>5, <1>7 DEF IInv

LEMMA BodyFailsKeeps ==
  ASSUME IInv, NEW d \in Calls, BodyFails(d)
  PROVE  IInv'
<1>1. /\ phase[d] = "reading" /\ Working(d)
      /\ UNCHANGED <<outcomeUnknown, limiterVars, written>>
  BY DEF BodyFails, Working, Unsettled
<1>2. PICK why \in {"timedOut", "failed", "saturated"} : Reject(d, why)
  BY DEF BodyFails
<1>3. phase' = [phase EXCEPT ![d] = "broken"]
  BY <1>1, <1>2 DEF Reject
<1>4. Tracking'
  BY <1>1, <1>2, RejectTracks DEF IInv
<1>5. Slots'
  <2>1. \A c \in Calls : phase'[c] \in Fetching <=> phase[c] \in Fetching
    BY <1>1, <1>3 DEF IInv, Tracking, Typing, Fetching
  <2> QED
    BY <1>1, <2>1, SlotsKept DEF IInv
<1>6. outcomeUnknown' \in [Calls -> BOOLEAN]
  BY <1>1 DEF IInv, Answered
<1>7. Answered'
  BY <1>1, <1>2, <1>6, RejectAnswers DEF IInv
<1> QED
  BY <1>4, <1>5, <1>7 DEF IInv

\* Work that moves on within the loop, or out of it with the headers of its response.
LEMMA RequestLeavesKeeps ==
  ASSUME IInv, NEW d \in Calls, RequestLeaves(d)
  PROVE  IInv'
<1>1. /\ phase[d] = "fetching" /\ phase' = [phase EXCEPT ![d] = "sent"]
      /\ written' = written \cup {d}
      /\ UNCHANGED <<request, reply, pc, gen, outcomeUnknown, joiners, inFlight, limiterVars>>
  BY DEF RequestLeaves, clientVars, handlerVars, storeVars
<1>2. Working(d) /\ "sent" \in Unsettled /\ {"fetching", "sent"} \subseteq Fetching
  BY <1>1 DEF Working, Unsettled, Fetching
<1>3. Tracking'
  BY <1>1, <1>2, WorkTracks DEF IInv
<1>4. Slots'
  <2>1. \A c \in Calls : phase'[c] \in Fetching <=> phase[c] \in Fetching
    BY <1>1, <1>2 DEF IInv, Tracking, Typing
  <2> QED
    BY <1>1, <2>1, SlotsKept DEF IInv
<1>5. outcomeUnknown' \in [Calls -> BOOLEAN]
  BY <1>1 DEF IInv, Answered
<1>6. Answered'
  BY <1>1, <1>2, <1>5, WorkAnswers DEF IInv
<1> QED
  BY <1>3, <1>4, <1>6 DEF IInv

LEMMA WakesKeeps ==
  ASSUME IInv, NEW d \in Calls, Wakes(d)
  PROVE  IInv'
<1>1. /\ phase[d] = "backoff" /\ phase' = [phase EXCEPT ![d] = "fetching"]
      /\ UNCHANGED <<request, reply, pc, gen, outcomeUnknown, joiners, inFlight, limiterVars,
                     written>>
  BY DEF Wakes, clientVars, handlerVars, storeVars, historyVars
<1>2. Working(d) /\ "fetching" \in Unsettled /\ {"fetching", "backoff"} \subseteq Fetching
  BY <1>1 DEF Working, Unsettled, Fetching
<1>3. Tracking'
  BY <1>1, <1>2, WorkTracks DEF IInv
<1>4. Slots'
  <2>1. \A c \in Calls : phase'[c] \in Fetching <=> phase[c] \in Fetching
    BY <1>1, <1>2 DEF IInv, Tracking, Typing
  <2> QED
    BY <1>1, <2>1, SlotsKept DEF IInv
<1>5. outcomeUnknown' \in [Calls -> BOOLEAN] /\ d \notin written'
  BY <1>1 DEF IInv, Answered
<1>6. Answered'
  BY <1>1, <1>2, <1>5, WorkAnswers DEF IInv
<1> QED
  BY <1>3, <1>4, <1>6 DEF IInv

LEMMA HeadersKeeps ==
  ASSUME IInv, NEW d \in Calls, Headers(d)
  PROVE  IInv'
<1>1. /\ phase[d] = "sent" /\ phase' = [phase EXCEPT ![d] = "reading"] /\ L!Release(d)
      /\ UNCHANGED <<request, reply, pc, gen, outcomeUnknown, joiners, inFlight, written>>
  BY DEF Headers, clientVars, handlerVars, storeVars, historyVars
<1>2. Working(d) /\ "reading" \in Unsettled /\ "reading" \notin Fetching
  BY <1>1 DEF Working, Unsettled, Fetching
<1>3. Tracking'
  BY <1>1, <1>2, WorkTracks DEF IInv
<1>4. Slots'
  BY <1>1, <1>2, SlotsGivenBack DEF IInv
<1>5. outcomeUnknown' \in [Calls -> BOOLEAN]
  BY <1>1 DEF IInv, Answered
<1>6. Answered'
  BY <1>1, <1>2, <1>5, WorkAnswers DEF IInv
<1> QED
  BY <1>3, <1>4, <1>6 DEF IInv

LEMMA DeadlineKeeps ==
  ASSUME IInv, NEW h \in Calls, Deadline(h)
  PROVE  IInv'
<1>1. /\ pc[h] = "racing" /\ pc' = [pc EXCEPT ![h] = "detached"] /\ Sends(h, "running")
      /\ UNCHANGED <<request, gen, phase, outcomeUnknown, joiners, inFlight, limiterVars, written>>
  BY DEF Deadline, workVars, storeVars, historyVars
<1>2. "detached" \in Places \ {"idle"} /\ "running" \in Replies \ {"failed"}
  BY DEF Places, Replies
<1>3. Tracking'
  BY <1>1, DetachingTracks DEF IInv
<1>4. Slots'
  BY <1>1, SlotsKept DEF IInv
<1>5. Answered'
  BY <1>1, <1>2, HandlerAnswers DEF IInv
<1> QED
  BY <1>3, <1>4, <1>5 DEF IInv

LEMMA NextIInv == IInv /\ [Next]_vars => IInv'
<1> SUFFICES ASSUME IInv, [Next]_vars PROVE IInv'
  OBVIOUS
<1> USE DEF clientVars, handlerVars, workVars, limiterVars, storeVars, historyVars
<1>1. CASE Tick
  BY <1>1, UnseenKeeps DEF Tick
<1>2. ASSUME NEW c \in Calls, Arrive(c) PROVE IInv'
  BY <1>2, ArriveKeeps
<1>3. ASSUME NEW c \in Calls, Disconnect(c) \/ ResponseTimer(c) \/ AbortTimer(c) PROVE IInv'
  BY <1>3, UnseenKeeps DEF Disconnect, ResponseTimer, AbortTimer
<1>4. ASSUME NEW c \in Calls, Replay(c) PROVE IInv'
  BY <1>4, AnsweringKeeps DEF Replay
<1>5. ASSUME NEW c \in Calls, Relay(c) \/ Finish(c) PROVE IInv'
  BY <1>5, AnsweringKeeps DEF Relay, Finish, Answers
<1>6. ASSUME NEW c \in Calls, StreamEnd(c) PROVE IInv'
  BY <1>6, AnsweringKeeps DEF StreamEnd
<1>7. ASSUME NEW c \in Calls, Deadline(c) PROVE IInv'
  BY <1>7, DeadlineKeeps
<1>8. ASSUME NEW c \in Calls, RequestLeaves(c) PROVE IInv'
  BY <1>8, RequestLeavesKeeps
<1>9. ASSUME NEW c \in Calls, Headers(c) PROVE IInv'
  BY <1>9, HeadersKeeps
<1>10. ASSUME NEW c \in Calls, BodyFails(c) PROVE IInv'
  BY <1>10, BodyFailsKeeps
<1>11. ASSUME NEW c \in Calls, FetchAborts(c) PROVE IInv'
  <2>1. PhaseOfError(AbortError) = "sent"
    BY DEF PhaseOfError, AbortError
  <2> QED
    BY <1>11, <2>1, CaughtKeeps DEF FetchAborts
<1>12. ASSUME NEW c \in Calls, Wakes(c) PROVE IInv'
  BY <1>12, WakesKeeps
<1>13. ASSUME NEW c \in Calls, LimiterTimeout(c) PROVE IInv'
  BY <1>13, LimiterTimeoutKeeps
<1>14. ASSUME NEW c \in Calls, NEW e \in Errors, ConnectFails(c, e) \/ ConnectionDrops(c, e)
       PROVE  IInv'
  BY <1>14, CaughtKeeps DEF ConnectFails, ConnectionDrops
<1>15. ASSUME NEW c \in Calls, NEW ok \in BOOLEAN, NEW sse \in Streams, NEW bytes \in Sizes,
              Resolve(c, ok, sse, bytes)
       PROVE  IInv'
  BY <1>15, ResolveKeeps
<1>16. CASE UNCHANGED vars
  BY <1>16, UnseenKeeps DEF vars
<1> QED
  BY <1>1, <1>2, <1>3, <1>4, <1>5, <1>6, <1>7, <1>8, <1>9, <1>10, <1>11, <1>12, <1>13, <1>14,
     <1>15, <1>16 DEF Next

LEMMA Invariance == Spec => []IInv
BY InitIInv, NextIInv, PTL DEF Spec

\* However calls join, detach, leave, fail and come back, two generations of one fingerprint
\* never run at once, and a newcomer finds the one that runs; no handler waits for work that is
\* over, so its wait ends with the work.
THEOREM CallsAreCoalesced == Spec => [](OneGenerationAtATime /\ NobodyWaitsForNothing)
<1>1. IInv => OneGenerationAtATime /\ NobodyWaitsForNothing
  BY DEF IInv, Tracking
<1> QED
  BY <1>1, Invariance, PTL

\* A handler that waits, waits for work that still runs and that will wake it.
THEOREM WaitersAreWoken == Spec => []NobodyWaitsForNothing
BY CallsAreCoalesced, PTL

\* Every slot and every place in the limiter's queue belongs to work that is fetching, also when
\* nobody waits for that work any more.
THEOREM SlotsAreNotLost == Spec => []SlotsBelongToWork
<1>1. IInv => SlotsBelongToWork
  <2> SUFFICES ASSUME IInv PROVE SlotsBelongToWork
    OBVIOUS
  <2>1. L!SlotsExact
    BY DEF IInv, Slots, P!Inv, P!SlotsExact, L!SlotsExact, P!Running, L!Running,
           P!Cardinality, L!Cardinality, Cardinality
  <2>2. L!QueueIsWaiters
    BY DEF IInv, Slots, P!Inv, P!QueueIsWaiters, L!QueueIsWaiters
  <2> QED
    BY <2>1, <2>2 DEF IInv, Slots, SlotsBelongToWork
<1> QED
  BY <1>1, Invariance, PTL

\* A client whose own request left and failed before its response is not told a plain failure,
\* whatever the retries, timers and disconnects were.
THEOREM OwnersAreTold == Spec => []OwnerIsToldUnknown
<1>1. IInv => OwnerIsToldUnknown
  BY DEF IInv, Answered, OwnerIsToldUnknown
<1> QED
  BY <1>1, Invariance, PTL

-----------------------------------------------------------------------------
(* What is stored *)

Stored == [fp : Fps, gen : Calls, bytes : Nat, storedAt : Nat, delivered : BOOLEAN, key : BOOLEAN]

\* The rest of the typing: what IInv leaves open.
Storing ==
  /\ open \in [Calls -> BOOLEAN] /\ timedOut \in [Calls -> BOOLEAN]
  /\ orphaned \in [Calls -> BOOLEAN] /\ aborted \in [Calls -> BOOLEAN]
  /\ gen \in [Calls -> Calls \cup {None}] /\ attempt \in [Calls -> Nat]
  /\ body \in [Calls -> [sse : Streams, bytes : Sizes] \cup {None}]
  /\ results \in Seq(Stored) /\ clock \in Nat
  /\ written \subseteq Calls /\ claimed \subseteq Calls /\ dropped \subseteq Fps

\* Who started the work awaits it to its end.
OwnersWait == \A d \in Calls : Working(d) => d \in Joined(d)

\* A call is answered with, and the store holds, what was asked for under the same fingerprint.
Sources ==
  /\ \A c \in Calls : pc[c] # "idle" => /\ gen[c] \in Calls /\ pc[gen[c]] # "idle"
                                        /\ Fp(gen[c]) = Fp(c)
  /\ \A e \in ToSet(results) : pc[e.gen] # "idle" /\ Fp(e.gen) = e.fp

\* A result is stored as delivered only when a handler with a client had it, and a result that
\* is not there any more was dropped.
Deliveries ==
  /\ \A d \in Calls : phase[d] = "ok" => body[d] \in [sse : Streams, bytes : Sizes]
  /\ \A h \in Calls : pc[h] \in {"relaying", "finishing", "streaming"} => gen[h] \in claimed
  /\ \A e \in ToSet(results) : e.gen \notin claimed => ~e.delivered
  /\ \A d \in Calls : phase[d] = "ok" => Fp(d) \in dropped \/ Has(results, Fp(d))

Keeping == OwnersWait /\ Sources /\ Deliveries

LEMMA StoredAre == Sized(Stored) /\ Keyed(Stored, Fps)
BY DEF Sized, Keyed, Stored

LEMMA ResultIsStored ==
  ASSUME IInv, Storing, NEW h \in Calls, pc[h] # "idle", NEW d \in Calls,
         NEW b \in Nat, NEW delivered \in BOOLEAN
  PROVE  Result(d, h, b, delivered) \in Stored
<1>1. Fp(h) \in Fps /\ request[h] \in Requests
      BY FpsOfCalls DEF IInv, Tracking, Arrivals
<1>2. request[h].key \in BOOLEAN
      BY <1>1, CallsAssumption
<1> QED  BY <1>1, <1>2, Zenon DEF Result, Stored, Storing

\* Those who put are on the list, and the one who started the work is among them.
LEMMA PuttingIs ==
  ASSUME IInv, OwnersWait, NEW d \in Calls
  PROVE  /\ Putting(d) \in Seq(Calls) /\ ToSet(Putting(d)) \subseteq Joined(d)
         /\ \A h \in ToSet(Putting(d)) : pc[h] # "idle" /\ gen[h] = d
         /\ Working(d) => d \in ToSet(Putting(d))
<1> DEFINE A == {h \in Calls : pc[h] = "detached"}
           B == {h \in Calls : pc[h] = "racing" /\ (orphaned[h] \/ h = d)}
           a == Only(joiners[d], A)
           b == Only(joiners[d], B)
<1>1. joiners[d] \in Seq(Calls)
      BY DEF IInv, Tracking, Typing
<1> HIDE DEF A, B
<1>2. /\ a \in Seq(Calls) /\ ToSet(a) = Joined(d) \cap A
      /\ b \in Seq(Calls) /\ ToSet(b) = Joined(d) \cap B
      BY <1>1, OnlyIsSeq, OnlyMembers DEF Joined
<1>3. Putting(d) = a \o b
      BY DEF Putting, A, B
<1> HIDE DEF a, b
<1>4. Putting(d) \in Seq(Calls) /\ ToSet(Putting(d)) = ToSet(a) \cup ToSet(b)
      BY <1>2, <1>3, ToSetConcat
<1>5. \A h \in Joined(d) : h \in Calls /\ Waiting(h) /\ gen[h] = d
      BY <1>1, ToSetIn DEF IInv, Tracking, JoinersWait, Joined
<1>6. ASSUME Working(d) PROVE d \in ToSet(Putting(d))
  <2>1. d \in Joined(d) /\ Waiting(d)
        BY <1>5, <1>6 DEF OwnersWait
  <2> QED  BY <1>2, <1>4, <2>1 DEF A, B, Waiting
<1> QED  BY <1>2, <1>4, <1>5, <1>6 DEF Waiting

\* What the puts of a turn leave, one after the other.
Puts(g, d, b, n) ==
  /\ g[0] = results
  /\ \A i \in 1..n : g[i] = AfterPut(g[i - 1], Result(d, Putting(d)[i], b, ~orphaned[Putting(d)[i]]))

LEMMA SettlingIsPuts ==
  ASSUME IInv, Storing, OwnersWait, NEW d \in Calls, NEW b \in Nat
  PROVE  \E g \in [0..Len(Putting(d)) -> Seq(Stored)] :
            Puts(g, d, b, Len(Putting(d))) /\ AfterSettling(d, b) = g[Len(Putting(d))]
<1> DEFINE s == Putting(d)
           n == Len(s)
           R(i) == Result(d, s[i], b, ~orphaned[s[i]])
           step == [i \in 1..n |-> [rs \in Seq(Stored) |-> AfterPut(rs, R(i))]]
           Def(f) == [t \in SUBSET DOMAIN s |->
                        IF t = {} THEN results
                        ELSE LET x == Max(t) IN AfterPut(f[t \ {x}], R(x))]
           iter == CHOOSE f : f = Def(f)
<1>0. s \in Seq(Calls) /\ \A h \in ToSet(s) : pc[h] # "idle"
      BY PuttingIs
<1>1. n \in Nat /\ DOMAIN s = 1..n /\ results \in Seq(Stored)
      BY <1>0 DEF Storing
<1>2. \A i \in 1..n : R(i) \in Stored
  <2> SUFFICES ASSUME NEW i \in 1..n PROVE R(i) \in Stored
      OBVIOUS
  <2> HIDE DEF s
  <2>1. s[i] \in Calls /\ pc[s[i]] # "idle"
        BY <1>0, <1>1 DEF ToSet
  <2>2. (~orphaned[s[i]]) \in BOOLEAN
        BY Zenon
  <2> QED  BY <2>1, <2>2, ResultIsStored
<1> HIDE DEF s, R
<1>3. step \in [1..n -> [Seq(Stored) -> Seq(Stored)]]
  <2>1. \A i \in 1..n : \A rs \in Seq(Stored) : AfterPut(rs, R(i)) \in Seq(Stored)
        BY <1>2, StoredAre, PutLeaves
  <2> QED  BY <2>1
<1>4. PICK f \in [SUBSET (1..n) -> Seq(Stored)] : FoldsOver(f, n, results, step)
  <2> HIDE DEF n, step
  <2> QED  BY <1>1, <1>3, FoldExists
<1>5. f = Def(f)
  <2>1. ASSUME NEW t \in SUBSET (1..n)
        PROVE  f[t] = IF t = {} THEN results ELSE AfterPut(f[t \ {Max(t)}], R(Max(t)))
    <3>1. CASE t = {}
      <4> HIDE DEF n, step
      <4> QED  BY <1>4, <3>1 DEF FoldsOver
    <3>2. CASE t # {}
      <4>1. Max(t) \in 1..n
        <5> HIDE DEF n, step
        <5>1. Max(t) \in t
              BY <1>1, <3>2, MaxExists
        <5> QED  BY <5>1
      <4>2. f[t] = step[Max(t)][f[t \ {Max(t)}]] /\ f[t \ {Max(t)}] \in Seq(Stored)
        <5> HIDE DEF n, step
        <5>1. t \ {Max(t)} \in SUBSET (1..n)
              OBVIOUS
        <5> QED  BY <1>4, <3>2, <5>1 DEF FoldsOver
      <4>3. \A x \in Seq(Stored) : step[Max(t)][x] = AfterPut(x, R(Max(t)))
            BY <4>1
      <4> HIDE DEF step, n
      <4> QED  BY <3>2, <4>2, <4>3
    <3> QED  BY <3>1, <3>2
  <2>2. f = [t \in SUBSET (1..n) |-> f[t]]
    <3> HIDE DEF step, n
    <3> QED  BY <1>4
  <2> HIDE DEF step, n
  <2>3. Def(f) = [t \in SUBSET (1..n) |->
                    IF t = {} THEN results ELSE AfterPut(f[t \ {Max(t)}], R(Max(t)))]
        BY <1>1
  <2> QED  BY <2>1, <2>2, <2>3
<1>6. iter = Def(iter)
  <2> HIDE DEF Def
  <2> QED  BY <1>5, Zenon
<1>7. AfterSettling(d, b) = iter[DOMAIN s]
      BY DEF AfterSettling, FoldLeft, MapThenFoldSet, R, s
<1> HIDE DEF iter, step
<1>8. \A t \in SUBSET (1..n) :
         iter[t] = IF t = {} THEN results ELSE AfterPut(iter[t \ {Max(t)}], R(Max(t)))
      BY <1>1, <1>6, Zenon
<1> HIDE DEF Def, n
<1> DEFINE g == [i \in 0..n |-> iter[1..i]]
<1>9. /\ g[0] = results
      /\ \A i \in 1..n : g[i] = AfterPut(g[i - 1], R(i))
  <2>1. 1..0 = {} /\ {} \in SUBSET (1..n) /\ 0 \in 0..n
        BY <1>1
  <2>2. iter[{}] = results
        BY <1>8, <2>1, Zenon
  <2>3. ASSUME NEW i \in 1..n PROVE iter[1..i] = AfterPut(iter[1..(i - 1)], R(i))
    <3>1. i - 1 \in 0..(n - 1) /\ (i - 1) + 1 = i
          BY <1>1
    <3>2. 1..i \in SUBSET (1..n) /\ 1..i # {} /\ Max(1..i) = i /\ (1..i) \ {i} = 1..(i - 1)
          BY <1>1, <3>1, FoldsInOrder
    <3> QED  BY <1>8, <3>2
  <2>4. \A i \in 1..n : i \in 0..n /\ i - 1 \in 0..n
        BY <1>1
  <2>5. g[0] = results
        BY <2>1, <2>2
  <2> QED  BY <2>3, <2>4, <2>5
<1>10. \A i \in 0..n : g[i] \in Seq(Stored)
  <2> DEFINE T == {i \in 0..n : g[i] \in Seq(Stored)}
  <2> HIDE DEF g
  <2>1. 0 \in T
        BY <1>1, <1>9
  <2>2. ASSUME NEW i \in 0..(n - 1), i \in T PROVE i + 1 \in T
    <3>1. i + 1 \in 1..n /\ (i + 1) - 1 = i /\ i + 1 \in 0..n
          BY <1>1
    <3>2. g[i + 1] = AfterPut(g[i], R(i + 1)) /\ R(i + 1) \in Stored /\ g[i] \in Seq(Stored)
          BY <1>2, <1>9, <2>2, <3>1
    <3> QED  BY <3>1, <3>2, StoredAre, PutLeaves
  <2>3. 0..n \subseteq T
    <3> HIDE DEF T
    <3> QED  BY <1>1, <2>1, <2>2, Induction
  <2> QED  BY <2>3
<1>11. g \in [0..n -> Seq(Stored)] /\ AfterSettling(d, b) = g[n]
  <2>1. n \in 0..n
        BY <1>1
  <2> QED  BY <1>1, <1>7, <1>10, <2>1
<1> HIDE DEF g
<1>12. Puts(g, d, b, n)
       BY <1>9 DEF Puts, R, s
<1> QED  BY <1>11, <1>12 DEF n, s

\* So what is stored after the turn was stored before it, or put in it.
LEMMA SettlingLeaves ==
  ASSUME IInv, Storing, OwnersWait, NEW d \in Calls, NEW b \in Nat
  PROVE  /\ AfterSettling(d, b) \in Seq(Stored)
         /\ \A e \in ToSet(AfterSettling(d, b)) :
              \/ e \in ToSet(results)
              \/ \E h \in ToSet(Putting(d)) : e = Result(d, h, b, ~orphaned[h])
<1> DEFINE s == Putting(d)
           n == Len(s)
           Fresh(e) == \E h \in ToSet(s) : e = Result(d, h, b, ~orphaned[h])
<1>1. s \in Seq(Calls) /\ \A h \in ToSet(s) : pc[h] # "idle" /\ h \in Calls
      BY PuttingIs, ToSetIn
<1>2. PICK g \in [0..n -> Seq(Stored)] : Puts(g, d, b, n) /\ AfterSettling(d, b) = g[n]
      BY SettlingIsPuts
<1>3. n \in Nat /\ DOMAIN s = 1..n
      BY <1>1
<1> DEFINE T == {i \in 0..n : \A e \in ToSet(g[i]) : e \in ToSet(results) \/ Fresh(e)}
<1>4. 0 \in T
      BY <1>2, <1>3 DEF Puts
<1>5. ASSUME NEW i \in 0..(n - 1), i \in T PROVE i + 1 \in T
  <2> DEFINE r == Result(d, s[i + 1], b, ~orphaned[s[i + 1]])
  <2>1. i + 1 \in 1..n /\ (i + 1) - 1 = i /\ i + 1 \in 0..n /\ i \in 0..n
        BY <1>3
  <2>2. g[i + 1] = AfterPut(g[i], r) /\ g[i] \in Seq(Stored)
        BY <1>2, <2>1 DEF Puts
  <2>3. s[i + 1] \in ToSet(s)
        BY <1>3, <2>1 DEF ToSet
  <2>4. r \in Stored /\ Fresh(r)
    <3>1. (~orphaned[s[i + 1]]) \in BOOLEAN
          BY Zenon
    <3> HIDE DEF s
    <3>2. r \in Stored
          BY <1>1, <2>3, <3>1, ResultIsStored
    <3>3. Fresh(r)
          BY <2>3, Zenon
    <3> QED  BY <3>2, <3>3
  <2> HIDE DEF r
  <2>5. ToSet(AfterPut(g[i], r)) \subseteq ToSet(g[i]) \cup {r}
        BY <2>2, <2>4, StoredAre, PutLeaves
  <2> HIDE DEF Fresh
  <2> QED  BY <1>5, <2>1, <2>2, <2>4, <2>5
<1>6. 0..n \subseteq T
  <2> HIDE DEF T, n
  <2> QED  BY <1>3, <1>4, <1>5, Induction
<1>7. n \in 0..n
      BY <1>3
<1> HIDE DEF Fresh
<1>8. \A e \in ToSet(AfterSettling(d, b)) : e \in ToSet(results) \/ Fresh(e)
      BY <1>2, <1>6, <1>7
<1>9. AfterSettling(d, b) \in Seq(Stored)
  <2> HIDE DEF n
  <2> QED  BY <1>2, <1>7
<1> QED  BY <1>8, <1>9 DEF Fresh

LEMMA StoredIs ==
  ASSUME Storing
  PROVE  \A e \in ToSet(results) : e \in Stored /\ e.gen \in Calls /\ e.fp \in Fps
<1> SUFFICES ASSUME NEW e \in ToSet(results)
             PROVE  e \in Stored /\ e.gen \in Calls /\ e.fp \in Fps
    OBVIOUS
<1>1. e \in Stored
      BY ToSetIn DEF Storing
<1> QED  BY <1>1 DEF Stored

\* A result that is not there any more has been noted.
LEMMA NotedIfGone ==
  ASSUME NEW F, NotesDropped(F), NEW f \in Fps, f \in F \cup dropped \/ Has(results, f)
  PROVE  f \in dropped' \/ Has(results', f)
BY DEF NotesDropped

LEMMA OkCallsHaveFps ==
  ASSUME IInv, NEW d \in Calls, phase[d] # "off"
  PROVE  pc[d] # "idle" /\ Fp(d) \in Fps
BY FpsOfCalls DEF IInv, Tracking, Arrivals

\* Who waits for the work it started stays on its list.
LEMMA OwnerWaits ==
  ASSUME IInv', NEW d \in Calls, Waiting(d)', gen'[d] = d
  PROVE  d \in Joined(d)'
BY DEF IInv, Tracking, NobodyWaitsForNothing, Waiting

LEMMA OwnerWaited ==
  ASSUME IInv, OwnersWait, NEW d \in Calls, Working(d)
  PROVE  Waiting(d) /\ gen[d] = d
BY DEF IInv, Tracking, OwnersWait, JoinersWait

\* Steps that touch neither what is stored nor the history of it.
LEMMA QuietKeeps ==
  ASSUME Storing, Keeping, UNCHANGED <<request, gen, body, results, claimed, dropped>>,
         \A h \in Calls : pc'[h] = "idle" <=> pc[h] = "idle",
         \A h \in Calls : pc'[h] \in {"relaying", "finishing", "streaming"} => pc'[h] = pc[h],
         \A d \in Calls : phase'[d] = "ok" => phase[d] = "ok",
         \A d \in Calls : Working(d)' => Working(d) /\ d \in Joined(d)'
  PROVE  Keeping'
<1>1. OwnersWait'
      BY DEF OwnersWait
<1>2. \A c \in Calls : Fp(c)' = Fp(c)
      BY DEF Fp
<1>3. Sources'
  <2>1. \A c \in Calls : pc'[c] # "idle" => gen[c] \in Calls /\ pc'[gen[c]] # "idle" /\ Fp(gen[c]) = Fp(c)
        BY DEF Keeping, Sources
  <2>2. \A e \in ToSet(results) : pc'[e.gen] # "idle" /\ Fp(e.gen) = e.fp /\ e.gen \in Calls
        BY StoredIs DEF Keeping, Sources
  <2> QED  BY <1>2, <2>1, <2>2 DEF Sources
<1>4. Deliveries'
      BY <1>2 DEF Keeping, Deliveries
<1> QED  BY <1>1, <1>3, <1>4 DEF Keeping

\* How the two facts of Sources are shown of a next state.
LEMMA SourcesNext ==
  ASSUME \A h \in Calls : pc'[h] # "idle"
           => \E k \in Calls : gen'[h] = k /\ pc'[k] # "idle" /\ Fp(k)' = Fp(h)',
         \A e \in ToSet(results') : \E k \in Calls : e.gen = k /\ pc'[k] # "idle" /\ Fp(k)' = e.fp
  PROVE  Sources'
<1>1. \A h \in Calls : pc'[h] # "idle" => gen'[h] \in Calls /\ pc'[gen'[h]] # "idle"
                                          /\ Fp(gen[h])' = Fp(h)'
      BY DEF Fp
<1>2. \A e \in ToSet(results') : pc'[e.gen] # "idle" /\ Fp(e.gen)' = e.fp
      BY DEF Fp
<1> QED  BY <1>1, <1>2 DEF Sources

\* A call that comes: it is answered with, joins or starts work for its own fingerprint, and what
\* it sweeps away is noted.
LEMMA ArriveSources ==
  ASSUME IInv, Storing, Keeping, NEW c \in Calls, NEW r \in Requests, pc[c] = "idle",
         request' = [request EXCEPT ![c] = r],
         Replays(c, Fp(c)') \/ Joins(c, Fp(c)') \/ Starts(c, Fp(c)')
  PROVE  /\ pc'[c] \in {"replaying", "racing"} /\ gen'[c] \in Calls
         /\ gen' = [gen EXCEPT ![c] = gen'[c]]
         /\ gen'[c] # c => pc[gen'[c]] # "idle" /\ Fp(gen'[c]) = Fp(c)'
         /\ \A h \in Calls : h # c => pc'[h] = pc[h] /\ gen'[h] = gen[h]
         /\ UNCHANGED body
         /\ UNCHANGED phase \/ (phase' = [phase EXCEPT ![c] = "fetching"] /\ pc'[c] = "racing" /\ gen'[c] = c)
<1> DEFINE f == Fp(c)'
<1>1. New(c, r)
      BY Newcomer DEF IInv
<1>2. DOMAIN pc = Calls /\ DOMAIN gen = Calls
      BY DEF IInv, Tracking, Typing
<1>3. CASE Replays(c, f)
  <2> DEFINE e == EntryOf(results, f)
  <2>1. results \in Seq(Stored) /\ Has(results, f)
    <3>1. results \in Seq(Stored)
          BY DEF Storing
    <3>2. Has(Swept(results, clock), f)
          BY <1>3 DEF Replays, TakeHits
    <3>3. Swept(results, clock) \in Seq(Stored) /\ ToSet(Swept(results, clock)) \subseteq ToSet(results)
          BY <3>1, SweptLeaves
    <3> HIDE DEF f
    <3> QED  BY <3>1, <3>2, <3>3, HasInFps DEF FpsOf
  <2>2. e \in ToSet(results) /\ e.fp = f
    <3> HIDE DEF f
    <3> QED  BY <2>1, EntryIn
  <2> HIDE DEF e
  <2>3. e.gen \in Calls /\ pc[e.gen] # "idle" /\ Fp(e.gen) = f
        BY <2>2, StoredIs DEF Keeping, Sources
  <2>4. /\ gen' = [gen EXCEPT ![c] = e.gen] /\ pc' = [pc EXCEPT ![c] = "replaying"]
        /\ UNCHANGED <<phase, body>>
        BY <1>3 DEF Replays, e, workVars
  <2> QED  BY <1>2, <2>3, <2>4
<1>4. CASE Joins(c, f)
  <2> DEFINE k == inFlight[f]
  <2>1. /\ k # None /\ pc' = [pc EXCEPT ![c] = "racing"] /\ gen' = [gen EXCEPT ![c] = k]
        /\ UNCHANGED <<phase, body>>
        BY <1>4 DEF Joins
  <2>2. k \in Calls /\ Working(k) /\ Fp(k) = f
        BY <1>1, <2>1 DEF IInv, Tracking, Typing, RegisteredWorks, New
  <2> HIDE DEF k
  <2>3. pc[k] # "idle"
        BY <2>2, OkCallsHaveFps DEF Working, Unsettled, Fetching
  <2> QED  BY <1>2, <2>1, <2>2, <2>3
<1>5. CASE Starts(c, f)
      BY <1>2, <1>5 DEF Starts
<1> QED  BY <1>3, <1>4, <1>5

LEMMA ArriveKeepsResults ==
  ASSUME IInv, IInv', Storing, Keeping, NEW c \in Calls, Arrive(c)
  PROVE  /\ Keeping'
         /\ results' \in Seq(Stored) /\ dropped' \subseteq Fps /\ gen' \in [Calls -> Calls \cup {None}]
         /\ UNCHANGED body
<1>1. PICK r \in Requests : /\ request' = [request EXCEPT ![c] = r]
                            /\ results' = AfterTake(results, Fp(c)', r.key, clock)
                            /\ Replays(c, Fp(c)') \/ Joins(c, Fp(c)') \/ Starts(c, Fp(c)')
      BY DEF Arrive
<1>2. pc[c] = "idle" /\ NotesDropped({}) /\ UNCHANGED claimed
      BY DEF Arrive
<1>3. New(c, r)
      BY <1>1, <1>2, Newcomer DEF IInv
<1>4. /\ pc'[c] \in {"replaying", "racing"} /\ gen'[c] \in Calls
      /\ gen' = [gen EXCEPT ![c] = gen'[c]]
      /\ gen'[c] # c => pc[gen'[c]] # "idle" /\ Fp(gen'[c]) = Fp(c)'
      /\ \A h \in Calls : h # c => pc'[h] = pc[h] /\ gen'[h] = gen[h]
      /\ UNCHANGED body
      /\ UNCHANGED phase \/ (phase' = [phase EXCEPT ![c] = "fetching"] /\ pc'[c] = "racing" /\ gen'[c] = c)
      BY <1>1, <1>2, ArriveSources
<1>5. results' \in Seq(Stored) /\ ToSet(results') \subseteq ToSet(results)
  <2>1. results \in Seq(Stored)
        BY DEF Storing
  <2> QED  BY <1>1, <2>1, StoredAre, TakeLeaves, SweptLeaves
<1>6. /\ phase[c] = "off" /\ \A d \in Calls : d # c => phase'[d] = phase[d] /\ Fp(d)' = Fp(d)
      /\ phase'[c] # "ok"
      BY <1>3, <1>4 DEF New, IInv, Tracking, Typing
<1>7. OwnersWait'
  <2> SUFFICES ASSUME NEW d \in Calls, Working(d)' PROVE Waiting(d)' /\ gen'[d] = d
      BY OwnerWaits DEF OwnersWait
  <2>1. CASE d = c
        BY <1>4, <1>6, <2>1 DEF Working, Waiting, Unsettled, Fetching
  <2>2. CASE d # c
    <3>1. Waiting(d) /\ gen[d] = d
          BY <1>6, <2>2, OwnerWaited DEF Working, Keeping
    <3> QED  BY <1>4, <2>2, <3>1 DEF Waiting
  <2> QED  BY <2>1, <2>2
<1>8. Sources'
  <2>1. ASSUME NEW h \in Calls, pc'[h] # "idle"
        PROVE  \E k \in Calls : gen'[h] = k /\ pc'[k] # "idle" /\ Fp(k)' = Fp(h)'
    <3>1. CASE h = c
      <4>1. PICK k \in Calls : gen'[c] = k
            BY <1>4
      <4>2. CASE k = c
            BY <1>4, <3>1, <4>1, <4>2
      <4>3. CASE k # c
        <5>1. pc[k] # "idle" /\ Fp(k) = Fp(c)' /\ pc'[k] = pc[k] /\ Fp(k)' = Fp(k)
          <6>1. pc[gen'[c]] # "idle" /\ Fp(gen'[c]) = Fp(c)'
                BY <1>4, <4>1, <4>3
          <6> QED  BY <1>4, <1>6, <4>1, <4>3, <6>1
        <5> QED  BY <3>1, <4>1, <5>1
      <4> QED  BY <4>2, <4>3
    <3>2. CASE h # c
      <4>1. pc[h] # "idle" /\ gen'[h] = gen[h] /\ Fp(h)' = Fp(h)
            BY <1>4, <1>6, <2>1, <3>2
      <4>2. PICK k \in Calls : k = gen[h] /\ pc[k] # "idle" /\ Fp(k) = Fp(h)
            BY <4>1 DEF Keeping, Sources
      <4>3. k # c
            BY <1>2, <4>2
      <4>4. pc'[k] = pc[k] /\ Fp(k)' = Fp(k)
            BY <1>4, <1>6, <4>3
      <4> QED  BY <4>1, <4>2, <4>4
    <3> QED  BY <3>1, <3>2
  <2>2. ASSUME NEW e \in ToSet(results')
        PROVE  \E k \in Calls : e.gen = k /\ pc'[k] # "idle" /\ Fp(k)' = e.fp
    <3>1. PICK k \in Calls : k = e.gen /\ pc[k] # "idle" /\ Fp(k) = e.fp
          BY <1>5, StoredIs DEF Keeping, Sources
    <3>2. k # c
          BY <1>2, <3>1
    <3>3. pc'[k] = pc[k] /\ Fp(k)' = Fp(k)
          BY <1>4, <1>6, <3>2
    <3> QED  BY <3>1, <3>3
  <2> QED  BY <2>1, <2>2, SourcesNext
<1>9. Deliveries'
  <2>1. ASSUME NEW d \in Calls, phase'[d] = "ok" PROVE Fp(d)' \in dropped' \/ Has(results', Fp(d)')
    <3>1. d # c /\ phase[d] = "ok" /\ Fp(d)' = Fp(d) /\ Fp(d) \in Fps
          BY <1>6, <2>1, OkCallsHaveFps
    <3>2. Fp(d) \in dropped \/ Has(results, Fp(d))
          BY <3>1 DEF Keeping, Deliveries
    <3> QED  BY <1>2, <3>1, <3>2, NotedIfGone
  <2>2. \A d \in Calls : phase'[d] = "ok" => phase[d] = "ok"
        BY <1>6
  <2>3. \A h \in Calls : pc'[h] \in {"relaying", "finishing", "streaming"} => pc'[h] = pc[h] /\ gen'[h] = gen[h]
        BY <1>4
  <2> QED  BY <1>2, <1>4, <1>5, <2>1, <2>2, <2>3 DEF Keeping, Deliveries, Fp
<1>10. dropped' \subseteq Fps
       BY <1>2 DEF NotesDropped
<1>11. gen' \in [Calls -> Calls \cup {None}]
       BY <1>4 DEF Storing
<1> QED  BY <1>4, <1>5, <1>7, <1>8, <1>9, <1>10, <1>11 DEF Keeping

\* The promise of a generation resolves: what its handlers put is of the generation and of their
\* fingerprint, delivered only where one of them still has its client.
LEMMA ResolveSettles ==
  ASSUME IInv, Storing, Keeping, NEW d \in Calls, NEW ok \in BOOLEAN, NEW sse \in Streams,
         NEW bytes \in Sizes, Resolve(d, ok, sse, bytes)
  PROVE  /\ results' \in Seq(Stored)
         /\ \A e \in ToSet(results') :
              \/ e \in ToSet(results)
              \/ \E h \in Joined(d) : /\ e.gen = d /\ e.fp = Fp(h) /\ e.delivered = ~orphaned[h]
                                      /\ h \in Calls /\ gen[h] = d /\ pc[h] # "idle"
<1>1. bytes \in Nat /\ results \in Seq(Stored) /\ OwnersWait
      BY CallsAssumption DEF Storing, Keeping
<1>2. CASE ~ok
      BY <1>1, <1>2 DEF Resolve
<1>3. CASE ok
  <2>1. results' = AfterSettling(d, bytes)
        BY <1>3 DEF Resolve
  <2>2. ASSUME NEW h \in ToSet(Putting(d)), NEW e, e = Result(d, h, bytes, ~orphaned[h])
        PROVE  /\ e.gen = d /\ e.fp = Fp(h) /\ e.delivered = ~orphaned[h]
               /\ h \in Joined(d) /\ h \in Calls /\ gen[h] = d /\ pc[h] # "idle"
    <3>1. h \in Joined(d) /\ h \in Calls /\ gen[h] = d /\ pc[h] # "idle"
          BY <1>1, PuttingIs, ToSetIn
    <3>2. e.gen = d /\ e.fp = Fp(h) /\ e.delivered = ~orphaned[h]
          BY <2>2, Zenon DEF Result
    <3> QED  BY <3>1, <3>2
  <2>3. /\ results' \in Seq(Stored)
        /\ \A e \in ToSet(results') :
             e \in ToSet(results) \/ \E h \in ToSet(Putting(d)) : e = Result(d, h, bytes, ~orphaned[h])
        BY <1>1, <2>1, SettlingLeaves
  <2> QED  BY <2>2, <2>3
<1> QED  BY <1>2, <1>3

LEMMA ResolveKeepsResults ==
  ASSUME IInv, IInv', Storing, Keeping, NEW d \in Calls, NEW ok \in BOOLEAN, NEW sse \in Streams,
         NEW bytes \in Sizes, Resolve(d, ok, sse, bytes)
  PROVE  /\ Keeping'
         /\ results' \in Seq(Stored) /\ dropped' \subseteq Fps /\ claimed' \subseteq Calls
         /\ body' \in [Calls -> [sse : Streams, bytes : Sizes] \cup {None}]
<1> DEFINE Fresh(e) == \E h \in Joined(d) : /\ e.gen = d /\ e.fp = Fp(h) /\ e.delivered = ~orphaned[h]
                                          /\ h \in Calls /\ gen[h] = d /\ pc[h] # "idle"
<1>1. phase[d] = "reading" /\ Working(d) /\ d \in Joined(d)
      BY DEF Resolve, Working, Unsettled, Keeping, OwnersWait
<1>2. /\ UNCHANGED <<request, gen, orphaned>> /\ \A c \in Calls : Fp(c)' = Fp(c)
      /\ phase' = [phase EXCEPT ![d] = IF ok THEN "ok" ELSE "refused"]
      /\ body' = [body EXCEPT ![d] = [sse |-> sse, bytes |-> bytes]]
      BY DEF Resolve, clientVars, Fp
<1>3. /\ phase'[d] = "ok" <=> ok
      /\ ~Working(d)' /\ \A c \in Calls : c # d => phase'[c] = phase[c]
      BY <1>2 DEF IInv, Tracking, Typing, Working, Unsettled, Fetching
<1>4. /\ \A h \in Calls : h \notin Joined(d) => pc'[h] = pc[h]
      /\ \A h \in Calls : h \in Joined(d) => pc'[h] \notin {"idle", "racing", "detached"}
      /\ \A h \in Calls : h \in Joined(d) /\ orphaned[h] => pc'[h] = "done"
      BY DEF Resolve
<1>5. \A h \in Joined(d) : h \in Calls /\ Waiting(h) /\ gen[h] = d
      BY ToSetIn DEF IInv, Tracking, Typing, JoinersWait, Joined
<1>6. /\ claimed \subseteq claimed' /\ claimed' \subseteq Calls
      /\ \A h \in Joined(d) : ~orphaned[h] => d \in claimed'
      BY DEF Resolve, Storing
<1>7. results' \in Seq(Stored) /\ \A e \in ToSet(results') : e \in ToSet(results) \/ Fresh(e)
      BY ResolveSettles
<1>8. NotesDropped(IF ok THEN {Fp(h) : h \in ToSet(Putting(d))} ELSE {})
      BY DEF Resolve
<1>9. OwnersWait'
  <2> SUFFICES ASSUME NEW c \in Calls, Working(c)' PROVE Waiting(c)' /\ gen'[c] = c
      BY OwnerWaits DEF OwnersWait
  <2>1. c # d /\ Working(c)
        BY <1>3 DEF Working
  <2>2. Waiting(c) /\ gen[c] = c
        BY <2>1, OwnerWaited DEF Keeping
  <2>3. c \notin Joined(d)
        BY <1>5, <2>1, <2>2
  <2> QED  BY <1>2, <1>4, <2>2, <2>3 DEF Waiting
<1>10. \A h \in Calls : pc'[h] # "idle" <=> pc[h] # "idle"
       BY <1>4, <1>5 DEF Waiting
<1>11. Sources'
  <2>1. ASSUME NEW h \in Calls, pc'[h] # "idle"
        PROVE  \E k \in Calls : gen'[h] = k /\ pc'[k] # "idle" /\ Fp(k)' = Fp(h)'
    <3>1. PICK k \in Calls : gen[h] = k /\ pc[k] # "idle" /\ Fp(k) = Fp(h)
          BY <1>10, <2>1 DEF Keeping, Sources
    <3> QED  BY <1>2, <1>10, <3>1
  <2>2. ASSUME NEW e \in ToSet(results')
        PROVE  \E k \in Calls : e.gen = k /\ pc'[k] # "idle" /\ Fp(k)' = e.fp
    <3>1. \E k \in Calls : e.gen = k /\ pc[k] # "idle" /\ Fp(k) = e.fp
      <4>1. CASE e \in ToSet(results)
            BY <4>1, StoredIs DEF Keeping, Sources
      <4>2. CASE Fresh(e)
        <5>1. PICK h \in Calls : e.gen = d /\ e.fp = Fp(h) /\ gen[h] = d /\ pc[h] # "idle"
              BY <4>2
        <5>2. pc[d] # "idle" /\ Fp(d) = Fp(h)
              BY <5>1 DEF Keeping, Sources
        <5> QED  BY <5>1, <5>2
      <4> HIDE DEF Fresh
      <4> QED  BY <1>7, <4>1, <4>2
    <3>2. PICK k \in Calls : e.gen = k /\ pc[k] # "idle" /\ Fp(k) = e.fp
          BY <3>1
    <3> QED  BY <1>2, <1>10, <3>2
  <2> HIDE DEF Fresh
  <2> QED  BY <2>1, <2>2, SourcesNext
<1>12. \A c \in Calls : phase'[c] = "ok" => body'[c] \in [sse : Streams, bytes : Sizes]
  <2> SUFFICES ASSUME NEW c \in Calls, phase'[c] = "ok"
               PROVE  body'[c] \in [sse : Streams, bytes : Sizes]
      OBVIOUS
  <2>1. CASE c = d
        BY <1>2, <2>1 DEF Storing
  <2>2. CASE c # d
        BY <1>2, <1>3, <2>2 DEF Storing, Keeping, Deliveries
  <2> QED  BY <2>1, <2>2
<1>13. \A h \in Calls : pc'[h] \in {"relaying", "finishing", "streaming"} => gen'[h] \in claimed'
       BY <1>2, <1>4, <1>5, <1>6 DEF Keeping, Deliveries
<1>14. \A e \in ToSet(results') : e.gen \notin claimed' => ~e.delivered
  <2> SUFFICES ASSUME NEW e \in ToSet(results'), e.gen \notin claimed' PROVE ~e.delivered
      OBVIOUS
  <2>1. CASE e \in ToSet(results)
        BY <1>6, <2>1 DEF Keeping, Deliveries
  <2>2. CASE Fresh(e)
        BY <1>6, <2>2
  <2> HIDE DEF Fresh
  <2> QED  BY <1>7, <2>1, <2>2
<1>15. ASSUME NEW c \in Calls, phase'[c] = "ok"
       PROVE  Fp(c)' \in dropped' \/ Has(results', Fp(c)')
  <2>1. Fp(c)' = Fp(c) /\ Fp(c) \in Fps
        BY <1>1, <1>2, <1>3, <1>15, OkCallsHaveFps
  <2>2. CASE c = d
    <3>1. ok /\ d \in ToSet(Putting(d))
          BY <1>1, <1>3, <1>15, <2>2, PuttingIs DEF Keeping
    <3>2. Fp(d) \in {Fp(h) : h \in ToSet(Putting(d))}
          BY <3>1
    <3>3. NotesDropped({Fp(h) : h \in ToSet(Putting(d))})
          BY <1>8, <3>1
    <3> QED  BY <2>1, <2>2, <3>2, <3>3, NotedIfGone
  <2>3. CASE c # d
    <3>1. Fp(c) \in dropped \/ Has(results, Fp(c))
          BY <1>3, <1>15, <2>3 DEF Keeping, Deliveries
    <3> QED  BY <1>8, <2>1, <3>1, NotedIfGone
  <2> QED  BY <2>2, <2>3
<1>16. Deliveries'
       BY <1>12, <1>13, <1>14, <1>15 DEF Deliveries, Fp
<1>17. dropped' \subseteq Fps
       BY <1>8 DEF NotesDropped
<1>18. body' \in [Calls -> [sse : Streams, bytes : Sizes] \cup {None}]
       BY <1>2 DEF Storing
<1> QED  BY <1>6, <1>7, <1>9, <1>11, <1>16, <1>17, <1>18 DEF Keeping

\* A handler that has the result of a generation puts it, if the generation succeeded, and sends.
LEMMA AnswersKeepsResults ==
  ASSUME IInv, Storing, Keeping, NEW h \in Calls, Answers(h),
         pc[h] \in {"relaying", "finishing"}
  PROVE  /\ Keeping'
         /\ results' \in Seq(Stored) /\ dropped' \subseteq Fps
<1> DEFINE r == Result(gen[h], h, body[gen[h]].bytes, TRUE)
<1>1. /\ UNCHANGED <<request, gen, orphaned, phase, joiners, body, claimed>>
      /\ \A c \in Calls : Fp(c)' = Fp(c) /\ Working(c)' = Working(c) /\ Joined(c)' = Joined(c)
      BY DEF Answers, workVars, Fp, Working, Joined
<1>2. pc' = [pc EXCEPT ![h] = "done"] /\ PutsDelivered(h)
      BY DEF Answers
<1>3. /\ \A k \in Calls : pc'[k] = "idle" <=> pc[k] = "idle"
      /\ \A k \in Calls : pc'[k] \in {"relaying", "finishing", "streaming"} => pc'[k] = pc[k]
      BY <1>2 DEF IInv, Tracking, Typing
<1>4. results \in Seq(Stored)
      BY DEF Storing
<1>5. OwnersWait'
      BY <1>1 DEF Keeping, OwnersWait
<1>6. PICK g \in Calls : g = gen[h] /\ pc[g] # "idle" /\ Fp(g) = Fp(h) /\ g \in claimed
      BY DEF Keeping, Sources, Deliveries
<1>7. \A c \in Calls : phase'[c] = "ok" => Fp(c) \in Fps /\ (Fp(c) \in dropped \/ Has(results, Fp(c)))
      BY <1>1, OkCallsHaveFps DEF Keeping, Deliveries
<1>8. /\ results' \in Seq(Stored) /\ dropped' \subseteq Fps
      /\ \A e \in ToSet(results') : e \in ToSet(results) \/ (e.gen = g /\ e.fp = Fp(h))
      /\ \A c \in Calls : phase'[c] = "ok" => Fp(c) \in dropped' \/ Has(results', Fp(c))
  <2>1. CASE phase[g] = "ok"
    <3>1. results' = AfterPut(results, r) /\ NotesDropped({Fp(h)})
          BY <1>2, <1>6, <2>1 DEF PutsDelivered
    <3>2. body[g].bytes \in Nat
          BY <2>1, CallsAssumption DEF Keeping, Deliveries
    <3>3. r \in Stored
          BY <1>6, <3>2, ResultIsStored
    <3>4. r.gen = g /\ r.fp = Fp(h)
          BY <1>6 DEF Result
    <3> HIDE DEF r
    <3>5. results' \in Seq(Stored) /\ ToSet(results') \subseteq ToSet(results) \cup {r}
          BY <1>4, <3>1, <3>3, StoredAre, PutLeaves
    <3>6. dropped' \subseteq Fps
          BY <3>1 DEF NotesDropped
    <3>7. ASSUME NEW c \in Calls, phase'[c] = "ok" PROVE Fp(c) \in dropped' \/ Has(results', Fp(c))
          BY <1>7, <3>1, <3>7, NotedIfGone
    <3> QED  BY <3>4, <3>5, <3>6, <3>7
  <2>2. CASE phase[g] # "ok"
    <3>1. UNCHANGED <<results, dropped>>
          BY <1>2, <1>6, <2>2 DEF PutsDelivered
    <3> QED  BY <1>4, <1>7, <3>1 DEF Storing
  <2> QED  BY <2>1, <2>2
<1>9. Sources'
  <2>1. ASSUME NEW c \in Calls, pc'[c] # "idle"
        PROVE  \E k \in Calls : gen'[c] = k /\ pc'[k] # "idle" /\ Fp(k)' = Fp(c)'
    <3>1. PICK k \in Calls : gen[c] = k /\ pc[k] # "idle" /\ Fp(k) = Fp(c)
          BY <1>3, <2>1 DEF Keeping, Sources
    <3> QED  BY <1>1, <1>3, <3>1
  <2>2. ASSUME NEW e \in ToSet(results')
        PROVE  \E k \in Calls : e.gen = k /\ pc'[k] # "idle" /\ Fp(k)' = e.fp
    <3>1. PICK k \in Calls : e.gen = k /\ pc[k] # "idle" /\ Fp(k) = e.fp
          BY <1>6, <1>8, StoredIs DEF Keeping, Sources
    <3> QED  BY <1>1, <1>3, <3>1
  <2> QED  BY <2>1, <2>2, SourcesNext
<1>10. Deliveries'
  <2>1. \A c \in Calls : phase'[c] = "ok" => body'[c] \in [sse : Streams, bytes : Sizes]
        BY <1>1 DEF Keeping, Deliveries
  <2>2. \A k \in Calls : pc'[k] \in {"relaying", "finishing", "streaming"} => gen'[k] \in claimed'
        BY <1>1, <1>3 DEF Keeping, Deliveries
  <2>3. \A e \in ToSet(results') : e.gen \notin claimed' => ~e.delivered
        BY <1>1, <1>6, <1>8 DEF Keeping, Deliveries
  <2>4. \A c \in Calls : phase'[c] = "ok" => Fp(c)' \in dropped' \/ Has(results', Fp(c)')
        BY <1>1, <1>8
  <2> QED  BY <2>1, <2>2, <2>3, <2>4 DEF Deliveries, Fp
<1> QED  BY <1>5, <1>8, <1>9, <1>10 DEF Keeping

\* Steps that change neither the store nor who has claimed what, and end no work.
LEMMA OngoingKeepsResults ==
  ASSUME IInv, Storing, Keeping,
         UNCHANGED <<request, gen, joiners, body, results, claimed, dropped>>,
         \A h \in Calls : pc'[h] = "idle" <=> pc[h] = "idle",
         \A h \in Calls : pc'[h] \in {"relaying", "finishing", "streaming"} => pc'[h] = pc[h],
         \A d \in Calls : Working(d)' => Working(d),
         \A d \in Calls : phase'[d] = "ok" => phase[d] = "ok"
  PROVE  Keeping'
<1>1. \A d \in Calls : Working(d)' => Working(d) /\ d \in Joined(d)'
      BY DEF Keeping, OwnersWait, Joined
<1> QED  BY <1>1, QuietKeeps

\* The work of d goes on.
LEMMA WorkKeepsResults ==
  ASSUME IInv, Storing, Keeping, NEW d \in Calls, Working(d), NEW x \in Unsettled,
         phase' = [phase EXCEPT ![d] = x],
         UNCHANGED <<request, gen, pc, joiners, body, results, claimed, dropped>>
  PROVE  Keeping'
<1>1. \A c \in Calls : Working(c)' => Working(c)
      BY DEF Working, IInv, Tracking, Typing
<1>2. \A c \in Calls : phase'[c] = "ok" => phase[c] = "ok"
      BY DEF IInv, Tracking, Typing, Unsettled, Fetching
<1> QED  BY <1>1, <1>2, OngoingKeepsResults

LEMMA RejectKeepsResults ==
  ASSUME IInv, Storing, Keeping, NEW d \in Calls, NEW why, Working(d), Reject(d, why),
         UNCHANGED written
  PROVE  Keeping' /\ Storing'
<1>1. /\ UNCHANGED <<request, open, gen, timedOut, orphaned, attempt, aborted, body, results,
                     clock, claimed, dropped>>
      /\ phase' = [phase EXCEPT ![d] = IF phase[d] = "reading" THEN "broken" ELSE "failed"]
      /\ Clears(d)
      /\ pc' = [h \in Calls |-> IF h \in Joined(d) THEN "done" ELSE pc[h]]
      BY DEF Reject
<1>2. /\ ~Working(d)' /\ phase'[d] # "ok"
      /\ \A c \in Calls : c # d => phase'[c] = phase[c]
      BY <1>1 DEF IInv, Tracking, Typing, Working, Unsettled, Fetching
<1>3. \A c \in Calls : c # d => Joined(c)' = Joined(c)
      BY <1>1 DEF IInv, Tracking, Typing, Clears, Joined
<1>4. \A c \in Calls : Working(c)' => Working(c) /\ c \in Joined(c)'
      BY <1>2, <1>3 DEF Keeping, OwnersWait, Working
<1>5. \A h \in Joined(d) : pc[h] # "idle"
      BY ToSetIn DEF IInv, Tracking, Typing, JoinersWait, Waiting, Joined
<1>6. /\ \A h \in Calls : pc'[h] = "idle" <=> pc[h] = "idle"
      /\ \A h \in Calls : pc'[h] \in {"relaying", "finishing", "streaming"} => pc'[h] = pc[h]
      BY <1>1, <1>5
<1>7. Keeping'
  <2>1. \A c \in Calls : phase'[c] = "ok" => phase[c] = "ok"
        BY <1>2
  <2> QED  BY <1>1, <1>4, <1>6, <2>1, QuietKeeps
<1>8. Storing'
      BY <1>1 DEF Storing
<1> QED  BY <1>7, <1>8

LEMMA CaughtKeepsResults ==
  ASSUME IInv, Storing, Keeping, NEW d \in Calls, NEW e, Working(d), CaughtWith(d, e)
  PROVE  Keeping' /\ Storing'
<1>1. \/ \E why : Reject(d, why) /\ UNCHANGED written
      \/ /\ phase' = [phase EXCEPT ![d] = "backoff"]
         /\ UNCHANGED <<clientVars, handlerVars, attempt, aborted, body, joiners, storeVars,
                        historyVars>>
      BY DEF CaughtWith
<1>2. CASE \E why : Reject(d, why) /\ UNCHANGED written
      BY <1>2, RejectKeepsResults
<1>3. CASE /\ phase' = [phase EXCEPT ![d] = "backoff"]
           /\ UNCHANGED <<clientVars, handlerVars, attempt, aborted, body, joiners, storeVars,
                          historyVars>>
  <2>1. "backoff" \in Unsettled
        BY DEF Unsettled, Fetching
  <2>2. Keeping'
        BY <1>3, <2>1, WorkKeepsResults DEF clientVars, handlerVars, storeVars, historyVars
  <2>3. Storing'
        BY <1>3 DEF Storing, clientVars, handlerVars, storeVars, historyVars
  <2> QED  BY <2>2, <2>3
<1> QED  BY <1>1, <1>2, <1>3

-----------------------------------------------------------------------------
(* Every step keeps both parts. *)

LEMMA InitKeeping == Init => Storing /\ Keeping
<1> SUFFICES ASSUME Init PROVE Storing /\ Keeping
    OBVIOUS
<1>1. open \in [Calls -> BOOLEAN] /\ timedOut \in [Calls -> BOOLEAN]
      BY Zenon DEF Init
<1>2. orphaned \in [Calls -> BOOLEAN] /\ aborted \in [Calls -> BOOLEAN]
      BY Zenon DEF Init
<1>3. Storing
      BY <1>1, <1>2 DEF Init, Storing
<1>4. ToSet(results) = {}
      BY DEF Init, ToSet
<1>5. \A c \in Calls : pc[c] = "idle" /\ phase[c] = "off"
      BY DEF Init
<1>6. Keeping
      BY <1>4, <1>5 DEF Keeping, OwnersWait, Sources, Deliveries, Working, Unsettled, Fetching
<1> QED  BY <1>3, <1>6

LEMMA ArriveStores ==
  ASSUME IInv, IInv', Storing, Keeping, NEW c \in Calls, Arrive(c)
  PROVE  Storing' /\ Keeping'
<1>1. /\ UNCHANGED <<open, timedOut, orphaned, clock, written, claimed>>
      /\ UNCHANGED <<attempt, aborted>>
      BY DEF Arrive, Replays, Joins, Starts, workVars
<1>2. /\ Keeping'
      /\ results' \in Seq(Stored) /\ dropped' \subseteq Fps /\ gen' \in [Calls -> Calls \cup {None}]
      /\ UNCHANGED body
      BY ArriveKeepsResults
<1> QED  BY <1>1, <1>2 DEF Storing

LEMMA ResolveStores ==
  ASSUME IInv, IInv', Storing, Keeping, NEW d \in Calls, NEW ok \in BOOLEAN, NEW sse \in Streams,
         NEW bytes \in Sizes, Resolve(d, ok, sse, bytes)
  PROVE  Storing' /\ Keeping'
<1>1. UNCHANGED <<open, gen, timedOut, orphaned, attempt, aborted, clock, written>>
      BY DEF Resolve, clientVars
<1>2. /\ Keeping'
      /\ results' \in Seq(Stored) /\ dropped' \subseteq Fps /\ claimed' \subseteq Calls
      /\ body' \in [Calls -> [sse : Streams, bytes : Sizes] \cup {None}]
      BY ResolveKeepsResults
<1> QED  BY <1>1, <1>2 DEF Storing

LEMMA AnswersStores ==
  ASSUME IInv, Storing, Keeping, NEW h \in Calls, Relay(h) \/ Finish(h)
  PROVE  Storing' /\ Keeping'
<1>1. Answers(h) /\ pc[h] \in {"relaying", "finishing"}
      BY DEF Relay, Finish
<1>2. UNCHANGED <<open, gen, timedOut, orphaned, attempt, aborted, body, clock, written, claimed>>
      BY <1>1 DEF Answers, workVars
<1>3. Keeping' /\ results' \in Seq(Stored) /\ dropped' \subseteq Fps
      BY <1>1, AnswersKeepsResults
<1> QED  BY <1>2, <1>3 DEF Storing

\* The timers, the disconnects, and the handlers that only send.
LEMMA TimersStore ==
  ASSUME IInv, Storing, Keeping, NEW c \in Calls,
         \/ Disconnect(c) \/ Replay(c) \/ StreamEnd(c)
         \/ ResponseTimer(c) \/ Deadline(c) \/ AbortTimer(c)
  PROVE  Storing' /\ Keeping'
<1> USE DEF clientVars, handlerVars, workVars, storeVars, historyVars
<1>1. UNCHANGED <<request, gen, phase, attempt, body, joiners, storeVars, historyVars>>
      BY DEF Disconnect, Replay, StreamEnd, ResponseTimer, Deadline, AbortTimer
<1>2. /\ \A h \in Calls : pc'[h] = "idle" <=> pc[h] = "idle"
      /\ \A h \in Calls : pc'[h] \in {"relaying", "finishing", "streaming"} => pc'[h] = pc[h]
      BY DEF Disconnect, Replay, StreamEnd, ResponseTimer, Deadline, AbortTimer,
             IInv, Tracking, Typing
<1>3. Keeping'
      BY <1>1, <1>2, OngoingKeepsResults DEF Working
<1>4. open' \in [Calls -> BOOLEAN]
      BY DEF Disconnect, Replay, StreamEnd, ResponseTimer, Deadline, AbortTimer, Storing
<1>5. timedOut' \in [Calls -> BOOLEAN]
      BY DEF Disconnect, Replay, StreamEnd, ResponseTimer, Deadline, AbortTimer, Storing
<1>6. aborted' \in [Calls -> BOOLEAN]
      BY DEF Disconnect, Replay, StreamEnd, ResponseTimer, Deadline, AbortTimer, Storing
<1>7. orphaned' \in [Calls -> BOOLEAN]
  <2>1. orphaned \in [Calls -> BOOLEAN]
        BY DEF Storing
  <2>2. \E b \in BOOLEAN : orphaned' = orphaned \/ orphaned' = [orphaned EXCEPT ![c] = b]
    <3>1. CASE Disconnect(c)
      <4>1. orphaned' = [orphaned EXCEPT ![c] = orphaned[c] \/ pc[c] # "replaying"]
            BY <3>1 DEF Disconnect
      <4>2. (orphaned[c] \/ pc[c] # "replaying") \in BOOLEAN
            BY Zenon
      <4> QED  BY <4>1, <4>2, Zenon
    <3>2. CASE ~Disconnect(c)
          BY <3>2 DEF Replay, StreamEnd, ResponseTimer, Deadline, AbortTimer
    <3> QED  BY <3>1, <3>2
  <2>3. PICK b \in BOOLEAN : orphaned' = orphaned \/ orphaned' = [orphaned EXCEPT ![c] = b]
        BY <2>2
  <2> QED  BY <2>1, <2>3
<1> QED  BY <1>1, <1>3, <1>4, <1>5, <1>6, <1>7 DEF Storing

LEMMA LoopStores ==
  ASSUME IInv, Storing, Keeping, NEW d \in Calls, RequestLeaves(d) \/ Headers(d) \/ Wakes(d)
  PROVE  Storing' /\ Keeping'
<1> USE DEF clientVars, handlerVars, storeVars, historyVars
<1>1. \E x \in Unsettled : phase' = [phase EXCEPT ![d] = x]
      BY DEF RequestLeaves, Headers, Wakes, Unsettled, Fetching
<1>2. /\ Working(d) /\ written' \subseteq Calls
      /\ UNCHANGED <<clientVars, handlerVars, aborted, body, joiners, storeVars, claimed, dropped>>
      BY DEF RequestLeaves, Headers, Wakes, Working, Unsettled, Fetching, Storing
<1>3. attempt' \in [Calls -> Nat]
      BY DEF RequestLeaves, Headers, Wakes, Storing
<1>4. Keeping'
      BY <1>1, <1>2, WorkKeepsResults
<1> QED  BY <1>2, <1>3, <1>4 DEF Storing

LEMMA NextKeeping == IInv /\ IInv' /\ Storing /\ Keeping /\ [Next]_vars => Storing' /\ Keeping'
<1> SUFFICES ASSUME IInv, IInv', Storing, Keeping, [Next]_vars PROVE Storing' /\ Keeping'
    OBVIOUS
<1> DEFINE Goal == Storing' /\ Keeping'
<1>1. CASE Tick
  <2>1. UNCHANGED <<clientVars, handlerVars, workVars, results, inFlight, historyVars>>
        /\ clock' = clock + 1
        BY <1>1 DEF Tick
  <2>2. Keeping'
        BY <2>1, OngoingKeepsResults DEF Working, clientVars, handlerVars, workVars, historyVars
  <2> QED  BY <2>1, <2>2 DEF Storing, clientVars, handlerVars, workVars, historyVars
<1>2. ASSUME NEW c \in Calls, Arrive(c) PROVE Goal
      BY <1>2, ArriveStores
<1>3. ASSUME NEW c \in Calls, \/ Disconnect(c) \/ Replay(c) \/ StreamEnd(c)
                              \/ ResponseTimer(c) \/ Deadline(c) \/ AbortTimer(c)
      PROVE  Goal
      BY <1>3, TimersStore
<1>4. ASSUME NEW c \in Calls, Relay(c) \/ Finish(c) PROVE Goal
      BY <1>4, AnswersStores
<1>5. ASSUME NEW c \in Calls, RequestLeaves(c) \/ Headers(c) \/ Wakes(c) PROVE Goal
      BY <1>5, LoopStores
<1>6. ASSUME NEW c \in Calls, BodyFails(c) PROVE Goal
      BY <1>6, RejectKeepsResults DEF BodyFails, Working, Unsettled
<1>7. ASSUME NEW c \in Calls, FetchAborts(c) PROVE Goal
      BY <1>7, CaughtKeepsResults DEF FetchAborts, Working, Unsettled, Fetching
<1>8. ASSUME NEW c \in Calls, LimiterTimeout(c) PROVE Goal
  <2>1. Working(c)
        BY <1>8 DEF LimiterTimeout, L!WaitTimeout, IInv, Slots, Working, Unsettled
  <2> QED  BY <1>8, <2>1, RejectKeepsResults DEF LimiterTimeout
<1>9. ASSUME NEW c \in Calls, NEW e \in Errors, ConnectFails(c, e) \/ ConnectionDrops(c, e)
      PROVE  Goal
      BY <1>9, CaughtKeepsResults DEF ConnectFails, ConnectionDrops, Working, Unsettled, Fetching
<1>10. ASSUME NEW c \in Calls, NEW ok \in BOOLEAN, NEW sse \in Streams, NEW bytes \in Sizes,
              Resolve(c, ok, sse, bytes)
       PROVE  Goal
       BY <1>10, ResolveStores
<1>11. CASE UNCHANGED vars
  <2>1. UNCHANGED <<clientVars, handlerVars, workVars, storeVars, historyVars>>
        BY <1>11 DEF vars
  <2>2. Keeping'
        BY <2>1, OngoingKeepsResults
        DEF Working, clientVars, handlerVars, workVars, storeVars, historyVars
  <2> QED  BY <2>1, <2>2
           DEF Storing, clientVars, handlerVars, workVars, storeVars, historyVars
<1> HIDE DEF Goal
<1> QED  BY <1>1, <1>2, <1>3, <1>4, <1>5, <1>6, <1>7, <1>8, <1>9, <1>10, <1>11 DEF Next, Goal

LEMMA Kept == Spec => [](IInv /\ Storing /\ Keeping)
<1>1. Init => IInv /\ Storing /\ Keeping
      BY InitIInv, InitKeeping
<1>2. IInv /\ Storing /\ Keeping /\ [Next]_vars => (IInv /\ Storing /\ Keeping)'
      BY NextIInv, NextKeeping
<1> QED  BY <1>1, <1>2, PTL DEF Spec

\* Every variable of the router, of its store and of its limiter keeps its type.
THEOREM CallsTypes == Spec => []TypeOK
<1>1. IInv /\ Storing => TypeOK
  <2> SUFFICES ASSUME IInv, Storing PROVE TypeOK
      OBVIOUS
  <2>1. L!TypeOK
        BY DEF IInv, Slots, P!Inv, P!TypeOK, L!TypeOK
  <2>2. phase \in [Calls -> Unsettled \cup {"off", "ok", "refused", "failed", "broken"}]
        BY DEF IInv, Tracking, Typing, SettledPhases
  <2> QED  BY <2>1, <2>2 DEF TypeOK, IInv, Tracking, Typing, Answered, Storing, Stored
<1> QED  BY <1>1, Kept, PTL

\* A caller that was answered came, and was answered with what was asked for under its own
\* fingerprint.
LEMMA AnsweredAlike ==
  ASSUME IInv, Keeping, NEW c \in Calls, reply[c] \in {"result", "replay"}
  PROVE  \E d \in Calls : /\ gen[c] = d /\ Fp(d) = Fp(c)
                          /\ request[d].op \in Ops /\ request[c].op \in Ops
<1>1. reply[c] # None
      BY NoneAssumption DEF Replies
<1>2. pc[c] # "idle"
      BY <1>1 DEF IInv, Answered
<1>3. PICK d \in Calls : gen[c] = d /\ pc[d] # "idle" /\ Fp(d) = Fp(c)
      BY <1>2 DEF Keeping, Sources
<1>4. request[c] \in Requests /\ request[d] \in Requests
      BY <1>2, <1>3 DEF IInv, Tracking, Arrivals
<1> QED  BY <1>3, <1>4, CallsAssumption

\* A method does not change on its way through the classification.
LEMMA MethodOfMessage ==
  ASSUME NEW message
  PROVE  Class!ClassifyMessage(message).method = message.method
<1>1. CASE message.method = "tools/call"
      BY <1>1 DEF Class!ClassifyMessage, Class!ClassifyToolCall
<1>2. CASE message.method # "tools/call"
      BY <1>2 DEF Class!ClassifyMessage
<1> QED  BY <1>1, <1>2

LEMMA LeastOfOne ==
  ASSUME NEW I, I # {}, I \subseteq {1}
  PROVE  Class!Min(I) \in I
<1>1. I = {1}
      OBVIOUS
<1>2. \A j \in {1} : 1 <= j
      OBVIOUS
<1> QED  BY <1>1, <1>2, Zenon DEF Class!Min

\* One message is its own verdict.
LEMMA MethodOfOne ==
  ASSUME NEW messages, NEW S, messages \in Seq(S), Len(messages) = 1
  PROVE  Class!ClassifyRequest(messages).method = messages[1].method
<1> DEFINE v == [i \in 1..Len(messages) |-> Class!ClassifyMessage(messages[i])]
           I == {i \in 1..Len(v) : ~v[i].safe}
           first == IF I # {} THEN Class!Min(I) ELSE 0
<1>1. messages # <<>> /\ Len(v) = 1
      OBVIOUS
<1>2. Class!ClassifyRequest(messages) = v[IF first = 0 THEN 1 ELSE first]
      BY <1>1, Zenon DEF Class!ClassifyRequest, Class!SelectInSeq
<1>3. I # {} => Class!Min(I) \in I
  <2>1. SUFFICES ASSUME I # {} PROVE Class!Min(I) \in I
        OBVIOUS
  <2> HIDE DEF v
  <2>3. 1..Len(v) = {1}
        BY <1>1
  <2>4. I \subseteq {1}
        BY <2>3
  <2> HIDE DEF I
  <2> QED  BY <2>1, <2>4, LeastOfOne
<1>4. (IF first = 0 THEN 1 ELSE first) = 1
  <2> HIDE DEF v
  <2>1. 1..Len(v) = {1}
        BY <1>1
  <2> QED  BY <1>3, <2>1
<1>5. v[1] = Class!ClassifyMessage(messages[1])
      BY <1>1
<1> HIDE DEF v, first
<1> QED  BY <1>2, <1>4, <1>5, MethodOfMessage

LEMMA OneIsAll ==
  ASSUME NEW S, NEW s \in Seq(S), s # <<>>, Len(s) <= 1
  PROVE  Len(s) = 1 /\ s[1] \in S /\ s = <<s[1]>>
<1>1. Len(s) \in Nat /\ DOMAIN s = 1..Len(s)
      OBVIOUS
<1>2. Len(s) # 0
  <2>1. SUFFICES ASSUME Len(s) = 0 PROVE s = <<>>
        OBVIOUS
  <2> QED  BY <1>1, <2>1
<1>3. Len(s) = 1
      BY <1>1, <1>2
<1> QED  BY <1>3

\* A body with parameters is a single message.
LEMMA ParamsAreOfOne ==
  ASSUME NEW op \in Ops, HasParams(op)
  PROVE  /\ Asked[op] = [apiKey |-> Asked[op].apiKey, array |-> FALSE, messages |-> Asked[op].messages]
         /\ Asked[op].messages
              = <<[method |-> Fingerprint(op).method, tool |-> Params(op).tool,
                   arguments |-> Params(op).arguments]>>
<1> DEFINE messages == Asked[op].messages
<1>1. /\ Asked[op] = [apiKey |-> Asked[op].apiKey, array |-> Asked[op].array, messages |-> messages]
      /\ messages \in Seq(ToSet(messages))
      /\ Asked[op].array \in BOOLEAN /\ (Asked[op].array \/ Len(messages) <= 1)
      /\ \A m \in ToSet(messages) :
           m = [method |-> m.method, tool |-> m.tool, arguments |-> m.arguments]
      BY AskedAssumption, Zenon
<1>2. Asked[op].array = FALSE /\ messages # <<>>
      BY <1>1 DEF HasParams, Params
<1>3. Params(op) = [tool |-> messages[1].tool, arguments |-> messages[1].arguments]
      BY <1>2 DEF Params
<1>4. PICK S : messages \in Seq(S) /\ S = ToSet(messages)
      BY <1>1, Zenon
<1> HIDE DEF messages
<1>5. Len(messages) <= 1 /\ messages # <<>>
      BY <1>1, <1>2, Zenon
<1>6. messages[1] \in S /\ messages = <<messages[1]>>
      BY <1>4, <1>5, OneIsAll
<1>7. Fingerprint(op).method = messages[1].method
      BY <1>4, <1>5, OneIsAll, MethodOfOne DEF Fingerprint, messages
<1>8. messages[1] = [method |-> Fingerprint(op).method, tool |-> Params(op).tool,
                     arguments |-> Params(op).arguments]
      BY <1>1, <1>3, <1>4, <1>6, <1>7
<1>9. Asked[op] = [apiKey |-> Asked[op].apiKey, array |-> FALSE, messages |-> messages]
      BY <1>1, <1>2
<1> QED  BY <1>6, <1>8, <1>9 DEF messages

\* Whatever is joined, replayed, stored, evicted and stored again, and whatever bodies collide on
\* one fingerprint: a caller receives a result of its own API key, and, if it came with parameters,
\* of the very call it asked for.
THEOREM ParametersAreAnswered == Spec => []ParamsAreAnswered
<1>1. IInv /\ Keeping => ParamsAreAnswered
  <2> SUFFICES ASSUME IInv, Keeping, NEW c \in Calls, reply[c] \in {"result", "replay"}
               PROVE  /\ Asked[request[gen[c]].op].apiKey = Asked[request[c].op].apiKey
                      /\ HasParams(request[c].op)
                           => Asked[request[gen[c]].op] = Asked[request[c].op]
      BY DEF ParamsAreAnswered
  <2>1. PICK d \in Calls : /\ gen[c] = d /\ Fp(d) = Fp(c)
                           /\ request[d].op \in Ops /\ request[c].op \in Ops
        BY AnsweredAlike
  <2> DEFINE mine == request[c].op
             theirs == request[d].op
  <2>2. Fingerprint(theirs) = Fingerprint(mine)
        BY <2>1 DEF Fp, FingerprintOf
  <2>3. Asked[theirs].apiKey = Asked[mine].apiKey /\ Params(theirs) = Params(mine)
        BY <2>2 DEF Fingerprint
  <2>4. ASSUME HasParams(mine) PROVE Asked[theirs] = Asked[mine]
    <3>1. HasParams(theirs)
          BY <2>3, <2>4 DEF HasParams
    <3> HIDE DEF mine, theirs
    <3>2. mine \in Ops /\ theirs \in Ops
          BY <2>1 DEF mine, theirs
    <3> QED  BY <2>2, <2>3, <2>4, <3>1, <3>2, ParamsAreOfOne
  <2> QED  BY <2>1, <2>3, <2>4
<1> QED  BY <1>1, Kept, PTL

\* A generation that nobody had claimed when it ended is there for a retry to collect, and is not
\* marked as delivered, unless the store dropped it or a later result replaced it.
THEOREM LateResultsAreKept == Spec => []DetachedResultIsKept
<1>1. IInv /\ Storing /\ Keeping => DetachedResultIsKept
  <2> SUFFICES ASSUME IInv, Storing, Keeping,
                      NEW d \in Calls, phase[d] = "ok", d \notin claimed, Fp(d) \notin dropped
               PROVE  /\ Has(results, Fp(d))
                      /\ EntryOf(results, Fp(d)).gen = d => ~EntryOf(results, Fp(d)).delivered
      BY DEF DetachedResultIsKept
  <2>1. Has(results, Fp(d)) /\ results \in Seq(Stored)
        BY DEF Keeping, Deliveries, Storing
  <2>2. EntryOf(results, Fp(d)) \in ToSet(results)
        BY <2>1, EntryIn
  <2> QED  BY <2>1, <2>2 DEF Keeping, Deliveries
<1> QED  BY <1>1, Kept, PTL

\* A step that starts a generation is the arrival of its call, which found neither a stored result
\* nor running work.
LEMMA StartsAreArrivals ==
  ASSUME IInv, [Next]_vars, NEW c \in Calls, StartsWork(c)
  PROVE  \E r \in Requests : /\ request' = [request EXCEPT ![c] = r]
                             /\ results' = AfterTake(results, Fp(c)', r.key, clock)
                             /\ ~TakeHits(results, Fp(c)', request'[c].key, clock)
                             /\ NotesDropped({})
<1> USE DEF clientVars, handlerVars, workVars, limiterVars, storeVars, historyVars
<1>1. phase[c] = "off" /\ phase'[c] # "off" /\ ~Working(c)
      BY DEF StartsWork, Working, Unsettled, Fetching
<1>2. \A d \in Calls : \A x : phase' = [phase EXCEPT ![d] = x] /\ Working(d) => phase'[c] = phase[c]
      BY <1>1 DEF IInv, Tracking, Typing
<1>3. ASSUME NEW d \in Calls, Working(d), NEW why, Reject(d, why) PROVE FALSE
      BY <1>1, <1>2, <1>3 DEF Reject
<1>4. ASSUME NEW d \in Calls, Working(d), NEW e, CaughtWith(d, e) PROVE FALSE
  <2>1. phase' = [phase EXCEPT ![d] = "backoff"] \/ \E why : Reject(d, why)
        BY <1>4 DEF CaughtWith
  <2> QED  BY <1>1, <1>2, <1>3, <1>4, <2>1
<1>5. ASSUME NEW d \in Calls, \/ RequestLeaves(d) \/ Headers(d) \/ Wakes(d) \/ BodyFails(d)
                              \/ FetchAborts(d) \/ LimiterTimeout(d)
      PROVE  FALSE
  <2>1. Working(d)
        BY <1>5 DEF RequestLeaves, Headers, Wakes, BodyFails, FetchAborts, LimiterTimeout,
                    L!WaitTimeout, IInv, Slots, Working, Unsettled, Fetching
  <2>2. CASE RequestLeaves(d) \/ Headers(d) \/ Wakes(d)
        BY <1>1, <1>2, <2>1, <2>2 DEF RequestLeaves, Headers, Wakes
  <2>3. CASE BodyFails(d) \/ LimiterTimeout(d)
        BY <1>3, <2>1, <2>3 DEF BodyFails, LimiterTimeout
  <2>4. CASE FetchAborts(d)
        BY <1>4, <2>1, <2>4 DEF FetchAborts
  <2> QED  BY <1>5, <2>2, <2>3, <2>4
<1>6. ASSUME NEW d \in Calls, NEW e, ConnectFails(d, e) \/ ConnectionDrops(d, e) PROVE FALSE
      BY <1>4, <1>6 DEF ConnectFails, ConnectionDrops, Working, Unsettled, Fetching
<1>7. ASSUME NEW d \in Calls, NEW ok \in BOOLEAN, NEW sse, NEW bytes, Resolve(d, ok, sse, bytes)
      PROVE  FALSE
      BY <1>1, <1>2, <1>7 DEF Resolve, Working, Unsettled
<1>8. ASSUME NEW d \in Calls,
             \/ Disconnect(d) \/ Replay(d) \/ StreamEnd(d) \/ Relay(d) \/ Finish(d)
             \/ ResponseTimer(d) \/ Deadline(d) \/ AbortTimer(d)
      PROVE  FALSE
      BY <1>1, <1>8 DEF Disconnect, Replay, StreamEnd, Relay, Finish, Answers, ResponseTimer,
                        Deadline, AbortTimer
<1>9. ~Tick /\ ~UNCHANGED vars
      BY <1>1 DEF Tick, vars
<1>10. PICK d \in Calls : Arrive(d)
       BY <1>5, <1>6, <1>7, <1>8, <1>9 DEF Next
<1>11. PICK r \in Requests : /\ request' = [request EXCEPT ![d] = r]
                             /\ results' = AfterTake(results, Fp(d)', r.key, clock)
                             /\ Replays(d, Fp(d)') \/ Joins(d, Fp(d)') \/ Starts(d, Fp(d)')
       BY <1>10 DEF Arrive
<1>12. Starts(d, Fp(d)')
       BY <1>1, <1>11 DEF Replays, Joins
<1>13. d = c
       BY <1>1, <1>12 DEF Starts, IInv, Tracking, Typing
<1> QED  BY <1>10, <1>11, <1>12, <1>13 DEF Arrive, Starts

\* A call with a key starts no generation after one of its fingerprint that succeeded, unless the
\* store dropped the result: what take() then finds, it replays.
THEOREM KeysReplay == Spec => KeyedRetryReplays
<1> DEFINE A == \A c, d \in Calls :
                  /\ StartsWork(c) /\ request'[c].key
                  /\ phase[d] = "ok" /\ Fp(d) = Fp(c)'
                  => Fp(d) \in dropped'
<1>1. IInv /\ Storing /\ Keeping /\ [Next]_vars => A
  <2> SUFFICES ASSUME IInv, Storing, Keeping, [Next]_vars, NEW c \in Calls, NEW d \in Calls,
                      StartsWork(c), request'[c].key, phase[d] = "ok", Fp(d) = Fp(c)'
               PROVE  Fp(d) \in dropped'
      OBVIOUS
  <2> DEFINE f == Fp(c)'
  <2>1. PICK r \in Requests : /\ request' = [request EXCEPT ![c] = r]
                              /\ results' = AfterTake(results, f, r.key, clock)
                              /\ ~TakeHits(results, f, request'[c].key, clock)
                              /\ NotesDropped({})
        BY StartsAreArrivals
  <2>2. request'[c] = r
        BY <2>1 DEF IInv, Tracking, Typing
  <2> HIDE DEF f
  <2>3. ~TakeHits(results, f, r.key, clock) /\ r.key
        BY <2>1, <2>2
  <2>4. results' = Swept(results, clock)
        BY <2>1, <2>3 DEF AfterTake
  <2>5. ~Has(Swept(results, clock), f)
        BY <2>3, Zenon DEF TakeHits, Replayable
  <2>6. f = Fp(d) /\ Fp(d) \in Fps /\ (Fp(d) \in dropped \/ Has(results, Fp(d)))
        BY OkCallsHaveFps DEF Keeping, Deliveries, f
  <2> QED  BY <2>1, <2>4, <2>5, <2>6, NotedIfGone
<1>2. IInv /\ Storing /\ Keeping /\ [Next]_vars => [A]_vars
      BY <1>1
<1>3. Spec => [][A]_vars
      BY <1>2, Kept, PTL DEF Spec
<1> QED  BY <1>3 DEF KeyedRetryReplays
=============================================================================
