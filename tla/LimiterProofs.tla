---------------------------- MODULE LimiterProofs ----------------------------
(***************************************************************************)
(* Proofs about the rate limiter, for any identities, requests, limits and *)
(* window lengths.                                                         *)
(***************************************************************************)
EXTENDS RateLimiter, FiniteSetTheorems, TLAPS

-----------------------------------------------------------------------------
(* Arithmetic of windows and seconds.                                      *)

LEMMA Division ==
    ASSUME NEW n \in Nat, NEW d \in Nat \ {0}
    PROVE  /\ n \div d \in Nat
           /\ n % d \in 0..(d - 1)
           /\ n = (n \div d) * d + (n % d)
           /\ (n \div d) * d <= n
  BY Z3

LEMMA DivisionIsMonotonic ==
    ASSUME NEW a \in Nat, NEW b \in Nat, NEW d \in Nat \ {0}, a <= b
    PROVE  a \div d <= b \div d
  BY Z3

LEMMA QuotientIs ==
    ASSUME NEW q \in Nat, NEW s \in Nat, NEW d \in Nat \ {0}, s < d
    PROVE  (q * d + s) \div d = q
  BY Z3

LEMMA QuotientIsAtLeast ==
    ASSUME NEW n \in Nat, NEW q \in Nat, NEW d \in Nat \ {0}, q * d <= n
    PROVE  q <= n \div d
  BY Z3

\* The time to live in seconds is exactly a window.
LEMMA WindowSeconds ==
    /\ windowSec \in Nat \ {0}
    /\ windowSec * Second = WindowMs
<1> DEFINE n == WindowMs \div Second
<1>1. n \in Nat /\ WindowMs = n * Second
  BY LimiterAssumption, WholeSeconds, Division
<1>2. n # 0
  BY <1>1, LimiterAssumption
<1> HIDE DEF n
<1>3. WindowMs + Second - 1 = n * Second + (Second - 1)
  BY <1>1, LimiterAssumption
<1>4. windowSec = n
  BY <1>1, <1>3, QuotientIs, LimiterAssumption DEF windowSec
<1> QED BY <1>1, <1>2, <1>4

LEMMA WindowType ==
    ASSUME NEW t \in 0..MaxTime
    PROVE  /\ Window(t) \in Windows
           /\ Window(t) \in Nat
<1>1. MaxTime \in Nat /\ t \in Nat /\ t <= MaxTime
  BY LimiterAssumption
<1>2. Window(t) \in Nat /\ Window(MaxTime) \in Nat /\ Window(t) <= Window(MaxTime)
  BY <1>1, Division, DivisionIsMonotonic, LimiterAssumption DEF Window
<1> QED BY <1>2 DEF Windows

LEMMA KeyType ==
    ASSUME NEW k \in Keys
    PROVE  k[2] \in Windows /\ k[2] \in Nat
<1>1. Window(MaxTime) \in Nat
  BY WindowType, LimiterAssumption
<1> QED BY <1>1 DEF Keys, Windows

LEMMA BusyRequest ==
    ASSUME TypeOK, NEW r \in Slots, req[r].pc \in {"incr", "expire", "decide"}
    PROVE  /\ req[r] \in Request
           /\ req[r] # Idle
           /\ KeyOf(r) = <<req[r].id, req[r].win>>
           /\ KeyOf(r) \in Keys
           /\ req[r].win \in Nat
<1>1. req[r] \in Request /\ req[r] # Idle
  BY DEF TypeOK, Idle
<1>2. KeyOf(r) = <<req[r].id, req[r].win>>
  BY DEF KeyOf, RateKey
<1>3. KeyOf(r) \in Keys
  BY <1>1, <1>2 DEF Keys, Request
<1>4. req[r].win \in Nat
  BY <1>1, <1>2, <1>3, KeyType
<1> QED BY <1>1, <1>2, <1>3, <1>4

-----------------------------------------------------------------------------
(* Types.                                                                  *)

LEMMA InitType == Init => TypeOK
<1> SUFFICES ASSUME Init
             PROVE  TypeOK
  OBVIOUS
<1>1. now \in 0..MaxTime
  BY LimiterAssumption DEF Init
<1>2. up \in BOOLEAN /\ ready \in BOOLEAN /\ listening \in BOOLEAN
  <2>1. CASE "outage" \in Env
    BY <2>1 DEF Init
  <2>2. CASE "outage" \notin Env
    BY <2>2 DEF Init
  <2> QED BY <2>1, <2>2
<1>3. /\ counter \in [Keys -> [count: Nat, until: Nat]]
      /\ req \in [Slots -> {Idle} \cup Request]
      /\ asked \in [Keys -> Nat]
      /\ admitted \in [Keys -> Nat]
      /\ abandoned \in SUBSET Keys
  BY DEF Init, NoKey
<1> QED BY <1>1, <1>2, <1>3 DEF TypeOK

LEMMA StepType ==
    ASSUME TypeOK, [Next]_vars
    PROVE  TypeOK'
<1>1. CASE UNCHANGED vars
  BY <1>1 DEF vars, TypeOK
<1>2. CASE Connect \/ Outage
  BY <1>2 DEF Connect, Outage, TypeOK
<1>3. CASE Crash
  <2>1. \A r \in Expiring : KeyOf(r) \in Keys
    BY BusyRequest DEF Expiring
  <2> QED BY <1>3, <2>1 DEF Crash, TypeOK
<1>4. CASE Tick
  BY <1>4, LimiterAssumption DEF Tick, TypeOK, linkVars, NoKey
<1>5. ASSUME NEW r \in Slots, NEW id \in Ids, Start(r, id)
      PROVE  TypeOK'
  <2>1. Window(now) \in Windows /\ <<id, Window(now)>> \in Keys
    BY WindowType DEF TypeOK, Keys
  <2>2. [pc |-> "incr", id |-> id, win |-> Window(now),
         count |-> 0, inTime |-> FALSE] \in Request
    BY <2>1 DEF Request
  <2> QED BY <1>5, <2>1, <2>2 DEF Start, TypeOK, linkVars
<1>6. ASSUME NEW r \in Slots, Incr(r)
      PROVE  TypeOK'
  <2> DEFINE count == counter[KeyOf(r)].count + 1
  <2>1. KeyOf(r) \in Keys /\ req[r] \in Request
    BY <1>6, BusyRequest DEF Incr
  <2>2. counter[KeyOf(r)] \in [count: Nat, until: Nat]
    BY <2>1 DEF TypeOK
  <2>3. count \in Nat
    BY <2>2
  <2>4. counter' \in [Keys -> [count: Nat, until: Nat]]
    BY <1>6, <2>1, <2>2 DEF Incr, Increment, TypeOK
  <2>5. req'[r] \in Request /\ req' = [req EXCEPT ![r] = req'[r]]
    <3> HIDE DEF count
    <3>1. req' = [req EXCEPT ![r].pc = IF count = 1 THEN "expire" ELSE "decide",
                             ![r].count = count,
                             ![r].inTime = Window(now) = req[r].win]
      BY <1>6 DEF Incr, count
    <3> QED BY <3>1, <2>1, <2>3 DEF TypeOK, Request
  <2>6. req' \in [Slots -> {Idle} \cup Request]
    BY <2>5 DEF TypeOK
  <2> QED BY <1>6, <2>4, <2>6 DEF Incr, TypeOK, linkVars
<1>7. ASSUME NEW r \in Slots, SetExpiry(r)
      PROVE  TypeOK'
  <2>1. KeyOf(r) \in Keys /\ req[r] \in Request
    BY <1>7, BusyRequest DEF SetExpiry
  <2>2. now + windowSec * Second \in Nat
    BY WindowSeconds, LimiterAssumption DEF TypeOK
  <2>3. counter' \in [Keys -> [count: Nat, until: Nat]]
    BY <1>7, <2>1, <2>2 DEF SetExpiry, TypeOK
  <2>4. req' \in [Slots -> {Idle} \cup Request]
    BY <1>7, <2>1 DEF SetExpiry, TypeOK, Request
  <2> QED BY <1>7, <2>3, <2>4 DEF SetExpiry, TypeOK, linkVars
<1>8. ASSUME NEW r \in Slots, FailOpen(r)
      PROVE  TypeOK'
  <2>1. KeyOf(r) \in Keys
    BY <1>8, BusyRequest DEF FailOpen
  <2>2. counter' \in [Keys -> [count: Nat, until: Nat]]
    BY <1>8, <2>1 DEF FailOpen, Increment, TypeOK
  <2>3. abandoned' \in SUBSET Keys
    BY <1>8, <2>1 DEF FailOpen, TypeOK
  <2> QED BY <1>8, <2>2, <2>3 DEF FailOpen, Finish, TypeOK, linkVars
<1>9. ASSUME NEW r \in Slots, Admit(r) \/ Refuse(r)
      PROVE  TypeOK'
  <2>1. <<req[r].id, req[r].win>> \in Keys
    BY <1>9, BusyRequest DEF Admit, Refuse
  <2>2. \/ admitted' = admitted
        \/ admitted' = [admitted EXCEPT ![<<req[r].id, req[r].win>>] = @ + 1]
    BY <1>9 DEF Admit, Refuse
  <2>3. req' \in [Slots -> {Idle} \cup Request]
    BY <1>9 DEF Admit, Refuse, Finish, TypeOK
  <2>4. admitted' \in [Keys -> Nat]
    <3> DEFINE k == <<req[r].id, req[r].win>>
    <3>1. admitted \in [Keys -> Nat] /\ k \in Keys
      BY <2>1 DEF TypeOK
    <3>2. admitted' = admitted \/ admitted' = [admitted EXCEPT ![k] = @ + 1]
      BY <2>2
    <3> HIDE DEF k
    <3> QED BY <3>1, <3>2
  <2>5. UNCHANGED <<now, counter, linkVars, asked, abandoned>>
    BY <1>9 DEF Admit, Refuse
  <2> QED BY <2>3, <2>4, <2>5 DEF TypeOK, linkVars
<1> QED BY <1>1, <1>2, <1>3, <1>4, <1>5, <1>6, <1>7, <1>8, <1>9 DEF Next, RequestStep, Serve

\* Types, for any constants: in particular counters never belong to a window that
\* the clock has no name for.
THEOREM TypeCorrect == Spec => []TypeOK
<1>1. TypeOK /\ [Next]_vars => TypeOK'
  BY StepType
<1> QED BY InitType, <1>1, PTL DEF Spec
-----------------------------------------------------------------------------
(* The clock.                                                              *)

LEMMA WindowIsMonotonic ==
    ASSUME TypeOK, TypeOK', now <= now'
    PROVE  /\ Window(now) <= Window(now')
           /\ Window(now) \in Nat
           /\ Window(now') \in Nat
<1>1. now \in Nat /\ now' \in Nat
  BY LimiterAssumption DEF TypeOK
<1> QED BY <1>1, Division, DivisionIsMonotonic, LimiterAssumption DEF Window

LEMMA WindowHasBegun ==
    ASSUME TypeOK, NEW w \in Nat, w <= Window(now)
    PROVE  /\ (w + 1) * WindowMs <= now + WindowMs
           /\ (w + 1) * WindowMs \in Nat
<1>1. now \in Nat /\ WindowMs \in Nat \ {0}
  BY LimiterAssumption DEF TypeOK
<1> DEFINE q == now \div WindowMs
<1>2. q \in Nat /\ q * WindowMs <= now
  BY <1>1, Division
<1>3. w <= q
  BY DEF Window
<1> HIDE DEF q
<1>4. w * WindowMs <= q * WindowMs /\ w * WindowMs \in Nat /\ q * WindowMs \in Nat
  BY <1>1, <1>2, <1>3, Z3
<1>5. (w + 1) * WindowMs = w * WindowMs + WindowMs
  BY <1>1, Z3
<1> QED BY <1>1, <1>2, <1>4, <1>5

LEMMA TimePasses ==
    ASSUME TypeOK, [Next]_vars
    PROVE  now <= now'
<1>1. now \in Nat
  BY LimiterAssumption DEF TypeOK
<1>2. CASE Tick
  BY <1>1, <1>2 DEF Tick
<1>3. CASE Connect \/ Outage \/ Crash \/ UNCHANGED vars
  BY <1>1, <1>3 DEF Connect, Outage, Crash, vars
<1>4. ASSUME NEW r \in Slots, RequestStep(r) \/ \E id \in Ids : Start(r, id)
      PROVE  now' = now
  BY <1>4 DEF RequestStep, Serve, Start, Incr, SetExpiry, FailOpen, Admit, Refuse
<1> QED BY <1>1, <1>2, <1>3, <1>4 DEF Next

\* A request keeps its identity and its window, and begins in the present one.
LEMMA RequestsKeepWindow ==
    ASSUME TypeOK, [Next]_vars, NEW r \in Slots, req'[r] # Idle
    PROVE  \/ /\ req[r] # Idle
              /\ req'[r].id = req[r].id
              /\ req'[r].win = req[r].win
           \/ req'[r].win = Window(now)
<1>1. CASE UNCHANGED req
  BY <1>1
<1>2. CASE Crash
  BY <1>2 DEF Crash
<1>3. ASSUME NEW q \in Slots, NEW id \in Ids, Start(q, id)
      PROVE  r # q => UNCHANGED req[r]
  BY <1>3 DEF Start, TypeOK
<1>4. ASSUME NEW q \in Slots, NEW id \in Ids, Start(q, id), r = q
      PROVE  req'[r].win = Window(now)
  BY <1>4 DEF Start, TypeOK
<1>5. ASSUME NEW q \in Slots, Incr(q) \/ SetExpiry(q)
      PROVE  /\ req[r] # Idle
             /\ req'[r].id = req[r].id
             /\ req'[r].win = req[r].win
  <2>1. req[q] \in Request /\ req[q] # Idle
    BY <1>5, BusyRequest DEF Incr, SetExpiry
  <2>2. CASE r = q
    BY <1>5, <2>1, <2>2 DEF Incr, SetExpiry, TypeOK, Request
  <2>3. CASE r # q
    BY <1>5, <2>3 DEF Incr, SetExpiry, TypeOK
  <2> QED BY <2>2, <2>3
<1>6. ASSUME NEW q \in Slots, FailOpen(q) \/ Admit(q) \/ Refuse(q)
      PROVE  req[r] # Idle /\ req'[r] = req[r]
  <2>1. Finish(q)
    BY <1>6 DEF FailOpen, Admit, Refuse
  <2> QED BY <2>1 DEF Finish, TypeOK
<1>7. CASE Connect \/ Outage \/ Tick
  BY <1>7 DEF Connect, Outage, Tick
<1> QED BY <1>1, <1>2, <1>3, <1>4, <1>5, <1>6, <1>7 DEF Next, RequestStep, Serve, vars

LEMMA StepPast ==
    ASSUME TypeOK, TypeOK', RequestsAreOfThePast, [Next]_vars
    PROVE  RequestsAreOfThePast'
<1> SUFFICES ASSUME NEW r \in Slots, req'[r] # Idle
             PROVE  req'[r].win <= Window(now')
  BY DEF RequestsAreOfThePast
<1>1. /\ Window(now) <= Window(now')
      /\ Window(now) \in Nat
      /\ Window(now') \in Nat
  BY TimePasses, WindowIsMonotonic
<1>2. CASE req'[r].win = Window(now)
  BY <1>1, <1>2
<1>3. CASE req[r] # Idle /\ req'[r].win = req[r].win
  <2>1. req[r] \in Request
    BY <1>3 DEF TypeOK
  <2>2. req[r].win \in Nat
    BY <2>1, BusyRequest DEF Request
  <2> QED BY <1>1, <1>3, <2>2 DEF RequestsAreOfThePast
<1> QED BY <1>2, <1>3, RequestsKeepWindow

LEMMA StepExpiries ==
    ASSUME TypeOK, RequestsAreOfThePast, ExpiriesOutlastWindows, [Next]_vars
    PROVE  ExpiriesOutlastWindows'
<1> SUFFICES ASSUME NEW k \in Keys, counter'[k].until # 0
             PROVE  counter'[k].until >= (k[2] + 1) * WindowMs
  BY DEF ExpiriesOutlastWindows
<1>1. CASE counter'[k].until = counter[k].until
  BY <1>1 DEF ExpiriesOutlastWindows
<1>2. CASE Tick
  BY <1>2 DEF Tick, NoKey, ExpiriesOutlastWindows
<1>3. ASSUME NEW r \in Slots, SetExpiry(r)
      PROVE  \/ counter'[k].until = counter[k].until
             \/ counter'[k].until >= (k[2] + 1) * WindowMs
  <2>1. /\ KeyOf(r) = <<req[r].id, req[r].win>> /\ KeyOf(r) \in Keys
        /\ req[r] # Idle /\ req[r].win \in Nat
    BY <1>3, BusyRequest DEF SetExpiry
  <2>2. CASE k # KeyOf(r) \/ counter[k].until # 0
    BY <1>3, <2>1, <2>2 DEF SetExpiry, TypeOK
  <2>3. CASE k = KeyOf(r) /\ counter[k].until = 0
    <3>1. counter'[k].until = now + WindowMs
      BY <1>3, <2>1, <2>3, WindowSeconds DEF SetExpiry, TypeOK
    <3>2. k[2] = req[r].win /\ k[2] <= Window(now)
      BY <2>1, <2>3 DEF RequestsAreOfThePast
    <3> QED BY <2>1, <3>1, <3>2, WindowHasBegun
  <2> QED BY <2>2, <2>3
<1>4. ASSUME NEW r \in Slots, Incr(r) \/ FailOpen(r)
      PROVE  counter'[k].until = counter[k].until
  <2>1. KeyOf(r) \in Keys
    BY <1>4, BusyRequest DEF Incr, FailOpen
  <2> QED BY <1>4, <2>1 DEF Incr, FailOpen, Increment, TypeOK
<1>5. ASSUME NEW r \in Slots, Admit(r) \/ Refuse(r) \/ \E id \in Ids : Start(r, id)
      PROVE  counter' = counter
  BY <1>5 DEF Admit, Refuse, Start
<1>6. CASE Connect \/ Outage \/ Crash \/ UNCHANGED vars
  BY <1>1, <1>6 DEF Connect, Outage, Crash, vars
<1> QED BY <1>1, <1>2, <1>3, <1>4, <1>5, <1>6 DEF Next, RequestStep, Serve
-----------------------------------------------------------------------------
(* Those let through.                                                      *)

LEMMA PendingIsFinite ==
    ASSUME NEW k
    PROVE  /\ IsFiniteSet(Pending(k)) /\ Cardinality(Pending(k)) \in Nat
           /\ IsFiniteSet(Sent(k)) /\ Cardinality(Sent(k)) \in Nat
<1>1. Pending(k) \subseteq Slots /\ Sent(k) \subseteq Slots
  BY DEF Pending, Sent
<1> QED BY <1>1, FS_Subset, FS_CardinalityType, LimiterAssumption

LEMMA PassedFalls ==
    ASSUME TypeOK, NEW k \in Keys,
           admitted'[k] = admitted[k], Pending(k)' \subseteq Pending(k)
    PROVE  Passed(k)' <= Passed(k)
<1>1. Cardinality(Pending(k)') <= Cardinality(Pending(k)) /\ Cardinality(Pending(k)') \in Nat
  BY PendingIsFinite, FS_Subset, FS_CardinalityType
<1>2. Cardinality(Pending(k)) \in Nat /\ admitted[k] \in Nat
  BY PendingIsFinite DEF TypeOK
<1> QED BY <1>1, <1>2 DEF Passed

LEMMA AdmitKeepsPassed ==
    ASSUME TypeOK, NEW r \in Slots, Admit(r), NEW k \in Keys
    PROVE  Passed(k)' <= Passed(k)
<1> DEFINE key == <<req[r].id, req[r].win>>
<1>1. key \in Keys /\ admitted \in [Keys -> Nat]
  BY BusyRequest DEF Admit, TypeOK
<1>2. Pending(k)' = Pending(k) \ {r}
  BY DEF Admit, Finish, Pending, Idle, TypeOK
<1>3. CASE ~req[r].inTime \/ k # key
  <2>1. admitted'[k] = admitted[k]
    BY <1>1, <1>3 DEF Admit
  <2> QED BY <1>2, <2>1, PassedFalls
<1>4. CASE req[r].inTime /\ k = key
  <2>1. r \in Pending(k)
    BY <1>4 DEF Admit, Pending
  <2>2. admitted'[k] = admitted[k] + 1 /\ admitted[k] \in Nat
    BY <1>1, <1>4 DEF Admit
  <2>3. Cardinality(Pending(k)') = Cardinality(Pending(k)) - 1
    BY <1>2, <2>1, PendingIsFinite, FS_RemoveElement
  <2> QED BY <2>2, <2>3, PendingIsFinite DEF Passed
<1> QED BY <1>3, <1>4

\* What a count taken in the window adds.
CountedInTime(r, k) ==
    /\ Incr(r)
    /\ KeyOf(r) = k
    /\ req[r].win = Window(now)
    /\ counter[k].count + 1 <= Max
    /\ Passed(k)' <= Passed(k) + 1

LEMMA IncrPassed ==
    ASSUME TypeOK, NEW r \in Slots, Incr(r), NEW k \in Keys
    PROVE  Passed(k)' <= Passed(k) \/ CountedInTime(r, k)
<1>1. /\ req[r] \in Request
      /\ KeyOf(r) = <<req[r].id, req[r].win>>
      /\ KeyOf(r) \in Keys
  BY BusyRequest DEF Incr
<1> DEFINE count == counter[KeyOf(r)].count + 1
           inTime == Window(now) = req[r].win
<1>2. /\ req'[r].id = req[r].id /\ req'[r].win = req[r].win
      /\ req'[r].count = count /\ req'[r].inTime = inTime
      /\ \A q \in Slots : q # r => req'[q] = req[q]
  BY <1>1 DEF Incr, TypeOK, Request
<1>3. admitted'[k] = admitted[k]
  BY DEF Incr
<1> HIDE DEF count, inTime
<1>4. CASE KeyOf(r) # k \/ ~inTime \/ ~(count <= Max)
  <2>1. Pending(k)' \subseteq Pending(k)
    BY <1>1, <1>2, <1>4 DEF Pending
  <2> QED BY <1>3, <2>1, PassedFalls
<1>5. CASE KeyOf(r) = k /\ inTime /\ count <= Max
  <2>1. Pending(k)' \subseteq Pending(k) \cup {r} /\ r \notin Pending(k)
    BY <1>1, <1>2 DEF Pending, Incr
  <2>2. /\ IsFiniteSet(Pending(k) \cup {r})
        /\ Cardinality(Pending(k) \cup {r}) = Cardinality(Pending(k)) + 1
    BY <2>1, PendingIsFinite, FS_AddElement
  <2>3. /\ Cardinality(Pending(k)') <= Cardinality(Pending(k)) + 1
        /\ Cardinality(Pending(k)') \in Nat
    BY <2>1, <2>2, FS_Subset, FS_CardinalityType
  <2>4. Passed(k)' <= Passed(k) + 1
    BY <1>3, <2>3, PendingIsFinite DEF Passed, TypeOK
  <2> QED BY <1>5, <2>4 DEF CountedInTime, count, inTime
<1> QED BY <1>4, <1>5

LEMMA StepPassed ==
    ASSUME TypeOK, [Next]_vars, NEW k \in Keys
    PROVE  Passed(k)' <= Passed(k) \/ \E r \in Slots : CountedInTime(r, k)
<1>1. CASE Connect \/ Outage \/ Tick \/ UNCHANGED vars
  <2>1. UNCHANGED <<req, admitted>>
    BY <1>1 DEF Connect, Outage, Tick, vars
  <2>2. admitted'[k] = admitted[k] /\ Pending(k)' \subseteq Pending(k)
    BY <2>1 DEF Pending
  <2> QED BY <2>2, PassedFalls
<1>2. CASE Crash
  <2>1. admitted'[k] = admitted[k] /\ Pending(k)' \subseteq Pending(k)
    BY <1>2 DEF Crash, Pending, Idle
  <2> QED BY <2>1, PassedFalls
<1>3. ASSUME NEW r \in Slots, NEW id \in Ids, Start(r, id)
      PROVE  Passed(k)' <= Passed(k)
  <2>1. admitted'[k] = admitted[k] /\ Pending(k)' \subseteq Pending(k)
    BY <1>3 DEF Start, Pending, TypeOK
  <2> QED BY <2>1, PassedFalls
<1>4. ASSUME NEW r \in Slots, SetExpiry(r)
      PROVE  Passed(k)' <= Passed(k)
  <2>1. req[r] \in Request
    BY <1>4, BusyRequest DEF SetExpiry
  <2>2. admitted'[k] = admitted[k] /\ Pending(k)' \subseteq Pending(k)
    BY <1>4, <2>1 DEF SetExpiry, Pending, TypeOK, Request
  <2> QED BY <2>2, PassedFalls
<1>5. ASSUME NEW r \in Slots, FailOpen(r) \/ Refuse(r)
      PROVE  Passed(k)' <= Passed(k)
  <2>1. admitted' = admitted /\ Finish(r)
    BY <1>5 DEF FailOpen, Refuse
  <2>2. admitted'[k] = admitted[k] /\ Pending(k)' \subseteq Pending(k)
    BY <2>1 DEF Finish, Pending, Idle, TypeOK
  <2> QED BY <2>2, PassedFalls
<1> QED BY <1>1, <1>2, <1>3, <1>4, <1>5, IncrPassed, AdmitKeepsPassed
        DEF Next, RequestStep, Serve

\* No counter starts again while its window lasts.
LEMMA CountersKeepCounting ==
    ASSUME TypeOK, TypeOK', ExpiriesOutlastWindows, [Next]_vars,
           NEW k \in Keys, k[2] >= Window(now')
    PROVE  /\ counter'[k].count >= counter[k].count
           /\ counter'[k].count \in Nat /\ counter[k].count \in Nat
<1>1. /\ counter[k].count \in Nat /\ counter[k].until \in Nat
      /\ counter'[k].count \in Nat
  BY DEF TypeOK
<1>2. CASE Tick
  <2>1. counter[k].until \notin 1..now
    <3> SUFFICES ASSUME counter[k].until \in 1..now
                 PROVE  FALSE
      OBVIOUS
    <3> DEFINE w == Window(now')
    <3>1. /\ now \in Nat /\ now' = now + 1 /\ now' \in Nat
          /\ WindowMs \in Nat \ {0}
      BY <1>2, LimiterAssumption DEF Tick, TypeOK
    <3>2. w \in Nat /\ now' < (w + 1) * WindowMs
      <4>1. /\ w \in Nat
            /\ now' % WindowMs \in 0..(WindowMs - 1)
            /\ now' = w * WindowMs + (now' % WindowMs)
        BY <3>1, Division DEF Window
      <4> HIDE DEF w
      <4>2. (w + 1) * WindowMs = w * WindowMs + WindowMs
        BY <3>1, <4>1, Z3
      <4> QED BY <3>1, <4>1, <4>2
    <3>3. k[2] \in Nat /\ k[2] >= w
      BY KeyType
    <3> HIDE DEF w
    <3>4. /\ (w + 1) * WindowMs <= (k[2] + 1) * WindowMs
          /\ (w + 1) * WindowMs \in Nat /\ (k[2] + 1) * WindowMs \in Nat
      BY <3>1, <3>2, <3>3, Z3
    <3>5. counter[k].until >= (k[2] + 1) * WindowMs
      BY <3>1 DEF ExpiriesOutlastWindows
    <3> QED BY <1>1, <3>1, <3>2, <3>4, <3>5
  <2> QED BY <1>1, <1>2, <2>1 DEF Tick
<1>3. ASSUME NEW r \in Slots, Incr(r) \/ SetExpiry(r) \/ FailOpen(r)
      PROVE  counter'[k].count >= counter[k].count
  <2>1. KeyOf(r) \in Keys
    BY <1>3, BusyRequest DEF Incr, SetExpiry, FailOpen
  <2> QED BY <1>1, <1>3, <2>1 DEF Incr, SetExpiry, FailOpen, Increment, TypeOK
<1>4. ASSUME NEW r \in Slots, Admit(r) \/ Refuse(r) \/ \E id \in Ids : Start(r, id)
      PROVE  counter' = counter
  BY <1>4 DEF Admit, Refuse, Start
<1>5. CASE Connect \/ Outage \/ Crash \/ UNCHANGED vars
  BY <1>1, <1>5 DEF Connect, Outage, Crash, vars
<1> QED BY <1>1, <1>2, <1>3, <1>4, <1>5 DEF Next, RequestStep, Serve

LEMMA IncrCounts ==
    ASSUME TypeOK, NEW r \in Slots, Incr(r)
    PROVE  /\ counter'[KeyOf(r)].count = counter[KeyOf(r)].count + 1
           /\ \A k \in Keys : k # KeyOf(r) => counter'[k] = counter[k]
<1>1. KeyOf(r) \in Keys
  BY BusyRequest DEF Incr
<1> QED BY <1>1 DEF Incr, Increment, TypeOK

LEMMA StepPassing ==
    ASSUME TypeOK, TypeOK', ExpiriesOutlastWindows, [Next]_vars,
           CountersAreComplete, PassedIsBounded
    PROVE  CountersAreComplete' /\ PassedIsBounded'
<1> SUFFICES ASSUME NEW k \in Keys
             PROVE  /\ k[2] >= Window(now') => Passed(k)' <= counter'[k].count
                    /\ Passed(k)' <= Max
  BY DEF CountersAreComplete, PassedIsBounded
<1>1. /\ Window(now) <= Window(now')
      /\ Window(now) \in Nat /\ Window(now') \in Nat
      /\ k[2] \in Nat
  BY TimePasses, WindowIsMonotonic, KeyType
<1>2. Passed(k) \in Nat /\ Passed(k)' \in Nat /\ Max \in Nat
  <2>1. /\ Cardinality(Pending(k)) \in Nat /\ Cardinality(Pending(k)') \in Nat
        /\ admitted[k] \in Nat /\ admitted'[k] \in Nat
    <3>1. Cardinality(Pending(k)') \in Nat
      <4>1. Pending(k)' \subseteq Slots
        BY DEF Pending
      <4> QED BY <4>1, FS_Subset, FS_CardinalityType, LimiterAssumption
    <3> QED BY <3>1, PendingIsFinite DEF TypeOK
  <2> QED BY <2>1, LimiterAssumption DEF Passed
<1>3. Passed(k) <= Max
  BY DEF PassedIsBounded
<1>4. k[2] >= Window(now') => Passed(k) <= counter[k].count
  BY <1>1 DEF CountersAreComplete
<1>5. CASE Passed(k)' <= Passed(k)
  BY <1>1, <1>2, <1>3, <1>4, <1>5, CountersKeepCounting
<1>6. ASSUME NEW r \in Slots, CountedInTime(r, k)
      PROVE  /\ k[2] >= Window(now') => Passed(k)' <= counter'[k].count
             /\ Passed(k)' <= Max
  <2>1. /\ k[2] = Window(now)
        /\ counter'[k].count = counter[k].count + 1
        /\ counter[k].count + 1 <= Max
        /\ Passed(k)' <= Passed(k) + 1
    <3>1. Incr(r) /\ KeyOf(r) = k /\ req[r].win = Window(now)
      BY <1>6 DEF CountedInTime
    <3>2. KeyOf(r) = <<req[r].id, req[r].win>>
      BY DEF KeyOf, RateKey
    <3>3. counter'[k].count = counter[k].count + 1
      BY <3>1, IncrCounts
    <3> QED BY <1>6, <3>1, <3>2, <3>3 DEF CountedInTime
  <2>2. Passed(k) <= counter[k].count /\ counter[k].count \in Nat
    BY <1>1, <2>1 DEF CountersAreComplete, TypeOK
  <2> QED BY <1>2, <2>1, <2>2
<1> QED BY <1>5, <1>6, StepPassed

-----------------------------------------------------------------------------
(* Those refused.                                                          *)

LEMMA AskedGrows ==
    ASSUME TypeOK, [Next]_vars, NEW k \in Keys
    PROVE  asked'[k] >= asked[k] /\ asked[k] \in Nat /\ asked'[k] \in Nat
<1>1. asked[k] \in Nat
  BY DEF TypeOK
<1>2. ASSUME NEW r \in Slots, NEW id \in Ids, Start(r, id)
      PROVE  asked'[k] >= asked[k] /\ asked'[k] \in Nat
  BY <1>1, <1>2 DEF Start, TypeOK
<1>3. CASE UNCHANGED asked
  BY <1>1, <1>3
<1>4. ASSUME NEW r \in Slots, RequestStep(r)
      PROVE  UNCHANGED asked
  BY <1>4 DEF RequestStep, Serve, Incr, SetExpiry, FailOpen, Admit, Refuse
<1>5. CASE Connect \/ Outage \/ Crash \/ Tick \/ UNCHANGED vars
  BY <1>3, <1>5 DEF Connect, Outage, Crash, Tick, vars
<1> QED BY <1>1, <1>2, <1>3, <1>4, <1>5 DEF Next

Counted(k) == counter[k].count + Cardinality(Sent(k))

LEMMA CountedFalls ==
    ASSUME TypeOK, TypeOK', NEW k \in Keys,
           counter'[k].count <= counter[k].count, Sent(k)' \subseteq Sent(k)
    PROVE  Counted(k)' <= Counted(k)
<1>1. Cardinality(Sent(k)') <= Cardinality(Sent(k)) /\ Cardinality(Sent(k)') \in Nat
  BY PendingIsFinite, FS_Subset, FS_CardinalityType
<1>2. /\ Cardinality(Sent(k)) \in Nat
      /\ counter[k].count \in Nat /\ counter'[k].count \in Nat
  BY PendingIsFinite DEF TypeOK
<1> QED BY <1>1, <1>2 DEF Counted

\* A request that is counted is no longer on its way to be.
LEMMA CountingKeepsCounted ==
    ASSUME TypeOK, TypeOK', NEW r \in Slots, req[r].pc = "incr",
           Increment(KeyOf(r)), req'[r].pc # "incr",
           \A q \in Slots : q # r => req'[q] = req[q],
           NEW k \in Keys
    PROVE  Counted(k)' <= Counted(k)
<1>1. KeyOf(r) = <<req[r].id, req[r].win>> /\ KeyOf(r) \in Keys
  BY BusyRequest
<1>2. Sent(k)' = Sent(k) \ {r}
  BY DEF Sent
<1>3. CASE k # KeyOf(r)
  <2>1. counter'[k] = counter[k] /\ counter[k].count \in Nat
    BY <1>1, <1>3 DEF Increment, TypeOK
  <2> QED BY <1>2, <2>1, CountedFalls
<1>4. CASE k = KeyOf(r)
  <2>1. r \in Sent(k)
    BY <1>1, <1>4 DEF Sent
  <2>2. Cardinality(Sent(k)') = Cardinality(Sent(k)) - 1
    BY <1>2, <2>1, PendingIsFinite, FS_RemoveElement
  <2>3. counter'[k].count = counter[k].count + 1 /\ counter[k].count \in Nat
    BY <1>1, <1>4 DEF Increment, TypeOK
  <2> QED BY <2>2, <2>3, PendingIsFinite DEF Counted
<1> QED BY <1>3, <1>4

LEMMA StepDeserved ==
    ASSUME TypeOK, TypeOK', CountersAreDeserved, [Next]_vars
    PROVE  CountersAreDeserved'
<1> SUFFICES ASSUME NEW k \in Keys
             PROVE  Counted(k)' <= asked'[k]
  BY DEF CountersAreDeserved, Counted
<1>1. Counted(k) <= asked[k]
  BY DEF CountersAreDeserved, Counted
<1>2. Counted(k) \in Nat /\ Counted(k)' \in Nat
  <2>1. Cardinality(Sent(k)') \in Nat
    <3>1. Sent(k)' \subseteq Slots
      BY DEF Sent
    <3> QED BY <3>1, FS_Subset, FS_CardinalityType, LimiterAssumption
  <2> QED BY <2>1, PendingIsFinite DEF Counted, TypeOK
<1>3. CASE Counted(k)' <= Counted(k)
  BY <1>1, <1>2, <1>3, AskedGrows
<1>4. CASE Connect \/ Outage \/ Tick \/ Crash \/ UNCHANGED vars
  <2>1. Sent(k)' \subseteq Sent(k)
    BY <1>4 DEF Connect, Outage, Tick, Crash, vars, Sent, Idle
  <2>2. counter'[k].count <= counter[k].count
    BY <1>4 DEF Connect, Outage, Tick, Crash, vars, NoKey, TypeOK
  <2> QED BY <1>3, <2>1, <2>2, CountedFalls
<1>5. ASSUME NEW r \in Slots, NEW id \in Ids, Start(r, id)
      PROVE  Counted(k)' <= asked'[k]
  <2> DEFINE key == <<id, Window(now)>>
  <2>1. key \in Keys /\ asked \in [Keys -> Nat] /\ counter' = counter
    BY <1>5, WindowType DEF Start, TypeOK, Keys
  <2>2. CASE k # key
    <3>1. Sent(k)' \subseteq Sent(k)
      BY <1>5, <2>2 DEF Start, Sent, TypeOK
    <3>2. counter'[k].count <= counter[k].count
      BY <2>1 DEF TypeOK
    <3> QED BY <1>3, <3>1, <3>2, CountedFalls
  <2>3. CASE k = key
    <3>1. Sent(k)' \subseteq Sent(k) \cup {r} /\ r \notin Sent(k)
      BY <1>5 DEF Start, Sent, TypeOK, Idle
    <3>2. /\ IsFiniteSet(Sent(k) \cup {r})
          /\ Cardinality(Sent(k) \cup {r}) = Cardinality(Sent(k)) + 1
      BY <3>1, PendingIsFinite, FS_AddElement
    <3>3. /\ Cardinality(Sent(k)') <= Cardinality(Sent(k)) + 1
          /\ Cardinality(Sent(k)') \in Nat
      BY <3>1, <3>2, FS_Subset, FS_CardinalityType
    <3>4. asked'[k] = asked[k] + 1 /\ asked[k] \in Nat /\ counter[k].count \in Nat
      BY <1>5, <2>1, <2>3 DEF Start, TypeOK
    <3> QED BY <1>1, <2>1, <3>3, <3>4, PendingIsFinite DEF Counted
  <2> QED BY <2>2, <2>3
<1>6. ASSUME NEW r \in Slots, Incr(r)
      PROVE  Counted(k)' <= Counted(k)
  <2>1. req[r] \in Request
    BY <1>6, BusyRequest DEF Incr
  <2>2. req'[r].pc # "incr" /\ \A q \in Slots : q # r => req'[q] = req[q]
    BY <1>6, <2>1 DEF Incr, TypeOK, Request
  <2> QED BY <1>6, <2>2, CountingKeepsCounted DEF Incr
<1>7. ASSUME NEW r \in Slots, FailOpen(r)
      PROVE  Counted(k)' <= Counted(k)
  <2>1. req'[r] = Idle /\ \A q \in Slots : q # r => req'[q] = req[q]
    BY <1>7 DEF FailOpen, Finish, TypeOK
  <2>2. CASE counter' = counter
    <3>1. Sent(k)' \subseteq Sent(k) /\ counter'[k].count <= counter[k].count
      BY <2>1, <2>2 DEF Sent, Idle, TypeOK
    <3> QED BY <3>1, CountedFalls
  <2>3. CASE req[r].pc = "incr" /\ Increment(KeyOf(r))
    BY <2>1, <2>3, CountingKeepsCounted DEF Idle
  <2> QED BY <1>7, <2>2, <2>3 DEF FailOpen
<1>8. ASSUME NEW r \in Slots, SetExpiry(r)
      PROVE  Counted(k)' <= Counted(k)
  <2>1. KeyOf(r) \in Keys /\ req[r] \in Request
    BY <1>8, BusyRequest DEF SetExpiry
  <2>2. counter'[k].count <= counter[k].count
    BY <1>8, <2>1 DEF SetExpiry, TypeOK
  <2>3. Sent(k)' \subseteq Sent(k)
    BY <1>8, <2>1 DEF SetExpiry, Sent, TypeOK, Request
  <2> QED BY <2>2, <2>3, CountedFalls
<1>9. ASSUME NEW r \in Slots, Admit(r) \/ Refuse(r)
      PROVE  Counted(k)' <= Counted(k)
  <2>1. Finish(r) /\ counter' = counter
    BY <1>9 DEF Admit, Refuse
  <2>2. Sent(k)' \subseteq Sent(k) /\ counter'[k].count <= counter[k].count
    BY <2>1 DEF Finish, Sent, Idle, TypeOK
  <2> QED BY <2>2, CountedFalls
<1> QED BY <1>3, <1>4, <1>5, <1>6, <1>7, <1>8, <1>9 DEF Next, RequestStep, Serve

LEMMA StepAnswers ==
    ASSUME TypeOK, CountersAreDeserved, AnswersAreDeserved, [Next]_vars
    PROVE  AnswersAreDeserved'
<1> SUFFICES ASSUME NEW r \in Slots, req'[r].pc \in {"expire", "decide"}
             PROVE  req'[r].count <= asked'[<<req'[r].id, req'[r].win>>]
  BY DEF AnswersAreDeserved
<1>1. ASSUME req[r].pc \in {"expire", "decide"}, req'[r].count = req[r].count,
             req'[r].id = req[r].id, req'[r].win = req[r].win
      PROVE  req'[r].count <= asked'[<<req'[r].id, req'[r].win>>]
  <2>1. <<req[r].id, req[r].win>> \in Keys /\ req[r].count \in Nat
    BY <1>1, BusyRequest DEF Request
  <2>2. req[r].count <= asked[<<req[r].id, req[r].win>>]
    BY <1>1 DEF AnswersAreDeserved
  <2> QED BY <1>1, <2>1, <2>2, AskedGrows
<1>2. CASE UNCHANGED req
  BY <1>1, <1>2
<1>3. CASE Crash
  BY <1>3 DEF Crash, Idle
<1>4. ASSUME NEW q \in Slots, NEW id \in Ids, Start(q, id)
      PROVE  req'[r] = req[r]
  BY <1>4 DEF Start, TypeOK
<1>5. ASSUME NEW q \in Slots, Incr(q)
      PROVE  req'[r].count <= asked'[<<req'[r].id, req'[r].win>>]
  <2>1. /\ req[q] \in Request
        /\ KeyOf(q) = <<req[q].id, req[q].win>> /\ KeyOf(q) \in Keys
    BY <1>5, BusyRequest DEF Incr
  <2>2. CASE r # q
    BY <1>1, <1>5, <2>2 DEF Incr, TypeOK
  <2>3. CASE r = q
    <3> DEFINE k == KeyOf(q)
               count == counter[k].count + 1
               inTime == Window(now) = req[q].win
    <3>1. /\ req'[q].id = req[q].id /\ req'[q].win = req[q].win
          /\ req'[q].count = count
      <4>1. req' = [req EXCEPT ![q].pc = IF count = 1 THEN "expire" ELSE "decide",
                               ![q].count = count,
                               ![q].inTime = inTime]
        BY <1>5 DEF Incr
      <4> HIDE DEF count, inTime
      <4> QED BY <2>1, <4>1 DEF TypeOK, Request
    <3>2. q \in Sent(k)
      BY <1>5, <2>1 DEF Incr, Sent
    <3>3. Cardinality(Sent(k)) >= 1
      <4>1. Cardinality(Sent(k)) # 0
        BY <3>2, PendingIsFinite, FS_EmptySet
      <4> QED BY <4>1, PendingIsFinite
    <3>4. /\ counter[k].count \in Nat /\ asked[k] \in Nat
          /\ counter[k].count + Cardinality(Sent(k)) <= asked[k]
      BY <2>1 DEF CountersAreDeserved, TypeOK
    <3>5. asked' = asked
      BY <1>5 DEF Incr
    <3>6. count <= asked[k]
      BY <3>3, <3>4, PendingIsFinite
    <3> HIDE DEF count
    <3> QED BY <2>1, <2>3, <3>1, <3>5, <3>6
  <2> QED BY <2>2, <2>3
<1>6. ASSUME NEW q \in Slots, SetExpiry(q)
      PROVE  req'[r].count <= asked'[<<req'[r].id, req'[r].win>>]
  <2>1. req[q] \in Request
    BY <1>6, BusyRequest DEF SetExpiry
  <2>2. /\ req[r].pc \in {"expire", "decide"} /\ req'[r].count = req[r].count
        /\ req'[r].id = req[r].id /\ req'[r].win = req[r].win
    BY <1>6, <2>1 DEF SetExpiry, TypeOK, Request
  <2> QED BY <1>1, <2>2
<1>7. ASSUME NEW q \in Slots, FailOpen(q) \/ Admit(q) \/ Refuse(q)
      PROVE  req'[r] = req[r]
  <2>1. Finish(q)
    BY <1>7 DEF FailOpen, Admit, Refuse
  <2> QED BY <2>1 DEF Finish, Idle, TypeOK
<1>8. CASE Connect \/ Outage \/ Tick
  BY <1>2, <1>8 DEF Connect, Outage, Tick
<1> QED BY <1>1, <1>2, <1>3, <1>4, <1>5, <1>6, <1>7, <1>8
        DEF Next, RequestStep, Serve, vars

-----------------------------------------------------------------------------
(* The theorems.                                                           *)

LEMMA InitLimiter == Init => LimiterInv
<1> SUFFICES ASSUME Init
             PROVE  LimiterInv
  OBVIOUS
<1>1. TypeOK
  BY InitType
<1>2. RequestsAreOfThePast /\ ExpiriesOutlastWindows /\ AnswersAreDeserved
  BY DEF Init, RequestsAreOfThePast, ExpiriesOutlastWindows, AnswersAreDeserved,
         NoKey, Idle
<1>3. ASSUME NEW k \in Keys
      PROVE  Cardinality(Pending(k)) = 0 /\ Cardinality(Sent(k)) = 0
  <2>1. Pending(k) = {} /\ Sent(k) = {}
    BY DEF Init, Pending, Sent, Idle
  <2> QED BY <2>1, FS_EmptySet
<1>4. CountersAreComplete /\ PassedIsBounded /\ CountersAreDeserved
  BY <1>3, LimiterAssumption
  DEF Init, CountersAreComplete, PassedIsBounded, CountersAreDeserved, Passed, NoKey
<1> QED BY <1>1, <1>2, <1>4 DEF LimiterInv

LEMMA StepLimiter ==
    ASSUME LimiterInv, [Next]_vars
    PROVE  LimiterInv'
<1>1. TypeOK'
  BY StepType DEF LimiterInv
<1>2. RequestsAreOfThePast' /\ ExpiriesOutlastWindows'
  BY <1>1, StepPast, StepExpiries DEF LimiterInv
<1>3. CountersAreComplete' /\ PassedIsBounded'
  BY <1>1, StepPassing DEF LimiterInv
<1>4. CountersAreDeserved' /\ AnswersAreDeserved'
  BY <1>1, StepDeserved, StepAnswers DEF LimiterInv
<1> QED BY <1>1, <1>2, <1>3, <1>4 DEF LimiterInv

LEMMA LimiterInvariant == Spec => []LimiterInv
<1>1. LimiterInv /\ [Next]_vars => LimiterInv'
  BY StepLimiter
<1> QED BY InitLimiter, <1>1, PTL DEF Spec

\* A fixed window lets at most Max counted requests of an identity through, for
\* any number of requests in flight, whatever fails: EXPIRE never ends a counter
\* before its window.
THEOREM LimitHolds == Spec => []NeverMoreThanMax
<1>1. LimiterInv => NeverMoreThanMax
  <2> SUFFICES ASSUME LimiterInv, NEW k \in Keys
               PROVE  admitted[k] <= Max
    BY DEF NeverMoreThanMax
  <2>1. admitted[k] \in Nat /\ admitted[k] + Cardinality(Pending(k)) <= Max
    BY DEF LimiterInv, TypeOK, PassedIsBounded, Passed
  <2> QED BY <2>1, PendingIsFinite, LimiterAssumption
<1> QED BY <1>1, LimiterInvariant, PTL

\* Nobody is refused for what another identity has sent, or for another window.
THEOREM RefusalsAreDeserved == Spec => []RefusalIsDeserved
<1>1. LimiterInv => RefusalIsDeserved
  <2> SUFFICES ASSUME LimiterInv, NEW r \in Slots, Refused(r)
               PROVE  asked[<<req[r].id, req[r].win>>] > Max
    BY DEF RefusalIsDeserved
  <2>1. req[r].count > Max /\ req[r].count <= asked[<<req[r].id, req[r].win>>]
    BY DEF LimiterInv, AnswersAreDeserved, Refused
  <2>2. req[r].count \in Nat /\ asked[<<req[r].id, req[r].win>>] \in Nat
    BY BusyRequest DEF LimiterInv, TypeOK, Refused, Request
  <2> QED BY <2>1, <2>2, LimiterAssumption
<1> QED BY <1>1, LimiterInvariant, PTL

LEMMA RetryIsLater ==
    ASSUME TypeOK
    PROVE  /\ Window(now + RetryAfter * Second) > Window(now)
           /\ Window(now + RetryAfter * Second) \in Nat
           /\ Window(now) \in Nat
<1> DEFINE n == windowSec
           a == now \div Second
           q == a \div n
           s == a % n
           later == now + RetryAfter * Second
<1>1. /\ now \in Nat /\ Second \in Nat \ {0} /\ WindowMs \in Nat \ {0}
      /\ n \in Nat \ {0} /\ n * Second = WindowMs
  BY LimiterAssumption, WindowSeconds DEF TypeOK
<1>2. a \in Nat /\ now = a * Second + (now % Second) /\ now % Second \in 0..(Second - 1)
  BY <1>1, Division
<1>3. q \in Nat /\ a = q * n + s /\ s \in 0..(n - 1)
  BY <1>1, <1>2, Division
<1>4. RetryAfter = n - s /\ RetryAfter \in Nat
  <2>1. RetryAfter = AtLeastOne(n - s)
    BY DEF RetryAfter
  <2> HIDE DEF s, n
  <2> QED BY <1>1, <1>3, <2>1 DEF AtLeastOne
<1> HIDE DEF n, a, q, s
<1>5. a + RetryAfter = (q + 1) * n
  <2>1. (q + 1) * n = q * n + n
    BY <1>1, <1>3, Z3
  <2> QED BY <1>1, <1>2, <1>3, <1>4, <2>1
<1>6. (a + RetryAfter) * Second = (q + 1) * WindowMs
  <2>1. ((q + 1) * n) * Second = (q + 1) * (n * Second)
    BY <1>1, <1>3, Z3
  <2> QED BY <1>1, <1>5, <2>1
<1>7. (q + 1) * WindowMs <= later /\ later \in Nat /\ q + 1 \in Nat
  <2>1. (a + RetryAfter) * Second = a * Second + RetryAfter * Second
    BY <1>1, <1>2, <1>4, Z3
  <2>2. a * Second \in Nat /\ RetryAfter * Second \in Nat
    BY <1>1, <1>2, <1>4, Z3
  <2> QED BY <1>1, <1>2, <1>3, <1>6, <2>1, <2>2
<1>8. now < (q + 1) * WindowMs
  <2>1. a + 1 <= a + RetryAfter
    <3>1. RetryAfter # 0
      BY <1>1, <1>3, <1>4
    <3> QED BY <1>2, <1>4, <3>1
  <2>2. (a + 1) * Second <= (a + RetryAfter) * Second
    BY <1>1, <1>2, <1>4, <2>1, Z3
  <2>3. (a + 1) * Second = a * Second + Second /\ a * Second \in Nat
    BY <1>1, <1>2, Z3
  <2>4. (q + 1) * WindowMs \in Nat
    BY <1>1, <1>3, Z3
  <2> QED BY <1>1, <1>2, <1>6, <2>2, <2>3, <2>4
<1> HIDE DEF later
<1>9. Window(later) >= q + 1 /\ Window(later) \in Nat
  BY <1>1, <1>7, QuotientIsAtLeast, Division DEF Window
<1>10. Window(now) < q + 1 /\ Window(now) \in Nat
  <2> DEFINE w == now \div WindowMs
  <2>1. w \in Nat /\ w * WindowMs <= now
    BY <1>1, Division
  <2> HIDE DEF w
  <2>2. w < q + 1
    <3> SUFFICES ASSUME w >= q + 1
                 PROVE  FALSE
      BY <1>7, <2>1
    <3>1. w * WindowMs >= (q + 1) * WindowMs
      BY <1>1, <1>7, <2>1, Z3
    <3>2. w * WindowMs \in Nat /\ (q + 1) * WindowMs \in Nat
      BY <1>1, <1>7, <2>1, Z3
    <3> QED BY <1>1, <1>8, <2>1, <3>1, <3>2
  <2> QED BY <2>1, <2>2 DEF Window, w
<1> QED BY <1>7, <1>9, <1>10 DEF later

\* The retry time of a 429 leads into a later window, for any window of whole
\* seconds and any lag between the two readings of the clock.
THEOREM RetriesLeadOut == Spec => []RetryAfterLeadsOut
<1>1. LimiterInv => RetryAfterLeadsOut
  <2> SUFFICES ASSUME LimiterInv, NEW r \in Slots, Refused(r)
               PROVE  Window(now + RetryAfter * Second) > req[r].win
    BY DEF RetryAfterLeadsOut
  <2>1. req[r].win \in Nat /\ req[r] # Idle
    BY BusyRequest DEF LimiterInv, Refused
  <2>2. req[r].win <= Window(now)
    BY <2>1 DEF LimiterInv, RequestsAreOfThePast
  <2> QED BY <2>1, <2>2, RetryIsLater DEF LimiterInv
<1> QED BY <1>1, LimiterInvariant, PTL
-----------------------------------------------------------------------------
(* Counters without an expiry.                                             *)

Unexpiring(k) == counter[k].count > 0 /\ counter[k].until = 0
Attended(k) == k \in abandoned \/ \E r \in Expiring : KeyOf(r) = k

LEMMA StepExpiring ==
    ASSUME TypeOK, CountersExpire, [Next]_vars
    PROVE  CountersExpire'
<1> SUFFICES ASSUME NEW k \in Keys, Unexpiring(k)'
             PROVE  Attended(k)'
  BY DEF CountersExpire, Unexpiring, Attended
<1>1. Unexpiring(k) => Attended(k)
  BY DEF CountersExpire, Unexpiring, Attended
<1>2. counter \in [Keys -> [count: Nat, until: Nat]]
  BY DEF TypeOK
<1>3. CASE UNCHANGED <<counter, req, abandoned>>
  BY <1>1, <1>3 DEF Unexpiring, Attended, Expiring, KeyOf
<1>4. CASE Connect \/ Outage \/ UNCHANGED vars
  BY <1>3, <1>4 DEF Connect, Outage, vars
<1>5. CASE Tick
  <2>1. Unexpiring(k)
    BY <1>2, <1>5 DEF Tick, NoKey, Unexpiring
  <2> QED BY <1>1, <1>5, <2>1 DEF Tick, Attended, Expiring, KeyOf
<1>6. CASE Crash
  BY <1>1, <1>6 DEF Crash, Unexpiring, Attended
<1>7. ASSUME NEW r \in Slots, Incr(r)
      PROVE  Attended(k)'
  <2>1. req[r] \in Request /\ KeyOf(r) = <<req[r].id, req[r].win>> /\ KeyOf(r) \in Keys
    BY <1>7, BusyRequest DEF Incr
  <2> DEFINE count == counter[KeyOf(r)].count + 1
             inTime == Window(now) = req[r].win
  <2>2. /\ req'[r].id = req[r].id /\ req'[r].win = req[r].win
        /\ req'[r].pc = IF count = 1 THEN "expire" ELSE "decide"
        /\ \A q \in Slots : q # r => req'[q] = req[q]
    <3>1. req' = [req EXCEPT ![r].pc = IF count = 1 THEN "expire" ELSE "decide",
                             ![r].count = count,
                             ![r].inTime = inTime]
      BY <1>7 DEF Incr
    <3> HIDE DEF count, inTime
    <3> QED BY <2>1, <3>1 DEF TypeOK, Request
  <2>3. KeyOf(r)' = KeyOf(r) /\ \A q \in Slots : q # r => KeyOf(q)' = KeyOf(q)
    BY <2>2 DEF KeyOf, RateKey
  <2>4. CASE k = KeyOf(r) /\ counter[k].count = 0
    <3>1. r \in Expiring'
      BY <2>2, <2>4 DEF Expiring
    <3> QED BY <2>3, <2>4, <3>1 DEF Attended
  <2>5. CASE ~(k = KeyOf(r) /\ counter[k].count = 0)
    <3>1. Unexpiring(k)
      <4>1. counter'[k].until = counter[k].until
        BY <1>2, <1>7, <2>1 DEF Incr, Increment
      <4>2. counter'[k].count > 0 => counter[k].count > 0
        BY <1>2, <1>7, <2>1, <2>5, IncrCounts
      <4> QED BY <4>1, <4>2 DEF Unexpiring
    <3>2. \A q \in Expiring : q # r /\ q \in Expiring'
      BY <1>7, <2>2 DEF Incr, Expiring
    <3>3. \A q \in Expiring : KeyOf(q)' = KeyOf(q)
      BY <2>3, <3>2 DEF Expiring
    <3>4. abandoned' = abandoned
      BY <1>7 DEF Incr
    <3> QED BY <1>1, <3>1, <3>2, <3>3, <3>4 DEF Attended
  <2> QED BY <2>4, <2>5
<1>8. ASSUME NEW r \in Slots, SetExpiry(r)
      PROVE  Attended(k)'
  <2>1. KeyOf(r) \in Keys /\ abandoned' = abandoned
    BY <1>8, BusyRequest DEF SetExpiry
  <2>2. now + windowSec * Second # 0
    <3>1. windowSec * Second \in Nat \ {0} /\ now \in Nat
      BY WindowSeconds, LimiterAssumption DEF TypeOK
    <3> QED BY <3>1
  <2>3. k # KeyOf(r) /\ Unexpiring(k)
    BY <1>2, <1>8, <2>1, <2>2 DEF SetExpiry, Unexpiring
  <2>4. \A q \in Slots : q # r => req'[q] = req[q]
    BY <1>8 DEF SetExpiry, TypeOK
  <2>5. \A q \in Expiring : q # r => q \in Expiring' /\ KeyOf(q)' = KeyOf(q)
    BY <2>4 DEF Expiring, KeyOf, RateKey
  <2> QED BY <1>1, <2>1, <2>3, <2>5 DEF Attended
<1>9. ASSUME NEW r \in Slots, FailOpen(r)
      PROVE  Attended(k)'
  <2>1. req[r].pc \in {"incr", "expire"} /\ Finish(r) /\ KeyOf(r) \in Keys
    BY <1>9, BusyRequest DEF FailOpen
  <2>2. \A q \in Slots : q # r => req'[q] = req[q]
    BY <2>1 DEF Finish, TypeOK
  <2>3. \A q \in Expiring : q # r => q \in Expiring' /\ KeyOf(q)' = KeyOf(q)
    BY <2>2 DEF Expiring, KeyOf, RateKey
  <2>4. abandoned \subseteq abandoned' /\ (r \in Expiring => KeyOf(r) \in abandoned')
    BY <1>9 DEF FailOpen, Expiring
  <2>5. CASE Unexpiring(k)
    BY <1>1, <2>3, <2>4, <2>5 DEF Attended
  <2>6. CASE ~Unexpiring(k)
    <3>1. k = KeyOf(r) /\ counter[k].count = 0 /\ req[r].pc = "incr" /\ Increment(k)
      BY <1>2, <1>9, <2>1, <2>6 DEF FailOpen, Increment, Unexpiring
    <3>2. k \in abandoned'
      BY <1>9, <3>1, <1>2 DEF FailOpen, Increment, Unexpiring
    <3> QED BY <3>2 DEF Attended
  <2> QED BY <2>5, <2>6
<1>10. ASSUME NEW r \in Slots, Admit(r) \/ Refuse(r) \/ \E id \in Ids : Start(r, id)
       PROVE  Attended(k)'
  <2>0. counter' = counter /\ abandoned' = abandoned /\ req[r].pc # "expire"
    <3>1. CASE Admit(r)
      BY <3>1 DEF Admit
    <3>2. CASE Refuse(r)
      BY <3>2 DEF Refuse
    <3>3. CASE \E id \in Ids : Start(r, id)
      BY <3>3 DEF Start, Idle
    <3> QED BY <1>10, <3>1, <3>2, <3>3
  <2>1. UNCHANGED <<counter, abandoned>> /\ r \notin Expiring
    BY <2>0 DEF Expiring
  <2>2. \A q \in Slots : q # r => req'[q] = req[q]
    BY <1>10 DEF Admit, Refuse, Finish, Start, TypeOK
  <2>3. \A q \in Expiring : q \in Expiring' /\ KeyOf(q)' = KeyOf(q)
    BY <2>1, <2>2 DEF Expiring, KeyOf, RateKey
  <2> QED BY <1>1, <2>1, <2>3 DEF Unexpiring, Attended
<1> QED BY <1>4, <1>5, <1>6, <1>7, <1>8, <1>9, <1>10 DEF Next, RequestStep, Serve

\* A counter stays without an expiry only if the one request that would have set
\* it failed or died, for any number of requests that count on it meanwhile.
THEOREM CountersAreAttended == Spec => []CountersExpire
<1>1. Init => CountersExpire
  BY DEF Init, NoKey, CountersExpire
<1>2. TypeOK /\ CountersExpire /\ [Next]_vars => CountersExpire'
  BY StepExpiring
<1> QED BY <1>1, <1>2, TypeCorrect, PTL DEF Spec
=============================================================================
