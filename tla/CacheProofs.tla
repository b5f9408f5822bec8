----------------------------- MODULE CacheProofs -----------------------------
(***************************************************************************)
(* Proofs about the event cache, for any number of requests and writes.    *)
(***************************************************************************)
EXTENDS EventCache, FiniteSetTheorems, TLAPS

-----------------------------------------------------------------------------
(* How a request moves on.                                                 *)

Modifiers == {"update", "delete"}

\* Which steps each operation comes to, and which key it asks for.
PcsFit ==
    \A r \in Slots : req[r] # Idle =>
        /\ req[r].op = "create" => req[r].pc \in {"write", "incr"}
        /\ req[r].op \in Modifiers => req[r].pc # "version"
        /\ req[r].op = "list" => req[r].pc \in {"version", "get", "wait"}
        /\ req[r].op = "get" => req[r].pc \in {"get", "wait"}
        /\ req[r].op # "list" => req[r].key = EventKey
        /\ req[r].op = "list" /\ req[r].pc # "version"
             => \E v \in Versions : v <= counter /\ req[r].key = ListKey(v)

Starts(r) ==
    /\ req[r] = Idle
    /\ \E op \in Ops :
         req'[r] = [op |-> op, key |-> EventKey, pc |-> FirstStep(op),
                    since |-> IF op = "list" THEN listed ELSE 0]

GetsVersion(r) ==
    /\ req[r] # Idle
    /\ req[r].pc = "version"
    /\ req'[r] = [req[r] EXCEPT !.pc = "get", !.key = ListKey(listVersion')]
    /\ ~lost' => listVersion' = counter

GoesOn(r) ==
    /\ req[r] # Idle
    /\ \E p \in {"wait", "del", "incr", "write"} :
         /\ <<req[r].pc, p>> \in
              {<<"get", "wait">>, <<"get", "del">>, <<"wait", "del">>,
               <<"del", "incr">>, <<"del", "write">>, <<"incr", "write">>}
         /\ p # "wait" => req[r].op \in Modifiers
         /\ req'[r] = [req[r] EXCEPT !.pc = p]

Creates(r) ==
    /\ req[r] # Idle
    /\ req[r].op = "create"
    /\ req[r].pc = "write"
    /\ req'[r] = [req[r] EXCEPT !.pc = "incr", !.since = NewContent]
    /\ db'["list"] = NewContent

Moves(r) == GetsVersion(r) \/ GoesOn(r) \/ Creates(r)

LEMMA PcIsBusy ==
    ASSUME NEW r, req[r].pc # "idle"
    PROVE  req[r] # Idle
  BY DEF Idle

LEMMA RequestType ==
    ASSUME TypeOK, NEW r \in Slots, req[r] # Idle
    PROVE  req[r] \in Request
  BY DEF TypeOK

\* What one request does, it does to itself; a promise is settled for all.
LEMMA RequestMoves ==
    ASSUME TypeOK, PcsFit, NEW r \in Slots, RequestStep(r)
    PROVE  /\ req[r] # Idle
           /\ req'[r] = Idle \/ Moves(r)
           /\ \A q \in Slots \ {r} : req'[q] = req[q]
<1> USE DEF TypeOK
<1>1. CASE RefreshListVersion(r)
  BY <1>1, PcIsBusy DEF RefreshListVersion, Moves, GetsVersion
<1>2. CASE Hit(r)
  <2>1. req[r] # Idle
    BY <1>2, PcIsBusy DEF Hit
  <2>2. PICK a \in Answered(r) : req' = [req EXCEPT ![r] = a]
    BY <1>2 DEF Hit
  <2>3. CASE a = Idle
    BY <2>1, <2>2, <2>3
  <2>4. CASE a # Idle
    <3>1. a = [req[r] EXCEPT !.pc = "del"] /\ req[r].op \in Writers /\ req[r].pc = "get"
      BY <1>2, <2>4 DEF Answered, Hit
    <3>2. req[r].op \in Modifiers
      BY <2>1, <3>1 DEF PcsFit, Writers, Modifiers
    <3> QED BY <2>1, <2>2, <3>1, <3>2 DEF Moves, GoesOn
  <2> QED BY <2>3, <2>4
<1>3. CASE Miss(r)
  BY <1>3, PcIsBusy DEF Miss, GoTo, Moves, GoesOn
<1>4. CASE Del(r)
  <2>1. req[r] # Idle /\ req[r].pc = "del"
    BY <1>4, PcIsBusy DEF Del
  <2>2. req[r].op \in Modifiers
    BY <2>1, RequestType DEF PcsFit, Request, Ops, Modifiers
  <2> QED BY <1>4, <2>1, <2>2 DEF Del, GoTo, Moves, GoesOn
<1>5. CASE Incr(r)
  <2>1. req[r] # Idle /\ req[r].pc = "incr"
    BY <1>5, PcIsBusy DEF Incr
  <2>2. req[r].op \in Modifiers \cup {"create"}
    BY <2>1, RequestType DEF PcsFit, Request, Ops, Modifiers
  <2> QED BY <1>5, <2>1, <2>2 DEF Incr, AfterIncr, Finish, GoTo, Moves, GoesOn
<1>6. CASE Create(r)
  BY <1>6, PcIsBusy DEF Create, Moves, Creates
<1>7. CASE Modify(r) \/ WriteRefused(r)
  BY <1>7, PcIsBusy DEF Modify, WriteRefused, Finish
<1> QED BY <1>1, <1>2, <1>3, <1>4, <1>5, <1>6, <1>7 DEF RequestStep

LEMMA FetchMoves ==
    ASSUME TypeOK, PcsFit, NEW k \in Keys, FetchStep(k), NEW r \in Slots
    PROVE  \/ req'[r] = req[r]
           \/ /\ req[r] # Idle /\ req[r].pc = "wait" /\ req[r].key = k
              /\ req'[r] = Idle \/ GoesOn(r)
<1> USE DEF TypeOK
<1>1. CASE FetchRejects(k)
  BY <1>1 DEF FetchRejects, Waiting, Busy
<1>2. CASE FetchReads(k)
  BY <1>2 DEF FetchReads
<1>3. CASE FetchResolves(k)
  <2>1. CASE r \notin Waiting(k)
    BY <1>3, <2>1 DEF FetchResolves
  <2>2. CASE r \in Waiting(k)
    <3>1. req[r] # Idle /\ req[r].pc = "wait" /\ req[r].key = k
      BY <2>2 DEF Waiting, Busy
    <3>2. \/ req'[r] = Idle
          \/ req[r].op \in Writers /\ req'[r] = [req[r] EXCEPT !.pc = "del"]
      BY <1>3, <2>2 DEF FetchResolves
    <3>3. req[r].op \in Writers => req[r].op \in Modifiers
      BY <3>1 DEF PcsFit, Writers, Modifiers
    <3> QED BY <3>1, <3>2, <3>3 DEF GoesOn
  <2> QED BY <2>1, <2>2
<1> QED BY <1>1, <1>2, <1>3 DEF FetchStep

LEMMA EveryMove ==
    ASSUME TypeOK, PcsFit, [Next]_vars, NEW r \in Slots
    PROVE  req'[r] = req[r] \/ req'[r] = Idle \/ Starts(r) \/ Moves(r)
<1>1. ASSUME NEW q \in Slots, RequestStep(q)
      PROVE  req'[r] = req[r] \/ req'[r] = Idle \/ Moves(r)
  BY <1>1, RequestMoves
<1>2. ASSUME NEW q \in Slots, NEW op \in Ops, Start(q, op)
      PROVE  req'[r] = req[r] \/ Starts(r)
  BY <1>2 DEF Start, Starts, TypeOK
<1>3. ASSUME NEW k \in Keys, FetchStep(k)
      PROVE  req'[r] = req[r] \/ req'[r] = Idle \/ Moves(r)
  BY <1>3, FetchMoves DEF Moves
<1>4. ASSUME NEW k \in Keys, Expire(k)
      PROVE  req'[r] = req[r]
  BY <1>4 DEF Expire
<1>5. CASE UNCHANGED vars
  BY <1>5 DEF vars
<1> QED BY <1>1, <1>2, <1>3, <1>4, <1>5 DEF Next

-----------------------------------------------------------------------------
(* The bound on writes: what has been written and what may still be.       *)

ToWrite == {r \in Slots : /\ req[r] # Idle /\ req[r].op \in Writers
                          /\ ~(req[r].op = "create" /\ req[r].pc = "incr")}
ToIncr == {r \in Slots : /\ req[r] # Idle /\ req[r].op \in Writers
                         /\ ~(req[r].op # "create" /\ req[r].pc = "write")}

WritesFit == db["list"] + Cardinality(ToWrite) <= MaxWrites + 1
IncrsFit == counter + Cardinality(ToIncr) <= MaxWrites

TypeInv == TypeOK /\ PcsFit /\ listVersion <= counter /\ WritesFit /\ IncrsFit

LEMMA Counts ==
    /\ IsFiniteSet(ToWrite) /\ Cardinality(ToWrite) \in Nat
    /\ IsFiniteSet(ToIncr) /\ Cardinality(ToIncr) \in Nat
    /\ IsFiniteSet(Writing) /\ Cardinality(Writing) \in Nat
<1>1. ToWrite \subseteq Slots /\ ToIncr \subseteq Slots /\ Writing \subseteq Slots
  BY DEF ToWrite, ToIncr, Writing, Busy
<1>2. IsFiniteSet(ToWrite) /\ IsFiniteSet(ToIncr) /\ IsFiniteSet(Writing)
  BY <1>1, FS_Subset, CacheAssumption
<1> QED BY <1>2, FS_CardinalityType

\* Only starting a writer adds to what may still be written.
LEMMA NothingToDoAppears ==
    ASSUME TypeOK, PcsFit, [Next]_vars, NEW r \in Slots,
           ~(Starts(r) /\ req'[r].op \in Writers)
    PROVE  /\ r \in ToWrite' => r \in ToWrite
           /\ r \in ToIncr' => r \in ToIncr
<1>1. CASE req'[r] = req[r] \/ req'[r] = Idle
  BY <1>1 DEF ToWrite, ToIncr
<1>2. CASE Starts(r)
  BY <1>2 DEF ToWrite, ToIncr
<1>3. CASE Moves(r)
  <2>1. req[r] # Idle /\ req[r] \in Request
    BY <1>3, RequestType DEF Moves, GetsVersion, GoesOn, Creates
  <2>2. CASE GetsVersion(r)
    BY <2>1, <2>2 DEF GetsVersion, ToWrite, ToIncr, Request
  <2>3. CASE GoesOn(r)
    <3>1. PICK p \in {"wait", "del", "incr", "write"} :
            /\ req[r].pc \in {"get", "wait", "del", "incr"}
            /\ req[r].pc = "incr" => req[r].op \in Modifiers
            /\ req'[r] = [req[r] EXCEPT !.pc = p]
      BY <2>3 DEF GoesOn
    <3>2. req'[r].op = req[r].op
      BY <2>1, <3>1 DEF Request
    <3>3. ~(req[r].op = "create" /\ req[r].pc = "incr")
      BY <3>1 DEF Modifiers
    <3> QED BY <2>1, <3>1, <3>2, <3>3 DEF ToWrite, ToIncr
  <2>4. CASE Creates(r)
    BY <2>1, <2>4 DEF Creates, ToWrite, ToIncr, Request
  <2> QED BY <1>3, <2>2, <2>3, <2>4 DEF Moves
<1> QED BY <1>1, <1>2, <1>3, EveryMove

LEMMA NothingToDoAppearsAtAll ==
    ASSUME TypeOK, PcsFit, [Next]_vars,
           \A r \in Slots : ~(Starts(r) /\ req'[r].op \in Writers)
    PROVE  /\ ToWrite' \subseteq ToWrite /\ Cardinality(ToWrite') <= Cardinality(ToWrite)
           /\ ToIncr' \subseteq ToIncr /\ Cardinality(ToIncr') <= Cardinality(ToIncr)
<1>1. ToWrite' \subseteq Slots /\ ToIncr' \subseteq Slots
  BY DEF ToWrite, ToIncr
<1>2. ToWrite' \subseteq ToWrite /\ ToIncr' \subseteq ToIncr
  BY <1>1, NothingToDoAppears
<1> QED BY <1>2, Counts, FS_Subset

\* The counter and the list move by one at a time, by what has been counted.
LEMMA WriteIsCounted ==
    ASSUME TypeOK, PcsFit, NEW r \in Slots, Create(r) \/ Modify(r)
    PROVE  /\ req[r] # Idle /\ r \in ToWrite /\ r \notin ToWrite'
           /\ db'["list"] = db["list"] + 1 /\ counter' = counter
<1>1. req[r] # Idle /\ req[r].pc = "write"
  BY PcIsBusy DEF Create, Modify
<1>2. req[r] \in Request
  BY <1>1, RequestType
<1>3. req[r].op \in Writers
  BY <1>1, <1>2 DEF PcsFit, Request, Ops, Writers
<1>4. r \in ToWrite
  BY <1>1, <1>3 DEF ToWrite
<1>5. CASE Create(r)
  BY <1>1, <1>2, <1>4, <1>5 DEF Create, ToWrite, TypeOK, Request, NewContent
<1>6. CASE Modify(r)
  BY <1>1, <1>4, <1>6 DEF Modify, Finish, ToWrite, TypeOK, NewContent
<1> QED BY <1>5, <1>6

LEMMA IncrIsCounted ==
    ASSUME TypeOK, PcsFit, NEW r \in Slots, Incr(r)
    PROVE  /\ req[r] # Idle /\ r \in ToIncr /\ r \notin ToIncr'
           /\ counter' \in {counter, counter + 1} /\ db' = db
<1>1. req[r] # Idle /\ req[r].pc = "incr"
  BY PcIsBusy DEF Incr
<1>2. req[r] \in Request
  BY <1>1, RequestType
<1>3. req[r].op \in Writers
  BY <1>1, <1>2 DEF PcsFit, Request, Ops, Writers
<1>4. r \in ToIncr
  BY <1>1, <1>3 DEF ToIncr
<1>5. r \notin ToIncr'
  <2>1. CASE req[r].op = "create"
    BY <1>1, <2>1 DEF Incr, AfterIncr, Finish, ToIncr, TypeOK
  <2>2. CASE req[r].op # "create"
    <3>1. req'[r] = [req[r] EXCEPT !.pc = "write"]
      BY <1>1, <2>2 DEF Incr, AfterIncr, GoTo, TypeOK
    <3> QED BY <1>2, <2>2, <3>1 DEF ToIncr, Request
  <2> QED BY <2>1, <2>2
<1>6. counter' \in {counter, counter + 1} /\ db' = db
  BY DEF Incr
<1> QED BY <1>1, <1>4, <1>5, <1>6

LEMMA OthersKeepContents ==
    ASSUME [Next]_vars
    PROVE  /\ db' = db \/ \E r \in Slots : Create(r) \/ Modify(r)
           /\ counter' = counter \/ \E r \in Slots : Incr(r)
           /\ listVersion' \in {listVersion, counter}
           /\ listVersion' # listVersion => counter' = counter
           /\ \/ listed' = listed
              \/ \E r \in Slots : /\ Incr(r) /\ req[r].op = "create"
                                  /\ listed' = req[r].since
  BY DEF Next, vars, RequestStep, FetchStep, Start, RefreshListVersion, Hit, Miss, Del,
         Incr, AfterIncr, GoTo, Create, Modify, WriteRefused, FetchRejects, FetchReads,
         FetchResolves, Expire

LEMMA OneMoreWriter ==
    ASSUME NEW r
    PROVE  /\ IsFiniteSet(Writing \cup {r})
           /\ Cardinality(Writing \cup {r}) <= Cardinality(Writing) + 1
<1> DEFINE W == Writing
<1>1. IsFiniteSet(W) /\ Cardinality(W) \in Nat
  BY Counts
<1> HIDE DEF W
<1>2. /\ IsFiniteSet(W \cup {r})
      /\ Cardinality(W \cup {r}) = IF r \in W THEN Cardinality(W) ELSE Cardinality(W) + 1
  BY <1>1, FS_AddElement
<1>3. Cardinality(W \cup {r}) <= Cardinality(W) + 1
  BY <1>1, <1>2
<1> QED BY <1>2, <1>3 DEF W

LEMMA StepFits ==
    ASSUME TypeInv, [Next]_vars
    PROVE  WritesFit' /\ IncrsFit'
<1> USE DEF TypeInv
<1>t. db["list"] \in Nat /\ counter \in Nat /\ MaxWrites \in Nat
  BY CacheAssumption DEF TypeOK, Contents, Versions
<1>1. CASE \E r \in Slots : Starts(r) /\ req'[r].op \in Writers
  <2>1. PICK r \in Slots : Starts(r) /\ req'[r].op \in Writers
    BY <1>1
  <2>2. PICK op \in Writers : Start(r, op)
    <3>1. ASSUME NEW q \in Slots, RequestStep(q)
          PROVE  FALSE
      <4>1. q # r => req'[r] = req[r]
        BY <3>1, RequestMoves
      <4>2. q = r => req[r] # Idle
        BY <3>1, RequestMoves
      <4>3. req'[r] # req[r]
        BY <2>1 DEF Starts, Idle, FirstStep
      <4> QED BY <2>1, <4>1, <4>2, <4>3 DEF Starts
    <3>2. ASSUME NEW k \in Keys, FetchStep(k)
          PROVE  FALSE
      <4>1. req'[r] = req[r]
        BY <2>1, <3>2, FetchMoves DEF Starts
      <4> QED BY <2>1, <4>1 DEF Starts, Idle, FirstStep
    <3>3. ASSUME req' = req
          PROVE  FALSE
      BY <2>1, <3>3 DEF Starts, Idle, FirstStep
    <3>4. PICK q \in Slots, op \in Ops : Start(q, op)
      BY <3>1, <3>2, <3>3 DEF Next, vars, Expire
    <3>5. q = r
      BY <2>1, <3>4 DEF Start, Starts, TypeOK, Idle, FirstStep
    <3>6. op \in Writers
      BY <2>1, <3>4, <3>5 DEF Start, TypeOK
    <3> QED BY <3>4, <3>5, <3>6
  <2>3. /\ db["list"] + Cardinality(Writing) <= MaxWrites
        /\ counter + Cardinality(Writing) < MaxWrites
    BY <2>2 DEF Start, WriteLeft
  <2>4. /\ ToWrite' \subseteq Writing \cup {r}
        /\ ToIncr' \subseteq Writing \cup {r}
    BY <2>2 DEF Start, ToWrite, ToIncr, Writing, Busy, TypeOK
  <2>5. /\ IsFiniteSet(Writing \cup {r})
        /\ Cardinality(Writing \cup {r}) <= Cardinality(Writing) + 1
    BY OneMoreWriter
  <2>6. /\ Cardinality(ToWrite') <= Cardinality(Writing) + 1
        /\ Cardinality(ToIncr') <= Cardinality(Writing) + 1
    <3>1. /\ Cardinality(ToWrite') <= Cardinality(Writing \cup {r})
          /\ Cardinality(ToWrite') \in Nat
          /\ Cardinality(ToIncr') <= Cardinality(Writing \cup {r})
          /\ Cardinality(ToIncr') \in Nat
          /\ Cardinality(Writing \cup {r}) \in Nat
      BY <2>4, <2>5, FS_Subset, FS_CardinalityType
    <3> HIDE DEF TypeInv
    <3> QED BY <2>5, <3>1, Counts
  <2>7. /\ Cardinality(ToWrite') \in Nat /\ Cardinality(ToIncr') \in Nat
        /\ db' = db /\ counter' = counter
    BY <2>2, <2>4, <2>5, FS_Subset, FS_CardinalityType DEF Start
  <2> QED BY <1>t, <2>3, <2>6, <2>7, Counts DEF WritesFit, IncrsFit
<1>2. CASE ~ \E r \in Slots : Starts(r) /\ req'[r].op \in Writers
  <2>1. /\ ToWrite' \subseteq ToWrite /\ Cardinality(ToWrite') <= Cardinality(ToWrite)
        /\ ToIncr' \subseteq ToIncr /\ Cardinality(ToIncr') <= Cardinality(ToIncr)
    BY <1>2, NothingToDoAppearsAtAll
  <2>2. /\ Cardinality(ToWrite') \in Nat /\ IsFiniteSet(ToWrite')
        /\ Cardinality(ToIncr') \in Nat /\ IsFiniteSet(ToIncr')
    BY <2>1, Counts, FS_Subset, FS_CardinalityType
  <2>3. WritesFit'
    <3>1. CASE db' = db
      BY <1>t, <2>1, <2>2, <3>1, Counts DEF WritesFit
    <3>2. CASE \E r \in Slots : Create(r) \/ Modify(r)
      <4>1. PICK r \in Slots : Create(r) \/ Modify(r)
        BY <3>2
      <4>2. r \in ToWrite /\ r \notin ToWrite' /\ db'["list"] = db["list"] + 1
        BY <4>1, WriteIsCounted
      <4>3. ToWrite' \subseteq ToWrite \ {r}
        BY <2>1, <4>2
      <4>4. /\ IsFiniteSet(ToWrite \ {r})
            /\ Cardinality(ToWrite \ {r}) = Cardinality(ToWrite) - 1
        BY <4>2, Counts, FS_RemoveElement
      <4>5. Cardinality(ToWrite') <= Cardinality(ToWrite) - 1
        BY <4>3, <4>4, FS_Subset
      <4> QED BY <1>t, <2>2, <4>2, <4>5, Counts DEF WritesFit
    <3> QED BY <3>1, <3>2, OthersKeepContents
  <2>4. IncrsFit'
    <3>1. CASE counter' = counter
      BY <1>t, <2>1, <2>2, <3>1, Counts DEF IncrsFit
    <3>2. CASE \E r \in Slots : Incr(r)
      <4>1. PICK r \in Slots : Incr(r)
        BY <3>2
      <4>2. r \in ToIncr /\ r \notin ToIncr' /\ counter' \in {counter, counter + 1}
        BY <4>1, IncrIsCounted
      <4>3. ToIncr' \subseteq ToIncr \ {r}
        BY <2>1, <4>2
      <4>4. /\ IsFiniteSet(ToIncr \ {r})
            /\ Cardinality(ToIncr \ {r}) = Cardinality(ToIncr) - 1
        BY <4>2, Counts, FS_RemoveElement
      <4>5. Cardinality(ToIncr') <= Cardinality(ToIncr) - 1
        BY <4>3, <4>4, FS_Subset
      <4> QED BY <1>t, <2>2, <4>2, <4>5, Counts DEF IncrsFit
    <3> QED BY <3>1, <3>2, OthersKeepContents
  <2> QED BY <2>3, <2>4
<1> QED BY <1>1, <1>2

-----------------------------------------------------------------------------
(* Types.                                                                  *)

LEMMA NumbersFit ==
    ASSUME TypeInv, [Next]_vars
    PROVE  /\ counter' \in Versions /\ listVersion' \in Versions
           /\ listVersion' <= counter' /\ counter <= counter'
           /\ db'["list"] \in Contents /\ db["list"] <= db'["list"]
           /\ \A r \in Slots : Create(r) \/ Modify(r) => NewContent \in Contents
<1> DEFINE C == Cardinality(ToWrite')
           D == Cardinality(ToIncr')
<1>1. C \in Nat /\ D \in Nat
  <2>1. ToWrite' \subseteq Slots /\ ToIncr' \subseteq Slots
    BY DEF ToWrite, ToIncr
  <2> QED BY <2>1, FS_Subset, FS_CardinalityType, CacheAssumption
<1>2. db'["list"] + C <= MaxWrites + 1 /\ counter' + D <= MaxWrites
  BY StepFits DEF WritesFit, IncrsFit
<1>3. /\ db["list"] \in Nat /\ counter \in Nat /\ listVersion \in Nat
      /\ MaxWrites \in Nat /\ listVersion <= counter
  BY CacheAssumption DEF TypeInv, TypeOK, Contents, Versions
<1>4. /\ db'["list"] \in {db["list"], db["list"] + 1}
      /\ counter' \in {counter, counter + 1}
      /\ listVersion' \in {listVersion, counter}
      /\ \A r \in Slots : Create(r) \/ Modify(r) => db'["list"] = db["list"] + 1
  BY OthersKeepContents, WriteIsCounted, IncrIsCounted DEF TypeInv
<1> HIDE DEF C, D
<1>5. db'["list"] \in Contents /\ counter' \in Versions /\ listVersion' \in Versions
  <2> DEFINE n == db["list"]
             m == db'["list"]
  <2>1. n \in Nat /\ m \in {n, n + 1} /\ m + C <= MaxWrites + 1
    BY <1>2, <1>3, <1>4
  <2> HIDE DEF n, m
  <2>2. m \in 0..(MaxWrites + 1)
    BY <1>1, <1>3, <2>1
  <2>3. counter' \in 0..MaxWrites /\ listVersion' \in 0..MaxWrites
    <3> DEFINE a == counter
               b == counter'
               v == listVersion
               w == listVersion'
    <3>1. /\ a \in Nat /\ v \in Nat /\ v <= a /\ b \in {a, a + 1} /\ w \in {v, a}
          /\ b + D <= MaxWrites
      BY <1>2, <1>3, <1>4
    <3> HIDE DEF a, b, v, w
    <3>2. b \in 0..MaxWrites /\ w \in 0..MaxWrites
      BY <1>1, <1>3, <3>1
    <3> QED BY <3>2 DEF b, w
  <2> QED BY <2>2, <2>3 DEF Contents, Versions, m
<1>6. listVersion' <= counter' /\ counter <= counter' /\ db["list"] <= db'["list"]
  BY <1>3, <1>4
<1>7. ASSUME NEW r \in Slots, Create(r) \/ Modify(r)
      PROVE  NewContent \in Contents
  BY <1>4, <1>5, <1>7 DEF NewContent
<1> QED BY <1>5, <1>6, <1>7

LEMMA RequestFits ==
    ASSUME TypeInv, [Next]_vars, NEW r \in Slots
    PROVE  req'[r] \in {Idle} \cup Request
<1>1. CASE req'[r] = req[r] \/ req'[r] = Idle
  BY <1>1 DEF TypeInv, TypeOK
<1>2. CASE Starts(r)
  <2>1. 0 \in Contents /\ listed \in Contents
    BY CacheAssumption DEF TypeInv, TypeOK, Contents
  <2>2. PICK op \in Ops :
          req'[r] = [op |-> op, key |-> EventKey, pc |-> FirstStep(op),
                     since |-> IF op = "list" THEN listed ELSE 0]
    BY <1>2 DEF Starts
  <2>3. FirstStep(op) \in {"version", "write", "get"}
    BY DEF FirstStep
  <2> QED BY <2>1, <2>2, <2>3 DEF Request, Keys
<1>3. CASE Moves(r)
  <2>1. req[r] \in Request
    BY <1>3, RequestType DEF TypeInv, Moves, GetsVersion, GoesOn, Creates
  <2>2. CASE GetsVersion(r)
    <3>1. ListKey(listVersion') \in Keys
      BY NumbersFit DEF Keys
    <3> QED BY <2>1, <2>2, <3>1 DEF GetsVersion, Request
  <2>3. CASE GoesOn(r)
    BY <2>1, <2>3 DEF GoesOn, Request
  <2>4. CASE Creates(r)
    <3>1. CASE NewContent \in Contents
      BY <2>1, <2>4, <3>1 DEF Creates, Request
    <3>2. CASE NewContent \notin Contents
      <4>1. req'[r] # req[r] /\ req'[r] # Idle /\ req[r] # Idle /\ req'[r].pc = "incr"
             /\ req[r].pc = "write"
        BY <2>1, <2>4 DEF Creates, Request, Idle
      <4>2. r \in ToWrite
        BY <2>4 DEF Creates, ToWrite, Writers
      <4>3. Cardinality(ToWrite) >= 1
        <5>1. /\ IsFiniteSet(ToWrite \ {r}) 
              /\ Cardinality(ToWrite \ {r}) = Cardinality(ToWrite) - 1
          BY <4>2, Counts, FS_RemoveElement
        <5>2. Cardinality(ToWrite \ {r}) \in Nat
          BY <5>1, FS_CardinalityType
        <5> QED BY <5>1, <5>2, Counts
      <4>4. db["list"] \in Nat /\ MaxWrites \in Nat
        BY CacheAssumption DEF TypeInv, TypeOK, Contents
      <4>5. NewContent \in Contents
        BY <4>3, <4>4, Counts DEF TypeInv, WritesFit, NewContent, Contents
      <4> QED BY <3>2, <4>5
    <3> QED BY <3>1, <3>2
  <2> QED BY <1>3, <2>2, <2>3, <2>4 DEF Moves
<1> QED BY <1>1, <1>2, <1>3, EveryMove DEF TypeInv

LEMMA RequestsAreAFunction ==
    ASSUME TypeOK, PcsFit, [Next]_vars
    PROVE  req' = [r \in Slots |-> req'[r]]
  BY DEF TypeOK, Next, vars, RequestStep, FetchStep, Start, RefreshListVersion, Hit, Miss,
         Del, Incr, AfterIncr, GoTo, Finish, Create, Modify, WriteRefused, FetchRejects,
         FetchReads, FetchResolves, Expire

LEMMA PcsFitStep ==
    ASSUME TypeInv, [Next]_vars
    PROVE  PcsFit'
<1> SUFFICES ASSUME NEW r \in Slots, req'[r] # Idle
    PROVE  /\ req'[r].op = "create" => req'[r].pc \in {"write", "incr"}
           /\ req'[r].op \in Modifiers => req'[r].pc # "version"
           /\ req'[r].op = "list" => req'[r].pc \in {"version", "get", "wait"}
           /\ req'[r].op = "get" => req'[r].pc \in {"get", "wait"}
           /\ req'[r].op # "list" => req'[r].key = EventKey
           /\ req'[r].op = "list" /\ req'[r].pc # "version"
                => \E v \in Versions : v <= counter' /\ req'[r].key = ListKey(v)
  BY DEF PcsFit
<1>n. counter \in Nat /\ counter' \in Nat /\ counter <= counter'
  BY NumbersFit DEF TypeInv, TypeOK, Versions
<1>1. CASE req'[r] = req[r]
  BY <1>n, <1>1 DEF TypeInv, PcsFit, Versions
<1>2. CASE Starts(r)
  BY <1>2 DEF Starts, FirstStep, Modifiers
<1>3. CASE Moves(r)
  <2>1. req[r] # Idle
    BY <1>3 DEF Moves, GetsVersion, GoesOn, Creates
  <2>2. req[r] \in Request
    BY <2>1, RequestType DEF TypeInv
  <2>f. /\ req[r].op = "create" => req[r].pc \in {"write", "incr"}
        /\ req[r].op \in Modifiers => req[r].pc # "version"
        /\ req[r].op = "list" => req[r].pc \in {"version", "get", "wait"}
        /\ req[r].op = "get" => req[r].pc \in {"get", "wait"}
        /\ req[r].op # "list" => req[r].key = EventKey
        /\ req[r].op = "list" /\ req[r].pc # "version"
             => \E v \in Versions : v <= counter' /\ req[r].key = ListKey(v)
    BY <1>n, <2>1 DEF TypeInv, PcsFit, Versions
  <2>3. CASE GetsVersion(r)
    <3>1. /\ req'[r].op = req[r].op /\ req'[r].pc = "get"
          /\ req'[r].key = ListKey(listVersion') /\ req[r].pc = "version"
      BY <2>2, <2>3 DEF GetsVersion, Request
    <3>2. req[r].op = "list"
      BY <2>2, <2>f, <3>1 DEF Request, Ops, Modifiers
    <3> QED BY <3>1, <3>2, NumbersFit DEF Modifiers
  <2>4. CASE GoesOn(r)
    <3>1. PICK p \in {"wait", "del", "incr", "write"} :
            /\ req[r].pc \in {"get", "wait", "del", "incr"}
            /\ p = "wait" => req[r].pc = "get"
            /\ p # "wait" => req[r].op \in Modifiers
            /\ req'[r] = [req[r] EXCEPT !.pc = p]
      BY <2>4 DEF GoesOn
    <3>2. req'[r].op = req[r].op /\ req'[r].pc = p /\ req'[r].key = req[r].key
      BY <2>2, <3>1 DEF Request
    <3> QED BY <2>f, <3>1, <3>2 DEF Modifiers
  <2>5. CASE Creates(r)
    <3>1. req'[r].op = "create" /\ req'[r].pc = "incr" /\ req'[r].key = req[r].key
      BY <2>2, <2>5 DEF Creates, Request
    <3> QED BY <2>5, <2>f, <3>1 DEF Creates, Modifiers
  <2> QED BY <1>3, <2>3, <2>4, <2>5 DEF Moves
<1> QED BY <1>1, <1>2, <1>3, EveryMove DEF TypeInv

LEMMA FetchType ==
    /\ [pc |-> "read"] \in Fetch
    /\ \A c \in Contents : [pc |-> "store", content |-> c] \in Fetch
    /\ \A f \in {NoFetch} \cup Fetch : f.pc = "store" => f.content \in Contents
  BY DEF Fetch, NoFetch

LEMMA StepType ==
    ASSUME TypeInv, [Next]_vars
    PROVE  TypeInv'
<1>1. req' \in [Slots -> {Idle} \cup Request]
  BY RequestFits, RequestsAreAFunction DEF TypeInv
<1>2. db' \in [{"event", "list"} -> Contents]
  <2>1. CASE db' = db
    BY <2>1 DEF TypeInv, TypeOK
  <2>2. CASE \E r \in Slots : Create(r) \/ Modify(r)
    <3>1. PICK r \in Slots : Create(r) \/ Modify(r)
      BY <2>2
    <3>2. NewContent \in Contents /\ 0 \in Contents
      BY <3>1, NumbersFit, CacheAssumption DEF Contents
    <3> QED BY <3>1, <3>2 DEF TypeInv, TypeOK, Create, Modify
  <2> QED BY <2>1, <2>2, OthersKeepContents
<1>3. cache' \in [Keys -> Contents]
  <2>1. 0 \in Contents /\ TypeOK
    BY CacheAssumption DEF Contents, TypeInv
  <2>2. ASSUME NEW k \in Keys, FetchResolves(k)
        PROVE  cache' \in [Keys -> Contents]
    <3>1. inflight[k].content \in Contents
      BY <2>1, <2>2, FetchType DEF TypeOK, FetchResolves
    <3> QED BY <2>1, <2>2, <3>1 DEF TypeOK, FetchResolves
  <2>3. CASE cache' = cache
    BY <2>1, <2>3 DEF TypeOK
  <2>4. CASE \E k \in Keys : cache' = [cache EXCEPT ![k] = 0]
    BY <2>1, <2>4 DEF TypeOK
  <2>5. \/ cache' = cache \/ \E k \in Keys : cache' = [cache EXCEPT ![k] = 0]
        \/ \E k \in Keys : FetchResolves(k)
    BY DEF Next, vars, RequestStep, FetchStep, Start, RefreshListVersion, Hit, Miss, Del,
           Incr, Create, Modify, WriteRefused, FetchRejects, FetchReads, Expire, Keys
  <2> QED BY <2>2, <2>3, <2>4, <2>5
<1>4. inflight' \in [Keys -> {NoFetch} \cup Fetch]
  <2>1. TypeOK
    BY DEF TypeInv
  <2>2. ASSUME NEW k \in Keys, FetchReads(k)
        PROVE  inflight' \in [Keys -> {NoFetch} \cup Fetch]
    <3>1. db[k[1]] \in Contents
      BY <2>1 DEF TypeOK, Keys, EventKey, ListKey
    <3> QED BY <2>1, <2>2, <3>1, FetchType DEF TypeOK, FetchReads
  <2>3. ASSUME NEW r \in Slots, Miss(r)
        PROVE  inflight' \in [Keys -> {NoFetch} \cup Fetch]
    BY <2>1, <2>3, FetchType DEF TypeOK, Miss
  <2>4. ASSUME NEW k \in Keys, FetchRejects(k) \/ FetchResolves(k)
        PROVE  inflight' \in [Keys -> {NoFetch} \cup Fetch]
    BY <2>1, <2>4 DEF TypeOK, FetchRejects, FetchResolves
  <2>5. CASE inflight' = inflight
    BY <2>1, <2>5 DEF TypeOK
  <2>6. \/ inflight' = inflight
        \/ \E k \in Keys : FetchReads(k) \/ FetchRejects(k) \/ FetchResolves(k)
        \/ \E r \in Slots : Miss(r)
    BY DEF Next, vars, RequestStep, FetchStep, Start, RefreshListVersion, Hit, Del,
           Incr, Create, Modify, WriteRefused, Expire
  <2> QED BY <2>2, <2>3, <2>4, <2>5, <2>6
<1>5. listed' \in Contents
  <2>1. CASE listed' = listed
    BY <2>1 DEF TypeInv, TypeOK
  <2>2. CASE \E r \in Slots : Incr(r) /\ listed' = req[r].since
    BY <2>2, PcIsBusy, RequestType DEF Incr, TypeInv, Request
  <2> QED BY <2>1, <2>2, OthersKeepContents
<1>6. raced' \subseteq {"event", "list"} /\ lost' \in BOOLEAN
  <2>1. /\ raced \subseteq {"event", "list"} /\ lost \in BOOLEAN
        /\ \A b \in Served : b \in BOOLEAN
    BY DEF TypeInv, TypeOK, Served
  <2>2. Racing' \subseteq {"event", "list"}
    <3>1. EventKey[1] = "event" /\ ListKey(counter)'[1] = "list"
      BY DEF EventKey, ListKey
    <3> QED BY <3>1 DEF Racing
  <2> QED BY <2>1, <2>2 DEF Next, vars, RequestStep, FetchStep, Start, RefreshListVersion, Hit,
           Miss, Del, Incr, Create, Modify, WriteRefused, FetchRejects, FetchReads,
           FetchResolves, Expire, NoteRaces
<1>7. TypeOK'
  BY <1>1, <1>2, <1>3, <1>4, <1>5, <1>6, NumbersFit DEF TypeOK
<1> QED BY <1>7, PcsFitStep, StepFits, NumbersFit DEF TypeInv

LEMMA InitType == Init => TypeInv
<1> SUFFICES ASSUME Init PROVE TypeInv
  OBVIOUS
<1>1. TypeOK
  <2>1. 0 \in Contents /\ 1 \in Contents /\ 0 \in Versions
    BY CacheAssumption DEF Contents, Versions
  <2> QED BY <2>1 DEF Init, TypeOK
<1>2. PcsFit
  BY DEF Init, PcsFit
<1>3. ToWrite = {} /\ ToIncr = {}
  BY DEF Init, ToWrite, ToIncr
<1> QED BY <1>1, <1>2, <1>3, FS_EmptySet, CacheAssumption
        DEF Init, TypeInv, WritesFit, IncrsFit

\* Requests go through the steps of their operation, entries and promises hold what
\* the database has held, the versions never leave the range that the writes span.
THEOREM TypeCorrect == Spec => []TypeOK
<1>1. TypeInv /\ [Next]_vars => TypeInv'
  BY StepType
<1>2. TypeInv => TypeOK
  BY DEF TypeInv
<1> QED BY InitType, <1>1, <1>2, PTL DEF Spec

-----------------------------------------------------------------------------
(* What happens to an entry and to a fetch.                                *)

EntryMoves(k) ==
    \/ cache'[k] \in {cache[k], 0}
    \/ inflight[k].pc = "store" /\ cache'[k] = inflight[k].content

FetchChanges(k) ==
    \/ inflight'[k] \in {inflight[k], NoFetch}
    \/ inflight[k].pc = "read" /\ inflight'[k] = [pc |-> "store", content |-> db[k[1]]]
    \/ /\ inflight[k] = NoFetch /\ inflight'[k] = [pc |-> "read"]
       /\ \E r \in Slots : Miss(r) /\ req[r].key = k

LEMMA EntriesAndFetchesMove ==
    ASSUME TypeOK, [Next]_vars, NEW k \in Keys
    PROVE  EntryMoves(k) /\ FetchChanges(k)
<1> USE DEF TypeOK
<1>1. ASSUME NEW r \in Slots, RequestStep(r)
      PROVE  EntryMoves(k) /\ FetchChanges(k)
  <2>1. CASE Miss(r)
    <3>1. CASE req[r].key = k
      BY <2>1, <3>1 DEF Miss, EntryMoves, FetchChanges
    <3>2. CASE req[r].key # k
      BY <2>1, <3>2 DEF Miss, EntryMoves, FetchChanges
    <3> QED BY <3>1, <3>2
  <2>2. CASE Del(r)
    BY <2>2 DEF Del, EntryMoves, FetchChanges
  <2>3. CASE ~Miss(r) /\ ~Del(r)
    BY <1>1, <2>3 DEF RequestStep, RefreshListVersion, Hit, Incr, Create, Modify,
       WriteRefused, EntryMoves, FetchChanges
  <2> QED BY <2>1, <2>2, <2>3
<1>2. ASSUME NEW r \in Slots, NEW op \in Ops, Start(r, op)
      PROVE  EntryMoves(k) /\ FetchChanges(k)
  BY <1>2 DEF Start, EntryMoves, FetchChanges
<1>3. ASSUME NEW j \in Keys, FetchStep(j) \/ Expire(j)
      PROVE  EntryMoves(k) /\ FetchChanges(k)
  <2>1. CASE k = j
    BY <1>3, <2>1 DEF FetchStep, FetchRejects, FetchReads, FetchResolves, Expire,
       EntryMoves, FetchChanges
  <2>2. CASE k # j
    BY <1>3, <2>2 DEF FetchStep, FetchRejects, FetchReads, FetchResolves, Expire,
       EntryMoves, FetchChanges
  <2> QED BY <2>1, <2>2
<1>4. CASE UNCHANGED vars
  BY <1>4 DEF vars, EntryMoves, FetchChanges
<1> QED BY <1>1, <1>2, <1>3, <1>4 DEF Next

-----------------------------------------------------------------------------
(* Pages.                                                                  *)

HistoryFits ==
    /\ listed <= db["list"]
    /\ \A r \in Slots : req[r] # Idle =>
         /\ req[r].op = "create" /\ req[r].pc = "incr" => req[r].since <= db["list"]
         /\ req[r].op = "list" => req[r].since <= listed

\* No page is stored, or fetched, under a version to come.
FutureIsEmpty ==
    \A v \in Versions : v > counter =>
        cache[ListKey(v)] = 0 /\ inflight[ListKey(v)] = NoFetch

AtLeast(k, n) ==
    /\ cache[k] # 0 => cache[k] >= n
    /\ inflight[k].pc = "store" => inflight[k].content >= n

\* The pages of the current version have what has been created, and a list request
\* asks for a key under which it finds no less than when it started.
PagesSuffice ==
    ~lost => /\ AtLeast(ListKey(counter), listed)
             /\ \A r \in Slots : req[r] # Idle /\ req[r].op = "list" /\ req[r].pc # "version"
                                   => AtLeast(req[r].key, req[r].since)

PagesInv == TypeInv /\ HistoryFits /\ FutureIsEmpty /\ PagesSuffice

LEMMA HistoryTypes ==
    ASSUME TypeOK
    PROVE  /\ listed \in Nat /\ db["list"] \in Nat /\ counter \in Nat
           /\ \A r \in Slots : req[r] # Idle => req[r].since \in Nat
           /\ \A k \in Keys : /\ cache[k] \in Nat
                              /\ inflight[k].pc = "store" => inflight[k].content \in Nat
<1>1. Contents \subseteq Nat /\ Versions \subseteq Nat
  BY CacheAssumption DEF Contents, Versions
<1>2. \A r \in Slots : req[r] # Idle => req[r].since \in Contents
  BY RequestType DEF Request
<1>3. \A k \in Keys : inflight[k].pc = "store" => inflight[k].content \in Contents
  BY FetchType DEF TypeOK
<1> QED BY <1>1, <1>2, <1>3 DEF TypeOK

LEMMA ListKeys ==
    \A v \in Versions : ListKey(v) \in Keys /\ ListKey(v)[1] = "list" /\ ListKey(v) # EventKey
  BY DEF Keys, ListKey, EventKey

LEMMA ListedGrows ==
    ASSUME PagesInv, [Next]_vars
    PROVE  listed' >= listed /\ listed' <= db'["list"] /\ listed' \in Nat /\ db'["list"] \in Nat
<1> USE DEF PagesInv, TypeInv
<1>1. db["list"] \in Nat /\ db'["list"] \in Nat /\ listed \in Nat /\ listed' \in Nat
      /\ db["list"] <= db'["list"]
  <2>1. TypeOK'
    BY StepType
  <2>2. listed' \in Nat /\ db'["list"] \in Nat
    BY <2>1, CacheAssumption DEF TypeOK, Contents
  <2> QED BY <2>2, HistoryTypes, NumbersFit
<1>2. listed <= db["list"]
  BY DEF HistoryFits
<1>3. CASE listed' = listed
  BY <1>1, <1>2, <1>3
<1>4. CASE \E r \in Slots : Incr(r) /\ req[r].op = "create" /\ listed' = req[r].since
                            /\ listed' # listed
  <2>1. PICK r \in Slots : Incr(r) /\ req[r].op = "create" /\ listed' = req[r].since
                            /\ listed' # listed
    BY <1>4
  <2>2. req[r] # Idle /\ req[r].pc = "incr"
    BY <2>1, PcIsBusy DEF Incr
  <2>3. listed' <= db["list"]
    BY <2>1, <2>2 DEF HistoryFits
  <2>4. listed' >= listed
    BY <2>1, <2>2, HistoryTypes DEF Incr, AfterIncr
  <2> QED BY <1>1, <2>3, <2>4
<1> QED BY <1>3, <1>4, OthersKeepContents

LEMMA LostStays ==
    ASSUME TypeOK, [Next]_vars, ~lost'
    PROVE  ~lost /\ \A r \in Slots : Incr(r) => counter' = counter + 1
<1>1. ~lost
  BY DEF Next, vars, RequestStep, FetchStep, Start, RefreshListVersion, Hit, Miss, Del,
         Incr, Create, Modify, WriteRefused, FetchRejects, FetchReads, FetchResolves, Expire
<1>2. ASSUME NEW r \in Slots, Incr(r)
      PROVE  counter' = counter + 1
  <2>1. PICK served \in Served : /\ counter' = IF served THEN counter + 1 ELSE counter
                                 /\ lost' = (lost \/ ~served)
    BY <1>2 DEF Incr
  <2>2. served \in BOOLEAN
    BY DEF Served
  <2>3. served = TRUE
    BY <2>1, <2>2
  <2> QED BY <2>1, <2>3
<1> QED BY <1>1, <1>2

LEMMA HistoryStep ==
    ASSUME PagesInv, [Next]_vars
    PROVE  HistoryFits'
<1> USE DEF PagesInv, TypeInv
<1> SUFFICES ASSUME NEW r \in Slots, req'[r] # Idle
    PROVE  /\ req'[r].op = "create" /\ req'[r].pc = "incr" => req'[r].since <= db'["list"]
           /\ req'[r].op = "list" => req'[r].since <= listed'
  BY ListedGrows DEF HistoryFits
<1>n. /\ listed \in Nat /\ listed' \in Nat /\ listed <= listed'
      /\ db["list"] \in Nat /\ db'["list"] \in Nat /\ db["list"] <= db'["list"]
  BY ListedGrows, NumbersFit, HistoryTypes
<1>1. CASE req'[r] = req[r]
  <2>1. req[r].since \in Nat
    BY <1>1, HistoryTypes
  <2> QED BY <1>n, <1>1, <2>1 DEF HistoryFits
<1>2. CASE Starts(r)
  BY <1>n, <1>2 DEF Starts, FirstStep
<1>3. CASE Moves(r)
  <2>1. req[r] # Idle /\ req[r] \in Request /\ req[r].since \in Nat
    BY <1>3, RequestType, HistoryTypes DEF Moves, GetsVersion, GoesOn, Creates
  <2>2. req[r].op = "list" => req[r].since <= listed'
    BY <1>n, <2>1 DEF HistoryFits
  <2>3. CASE GetsVersion(r)
    BY <2>1, <2>2, <2>3 DEF GetsVersion, Request
  <2>4. CASE GoesOn(r)
    BY <2>1, <2>2, <2>4 DEF GoesOn, Request, Modifiers
  <2>5. CASE Creates(r)
    <3>1. req'[r].since = db'["list"] /\ req'[r].op = "create"
      BY <2>1, <2>5 DEF Creates, Request
    <3> QED BY <1>n, <3>1
  <2> QED BY <1>3, <2>3, <2>4, <2>5 DEF Moves
<1> QED BY <1>1, <1>2, <1>3, EveryMove

LEMMA FutureStep ==
    ASSUME PagesInv, [Next]_vars
    PROVE  FutureIsEmpty'
<1> USE DEF PagesInv, TypeInv
<1> SUFFICES ASSUME NEW v \in Versions, v > counter'
             PROVE  cache'[ListKey(v)] = 0 /\ inflight'[ListKey(v)] = NoFetch
  BY DEF FutureIsEmpty
<1>1. v > counter
  BY NumbersFit, CacheAssumption DEF TypeOK, Versions
<1>2. cache[ListKey(v)] = 0 /\ inflight[ListKey(v)] = NoFetch
  BY <1>1 DEF FutureIsEmpty
<1>3. ASSUME NEW r \in Slots, Miss(r), req[r].key = ListKey(v)
      PROVE  FALSE
  <2>1. req[r] # Idle /\ req[r].pc = "get"
    BY <1>3, PcIsBusy DEF Miss
  <2>2. req[r].op = "list"
    BY <1>3, <2>1, ListKeys DEF PcsFit
  <2>3. PICK w \in Versions : w <= counter /\ req[r].key = ListKey(w)
    BY <2>1, <2>2 DEF PcsFit
  <2>4. v = w
    BY <1>3, <2>3 DEF ListKey
  <2> QED BY <1>1, <2>3, <2>4, CacheAssumption DEF TypeOK, Versions
<1>4. EntryMoves(ListKey(v)) /\ FetchChanges(ListKey(v))
  BY EntriesAndFetchesMove, ListKeys
<1>5. inflight[ListKey(v)].pc = "none"
  BY <1>2 DEF NoFetch
<1>6. cache'[ListKey(v)] = 0
  BY <1>2, <1>4, <1>5 DEF EntryMoves
<1>7. inflight'[ListKey(v)] = NoFetch
  BY <1>2, <1>3, <1>4, <1>5 DEF FetchChanges
<1> QED BY <1>6, <1>7

LEMMA PagesKeepUp ==
    ASSUME PagesInv, [Next]_vars, NEW v \in Versions, NEW n \in Nat,
           n <= db["list"], AtLeast(ListKey(v), n)
    PROVE  AtLeast(ListKey(v), n)'
<1> DEFINE k == ListKey(v)
<1>1. k \in Keys /\ k[1] = "list"
  BY ListKeys
<1>2. /\ cache[k] # 0 => cache[k] >= n
      /\ inflight[k].pc = "store" => inflight[k].content >= n
  BY DEF AtLeast
<1>3. EntryMoves(k) /\ FetchChanges(k)
  BY <1>1, EntriesAndFetchesMove DEF PagesInv, TypeInv
<1> HIDE DEF k
<1>4. cache'[k] # 0 => cache'[k] >= n
  BY <1>2, <1>3 DEF EntryMoves
<1>5. inflight'[k].pc = "store" => inflight'[k].content >= n
  BY <1>1, <1>2, <1>3, HistoryTypes DEF FetchChanges, NoFetch, PagesInv, TypeInv
<1>6. AtLeast(k, n)'
  BY <1>4, <1>5 DEF AtLeast
<1> QED BY <1>6 DEF k

LEMMA PagesStep ==
    ASSUME PagesInv, [Next]_vars
    PROVE  PagesSuffice'
<1> USE DEF PagesInv, TypeInv
<1> SUFFICES ASSUME ~lost'
    PROVE  /\ AtLeast(ListKey(counter), listed)'
           /\ \A r \in Slots : req'[r] # Idle /\ req'[r].op = "list" /\ req'[r].pc # "version"
                                 => AtLeast(req[r].key, req[r].since)'
  BY DEF PagesSuffice
<1>n. /\ counter \in Versions /\ counter' \in Versions /\ counter \in Nat
      /\ listed \in Nat /\ listed <= db["list"]
  BY NumbersFit, HistoryTypes DEF TypeOK, HistoryFits
<1>c. AtLeast(ListKey(counter), listed)
  BY LostStays DEF PagesSuffice
<1>1. AtLeast(ListKey(counter), listed)'
  <2>1. CASE counter' = counter
    <3>1. listed' = listed
      BY <1>n, <2>1, LostStays, OthersKeepContents
    <3>2. AtLeast(ListKey(counter), listed)'
      BY <1>n, <1>c, <2>1, <3>1, PagesKeepUp DEF AtLeast
    <3> QED BY <3>2
  <2>2. CASE counter' # counter
    <3>1. PICK r \in Slots : Incr(r)
      BY <2>2, OthersKeepContents
    <3>2. counter' = counter + 1 /\ cache' = cache /\ inflight' = inflight
      BY <3>1, LostStays DEF Incr
    <3>3. cache[ListKey(counter')] = 0 /\ inflight[ListKey(counter')] = NoFetch
      BY <1>n, <3>2 DEF FutureIsEmpty
    <3> QED BY <3>2, <3>3 DEF AtLeast, NoFetch
  <2> QED BY <2>1, <2>2
<1>2. ASSUME NEW r \in Slots, req'[r] # Idle, req'[r].op = "list", req'[r].pc # "version"
      PROVE  AtLeast(req[r].key, req[r].since)'
  <2>1. ~Starts(r) /\ ~Creates(r)
    <3>1. ASSUME Creates(r)
          PROVE  FALSE
      <4>1. req[r] \in Request
        BY <3>1, RequestType DEF Creates
      <4> QED BY <1>2, <3>1, <4>1 DEF Creates, Request
    <3>2. ASSUME Starts(r)
          PROVE  FALSE
      <4>1. PICK op \in Ops : req'[r] = [op |-> op, key |-> EventKey, pc |-> FirstStep(op),
                                         since |-> IF op = "list" THEN listed ELSE 0]
        BY <3>2 DEF Starts
      <4> QED BY <1>2, <4>1 DEF FirstStep
    <3> QED BY <3>1, <3>2
  <2>2. req'[r] = req[r] \/ GetsVersion(r) \/ GoesOn(r)
    BY <1>2, <2>1, EveryMove DEF Moves
  <2>3. req[r] # Idle
    BY <1>2, <2>2 DEF GetsVersion, GoesOn
  <2>4. req[r] \in Request
    BY <2>3, RequestType
  <2>5. req[r].since \in Nat /\ (req[r].op = "list" => req[r].since <= listed)
    BY <2>3, HistoryTypes DEF HistoryFits
  <2>6. req[r].op = "list" => req[r].since <= db["list"]
    BY <1>n, <2>5, HistoryTypes
  <2>7. CASE GetsVersion(r)
    <3>1. /\ req'[r].op = req[r].op /\ req'[r].since = req[r].since
          /\ req'[r].key = ListKey(counter)
      BY <2>4, <2>7 DEF GetsVersion, Request
    <3>2. AtLeast(ListKey(counter), req[r].since)
      BY <1>n, <1>c, <1>2, <2>5, <3>1, HistoryTypes, ListKeys DEF AtLeast
    <3>3. \A n \in Nat : n <= db["list"] /\ AtLeast(ListKey(counter), n)
                           => \A k : k = ListKey(counter) => AtLeast(k, n)'
      BY <1>n, PagesKeepUp DEF AtLeast
    <3> QED BY <1>2, <2>5, <2>6, <3>1, <3>2, <3>3 DEF AtLeast
  <2>8. CASE req'[r] = req[r] \/ GoesOn(r)
    <3>1. /\ req'[r].op = req[r].op /\ req'[r].since = req[r].since
          /\ req'[r].key = req[r].key /\ req[r].pc # "version"
      BY <1>2, <2>4, <2>8 DEF GoesOn, Request
    <3>2. AtLeast(req[r].key, req[r].since)
      BY <1>2, <2>3, <3>1, LostStays DEF PagesSuffice
    <3>3. PICK v \in Versions : req[r].key = ListKey(v)
      BY <1>2, <2>3, <3>1 DEF PcsFit
    <3>4. \A n \in Nat : n <= db["list"] /\ AtLeast(ListKey(v), n)
                           => \A k : k = ListKey(v) => AtLeast(k, n)'
      BY PagesKeepUp DEF AtLeast
    <3> QED BY <1>2, <2>5, <2>6, <3>1, <3>2, <3>3, <3>4 DEF AtLeast
  <2> QED BY <2>2, <2>7, <2>8
<1> QED BY <1>1, <1>2

LEMMA AskingGoesOn ==
    ASSUME TypeOK, NEW r \in Slots, req[r] # Idle, Miss(r) \/ RefreshListVersion(r)
    PROVE  req'[r] # Idle
<1>1. req[r] \in Request
  BY RequestType
<1>2. CASE Miss(r)
  BY <1>1, <1>2 DEF Miss, GoTo, TypeOK, Request, Idle
<1>3. CASE RefreshListVersion(r)
  <2>1. req'[r] = [req[r] EXCEPT !.pc = "get", !.key = ListKey(listVersion')]
    BY <1>3 DEF RefreshListVersion, TypeOK
  <2> QED BY <1>1, <2>1 DEF Request, Idle
<1> QED BY <1>2, <1>3

\* A list request that has been answered has been served from its key, or from the
\* fetch it had joined.
LEMMA ServedPages ==
    ASSUME PagesInv, [Next]_vars, NEW r \in Busy, ~lost, req[r].op = "list", IsServed(r)
    PROVE  PageServed(r) >= req[r].since
<1> USE DEF PagesInv, TypeInv
<1>1. r \in Slots /\ req[r] # Idle /\ req'[r] = Idle
  BY DEF Busy, IsServed
<1>2. req[r].pc \in {"version", "get", "wait"}
  BY <1>1 DEF PcsFit
<1>3. req[r].pc \in {"get", "wait"} => AtLeast(req[r].key, req[r].since)
  BY <1>1 DEF PagesSuffice
<1>4. CASE req[r].pc = "wait"
  BY <1>3, <1>4 DEF PageServed, IsServed, AtLeast
<1>5. CASE req[r].pc # "wait"
  <2>1. ASSUME NEW q \in Slots, RequestStep(q)
        PROVE  Hit(r)
    <3>1. q = r
      BY <1>1, <2>1, RequestMoves
    <3>2. ~Miss(r) /\ ~RefreshListVersion(r)
      BY <1>1, AskingGoesOn
    <3> QED BY <1>2, <1>5, <2>1, <3>1, <3>2
            DEF RequestStep, Del, Incr, Create, Modify, WriteRefused
  <2>2. ASSUME NEW k \in Keys, FetchStep(k)
        PROVE  FALSE
    BY <1>1, <1>5, <2>2, FetchMoves
  <2>3. ASSUME NEW q \in Slots, NEW op \in Ops, Start(q, op)
        PROVE  FALSE
    BY <1>1, <2>3 DEF Start, Idle, FirstStep, TypeOK
  <2>4. Hit(r)
    BY <1>1, <2>1, <2>2, <2>3 DEF Next, vars, Expire
  <2> QED BY <1>3, <2>4 DEF Hit, PageServed, AtLeast
<1> QED BY <1>4, <1>5

LEMMA InitPages == Init => PagesInv
<1> SUFFICES ASSUME Init PROVE PagesInv
  OBVIOUS
<1>1. \A v \in Versions : ListKey(v) \in Keys
  BY ListKeys
<1>2. 0 \in Versions
  BY CacheAssumption DEF Versions
<1> QED BY <1>1, <1>2, InitType
        DEF Init, PagesInv, HistoryFits, FutureIsEmpty, PagesSuffice, AtLeast, NoFetch

LEMMA StepPages == PagesInv /\ [Next]_vars => PagesInv'
  BY StepType, HistoryStep, FutureStep, PagesStep DEF PagesInv

\* What a create has returned from is on every page that a later list request is
\* given, for any interleaving of reads, writes, coalesced fetches and expiries.
THEOREM CreatesAreListed == Spec => CreatedEventsAreListed
<1>1. PagesInv /\ [Next]_vars =>
        [\A r \in Busy : ~lost /\ req[r].op = "list" /\ IsServed(r) =>
                           PageServed(r) >= req[r].since]_vars
  BY ServedPages
<1> QED BY InitPages, StepPages, <1>1, PTL DEF Spec, CreatedEventsAreListed

-----------------------------------------------------------------------------
(* Currency.                                                               *)

Accurate(k) == Current(k) /\ (inflight[k].pc = "store" => inflight[k].content = db[k[1]])

Gone(k) == cache[k] = 0 /\ inflight[k] = NoFetch

\* What is not raced is neither held nor fetched from its invalidation to the write.
EventIsDropped == Invalidated("event") # {} => Gone(EventKey)
PageIsDropped == Invalidated("list") # {} => Gone(ListKey(counter))

Unraced ==
    ~lost => /\ "event" \in raced \/ (EventIsDropped /\ Accurate(EventKey))
             /\ "list" \in raced
                  \/ (PageIsDropped /\ (Accurate(ListKey(counter)) \/ Creating))

CurrencyInv == PagesInv /\ Unraced

LEMMA OwnSteps ==
    ASSUME TypeOK, PcsFit, [Next]_vars, NEW r \in Slots,
           req[r] # Idle, req[r].pc # "wait", req'[r] # req[r]
    PROVE  RequestStep(r)
<1>1. ASSUME NEW q \in Slots, RequestStep(q)
      PROVE  RequestStep(r)
  BY <1>1, RequestMoves
<1>2. ASSUME NEW k \in Keys, FetchStep(k)
      PROVE  FALSE
  BY <1>2, FetchMoves
<1>3. ASSUME NEW q \in Slots, NEW op \in Ops, Start(q, op)
      PROVE  FALSE
  BY <1>3 DEF Start, TypeOK
<1> QED BY <1>1, <1>2, <1>3 DEF Next, vars, Expire

\* What a key holds stays what the database holds, as long as that does not change.
LEMMA AccurateStays ==
    ASSUME TypeOK, [Next]_vars, NEW k \in Keys, db'[k[1]] = db[k[1]], Accurate(k)
    PROVE  Accurate(k)'
<1>1. EntryMoves(k) /\ FetchChanges(k)
  BY EntriesAndFetchesMove
<1>2. /\ cache[k] \in {0, db[k[1]]}
      /\ inflight[k].pc = "store" => inflight[k].content = db[k[1]]
  BY DEF Accurate, Current
<1>3. cache'[k] \in {0, db[k[1]]}
  BY <1>1, <1>2 DEF EntryMoves
<1>4. inflight'[k].pc = "store" => inflight'[k].content = db[k[1]]
  BY <1>1, <1>2 DEF FetchChanges, NoFetch
<1> QED BY <1>3, <1>4 DEF Accurate, Current

LEMMA DroppedIsAccurate ==
    ASSUME NEW k \in Keys, cache'[k] = 0, inflight'[k] = NoFetch
    PROVE  Accurate(k)'
  BY DEF Accurate, Current, NoFetch

\* Races are noted where they begin: at a miss or at the DEL.
LEMMA RacesAreNoted ==
    ASSUME TypeOK, [Next]_vars, ~lost'
    PROVE  /\ ~lost
           /\ raced \subseteq raced'
           /\ \A r \in Slots : Miss(r) \/ Del(r) => Racing' \subseteq raced'
<1>1. ~lost
  BY LostStays
<1>2. \A r \in Slots : Miss(r) \/ Del(r) => Racing' \subseteq raced'
  BY DEF Miss, Del, NoteRaces
<1>3. raced \subseteq raced'
  BY DEF Next, vars, RequestStep, FetchStep, Start, RefreshListVersion, Hit, Miss, Del,
         Incr, Create, Modify, WriteRefused, FetchRejects, FetchReads, FetchResolves,
         Expire, NoteRaces
<1> QED BY <1>1, <1>2, <1>3

LEMMA GoneStays ==
    ASSUME TypeOK, [Next]_vars, NEW k \in Keys, Gone(k),
           ~ \E r \in Slots : Miss(r) /\ req[r].key = k
    PROVE  cache'[k] = 0 /\ inflight'[k] = NoFetch
<1>1. EntryMoves(k) /\ FetchChanges(k)
  BY EntriesAndFetchesMove
<1>2. inflight[k].pc = "none"
  BY DEF Gone, NoFetch
<1> QED BY <1>1, <1>2 DEF EntryMoves, FetchChanges, Gone

\* Nobody has begun to fetch what is not noted.
LEMMA UnracedIsNotFetched ==
    ASSUME TypeOK, TypeOK', [Next]_vars, ~lost', NEW r \in Slots, Miss(r) \/ Del(r),
           NEW k \in {EventKey, ListKey(counter)}, counter' = counter,
           k[1] \notin raced', (Invalidated(k[1]) # {})'
    PROVE  inflight'[k] = NoFetch
<1>1. Racing' \subseteq raced'
  BY RacesAreNoted
<1>2. k[1] \notin Racing'
  BY <1>1
<1> QED BY <1>2 DEF Racing

LEMMA ModifyFindsNothing ==
    ASSUME CurrencyInv, ~lost, NEW r \in Slots, Modify(r)
    PROVE  /\ "event" \notin raced => cache'[EventKey] = 0 /\ inflight'[EventKey] = NoFetch
           /\ "list" \notin raced => /\ cache'[ListKey(counter)] = 0
                                     /\ inflight'[ListKey(counter)] = NoFetch
           /\ counter' = counter
<1>t. TypeOK /\ PcsFit
  BY DEF CurrencyInv, PagesInv, TypeInv
<1>1. req[r] # Idle /\ req[r].pc = "write" /\ req[r].op # "create"
  BY PcIsBusy DEF Modify
<1>2. req[r].op \in {"update", "delete"}
  BY <1>t, <1>1, RequestType DEF PcsFit, Request, Ops
<1>3. r \in Invalidated("event") /\ r \in Invalidated("list")
  BY <1>1, <1>2 DEF Invalidated, Busy
<1>4. cache' = cache /\ inflight' = inflight /\ counter' = counter
  BY DEF Modify
<1> QED BY <1>3, <1>4 DEF CurrencyInv, Unraced, EventIsDropped, PageIsDropped, Gone

LEMMA EventStep ==
    ASSUME CurrencyInv, [Next]_vars, ~lost', "event" \notin raced'
    PROVE  Accurate(EventKey)'
<1>t. TypeOK /\ PcsFit /\ ~lost /\ "event" \notin raced
  BY RacesAreNoted DEF CurrencyInv, PagesInv, TypeInv
<1>1. EventKey \in Keys /\ EventKey[1] = "event"
  BY DEF Keys, EventKey
<1>2. CASE \E r \in Slots : Modify(r)
  BY <1>t, <1>1, <1>2, ModifyFindsNothing, DroppedIsAccurate
<1>3. CASE ~ \E r \in Slots : Modify(r)
  <2>1. db'["event"] = db["event"]
    BY <1>t, <1>3, OthersKeepContents DEF Create, TypeOK
  <2> QED BY <1>t, <1>1, <2>1, AccurateStays DEF CurrencyInv, Unraced
<1> QED BY <1>2, <1>3

\* The new version has no page yet.
LEMMA IncrFindsNothing ==
    ASSUME CurrencyInv, [Next]_vars, ~lost', NEW r \in Slots, Incr(r)
    PROVE  /\ ListKey(counter') \in Keys
           /\ cache'[ListKey(counter')] = 0 /\ inflight'[ListKey(counter')] = NoFetch
<1>1. TypeInv /\ FutureIsEmpty
  BY DEF CurrencyInv, PagesInv
<1>2. counter \in Nat /\ counter' = counter + 1 /\ counter' \in Versions
  BY <1>1, LostStays, NumbersFit, HistoryTypes DEF TypeInv
<1>3. cache[ListKey(counter')] = 0 /\ inflight[ListKey(counter')] = NoFetch
  BY <1>1, <1>2 DEF FutureIsEmpty
<1> QED BY <1>2, <1>3, ListKeys DEF Incr

LEMMA PageStep ==
    ASSUME CurrencyInv, [Next]_vars, ~lost', "list" \notin raced'
    PROVE  (Accurate(ListKey(counter)) \/ Creating)'
<1>t. TypeOK /\ PcsFit /\ ~lost /\ "list" \notin raced /\ TypeInv
  BY RacesAreNoted DEF CurrencyInv, PagesInv, TypeInv
<1>1. ListKey(counter) \in Keys /\ ListKey(counter)[1] = "list"
  BY <1>t, ListKeys DEF TypeOK
<1>2. CASE \E r \in Slots : Incr(r)
  <2>1. Accurate(ListKey(counter))'
    BY <1>t, <1>2, IncrFindsNothing DEF Accurate, Current, NoFetch
  <2> QED BY <2>1
<1>3. CASE \E r \in Slots : Modify(r)
  <2>1. Accurate(ListKey(counter))'
    BY <1>t, <1>3, ModifyFindsNothing DEF Accurate, Current, NoFetch
  <2> QED BY <2>1
<1>4. CASE \E r \in Slots : Create(r)
  <2>1. PICK r \in Slots : Create(r)
    BY <1>4
  <2>2. req[r] \in Request
    BY <1>t, <2>1, PcIsBusy, RequestType DEF Create
  <2>3. req'[r] = [req[r] EXCEPT !.pc = "incr", !.since = NewContent]
    BY <1>t, <2>1 DEF Create, TypeOK
  <2>4. req'[r].op = "create" /\ req'[r].pc = "incr" /\ req'[r] # Idle
    BY <2>1, <2>2, <2>3 DEF Create, Request, Idle
  <2>5. Creating'
    BY <2>4 DEF Creating, Busy
  <2> QED BY <2>5
<1>5. CASE ~ \E r \in Slots : Incr(r) \/ Modify(r) \/ Create(r)
  <2>1. db' = db /\ counter' = counter
    BY <1>5, OthersKeepContents
  <2>2. CASE Accurate(ListKey(counter))
    <3>1. \A k \in Keys : Accurate(k) => Accurate(k)'
      BY <1>t, <2>1, AccurateStays
    <3>2. Accurate(ListKey(counter))'
      BY <1>1, <2>1, <2>2, <3>1 DEF Accurate, Current
    <3> QED BY <3>2
  <2>3. CASE Creating
    <3>1. PICK r \in Slots : req[r] # Idle /\ req[r].op = "create" /\ req[r].pc = "incr"
      BY <2>3 DEF Creating, Busy
    <3>2. ~RequestStep(r)
      BY <1>5, <3>1 DEF RequestStep, RefreshListVersion, Hit, Miss, Del, WriteRefused
    <3>3. req'[r] = req[r]
      BY <1>t, <3>1, <3>2, OwnSteps
    <3>4. Creating'
      BY <3>1, <3>3 DEF Creating, Busy
    <3> QED BY <3>4
  <2> QED BY <1>t, <2>2, <2>3 DEF CurrencyInv, Unraced
<1> QED BY <1>2, <1>3, <1>4, <1>5

\* How a modifying writer has come to the step it is at.
LEMMA ModifierSteps ==
    ASSUME CurrencyInv, [Next]_vars, ~lost', NEW r \in Slots,
           req'[r] # Idle, req'[r].op \in Writers, req'[r].op # "create",
           req'[r].pc \in {"incr", "write"}
    PROVE  \/ Del(r) /\ cache'[EventKey] = 0 /\ req'[r].pc = "incr"
           \/ Incr(r) /\ r \in Writing /\ req[r].op # "create" /\ req'[r].pc = "write"
           \/ r \in Writing /\ req'[r] = req[r]
<1>t. TypeOK /\ PcsFit /\ ~lost
  BY LostStays DEF CurrencyInv, PagesInv, TypeInv
<1>1. ~Starts(r)
  <2>1. ASSUME Starts(r)
        PROVE  FALSE
    <3>1. PICK op \in Ops : req'[r] = [op |-> op, key |-> EventKey, pc |-> FirstStep(op),
                                       since |-> IF op = "list" THEN listed ELSE 0]
      BY <2>1 DEF Starts
    <3> QED BY <3>1 DEF FirstStep
  <2> QED BY <2>1
<1>2. req'[r] = req[r] \/ GoesOn(r)
  <2>1. ASSUME GetsVersion(r) \/ Creates(r)
        PROVE  FALSE
    <3>1. req[r] \in Request
      BY <1>t, <2>1, RequestType DEF GetsVersion, Creates
    <3> QED BY <2>1, <3>1 DEF GetsVersion, Creates, Request
  <2> QED BY <1>t, <1>1, <2>1, EveryMove DEF Moves
<1>3. CASE req'[r] = req[r]
  BY <1>3 DEF Writing, Busy
<1>4. CASE GoesOn(r) /\ req'[r] # req[r]
  <2>1. req[r] # Idle /\ req[r] \in Request
    BY <1>t, <1>4, RequestType DEF GoesOn
  <2>2. req'[r].op = req[r].op /\ <<req[r].pc, req'[r].pc>> \in
          {<<"del", "incr">>, <<"del", "write">>, <<"incr", "write">>}
    BY <1>4, <2>1 DEF GoesOn, Request
  <2>3. RequestStep(r)
    BY <1>t, <1>4, <2>1, <2>2, OwnSteps
  <2>4. CASE req[r].pc = "del"
    <3>1. Del(r)
      BY <2>3, <2>4 DEF RequestStep, RefreshListVersion, Hit, Miss, Incr, Create, Modify,
         WriteRefused
    <3>2. cache' = [cache EXCEPT ![EventKey] = 0] /\ req' = [req EXCEPT ![r].pc = "incr"]
      BY <3>1 DEF Del, GoTo
    <3>3. EventKey \in Keys
      BY DEF Keys
    <3> QED BY <1>t, <2>1, <3>1, <3>2, <3>3 DEF TypeOK, Request
  <2>5. CASE req[r].pc = "incr"
    <3>1. Incr(r)
      BY <2>3, <2>5 DEF RequestStep, RefreshListVersion, Hit, Miss, Del, Create, Modify,
         WriteRefused
    <3> QED BY <2>1, <2>2, <2>5, <3>1 DEF Writing, Busy
  <2> QED BY <2>2, <2>4, <2>5
<1> QED BY <1>2, <1>3, <1>4

\* Those who have invalidated the event, and those whose page is gone too.
LEMMA InvalidatedStep ==
    ASSUME CurrencyInv, [Next]_vars, ~lost', NEW kind \in {"event", "list"},
           NEW r \in Invalidated(kind)'
    PROVE  \/ kind = "event" /\ Del(r) /\ cache'[EventKey] = 0
           \/ kind = "list" /\ Incr(r)
           \/ r \in Invalidated(kind)
<1>1. /\ r \in Slots /\ req'[r] # Idle /\ req'[r].op \in {"update", "delete"}
      /\ req'[r].pc \in IF kind = "event" THEN {"incr", "write"} ELSE {"write"}
  BY DEF Invalidated, Busy
<1>2. \/ Del(r) /\ cache'[EventKey] = 0 /\ req'[r].pc = "incr"
      \/ Incr(r) /\ r \in Writing /\ req[r].op # "create" /\ req'[r].pc = "write"
      \/ r \in Writing /\ req'[r] = req[r]
  BY <1>1, ModifierSteps DEF Writers
<1>3. CASE Del(r) /\ cache'[EventKey] = 0 /\ req'[r].pc = "incr"
  BY <1>1, <1>3
<1>4. CASE Incr(r) /\ r \in Writing /\ req[r].op # "create"
  BY <1>4 DEF Incr, Invalidated, Writing, Writers
<1>5. CASE r \in Writing /\ req'[r] = req[r]
  BY <1>1, <1>5 DEF Invalidated, Writing
<1> QED BY <1>2, <1>3, <1>4, <1>5

LEMMA EventDropsStep ==
    ASSUME CurrencyInv, TypeOK', [Next]_vars, ~lost', "event" \notin raced'
    PROVE  EventIsDropped'
<1>t. TypeOK /\ PcsFit /\ ~lost /\ "event" \notin raced /\ TypeOK'
  BY RacesAreNoted DEF CurrencyInv, PagesInv, TypeInv
<1>k. EventKey \in Keys /\ EventKey[1] = "event"
  BY DEF Keys, EventKey
<1> SUFFICES ASSUME NEW r \in Invalidated("event")'
             PROVE  cache'[EventKey] = 0 /\ inflight'[EventKey] = NoFetch
  BY DEF EventIsDropped, Gone
<1>1. ASSUME NEW q \in Slots, Miss(q) \/ Del(q)
      PROVE  inflight'[EventKey] = NoFetch
  <2>1. counter' = counter
    BY <1>1 DEF Miss, Del
  <2> QED BY <1>t, <1>k, <1>1, <2>1, UnracedIsNotFetched
<1>2. CASE Del(r) /\ cache'[EventKey] = 0
  BY <1>1, <1>2 DEF Invalidated, Busy
<1>3. CASE r \in Invalidated("event")
  <2>1. Gone(EventKey)
    BY <1>t, <1>3 DEF CurrencyInv, Unraced, EventIsDropped
  <2>2. CASE \E q \in Slots : Miss(q)
    BY <1>1, <2>1, <2>2 DEF Miss, Gone
  <2>3. CASE ~ \E q \in Slots : Miss(q)
    BY <1>t, <1>k, <2>1, <2>3, GoneStays
  <2> QED BY <2>2, <2>3
<1> QED BY <1>2, <1>3, InvalidatedStep

LEMMA PageDropsStep ==
    ASSUME CurrencyInv, TypeOK', [Next]_vars, ~lost', "list" \notin raced'
    PROVE  PageIsDropped'
<1>t. TypeOK /\ PcsFit /\ ~lost /\ "list" \notin raced /\ TypeOK'
  BY RacesAreNoted DEF CurrencyInv, PagesInv, TypeInv
<1>k. ListKey(counter) \in Keys /\ ListKey(counter)[1] = "list"
  BY <1>t, ListKeys DEF TypeOK
<1> SUFFICES ASSUME NEW r \in Invalidated("list")'
             PROVE  cache'[ListKey(counter')] = 0 /\ inflight'[ListKey(counter')] = NoFetch
  BY DEF PageIsDropped, Gone
<1>1. CASE \E q \in Slots : Incr(q)
  BY <1>1, IncrFindsNothing
<1>2. CASE ~ \E q \in Slots : Incr(q)
  <2>1. counter' = counter
    BY <1>2, OthersKeepContents
  <2>2. r \in Slots
    BY DEF Invalidated, Busy
  <2>3. r \in Invalidated("list")
    BY <1>2, <2>2, InvalidatedStep
  <2>4. Gone(ListKey(counter))
    BY <1>t, <2>3 DEF CurrencyInv, Unraced, PageIsDropped
  <2>5. CASE \E q \in Slots : Miss(q)
    <3>1. inflight'[ListKey(counter)] = NoFetch
      BY <1>t, <1>k, <2>1, <2>5, UnracedIsNotFetched
    <3> QED BY <2>1, <2>4, <2>5, <3>1 DEF Miss, Gone
  <2>6. CASE ~ \E q \in Slots : Miss(q)
    BY <1>t, <1>k, <2>1, <2>4, <2>6, GoneStays
  <2> QED BY <2>5, <2>6
<1> QED BY <1>1, <1>2

LEMMA InitCurrency == Init => CurrencyInv
<1> SUFFICES ASSUME Init PROVE CurrencyInv
  OBVIOUS
<1>1. Busy = {} /\ ListKey(counter) \in Keys /\ EventKey \in Keys
  BY InitType, ListKeys DEF Init, Busy, Keys, TypeInv, TypeOK
<1>2. Invalidated("event") = {} /\ Invalidated("list") = {}
  BY <1>1 DEF Invalidated
<1> QED BY <1>1, <1>2, InitPages
        DEF Init, CurrencyInv, Unraced, EventIsDropped, PageIsDropped, Accurate, Current,
            NoFetch

LEMMA StepCurrency == CurrencyInv /\ [Next]_vars => CurrencyInv'
<1> SUFFICES ASSUME CurrencyInv, [Next]_vars PROVE CurrencyInv'
  OBVIOUS
<1>1. PagesInv' /\ TypeOK'
  BY StepPages DEF CurrencyInv, PagesInv, TypeInv
<1>2. Unraced'
  BY <1>1, EventStep, PageStep, EventDropsStep, PageDropsStep DEF Unraced
<1> QED BY <1>1, <1>2 DEF CurrencyInv

LEMMA UnracedIsCurrent == CurrencyInv => OnlyRacesLeaveStale
  BY DEF CurrencyInv, Unraced, OnlyRacesLeaveStale, Accurate

\* As long as Redis serves, a stale entry of the event, or a stale page of the
\* current version, is owed to a fetch that has met an update or a delete between
\* its invalidation and its write, however many requests overlap in other ways.
THEOREM StaleEntriesWereRaced == Spec => []OnlyRacesLeaveStale
  BY InitCurrency, StepCurrency, UnracedIsCurrent, PTL DEF Spec
=============================================================================
