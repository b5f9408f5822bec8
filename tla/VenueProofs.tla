----------------------------- MODULE VenueProofs -----------------------------
(***************************************************************************)
(* Proofs about the venues, for any ids, names and number of requests.     *)
(***************************************************************************)
EXTENDS Venues, TLAPS

-----------------------------------------------------------------------------
(* Types.                                                                  *)

LEMMA BusyType ==
    ASSUME TypeOK, NEW r \in Slots, req[r].pc # "answered"
    PROVE  /\ req[r] \in Request
           /\ req[r].op = "create" => req[r].name \in Names
           /\ req[r].name \in Names \cup {NoName}
           /\ req[r].id \in Ids
  BY DEF TypeOK, Answered, Request

LEMMA AnswerType ==
    ASSUME TypeOK, NEW r \in Slots, NEW status \in {200, 201, 404, 409, 500},
           Answer(r, status)
    PROVE  req' \in [Slots -> Answered \cup Request]
  BY DEF TypeOK, Answer, Answered

LEMMA GoToType ==
    ASSUME TypeOK, NEW r \in Slots, req[r].pc # "answered",
           NEW pc \in {"lookup", "write"}, GoTo(r, pc),
           pc = "lookup" => req[r].name # NoName
    PROVE  req' \in [Slots -> Answered \cup Request]
<1>1. req[r] \in Request
  BY BusyType
<1>2. [req[r] EXCEPT !.pc = pc] \in Request
  BY <1>1 DEF Request
<1>3. req' = [req EXCEPT ![r] = [req[r] EXCEPT !.pc = pc]]
  BY DEF GoTo
<1> QED BY <1>2, <1>3 DEF TypeOK

LEMMA StepType ==
    ASSUME TypeOK, [Next]_vars
    PROVE  TypeOK'
<1>1. CASE UNCHANGED vars
  BY <1>1 DEF vars, TypeOK
<1>2. ASSUME NEW r \in Slots, NEW q \in Request, Begin(r, q)
      PROVE  TypeOK'
  BY <1>2 DEF Begin, TypeOK
<1>3. ASSUME NEW r \in Slots, NewRequest(r)
      PROVE  TypeOK'
  <2>1. PICK id \in Ids :
          \/ \E n \in Names : StartCreate(r, id, n)
          \/ \E n \in Names \cup {NoName} : StartUpdate(r, id, n)
          \/ StartDelete(r, id)
    BY <1>3 DEF NewRequest
  <2>2. CASE \E n \in Names : StartCreate(r, id, n)
    <3>1. PICK n \in Names : StartCreate(r, id, n)
      BY <2>2
    <3>2. [pc |-> "lookup", op |-> "create", id |-> id, name |-> n] \in Request
      BY DEF Request
    <3> QED BY <1>2, <3>1, <3>2 DEF StartCreate
  <2>3. CASE \E n \in Names \cup {NoName} : StartUpdate(r, id, n)
    <3>1. PICK n \in Names \cup {NoName} : StartUpdate(r, id, n)
      BY <2>3
    <3>2. [pc |-> "get", op |-> "update", id |-> id, name |-> n] \in Request
      BY DEF Request
    <3> QED BY <1>2, <3>1, <3>2 DEF StartUpdate
  <2>4. CASE StartDelete(r, id)
    <3>1. [pc |-> "get", op |-> "delete", id |-> id, name |-> NoName] \in Request
      BY DEF Request
    <3> QED BY <1>2, <2>4, <3>1 DEF StartDelete
  <2> QED BY <2>1, <2>2, <2>3, <2>4
<1>4. ASSUME NEW r \in Slots, GetVenue(r) \/ Lookup(r)
      PROVE  TypeOK'
  <2>1. req' \in [Slots -> Answered \cup Request]
    <3>1. req[r].pc # "answered"
      BY <1>4 DEF GetVenue, Lookup
    <3> QED BY <1>4, <3>1, AnswerType, GoToType DEF GetVenue, Lookup
  <2> QED BY <1>4, <2>1 DEF GetVenue, Lookup, TypeOK
<1>5. ASSUME NEW r \in Slots, Create(r) \/ Update(r) \/ Remove(r)
      PROVE  TypeOK'
  <2>1. req' \in [Slots -> Answered \cup Request]
    BY <1>5, AnswerType DEF Create, Update, Remove, Written, Fails
  <2>2. overtaken' \subseteq Slots
    BY <1>5 DEF Create, Update, Remove, Written, Fails, TypeOK
  <2>3. venue' \in [Ids -> Names \cup Absent]
    <3>1. /\ req[r].op = "create" => req[r].name \in Names
          /\ req[r].name \in Names \cup {NoName}
          /\ req[r].id \in Ids
      BY <1>5, BusyType DEF Create, Update, Remove
    <3>2. \/ venue' = venue
          \/ \E v \in Names \cup Absent : venue' = [venue EXCEPT ![req[r].id] = v]
      BY <1>5, <3>1 DEF Create, Update, Remove, Fails, Absent
    <3> QED BY <3>1, <3>2 DEF TypeOK
  <2> QED BY <2>1, <2>2, <2>3 DEF TypeOK
<1> QED BY <1>1, <1>3, <1>4, <1>5 DEF Next

LEMMA InitType == Init => TypeOK
  BY DEF Init, TypeOK, Absent, Answered

\* Rows, requests and answers have the values the code gives them.
THEOREM TypeCorrect == Spec => []TypeOK
<1>1. TypeOK /\ [Next]_vars => TypeOK'
  BY StepType
<1> QED BY InitType, <1>1, PTL DEF Spec

-----------------------------------------------------------------------------
(* What a step writes.                                                     *)

LEMMA WriteEffect ==
    ASSUME NEW r \in Slots, Create(r) \/ Update(r) \/ Remove(r)
    PROVE  /\ req[r].pc # "answered"
           /\ \E status \in {200, 201, 404, 409, 500} : Answer(r, status)
           /\ overtaken' = overtaken \/ overtaken' = overtaken \cup (Slots \ {r})
           /\ venue' # venue => overtaken' = overtaken \cup (Slots \ {r})
           /\ \/ venue' = venue
              \/ /\ req[r].op \in {"create", "update"}
                 /\ req[r].op = "update" => req[r].id \in Stored
                 /\ req[r].name # NoName \/ req[r].op = "create"
                 /\ getByName(req[r].name)
                      \subseteq IF req[r].op = "update" THEN {req[r].id} ELSE {}
                 /\ venue' = [venue EXCEPT ![req[r].id] = req[r].name]
              \/ /\ req[r].op = "delete"
                 /\ req[r].id \in Stored
                 /\ venue' = [venue EXCEPT ![req[r].id] = "deleted"]
  BY DEF Create, Update, Remove, Written, Fails, Unique

LEMMA OthersKeepTheTable ==
    ASSUME NEW r \in Slots, NewRequest(r) \/ GetVenue(r) \/ Lookup(r)
    PROVE  venue' = venue
  BY DEF NewRequest, StartCreate, StartUpdate, StartDelete, Begin, GetVenue, Lookup

-----------------------------------------------------------------------------
(* Names.                                                                  *)

LEMMA StepUnique ==
    ASSUME TypeOK, NamesAreUnique, [Next]_vars
    PROVE  NamesAreUnique'
<1>1. CASE venue' = venue
  BY <1>1 DEF NamesAreUnique, Stored
<1>2. CASE venue' # venue
  <2>1. PICK r \in Slots : Create(r) \/ Update(r) \/ Remove(r)
    BY <1>2, OthersKeepTheTable DEF Next, vars
  <2>2. /\ req[r].id \in Ids
        /\ req[r].op = "create" => req[r].name \in Names
        /\ req[r].name \in Names \cup {NoName}
    BY <2>1, WriteEffect, BusyType
  <2>3. CASE req[r].op = "delete"
    <3>1. venue' = [venue EXCEPT ![req[r].id] = "deleted"]
      BY <1>2, <2>1, <2>3, WriteEffect
    <3> QED BY <2>2, <3>1 DEF NamesAreUnique, Stored, TypeOK, Absent
  <2>4. CASE req[r].op # "delete"
    <3>1. /\ venue' = [venue EXCEPT ![req[r].id] = req[r].name]
          /\ getByName(req[r].name) \subseteq {req[r].id}
      BY <1>2, <2>1, <2>4, WriteEffect
    <3> QED BY <2>2, <3>1 DEF NamesAreUnique, Stored, getByName, TypeOK
  <2> QED BY <2>3, <2>4
<1> QED BY <1>1, <1>2

\* createVenue and updateVenue never leave two venues with one name, however their
\* lookups and writes interleave.
THEOREM UniqueNames == Spec => []NamesAreUnique
<1>1. Init => NamesAreUnique
  BY DEF Init, NamesAreUnique, Stored, Absent
<1>2. TypeOK /\ NamesAreUnique /\ [Next]_vars => NamesAreUnique'
  BY StepUnique
<1> QED BY TypeCorrect, <1>1, <1>2, PTL DEF Spec

-----------------------------------------------------------------------------
(* Deletion: the id of a POST under way is that of no row, past or present, *)
(* and of no other POST.                                                   *)

Creating(r) == req[r].pc # "answered" /\ req[r].op = "create"

IdsAreNew ==
    \A r \in Slots : Creating(r) =>
        /\ venue[req[r].id] = "unused"
        /\ \A s \in Slots \ {r} : Creating(s) => req[s].id # req[r].id

LEMMA CreatingStays ==
    ASSUME TypeOK, [Next]_vars, NEW r \in Slots, Creating(r)'
    PROVE  \/ Creating(r) /\ req'[r].id = req[r].id
           \/ /\ UNCHANGED venue
              /\ \E id \in Ids, n \in Names : StartCreate(r, id, n) /\ req'[r].id = id
<1>1. CASE UNCHANGED req
  BY <1>1 DEF Creating
<1>2. ASSUME NEW s \in Slots, GetVenue(s) \/ Lookup(s) \/ Create(s) \/ Update(s) \/ Remove(s)
      PROVE  Creating(r) /\ req'[r].id = req[r].id
  <2>1. \/ \E status \in {200, 201, 404, 409, 500} : Answer(s, status)
        \/ req[s].pc # "answered" /\ \E pc \in {"lookup", "write"} : GoTo(s, pc)
    BY <1>2, WriteEffect DEF GetVenue, Lookup
  <2>2. CASE \E status \in {200, 201, 404, 409, 500} : Answer(s, status)
    BY <2>2 DEF Answer, Creating, TypeOK
  <2>3. CASE req[s].pc # "answered" /\ \E pc \in {"lookup", "write"} : GoTo(s, pc)
    <3>1. PICK pc \in {"lookup", "write"} : GoTo(s, pc)
      BY <2>3
    <3>2. req' = [req EXCEPT ![s] = [req[s] EXCEPT !.pc = pc]]
      BY <3>1 DEF GoTo
    <3>3. req[s] \in Request
      BY <2>3, BusyType
    <3>4. [req[s] EXCEPT !.pc = pc].op = req[s].op /\ [req[s] EXCEPT !.pc = pc].id = req[s].id
      BY <3>3 DEF Request
    <3> QED BY <2>3, <3>2, <3>4 DEF Creating, TypeOK
  <2> QED BY <2>1, <2>2, <2>3
<1>3. ASSUME NEW s \in Slots, NewRequest(s)
      PROVE  \/ Creating(r) /\ req'[r].id = req[r].id
             \/ /\ UNCHANGED venue
                /\ \E id \in Ids, n \in Names : StartCreate(r, id, n) /\ req'[r].id = id
  <2>1. PICK id \in Ids :
          \/ \E n \in Names : StartCreate(s, id, n)
          \/ \E n \in Names \cup {NoName} : StartUpdate(s, id, n)
          \/ StartDelete(s, id)
    BY <1>3 DEF NewRequest
  <2>2. CASE \E n \in Names : StartCreate(s, id, n)
    <3>1. PICK n \in Names : StartCreate(s, id, n)
      BY <2>2
    <3>2. /\ req' = [req EXCEPT ![s] = [pc |-> "lookup", op |-> "create",
                                       id |-> id, name |-> n]]
          /\ UNCHANGED venue
      BY <3>1 DEF StartCreate, Begin
    <3> QED BY <3>1, <3>2 DEF Creating, TypeOK
  <2>3. CASE \/ \E n \in Names \cup {NoName} : StartUpdate(s, id, n)
             \/ StartDelete(s, id)
    <3>1. PICK q : q.op # "create" /\ req' = [req EXCEPT ![s] = q]
      BY <2>3 DEF StartUpdate, StartDelete, Begin
    <3> QED BY <3>1 DEF Creating, TypeOK
  <2> QED BY <2>1, <2>2, <2>3
<1> QED BY <1>1, <1>2, <1>3 DEF Next, vars

LEMMA StepIdsAreNew ==
    ASSUME TypeOK, IdsAreNew, [Next]_vars
    PROVE  IdsAreNew'
<1>1. ASSUME NEW r \in Slots, Creating(r)'
      PROVE  venue'[req'[r].id] = "unused"
  <2>1. CASE \E id \in Ids, n \in Names : StartCreate(r, id, n) /\ req'[r].id = id /\ UNCHANGED venue
    BY <2>1 DEF StartCreate
  <2>2. CASE Creating(r) /\ req'[r].id = req[r].id
    <3>1. venue[req[r].id] = "unused"
      BY <2>2 DEF IdsAreNew
    <3>2. CASE venue' = venue
      BY <2>2, <3>1, <3>2
    <3>3. CASE venue' # venue
      <4>1. PICK s \in Slots : Create(s) \/ Update(s) \/ Remove(s)
        BY <3>3, OthersKeepTheTable DEF Next, vars
      <4>2. s # r
        BY <1>1, <4>1, WriteEffect DEF Answer, Creating, TypeOK
      <4>3. req[s].id # req[r].id
        <5>1. CASE req[s].op = "create"
          BY <2>2, <4>1, <4>2, <5>1, WriteEffect DEF IdsAreNew, Creating
        <5>2. CASE req[s].op # "create"
          <6>1. req[s].id \in Stored
            BY <3>3, <4>1, <5>2, WriteEffect
          <6> QED BY <3>1, <6>1 DEF Stored, Absent
        <5> QED BY <5>1, <5>2
      <4>4. \E v : venue' = [venue EXCEPT ![req[s].id] = v]
        BY <3>3, <4>1, WriteEffect
      <4>5. req[r].id \in Ids
        BY <2>2, BusyType DEF Creating
      <4> QED BY <2>2, <3>1, <4>3, <4>4, <4>5 DEF TypeOK
    <3> QED BY <3>2, <3>3
  <2> QED BY <1>1, <2>1, <2>2, CreatingStays
<1>2. ASSUME NEW r \in Slots, NEW s \in Slots \ {r}, Creating(r)', Creating(s)'
      PROVE  req'[s].id # req'[r].id
  <2>1. CASE /\ Creating(r) /\ req'[r].id = req[r].id
             /\ Creating(s) /\ req'[s].id = req[s].id
    BY <2>1 DEF IdsAreNew
  <2>2. ASSUME NEW a \in Slots, NEW b \in Slots, a # b,
               NEW id \in Ids, NEW n \in Names, StartCreate(a, id, n), req'[a].id = id,
               Creating(b)'
        PROVE  req'[b].id # id
    <3>1. req' = [req EXCEPT ![a] = [pc |-> "lookup", op |-> "create",
                                     id |-> id, name |-> n]]
      BY <2>2 DEF StartCreate, Begin
    <3>2. req'[b] = req[b]
      BY <2>2, <3>1 DEF TypeOK
    <3> QED BY <2>2, <3>2 DEF StartCreate, Creating
  <2> QED BY <1>2, <2>1, <2>2, CreatingStays
<1> QED BY <1>1, <1>2 DEF IdsAreNew

LEMMA StepDeletes ==
    ASSUME TypeOK, IdsAreNew, [Next]_vars, NEW id \in Ids, venue[id] = "deleted"
    PROVE  venue'[id] = "deleted"
<1>1. CASE venue' = venue
  BY <1>1
<1>2. CASE venue' # venue
  <2>1. PICK r \in Slots : Create(r) \/ Update(r) \/ Remove(r)
    BY <1>2, OthersKeepTheTable DEF Next, vars
  <2>2. req[r].id # id
    <3>1. CASE req[r].op = "create"
      BY <2>1, <3>1, WriteEffect DEF IdsAreNew, Creating
    <3>2. CASE req[r].op # "create"
      BY <1>2, <2>1, <3>2, WriteEffect DEF Stored, Absent
    <3> QED BY <3>1, <3>2
  <2>3. \E v : venue' = [venue EXCEPT ![req[r].id] = v]
    BY <1>2, <2>1, WriteEffect
  <2> QED BY <2>2, <2>3 DEF TypeOK
<1> QED BY <1>1, <1>2

\* No PATCH or POST brings a deleted venue back, whatever it has read before.
THEOREM DeletionIsFinal == Spec => DeletedStaysDeleted
<1>1. Init => IdsAreNew
  BY DEF Init, IdsAreNew, Creating
<1>2. TypeOK /\ IdsAreNew /\ [Next]_vars => IdsAreNew'
  BY StepIdsAreNew
<1>3. TypeOK /\ IdsAreNew /\ [Next]_vars =>
        [\A id \in Ids : venue[id] = "deleted" => venue'[id] = "deleted"]_vars
  BY StepDeletes
<1> QED BY TypeCorrect, <1>1, <1>2, <1>3, PTL DEF Spec, DeletedStaysDeleted

-----------------------------------------------------------------------------
(* Answers: what a request has read still holds until another one writes.  *)

WhatItRead(r) ==
    LET q == req[r] IN
    /\ q.pc = "lookup" => q.name # NoName
    /\ q.op # "create" /\ q.pc # "get" => q.id \in Stored
    /\ q.pc = "write" /\ q.name # NoName /\ IsLower(q.name)
         => getByName(q.name) \subseteq IF q.op = "update" THEN {q.id} ELSE {}

ReadsHold ==
    \A r \in Slots \ overtaken : req[r].pc # "answered" => WhatItRead(r)

LEMMA StepReadsHold ==
    ASSUME TypeOK, ReadsHold, [Next]_vars
    PROVE  ReadsHold'
<1> SUFFICES ASSUME NEW r \in Slots, r \notin overtaken', req'[r].pc # "answered"
             PROVE  WhatItRead(r)'
  BY DEF ReadsHold
<1>1. venue' = venue
  <2> SUFFICES ASSUME venue' # venue
               PROVE  FALSE
    OBVIOUS
  <2>1. PICK s \in Slots : Create(s) \/ Update(s) \/ Remove(s)
    BY OthersKeepTheTable DEF Next, vars
  <2>2. overtaken' = overtaken \cup (Slots \ {s})
    BY <2>1, WriteEffect
  <2>3. s = r
    BY <2>2
  <2> QED BY <2>1, <2>3, WriteEffect DEF Answer, TypeOK
<1>2. CASE req'[r] = req[r] /\ r \notin overtaken
  BY <1>1, <1>2 DEF ReadsHold, WhatItRead, Stored, getByName
<1>3. CASE NewRequest(r)
  <2>1. /\ req'[r].pc \in {"lookup", "get"}
        /\ req'[r].pc = "lookup" => req'[r].op = "create" /\ req'[r].name \in Names
    BY <1>3 DEF NewRequest, StartCreate, StartUpdate, StartDelete, Begin, TypeOK
  <2> QED BY <2>1, VenueAssumption DEF WhatItRead
<1>4. CASE GetVenue(r)
  <2>1. /\ req[r].id \in Stored
        /\ req' = [req EXCEPT ![r] = [req[r] EXCEPT !.pc =
                     IF req[r].name = NoName THEN "write" ELSE "lookup"]]
    BY <1>4 DEF GetVenue, GoTo, Answer, TypeOK
  <2>2. req[r] \in Request
    BY <1>4, BusyType DEF GetVenue
  <2>3. /\ req'[r].id = req[r].id
        /\ req'[r].pc = "write" => req'[r].name = NoName
        /\ req'[r].pc = "lookup" => req'[r].name # NoName
    BY <2>1, <2>2 DEF Request, TypeOK
  <2> QED BY <1>1, <2>1, <2>3 DEF WhatItRead, Stored
<1>5. CASE Lookup(r)
  <2>1. /\ DuplicatesOf(r) = {}
        /\ req' = [req EXCEPT ![r] = [req[r] EXCEPT !.pc = "write"]]
    BY <1>5 DEF Lookup, GoTo, Answer, TypeOK
  <2>2. req[r] \in Request
    BY <1>5, BusyType DEF Lookup
  <2>3. /\ req'[r].pc = "write"
        /\ req'[r].id = req[r].id
        /\ req'[r].op = req[r].op
        /\ req'[r].name = req[r].name
    BY <2>1, <2>2 DEF Request, TypeOK
  <2>4. req[r].op # "create" => req[r].id \in Stored
    BY <1>5 DEF ReadsHold, WhatItRead, Lookup
  <2>5. getByName(Lower[req[r].name])
          \subseteq IF req[r].op = "update" THEN {req[r].id} ELSE {}
    BY <2>1 DEF DuplicatesOf
  <2> QED BY <1>1, <2>3, <2>4, <2>5 DEF WhatItRead, Stored, getByName, IsLower
<1>6. ASSUME NEW s \in Slots, s # r,
             NewRequest(s) \/ GetVenue(s) \/ Lookup(s)
      PROVE  req'[r] = req[r] /\ r \notin overtaken
  BY <1>6 DEF NewRequest, StartCreate, StartUpdate, StartDelete, Begin, GetVenue, Lookup,
     GoTo, Answer, TypeOK
<1>7. ASSUME NEW s \in Slots, Create(s) \/ Update(s) \/ Remove(s)
      PROVE  req'[r] = req[r] /\ r \notin overtaken
  BY <1>7, WriteEffect DEF Answer, TypeOK
<1>8. CASE UNCHANGED vars
  BY <1>2, <1>8 DEF vars
<1> QED BY <1>2, <1>3, <1>4, <1>5, <1>6, <1>7, <1>8 DEF Next

LEMMA NobodyHasNoName ==
    ASSUME TypeOK
    PROVE  getByName(NoName) = {}
  BY VenueAssumption DEF TypeOK, getByName, Stored

LEMMA WhatIsDeserved ==
    ASSUME NEW q
    PROVE  /\ q.op = "create" =>
                Deserved(q) = IF getByName(q.name) = {} THEN 201 ELSE 409
           /\ q.op # "create" /\ q.id \notin Stored => Deserved(q) = 404
           /\ q.op = "update" /\ q.id \in Stored =>
                Deserved(q) = IF getByName(q.name) \subseteq {q.id} THEN 200 ELSE 409
           /\ q.op = "delete" /\ q.id \in Stored => Deserved(q) = 200
  BY DEF Deserved

LEMMA StepAnswers ==
    ASSUME TypeOK, ReadsHold, [Next]_vars, NEW r \in Slots \ overtaken,
           req[r].pc # "answered", req'[r].pc = "answered", IsLower(req[r].name)
    PROVE  req'[r].status = Deserved(req[r])
<1>1. WhatItRead(r)
  BY DEF ReadsHold
<1>2. req[r] \in Request
  BY BusyType
<1>3. CASE GetVenue(r)
  <2>1. req[r].op # "create" /\ req[r].pc = "get"
    BY <1>2, <1>3 DEF Request, GetVenue
  <2>2. CASE req[r].id \in Stored
    <3>1. PICK pc \in {"lookup", "write"} : req'[r] = [req[r] EXCEPT !.pc = pc]
      BY <1>3, <2>2 DEF GetVenue, GoTo, TypeOK
    <3>2. [req[r] EXCEPT !.pc = pc].pc = pc
      BY <1>2 DEF Request
    <3> QED BY <3>1, <3>2
  <2>3. CASE req[r].id \notin Stored
    <3>1. req'[r].status = 404
      BY <1>3, <2>3 DEF GetVenue, Answer, TypeOK
    <3> QED BY <2>1, <2>3, <3>1, WhatIsDeserved
  <2> QED BY <2>2, <2>3
<1>4. CASE Lookup(r)
  <2>1. /\ req[r].pc = "lookup"
        /\ req[r].op \in {"create", "update"}
        /\ req[r].name # NoName
    BY <1>1, <1>2, <1>4 DEF Request, Lookup, WhatItRead
  <2>2. DuplicatesOf(r) # {}
    <3> SUFFICES ASSUME DuplicatesOf(r) = {}
                 PROVE  FALSE
      OBVIOUS
    <3>1. GoTo(r, "write")
      BY <1>4 DEF Lookup
    <3> QED BY <3>1 DEF GoTo, TypeOK
  <2>3. req'[r].status = 409
    BY <1>4, <2>2 DEF Lookup, Answer, TypeOK
  <2>4. getByName(req[r].name)
          \ (IF req[r].op = "update" THEN {req[r].id} ELSE {}) # {}
    BY <2>1, <2>2 DEF DuplicatesOf, IsLower
  <2>5. CASE req[r].op = "create"
    BY <2>3, <2>4, <2>5, WhatIsDeserved
  <2>6. CASE req[r].op = "update"
    <3>1. req[r].id \in Stored
      BY <1>1, <2>1, <2>6 DEF WhatItRead
    <3>2. ~(getByName(req[r].name) \subseteq {req[r].id})
      BY <2>4, <2>6
    <3> QED BY <2>3, <2>6, <3>1, <3>2, WhatIsDeserved
  <2> QED BY <2>1, <2>5, <2>6
<1>5. CASE Create(r)
  <2>1. req[r].pc = "write" /\ req[r].op = "create" /\ req[r].name \in Names
    BY <1>2, <1>5 DEF Create, Request
  <2>2. getByName(req[r].name) = {}
    BY <1>1, <2>1, VenueAssumption DEF WhatItRead
  <2>3. req'[r].status = 201
    BY <1>5, <2>2 DEF Create, Unique, Written, Answer, TypeOK
  <2> QED BY <2>1, <2>2, <2>3, WhatIsDeserved
<1>6. CASE Update(r)
  <2>1. req[r].pc = "write" /\ req[r].op = "update" /\ req[r].id \in Stored
    BY <1>1, <1>6 DEF Update, WhatItRead
  <2>2. getByName(req[r].name) \subseteq {req[r].id}
    BY <1>1, <2>1, NobodyHasNoName DEF WhatItRead
  <2>3. req'[r].status = 200
    BY <1>6, <2>1, <2>2 DEF Update, Unique, Written, Answer, TypeOK
  <2> QED BY <2>1, <2>2, <2>3, WhatIsDeserved
<1>7. CASE Remove(r)
  <2>1. req[r].pc = "write" /\ req[r].op = "delete" /\ req[r].id \in Stored
    BY <1>1, <1>7 DEF Remove, WhatItRead
  <2>2. req'[r].status = 200
    BY <1>7, <2>1 DEF Remove, Written, Answer, TypeOK
  <2> QED BY <2>1, <2>2, WhatIsDeserved
<1>8. ASSUME NEW s \in Slots, s # r,
             \/ NewRequest(s) \/ GetVenue(s) \/ Lookup(s)
             \/ Create(s) \/ Update(s) \/ Remove(s)
      PROVE  FALSE
  <2>1. req'[r] = req[r]
    BY <1>8, WriteEffect DEF NewRequest, StartCreate, StartUpdate, StartDelete, Begin,
       GetVenue, Lookup, GoTo, Answer, TypeOK
  <2> QED BY <2>1
<1>9. CASE NewRequest(r)
  BY <1>9 DEF NewRequest, StartCreate, StartUpdate, StartDelete, Begin
<1>10. CASE UNCHANGED vars
  BY <1>10 DEF vars
<1> QED BY <1>3, <1>4, <1>5, <1>6, <1>7, <1>8, <1>9, <1>10 DEF Next

\* A request that no other write overtakes is answered as if it had been alone.
THEOREM LoneRequestsAreRight == Spec => LoneRequestsGetTheirAnswer
<1>1. Init => ReadsHold
  BY DEF Init, ReadsHold
<1>2. TypeOK /\ ReadsHold /\ [Next]_vars => ReadsHold'
  BY StepReadsHold
<1>3. TypeOK /\ ReadsHold /\ [Next]_vars =>
        [\A r \in Slots \ overtaken :
           req[r].pc # "answered" /\ req'[r].pc = "answered" /\ IsLower(req[r].name)
             => req'[r].status = Deserved(req[r])]_vars
  BY StepAnswers
<1> QED BY TypeCorrect, <1>1, <1>2, <1>3, PTL DEF Spec, LoneRequestsGetTheirAnswer
=============================================================================
