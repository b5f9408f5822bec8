-------------------------------- MODULE Venues --------------------------------
(***************************************************************************)
(* venues/service.ts and venues/repository.ts: POST, PATCH and DELETE of   *)
(* venues, each of them reads and then a write, all without a transaction, *)
(* in requests that interleave.  A venue is its name; GET changes nothing. *)
(***************************************************************************)
EXTENDS Naturals, FiniteSets

CONSTANTS
    Ids,    \* bound: ids of venues, in use or not
    Names,  \* names as they are stored, trimmed
    Lower,  \* Lower[n]: n.toLowerCase()
    Slots   \* requests the API process can serve at one time

NoName == "no name"
Absent == {"unused", "deleted"}

ASSUME VenueAssumption ==
    /\ IsFiniteSet(Ids)
    /\ IsFiniteSet(Slots)
    /\ Lower \in [Names -> Names]
    /\ \A n \in Names : Lower[Lower[n]] = Lower[n]
    /\ Names \cap (Absent \cup {NoName}) = {}

VARIABLES
    venue,     \* the name of each row
    req,       \* what each request is doing
    overtaken  \* history: requests during which another one has written

vars == <<venue, req, overtaken>>

Answered == [pc: {"answered"}, status: {0, 200, 201, 404, 409, 500}]

\* id: in a POST that of the new row; name: NoName in a PATCH that has none.
Request ==
    [pc: {"lookup", "write"}, op: {"create"}, id: Ids, name: Names]
        \cup [pc: {"get", "lookup", "write"}, op: {"update"}, id: Ids,
              name: Names \cup {NoName}]
        \cup [pc: {"get", "write"}, op: {"delete"}, id: Ids, name: {NoName}]

TypeOK ==
    /\ venue \in [Ids -> Names \cup Absent]
    /\ req \in [Slots -> Answered \cup Request]
    /\ overtaken \subseteq Slots

Init ==
    /\ venue = [id \in Ids |-> "unused"]
    /\ req = [r \in Slots |-> [pc |-> "answered", status |-> 0]]
    /\ overtaken = {}

Stored == {id \in Ids : venue[id] \notin Absent}
getByName(n) == {id \in Stored : venue[id] = n}

GoTo(r, pc) == req' = [req EXCEPT ![r].pc = pc]
Answer(r, status) ==
    req' = [req EXCEPT ![r] = [pc |-> "answered", status |-> status]]

Begin(r, q) ==
    /\ req[r].pc = "answered"
    /\ req' = [req EXCEPT ![r] = q]
    /\ overtaken' = overtaken \ {r}
    /\ UNCHANGED venue

-----------------------------------------------------------------------------
\* The id the row is going to have is nobody else's.
StartCreate(r, id, n) ==
    /\ venue[id] = "unused"
    /\ \A s \in Slots :
         ~(req[s].pc # "answered" /\ req[s].op = "create" /\ req[s].id = id)
    /\ Begin(r, [pc |-> "lookup", op |-> "create", id |-> id, name |-> n])

StartUpdate(r, id, n) ==
    Begin(r, [pc |-> "get", op |-> "update", id |-> id, name |-> n])

StartDelete(r, id) ==
    Begin(r, [pc |-> "get", op |-> "delete", id |-> id, name |-> NoName])

\* getVenueById.
GetVenue(r) ==
    /\ req[r].pc = "get"
    /\ IF req[r].id \in Stored
       THEN GoTo(r, IF req[r].name = NoName THEN "write" ELSE "lookup")
       ELSE Answer(r, 404)
    /\ UNCHANGED <<venue, overtaken>>

\* Those in the way of the new name.
DuplicatesOf(r) ==
    getByName(Lower[req[r].name])
        \ (IF req[r].op = "update" THEN {req[r].id} ELSE {})

\* Variant: a venue is in the way of its own name.
LookupOwn(r) ==
    /\ req[r].pc = "lookup"
    /\ IF getByName(Lower[req[r].name]) = {} THEN GoTo(r, "write") ELSE Answer(r, 409)
    /\ UNCHANGED <<venue, overtaken>>

\* The duplicate is looked for in lower case.
Lookup(r) ==
    /\ req[r].pc = "lookup"
    /\ IF DuplicatesOf(r) = {} THEN GoTo(r, "write") ELSE Answer(r, 409)
    /\ UNCHANGED <<venue, overtaken>>

-----------------------------------------------------------------------------
(* The writes.  An error of PostgreSQL, no such row or the unique index on *)
(* the name as it is, is not an HttpError: the answer is 500.              *)

\* Variant: name without @unique.
NoIndex(n, ids) == TRUE

\* The unique index lets the rows ids have name n.
Unique(n, ids) == getByName(n) \subseteq ids

Written(r, status) ==
    /\ Answer(r, status)
    /\ overtaken' = overtaken \cup (Slots \ {r})

Fails(r) == Answer(r, 500) /\ UNCHANGED <<venue, overtaken>>

Create(r) ==
    /\ req[r].pc = "write"
    /\ req[r].op = "create"
    /\ IF Unique(req[r].name, {})
       THEN venue' = [venue EXCEPT ![req[r].id] = req[r].name] /\ Written(r, 201)
       ELSE Fails(r)

\* Variants: a PATCH that inserts what is not there, and one that writes the name
\* when there is none.
UpdateUpserting(r) ==
    LET id == req[r].id  n == req[r].name IN
    /\ req[r].pc = "write"
    /\ req[r].op = "update"
    /\ IF n = NoName \/ Unique(n, {id})
       THEN /\ venue' = IF n = NoName THEN venue ELSE [venue EXCEPT ![id] = n]
            /\ Written(r, 200)
       ELSE Fails(r)
UpdateUndefined(r) ==
    LET id == req[r].id  n == req[r].name IN
    /\ req[r].pc = "write"
    /\ req[r].op = "update"
    /\ IF id \in Stored /\ Unique(n, {id})
       THEN venue' = [venue EXCEPT ![id] = n] /\ Written(r, 200)
       ELSE Fails(r)

Update(r) ==
    LET id == req[r].id  n == req[r].name IN
    /\ req[r].pc = "write"
    /\ req[r].op = "update"
    /\ IF id \in Stored /\ (n = NoName \/ Unique(n, {id}))
       THEN /\ venue' = IF n = NoName THEN venue ELSE [venue EXCEPT ![id] = n]
            /\ Written(r, 200)
       ELSE Fails(r)

Remove(r) ==
    /\ req[r].pc = "write"
    /\ req[r].op = "delete"
    /\ IF req[r].id \in Stored
       THEN /\ venue' = [venue EXCEPT ![req[r].id] = "deleted"]
            /\ Written(r, 200)
       ELSE Fails(r)

-----------------------------------------------------------------------------
NewRequest(r) ==
    \E id \in Ids :
        \/ \E n \in Names : StartCreate(r, id, n)
        \/ \E n \in Names \cup {NoName} : StartUpdate(r, id, n)
        \/ StartDelete(r, id)

Next ==
    \E r \in Slots :
        NewRequest(r) \/ GetVenue(r) \/ Lookup(r) \/ Create(r) \/ Update(r) \/ Remove(r)

Spec == Init /\ [][Next]_vars

-----------------------------------------------------------------------------
(* Properties.                                                             *)

\* No two venues have one name, although the lookup and the write are two
\* statements between which others write.
NamesAreUnique ==
    \A i, j \in Stored : venue[i] = venue[j] => i = j

\* A venue that has been deleted stays deleted, also under a PATCH that has seen it
\* before.
DeletedStaysDeleted ==
    [][\A id \in Ids : venue[id] = "deleted" => venue'[id] = "deleted"]_vars

\* What a request deserves when it is carried out at once.
Deserved(q) ==
    CASE q.op = "create" -> IF getByName(q.name) = {} THEN 201 ELSE 409
      [] q.op # "create" /\ q.id \notin Stored -> 404
      [] q.op = "update" /\ q.id \in Stored ->
           IF getByName(q.name) \subseteq {q.id} THEN 200 ELSE 409
      [] OTHER -> 200

IsLower(n) == n = NoName \/ Lower[n] = n

\* A request with a name in lower case that nobody else's write has overtaken is
\* answered as if it had been carried out at once: in particular never 500, and a
\* venue may keep its own name.  (With capitals, or overtaken, a name that is taken
\* is a 500.)
LoneRequestsGetTheirAnswer ==
    [][\A r \in Slots \ overtaken :
         req[r].pc # "answered" /\ req'[r].pc = "answered" /\ IsLower(req[r].name)
            => req'[r].status = Deserved(req[r])]_vars
=============================================================================
