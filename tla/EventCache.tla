----------------------------- MODULE EventCache -----------------------------
(***************************************************************************)
(* events/events.service.ts: the cache-aside reads of one event and of one *)
(* list query, the invalidation by its writers, and the coalescing of      *)
(* concurrent misses, in one API process with one Redis connection.        *)
(*                                                                         *)
(* A content is a number: every write gives what it changes a new one.     *)
(* Whether a caller or its data are refused (403, foreign keys) does not   *)
(* depend on the contents and is a choice.                                 *)
(***************************************************************************)
EXTENDS Naturals, FiniteSets

CONSTANTS
    Slots,      \* requests the API process can serve at one time
    MaxWrites,  \* bound: writes
    Env         \* "flap": a Redis command may not be served; "dbFails": a query
                \* may fail

ASSUME CacheAssumption ==
    /\ IsFiniteSet(Slots)
    /\ MaxWrites \in Nat
    /\ Env \subseteq {"flap", "dbFails"}

VARIABLES
    db,           \* what PostgreSQL would answer, for the event and the list
    cache,        \* the entries in Redis, 0 for none
    counter,      \* events:list:v in Redis
    listVersion,  \* the process's copy of the counter
    inflight,     \* the fetch under way for each key
    listed,       \* history: the list after the last create that has returned
    raced,        \* history: what has been fetched while an update or a delete was
                  \* between invalidating it and writing
    lost,         \* history: Redis has not served a command on which the currency
                  \* of the cache depends
    req           \* what each request is doing

vars == <<db, cache, counter, listVersion, inflight, listed, raced, lost, req>>

\* event:{id}, and events:list:{v}:{q} for each list version v.
EventKey == <<"event", 0>>
ListKey(v) == <<"list", v>>
Versions == 0..MaxWrites
Keys == {EventKey} \cup {ListKey(v) : v \in Versions}

\* 0: the event has been deleted.
Contents == 0..(MaxWrites + 1)

NoFetch == [pc |-> "none"]
Fetch == [pc: {"read"}] \cup [pc: {"store"}, content: Contents]

Idle == [pc |-> "idle"]
Ops == {"get", "list", "update", "delete", "create"}
Writers == {"update", "delete", "create"}

\* since: history; of a list request, listed when it started, of a create, the
\* list it has led to.
Request == [op: Ops, key: Keys, since: Contents,
            pc: {"version", "get", "wait", "del", "incr", "write"}]

TypeOK ==
    /\ db \in [{"event", "list"} -> Contents]
    /\ cache \in [Keys -> Contents]
    /\ counter \in Versions
    /\ listVersion \in Versions
    /\ inflight \in [Keys -> {NoFetch} \cup Fetch]
    /\ listed \in Contents
    /\ raced \subseteq {"event", "list"}
    /\ lost \in BOOLEAN
    /\ req \in [Slots -> {Idle} \cup Request]

Init ==
    /\ db = [k \in {"event", "list"} |-> 1]
    /\ cache = [k \in Keys |-> 0]
    /\ counter = 0
    /\ listVersion = 0
    /\ inflight = [k \in Keys |-> NoFetch]
    /\ listed = 1
    /\ raced = {}
    /\ lost = FALSE
    /\ req = [r \in Slots |-> Idle]

\* isCacheReady() and a command that does not throw.
Served == IF "flap" \in Env THEN BOOLEAN ELSE {TRUE}

Busy == {r \in Slots : req[r] # Idle}
Writing == {r \in Busy : req[r].op \in Writers}

\* The update and delete requests that have invalidated what kind says and not
\* written yet, and what is fetched next to one.
Invalidated(kind) ==
    {r \in Busy : /\ req[r].op \in {"update", "delete"}
                  /\ req[r].pc \in IF kind = "event" THEN {"incr", "write"} ELSE {"write"}}

Racing == {k[1] : k \in {j \in {EventKey, ListKey(counter)} :
                           inflight[j] # NoFetch /\ Invalidated(j[1]) # {}}}

\* Nothing is claimed, and noted, once Redis has not served.
NoteRaces == raced' = IF lost' THEN {} ELSE raced \cup Racing'

GoTo(r, pc) == req' = [req EXCEPT ![r].pc = pc]
Finish(r) == req' = [req EXCEPT ![r] = Idle]

-----------------------------------------------------------------------------
(* Starting a request.                                                     *)

\* Bound: writes and invalidations that may still take effect.
WriteLeft ==
    LET pending == Cardinality(Writing)
    IN  db["list"] + pending <= MaxWrites /\ counter + pending < MaxWrites

FirstStep(op) ==
    CASE op = "list" -> "version"
      [] op = "create" -> "write"
      [] OTHER -> "get"

Start(r, op) ==
    /\ req[r] = Idle
    /\ op \in Writers => WriteLeft
    /\ req' = [req EXCEPT ![r] = [op |-> op, key |-> EventKey, pc |-> FirstStep(op),
                                  since |-> IF op = "list" THEN listed ELSE 0]]
    /\ UNCHANGED <<db, cache, counter, listVersion, inflight, listed, raced, lost>>

-----------------------------------------------------------------------------
(* Reading.                                                                *)

\* Variant: the process trusts the version it has.
KeepListVersion(r) ==
    /\ req[r].pc = "version"
    /\ req' = [req EXCEPT ![r].pc = "get", ![r].key = ListKey(listVersion)]
    /\ UNCHANGED <<db, cache, counter, listVersion, inflight, listed, raced, lost>>

\* refreshListVersion and listKey.  The connection answers in order, so the copy
\* never goes back.
RefreshListVersion(r) ==
    /\ req[r].pc = "version"
    /\ \E served \in Served :
         /\ listVersion' = IF served THEN counter ELSE listVersion
         /\ lost' = (lost \/ ~served)
    /\ req' = [req EXCEPT ![r].pc = "get", ![r].key = ListKey(listVersion')]
    /\ UNCHANGED <<db, cache, counter, inflight, listed>>
    /\ NoteRaces

\* What may come next once the event or the list has been obtained: a writer goes
\* on to invalidate, unless assertCanModify stops it.
Answered(q) ==
    {Idle} \cup (IF req[q].op \in Writers THEN {[req[q] EXCEPT !.pc = "del"]} ELSE {})

Hit(r) ==
    /\ req[r].pc = "get"
    /\ cache[req[r].key] # 0
    /\ \E a \in Answered(r) : req' = [req EXCEPT ![r] = a]
    /\ UNCHANGED <<db, cache, counter, listVersion, inflight, listed, raced, lost>>

\* The first to miss fetches, the others wait for the same promise.
Miss(r) ==
    /\ req[r].pc = "get"
    /\ cache[req[r].key] = 0 \/ FALSE \in Served
    /\ GoTo(r, "wait")
    /\ inflight' = [inflight EXCEPT ![req[r].key] =
                      IF @ = NoFetch THEN [pc |-> "read"] ELSE @]
    /\ UNCHANGED <<db, cache, counter, listVersion, listed, lost>>
    /\ NoteRaces

Waiting(k) == {r \in Busy : req[r].pc = "wait" /\ req[r].key = k}

\* The promise is rejected: no such event, or a failing query.
FetchRejects(k) ==
    /\ inflight[k].pc = "read"
    /\ (k = EventKey /\ db["event"] = 0) \/ "dbFails" \in Env
    /\ inflight' = [inflight EXCEPT ![k] = NoFetch]
    /\ req' = [r \in Slots |-> IF r \in Waiting(k) THEN Idle ELSE req[r]]
    /\ UNCHANGED <<db, cache, counter, listVersion, listed, raced, lost>>

FetchReads(k) ==
    /\ inflight[k].pc = "read"
    /\ k = EventKey => db["event"] # 0
    /\ inflight' = [inflight EXCEPT ![k] = [pc |-> "store", content |-> db[k[1]]]]
    /\ UNCHANGED <<db, cache, counter, listVersion, listed, req, raced, lost>>

\* The entry is written, or not, and the promise is resolved for all.
FetchResolves(k) ==
    /\ inflight[k].pc = "store"
    /\ \E served \in Served :
         cache' = IF served THEN [cache EXCEPT ![k] = inflight[k].content] ELSE cache
    /\ inflight' = [inflight EXCEPT ![k] = NoFetch]
    /\ \E goOn \in SUBSET {r \in Waiting(k) : req[r].op \in Writers} :
         req' = [r \in Slots |-> IF r \in goOn THEN [req[r] EXCEPT !.pc = "del"]
                                 ELSE IF r \in Waiting(k) THEN Idle
                                 ELSE req[r]]
    /\ UNCHANGED <<db, counter, listVersion, listed, raced, lost>>

-----------------------------------------------------------------------------
(* Writing: update and delete invalidate and then write, create writes and *)
(* then invalidates.                                                       *)

\* Variant: only the list pages are invalidated.
KeepEntry(r) ==
    /\ req[r].pc = "del"
    /\ GoTo(r, "incr")
    /\ UNCHANGED <<db, cache, counter, listVersion, inflight, listed, raced, lost>>

\* invalidateEvent up to its first reply; a failing DEL skips the INCR.
Del(r) ==
    /\ req[r].pc = "del"
    /\ \/ /\ cache' = [cache EXCEPT ![EventKey] = 0]
          /\ GoTo(r, "incr")
          /\ UNCHANGED lost
       \/ /\ FALSE \in Served
          /\ GoTo(r, "write")
          /\ lost' = TRUE
          /\ UNCHANGED cache
    /\ UNCHANGED <<db, counter, listVersion, inflight, listed>>
    /\ NoteRaces

\* A create returns, the other writers go on to write.
AfterIncr(r) ==
    IF req[r].op = "create"
    THEN /\ listed' = IF req[r].since > listed THEN req[r].since ELSE listed
         /\ Finish(r)
    ELSE /\ UNCHANGED listed
         /\ GoTo(r, "write")

\* Variant: invalidateEvent is followed by bumpListVersion.
IncrTwice(r) ==
    /\ req[r].pc = "incr"
    /\ counter' = counter + 2
    /\ AfterIncr(r)
    /\ UNCHANGED <<db, cache, listVersion, inflight, raced, lost>>

\* The INCR of bumpListVersion and of invalidateEvent.
Incr(r) ==
    /\ req[r].pc = "incr"
    /\ \E served \in Served :
         /\ counter' = IF served THEN counter + 1 ELSE counter
         /\ lost' = (lost \/ ~served)
    /\ AfterIncr(r)
    /\ UNCHANGED <<db, cache, listVersion, inflight>>
    /\ NoteRaces

NewContent == db["list"] + 1

\* eventRepo.create.
Create(r) ==
    /\ req[r].pc = "write"
    /\ req[r].op = "create"
    /\ db' = [db EXCEPT !["list"] = NewContent]
    /\ req' = [req EXCEPT ![r].pc = "incr", ![r].since = NewContent]
    /\ UNCHANGED <<cache, counter, listVersion, inflight, listed, raced, lost>>

\* eventRepo.update and eventRepo.remove.
Modify(r) ==
    /\ req[r].pc = "write"
    /\ req[r].op # "create"
    /\ db["event"] # 0
    /\ db' = [event |-> IF req[r].op = "update" THEN NewContent ELSE 0,
              list |-> NewContent]
    /\ Finish(r)
    /\ UNCHANGED <<cache, counter, listVersion, inflight, listed, raced, lost>>

\* The write fails: the event is gone, a foreign key is not satisfied, an event
\* with bookings is deleted.
WriteRefused(r) ==
    /\ req[r].pc = "write"
    /\ Finish(r)
    /\ UNCHANGED <<db, cache, counter, listVersion, inflight, listed, raced, lost>>

\* Variant: entries without a time to live.
KeepForever(k) ==
    /\ cache[k] # 0
    /\ UNCHANGED vars

\* The time to live of an entry ends.
Expire(k) ==
    /\ cache[k] # 0
    /\ cache' = [cache EXCEPT ![k] = 0]
    /\ UNCHANGED <<db, counter, listVersion, inflight, listed, req, raced, lost>>

-----------------------------------------------------------------------------
RequestStep(r) ==
    \/ RefreshListVersion(r) \/ Hit(r) \/ Miss(r)
    \/ Del(r) \/ Incr(r) \/ Create(r) \/ Modify(r) \/ WriteRefused(r)

FetchStep(k) == FetchRejects(k) \/ FetchReads(k) \/ FetchResolves(k)

Next ==
    \/ \E r \in Slots : RequestStep(r) \/ \E op \in Ops : Start(r, op)
    \/ \E k \in Keys : FetchStep(k) \/ Expire(k)

Spec == Init /\ [][Next]_vars

\* Redis and PostgreSQL answer or fail, and Redis drops what has outlived its TTL.
FairSpec ==
    /\ Spec
    /\ \A r \in Slots : WF_vars(RequestStep(r))
    /\ \A k \in Keys : WF_vars(FetchStep(k)) /\ WF_vars(Expire(k))

-----------------------------------------------------------------------------
(* Properties.                                                             *)

Current(k) == cache[k] \in {0, db[k[1]]}

\* The page of the current version is without the new event.
Creating == \E r \in Busy : req[r].op = "create" /\ req[r].pc = "incr"

\* A stale entry can only come from a fetch that was under way while an update or
\* a delete was between its invalidation and its write, or from a command that
\* Redis has not served.  Whatever else overlaps, hits, other writers and fetches
\* that end in time included, leaves nothing stale: neither the entry of the event
\* nor, but for a create that is about to count the version up, the pages of the
\* current version.
OnlyRacesLeaveStale ==
    ~lost => /\ "event" \in raced \/ Current(EventKey)
             /\ "list" \in raced \/ Creating \/ Current(ListKey(counter))

\* "Deleting guarantees the next read recomputes from the DB, so the cached value
\* is always post-commit and correct" (PR_BODY.md:143-145): once no write is under
\* way, the entry of the event is what the database holds.
CachedValueIsCorrect == Writing = {} => Current(EventKey)

\* A list request that starts after a create has returned is answered with a page
\* that has the new event, from the cache or from a fetch it has joined, whatever
\* reads and writes overlap with it, as long as Redis serves what it is asked.
PageServed(r) ==
    IF req[r].pc = "get" THEN cache[req[r].key] ELSE inflight[req[r].key].content

IsServed(r) ==
    /\ req'[r] = Idle
    /\ req[r].pc = "wait" => inflight[req[r].key].pc = "store"

CreatedEventsAreListed ==
    [][\A r \in Busy : ~lost /\ req[r].op = "list" /\ IsServed(r) =>
                         PageServed(r) >= req[r].since]_vars

\* Once the last write is done, stale entries give way: what Redis holds becomes
\* and remains what the database holds, whatever invalidations were lost.
EntriesConverge == <>[](\A k \in Keys : Current(k))
=============================================================================
