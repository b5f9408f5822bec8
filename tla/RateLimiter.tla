----------------------------- MODULE RateLimiter -----------------------------
(***************************************************************************)
(* infra/rate-limit.ts: fixed windows counted in Redis, one INCR and, for  *)
(* the first of a window, one EXPIRE per request; and the life of the      *)
(* Redis client underneath (infra/redis.ts), for which server.ts waits     *)
(* before it listens.                                                      *)
(*                                                                         *)
(* An identity stands for the pair of keyOf(req) and label: limiters with  *)
(* different labels share nothing.                                         *)
(***************************************************************************)
EXTENDS Naturals, FiniteSets

CONSTANTS
    Ids,       \* identities that are limited
    Slots,     \* requests the API process can serve at one time
    Max,       \* options.max
    WindowMs,  \* options.windowMs
    Second,    \* milliseconds in a second
    MaxTime,   \* bound: last value of the clock
    MaxAsked,  \* bound: requests of one identity in one window
    Env        \* "outage": Redis goes away and fails commands; "crash": the API
               \* process dies and is started again

ASSUME LimiterAssumption ==
    /\ IsFiniteSet(Slots)
    /\ Max \in Nat \ {0}
    /\ WindowMs \in Nat \ {0}
    /\ Second \in Nat \ {0}
    /\ MaxTime \in Nat
    /\ MaxAsked \in Nat
    /\ Env \subseteq {"outage", "crash"}

\* All limiters of the routes have windows of 60_000 ms.
ASSUME WholeSeconds == WindowMs % Second = 0

VARIABLES
    now,       \* the clock in milliseconds, of the process and of Redis
    counter,   \* the keys in Redis
    up,        \* Redis can be reached
    ready,     \* cache.isReady
    listening, \* the HTTP server accepts requests
    req,       \* what each request awaits in the middleware
    asked,     \* history: requests of an identity that began in a window
    admitted,  \* history: those let through on a count taken in their window
    abandoned  \* history: keys whose first request did not get to set the expiry

vars == <<now, counter, up, ready, listening, req, asked, admitted, abandoned>>
linkVars == <<up, ready, listening>>

Window(t) == t \div WindowMs
Windows == 0..Window(MaxTime)
Keys == Ids \X Windows

\* Variant: a counter that is not told apart by window.
OneKeyPerIdentity(id, w) == <<id, 0>>

\* rl:{identity}:{label}:{window}.
RateKey(id, w) == <<id, w>>

windowSec == (WindowMs + Second - 1) \div Second

\* until: when the key expires, 0 when it has no expiry.
NoKey == [count |-> 0, until |-> 0]

Idle == [pc |-> "idle"]

\* "incr", "expire": the command is on its way; "decide": count is its answer,
\* taken inTime if the request's window had not ended by then.
Request == [pc: {"incr", "expire", "decide"}, id: Ids, win: Windows,
            count: Nat, inTime: BOOLEAN]

TypeOK ==
    /\ now \in 0..MaxTime
    /\ counter \in [Keys -> [count: Nat, until: Nat]]
    /\ up \in BOOLEAN
    /\ ready \in BOOLEAN
    /\ listening \in BOOLEAN
    /\ req \in [Slots -> {Idle} \cup Request]
    /\ asked \in [Keys -> Nat]
    /\ admitted \in [Keys -> Nat]
    /\ abandoned \in SUBSET Keys

Init ==
    /\ now = 0
    /\ counter = [k \in Keys |-> NoKey]
    /\ up \in IF "outage" \in Env THEN BOOLEAN ELSE {TRUE}
    /\ ready = FALSE
    /\ listening = FALSE
    /\ req = [r \in Slots |-> Idle]
    /\ asked = [k \in Keys |-> 0]
    /\ admitted = [k \in Keys |-> 0]
    /\ abandoned = {}

KeyOf(r) == RateKey(req[r].id, req[r].win)
Finish(r) == req' = [req EXCEPT ![r] = Idle]

-----------------------------------------------------------------------------
(* The connection and the process.                                         *)

\* Variant: a server that nobody tells that the connection is there.
ConnectWithoutListening ==
    /\ up
    /\ ~ready
    /\ ready' = TRUE
    /\ UNCHANGED <<now, counter, up, listening, req, asked, admitted, abandoned>>

\* The client keeps trying.  The first connection resolves connectCache, and
\* only then does the server listen.
Connect ==
    /\ up
    /\ ~ready
    /\ ready' = TRUE
    /\ listening' = TRUE
    /\ UNCHANGED <<now, counter, up, req, asked, admitted, abandoned>>

Outage ==
    /\ "outage" \in Env
    /\ up' = ~up
    /\ ready' = FALSE
    /\ UNCHANGED <<now, counter, listening, req, asked, admitted, abandoned>>

Expiring == {r \in Slots : req[r].pc = "expire"}

Crash ==
    /\ "crash" \in Env
    /\ listening
    /\ ready' = FALSE
    /\ listening' = FALSE
    /\ abandoned' = abandoned \cup {KeyOf(r) : r \in Expiring}
    /\ req' = [r \in Slots |-> Idle]
    /\ UNCHANGED <<now, counter, up, asked, admitted>>

\* Redis drops the keys whose time is over.
Tick ==
    /\ now < MaxTime
    /\ now' = now + 1
    /\ counter' = [k \in Keys |->
                     IF counter[k].until \in 1..now THEN NoKey ELSE counter[k]]
    /\ UNCHANGED <<linkVars, req, asked, admitted, abandoned>>

-----------------------------------------------------------------------------
(* The middleware.                                                         *)

\* Variant: the window is rounded up.
StartRoundingUp(r, id) ==
    /\ listening
    /\ ready
    /\ req[r] = Idle
    /\ asked[<<id, Window(now)>>] < MaxAsked
    /\ asked' = [asked EXCEPT ![<<id, Window(now)>>] = @ + 1]
    /\ req' = [req EXCEPT ![r] = [pc |-> "incr", id |-> id, win |-> Window(now) + 1,
                                  count |-> 0, inTime |-> FALSE]]
    /\ UNCHANGED <<now, counter, linkVars, admitted, abandoned>>

\* Without a connection, or an identity, next() is called at once: no step.
Start(r, id) ==
    /\ listening
    /\ ready
    /\ req[r] = Idle
    /\ asked[<<id, Window(now)>>] < MaxAsked
    /\ asked' = [asked EXCEPT ![<<id, Window(now)>>] = @ + 1]
    /\ req' = [req EXCEPT ![r] = [pc |-> "incr", id |-> id, win |-> Window(now),
                                  count |-> 0, inTime |-> FALSE]]
    /\ UNCHANGED <<now, counter, linkVars, admitted, abandoned>>

Increment(k) == counter' = [counter EXCEPT ![k].count = @ + 1]

\* Variant: the expiry is set by the second request.
IncrExpiringSecond(r) ==
    LET count == counter[KeyOf(r)].count + 1 IN
    /\ req[r].pc = "incr"
    /\ ready
    /\ Increment(KeyOf(r))
    /\ req' = [req EXCEPT ![r].pc = IF count = 2 THEN "expire" ELSE "decide",
                          ![r].count = count,
                          ![r].inTime = Window(now) = req[r].win]
    /\ UNCHANGED <<now, linkVars, asked, admitted, abandoned>>

\* The first of a window goes on to EXPIRE.
Incr(r) ==
    LET count == counter[KeyOf(r)].count + 1 IN
    /\ req[r].pc = "incr"
    /\ ready
    /\ Increment(KeyOf(r))
    /\ req' = [req EXCEPT ![r].pc = IF count = 1 THEN "expire" ELSE "decide",
                          ![r].count = count,
                          ![r].inTime = Window(now) = req[r].win]
    /\ UNCHANGED <<now, linkVars, asked, admitted, abandoned>>

\* Variant: a time to live of half a window.
SetHalfExpiry(r) ==
    /\ req[r].pc = "expire"
    /\ ready
    /\ req' = [req EXCEPT ![r].pc = "decide"]
    /\ counter' = [counter EXCEPT ![KeyOf(r)].until =
                     IF @ = 0 THEN now + (windowSec * Second) \div 2 ELSE @]
    /\ UNCHANGED <<now, linkVars, asked, admitted, abandoned>>

\* EXPIRE ... NX.
SetExpiry(r) ==
    /\ req[r].pc = "expire"
    /\ ready
    /\ req' = [req EXCEPT ![r].pc = "decide"]
    /\ counter' = [counter EXCEPT ![KeyOf(r)].until =
                     IF @ = 0 THEN now + windowSec * Second ELSE @]
    /\ UNCHANGED <<now, linkVars, asked, admitted, abandoned>>

\* A command fails, executed or not: the request is let through.  (An EXPIRE that
\* is executed and not answered is SetExpiry and Admit.)  One that the client has
\* not sent yet does not fail, but waits for the next connection.
FailOpen(r) ==
    /\ "outage" \in Env
    /\ \/ /\ req[r].pc = "incr"
          /\ \/ UNCHANGED <<counter, abandoned>>
             \/ /\ Increment(KeyOf(r))
                /\ abandoned' = IF counter[KeyOf(r)].count = 0
                                THEN abandoned \cup {KeyOf(r)} ELSE abandoned
       \/ /\ req[r].pc = "expire"
          /\ abandoned' = abandoned \cup {KeyOf(r)}
          /\ UNCHANGED counter
    /\ Finish(r)
    /\ UNCHANGED <<now, linkVars, asked, admitted>>

Admit(r) ==
    /\ req[r].pc = "decide"
    /\ req[r].count <= Max
    /\ admitted' = IF req[r].inTime
                   THEN [admitted EXCEPT ![<<req[r].id, req[r].win>>] = @ + 1]
                   ELSE admitted
    /\ Finish(r)
    /\ UNCHANGED <<now, counter, linkVars, asked, abandoned>>

AtLeastOne(n) == IF n > 1 THEN n ELSE 1

\* Variant: to the last second of the window, not past it.
RetryOneShort == AtLeastOne(windowSec - ((now \div Second) % windowSec) - 1)

\* retryAfterSec, from a reading of the clock of its own.
RetryAfter == AtLeastOne(windowSec - ((now \div Second) % windowSec))

\* Variant: the error is made and not handed to next().
RefuseInSilence(r) ==
    /\ req[r].pc = "decide"
    /\ req[r].count > Max
    /\ UNCHANGED vars

\* 429.
Refuse(r) ==
    /\ req[r].pc = "decide"
    /\ req[r].count > Max
    /\ Finish(r)
    /\ UNCHANGED <<now, counter, linkVars, asked, admitted, abandoned>>

Serve(r) == Incr(r) \/ SetExpiry(r) \/ Admit(r) \/ Refuse(r)
RequestStep(r) == Serve(r) \/ FailOpen(r)

Next ==
    \/ Connect \/ Outage \/ Crash \/ Tick
    \/ \E r \in Slots : RequestStep(r) \/ \E id \in Ids : Start(r, id)

Spec == Init /\ [][Next]_vars

\* The event loop carries requests on while Redis answers, the client keeps trying
\* to connect.  Nothing makes Redis come back or a command fail.
FairSpec ==
    /\ Spec
    /\ WF_vars(Connect)
    /\ \A r \in Slots : WF_vars(Serve(r))

-----------------------------------------------------------------------------
(* Properties.                                                             *)

Refused(r) == req[r].pc = "decide" /\ req[r].count > Max

\* Of the requests of one identity that are counted while their window lasts, at
\* most Max are let through, however INCR, EXPIRE, expiry and crashes interleave:
\* no counter starts again within its window.
NeverMoreThanMax == \A k \in Keys : admitted[k] <= Max

\* Whoever is answered 429 belongs to an identity that has sent more than Max
\* requests in that very window: neither another window nor another identity nor
\* a counter that was never given an expiry is held against it.
RefusalIsDeserved ==
    \A r \in Slots : Refused(r) => asked[<<req[r].id, req[r].win>>] > Max

\* A client that waits for as long as the 429 tells it is in a later window, also
\* when the window has changed between the two readings of the clock.
RetryAfterLeadsOut ==
    \A r \in Slots : Refused(r) => Window(now + RetryAfter * Second) > req[r].win

\* A counter without an expiry is about to be given one, unless the only request
\* that would have done it has failed or died.
CountersExpire ==
    \A k \in Keys :
        counter[k].count > 0 /\ counter[k].until = 0
            => k \in abandoned \/ \E r \in Expiring : KeyOf(r) = k

\* Every request is answered once Redis can be reached for good, also one whose
\* connection has gone away meanwhile or whose process has died.
LimitedRequestsFinish ==
    <>[]up => \A r \in Slots : req[r] # Idle ~> req[r] = Idle

\* Once Redis can be reached again, an API process that was started without it
\* listens, however often it is restarted.
ServerListens == <>[]up => []<>listening
-----------------------------------------------------------------------------
(* The inductive invariants behind the safety properties.                  *)

\* A request does not come from a later window than the present.
RequestsAreOfThePast == \A r \in Slots : req[r] # Idle => req[r].win <= Window(now)

\* An expiry is never within the window of its counter.
ExpiriesOutlastWindows ==
    \A k \in Keys : counter[k].until # 0 => counter[k].until >= (k[2] + 1) * WindowMs

\* Those still to be let through on a count taken in its window.
Pending(k) ==
    {r \in Slots : /\ req[r].pc \in {"expire", "decide"}
                   /\ <<req[r].id, req[r].win>> = k
                   /\ req[r].inTime
                   /\ req[r].count <= Max}

Passed(k) == admitted[k] + Cardinality(Pending(k))

\* Until its window ends a counter has counted all of them.
CountersAreComplete ==
    \A k \in Keys : k[2] >= Window(now) => Passed(k) <= counter[k].count

PassedIsBounded == \A k \in Keys : Passed(k) <= Max

\* Those whose INCR is on its way.
Sent(k) == {r \in Slots : req[r].pc = "incr" /\ <<req[r].id, req[r].win>> = k}

\* A counter counts only requests of its identity and window.
CountersAreDeserved ==
    \A k \in Keys : counter[k].count + Cardinality(Sent(k)) <= asked[k]

AnswersAreDeserved ==
    \A r \in Slots : req[r].pc \in {"expire", "decide"}
                       => req[r].count <= asked[<<req[r].id, req[r].win>>]

LimiterInv ==
    /\ TypeOK /\ RequestsAreOfThePast /\ ExpiriesOutlastWindows
    /\ CountersAreComplete /\ PassedIsBounded
    /\ CountersAreDeserved /\ AnswersAreDeserved
=============================================================================
