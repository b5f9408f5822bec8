--------------------------- MODULE BookingService ---------------------------
(***************************************************************************)
(* bookings/service.ts in the API process: createBooking with its bounded  *)
(* retry loop around a Serializable transaction, and cancelBooking, which  *)
(* reads, updates and then enqueues a waitlist-promote job.  Both answer   *)
(* after several awaits, so any number of them interleave.                 *)
(*                                                                         *)
(* The waitlist-promote queue of jobs/waitlist.queue.ts is the variable    *)
(* job.  All its jobs carry the one event, so a job is only its BullMQ     *)
(* state and its counters.                                                 *)
(***************************************************************************)
EXTENDS BookingStore

CONSTANTS
    Admin,        \* an ADMIN principal
    MaxRetries,   \* MAX_RETRIES of createBooking
    Jobs,         \* bound: job ids, the promotions outstanding at one time
    JobAttempts,  \* defaultJobOptions.attempts of the queue
    MaxStalled    \* BullMQ's maxStalledCount

ASSUME ServiceAssumption ==
    /\ IsFiniteSet(Requests)
    /\ IsFiniteSet(Jobs)
    /\ MaxRetries \in Nat \ {0}
    /\ JobAttempts \in Nat \ {0}
    /\ MaxStalled \in Nat

VARIABLES
    req,  \* what each request slot of the API process is doing
    job   \* the waitlist-promote queue

apiVars == <<storeVars, req, job>>

Idle == [pc |-> "idle"]

\* createBooking: cap is the capacity read before the retry loop; "begin" is
\* the top of the loop, "tx" a transaction that has written but not committed.
BookingReq == [pc: {"begin", "tx"}, user: Users, cap: Capacities,
               attempt: 0..(MaxRetries - 1)]

\* cancelBooking: seen is the status it read; "cancel" is before the UPDATE,
\* "enqueue" while addWaitlistPromotion, which nobody awaits, is in flight.
CancelReq == [pc: {"cancel", "enqueue"}, user: Users,
              seen: {"CONFIRMED", "WAITLISTED"}]

\* "none" is an id not in use: never added, completed, or in the failed set.
JobRecord == [state: {"none", "waiting", "active"},
              failed: 0..(JobAttempts - 1), stalled: 0..MaxStalled]

NewJob == [state |-> "waiting", failed |-> 0, stalled |-> 0]
GoneJob == [state |-> "none", failed |-> 0, stalled |-> 0]

ServiceTypeOK ==
    /\ StoreTypeOK
    /\ req \in [Requests -> {Idle} \cup BookingReq \cup CancelReq]
    /\ job \in [Jobs -> JobRecord]

ServiceInit ==
    /\ StoreInit
    /\ req = [r \in Requests |-> Idle]
    /\ job = [j \in Jobs |-> GoneJob]

Finish(r) == req' = [req EXCEPT ![r] = Idle]

-----------------------------------------------------------------------------
(* createBooking.                                                          *)

\* The event is read here, outside the transaction; a missing event is a 404.
StartBooking(r, u) ==
    /\ req[r] = Idle
    /\ exists
    /\ req' = [req EXCEPT ![r] = [pc |-> "begin", user |-> u,
                                  cap |-> capacity, attempt |-> 0]]
    /\ UNCHANGED <<storeVars, job>>

HasNoLiveRow(u) == booking[u] \in {"NONE", "CANCELLED"}

Write(r, to) ==
    /\ Begin(r, req[r].user, to)
    /\ req' = [req EXCEPT ![r].pc = "tx"]
    /\ UNCHANGED job

\* Variant: one confirmed booking too many.
BookSeatOffByOne(r) ==
    /\ req[r].pc = "begin"
    /\ countConfirmed <= req[r].cap
    /\ HasNoLiveRow(req[r].user)
    /\ Write(r, "CONFIRMED")

\* create or reactivate.
BookSeat(r) ==
    /\ req[r].pc = "begin"
    /\ countConfirmed < req[r].cap
    /\ HasNoLiveRow(req[r].user)
    /\ Write(r, "CONFIRMED")

\* createWaitlisted or waitlist.
BookWaitlist(r) ==
    /\ req[r].pc = "begin"
    /\ countConfirmed >= req[r].cap
    /\ HasNoLiveRow(req[r].user)
    /\ Write(r, "WAITLISTED")

\* The row is CONFIRMED or WAITLISTED: a 409, or the waitlisted row as it is.
AnswerExisting(r) ==
    /\ req[r].pc = "begin"
    /\ ~HasNoLiveRow(req[r].user)
    /\ Finish(r)
    /\ UNCHANGED <<storeVars, job>>

CommitBooking(r) ==
    /\ req[r].pc = "tx"
    /\ Commit(r)
    /\ Finish(r)
    /\ UNCHANGED job

RollbackIfOpen(r) ==
    /\ tx' = [tx EXCEPT ![r] = NoTx]
    /\ UNCHANGED rowVars

\* isSerializationFailure holds of what the transaction threw.
SerializationFailure(r) ==
    \/ req[r].pc = "tx" /\ tx[r].doomed
    \/ req[r].pc \in {"begin", "tx"} /\ "abort" \in Env

\* Variant: a loop that never counts its attempts.
RetryBookingForEver(r) ==
    /\ SerializationFailure(r)
    /\ req' = [req EXCEPT ![r].pc = "begin"]
    /\ RollbackIfOpen(r)
    /\ UNCHANGED job

RetryBooking(r) ==
    /\ SerializationFailure(r)
    /\ req[r].attempt + 1 < MaxRetries
    /\ req' = [req EXCEPT ![r].pc = "begin", ![r].attempt = req[r].attempt + 1]
    /\ RollbackIfOpen(r)
    /\ UNCHANGED job

\* The loop is exhausted: lastError is thrown.
GiveUpBooking(r) ==
    /\ SerializationFailure(r)
    /\ req[r].attempt + 1 = MaxRetries
    /\ Finish(r)
    /\ RollbackIfOpen(r)
    /\ UNCHANGED job

\* Variant: a loop that knows only the unique index.
UnretriedDuplicate(r) ==
    /\ req[r].pc = "tx"
    /\ tx[r].from = "NONE"
    /\ booking[tx[r].row] # "NONE"

\* What is not retried: P2002 when the user got a row since the snapshot, the
\* foreign key when the event is gone, and any other error.
Unretried(r) ==
    \/ /\ req[r].pc = "tx"
       /\ tx[r].from = "NONE"
       /\ ~exists \/ booking[tx[r].row] # "NONE"
    \/ req[r].pc \in {"begin", "tx"} /\ "abort" \in Env

RejectBooking(r) ==
    /\ Unretried(r)
    /\ Finish(r)
    /\ RollbackIfOpen(r)
    /\ UNCHANGED job

-----------------------------------------------------------------------------
(* cancelBooking.                                                          *)

MayCancel(actor, u) == actor = Admin \/ actor = u

\* Bound: an id is left for the job of every cancel on its way.
JobIdLeft ==
    Cardinality({r \in Requests : req[r].pc \in {"cancel", "enqueue"}})
        < Cardinality({j \in Jobs : job[j].state = "none"})

\* The read, and the refusals that depend on it: no row 404, someone else's
\* row 403, a cancelled row 409.
StartCancel(r, actor, u) ==
    /\ req[r] = Idle
    /\ MayCancel(actor, u)
    /\ booking[u] \in {"CONFIRMED", "WAITLISTED"}
    /\ booking[u] = "WAITLISTED" => "withdraw" \in Env
    /\ JobIdLeft
    /\ req' = [req EXCEPT ![r] = [pc |-> "cancel", user |-> u,
                                  seen |-> booking[u]]]
    /\ UNCHANGED <<storeVars, job>>

\* Variant: the promotion is enqueued for the wrong kind of cancel.
FinishCancelWrongStatus(r) ==
    /\ req[r].pc = "cancel"
    /\ CancelRow(req[r].user)
    /\ IF req[r].seen = "WAITLISTED"
       THEN req' = [req EXCEPT ![r].pc = "enqueue"]
       ELSE Finish(r)
    /\ UNCHANGED job

\* The UPDATE, whatever the row has become since the read.
FinishCancel(r) ==
    /\ req[r].pc = "cancel"
    /\ CancelRow(req[r].user)
    /\ IF req[r].seen = "CONFIRMED"
       THEN req' = [req EXCEPT ![r].pc = "enqueue"]
       ELSE Finish(r)
    /\ UNCHANGED job

\* addWaitlistPromotion.
EnqueuePromotion(r, j) ==
    /\ req[r].pc = "enqueue"
    /\ job[j].state = "none"
    /\ job' = [job EXCEPT ![j] = NewJob]
    /\ Finish(r)
    /\ UNCHANGED storeVars

\* addWaitlistPromotion rejects: the error is logged.
LosePromotion(r) ==
    /\ "redisDown" \in Env
    /\ req[r].pc = "enqueue"
    /\ Finish(r)
    /\ UNCHANGED <<storeVars, job>>

-----------------------------------------------------------------------------
(* The API process goes down; PostgreSQL rolls its transactions back.      *)
CrashServer ==
    /\ "crash" \in Env
    /\ \E r \in Requests : req[r] # Idle
    /\ req' = [r \in Requests |-> Idle]
    /\ tx' = [s \in Sessions |-> IF s \in Requests THEN NoTx ELSE tx[s]]
    /\ UNCHANGED <<rowVars, job>>

\* What a request does once it has started.
RequestStep(r) ==
    \/ BookSeat(r) \/ BookWaitlist(r) \/ AnswerExisting(r)
    \/ CommitBooking(r) \/ RejectBooking(r)
    \/ RetryBooking(r) \/ GiveUpBooking(r)
    \/ FinishCancel(r) \/ LosePromotion(r)
    \/ \E j \in Jobs : EnqueuePromotion(r, j)

NewRequest(r) ==
    \E u \in Users :
        \/ StartBooking(r, u)
        \/ \E actor \in Users \cup {Admin} : StartCancel(r, actor, u)
=============================================================================
