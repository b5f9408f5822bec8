--------------------------- MODULE WaitlistWorker ---------------------------
(***************************************************************************)
(* The worker processes (worker.ts, jobs/promote.ts) that take             *)
(* waitlist-promote jobs and promote the oldest waitlisted booking, and    *)
(* the whole system of API process, database, queue and workers.           *)
(***************************************************************************)
EXTENDS BookingService

VARIABLES
    work,   \* what each worker process is doing
    outbox  \* users whose addConfirmation call is in flight in each worker

vars == <<storeVars, req, job, work, outbox>>
workerVars == <<work, outbox>>

\* "start": the processor has the job; "tx": the promotion is written but not
\* committed; "done": promoteWaitlisted has returned.
Work == [pc: {"start", "tx", "done"}, job: Jobs]

TypeOK ==
    /\ ServiceTypeOK
    /\ work \in [Workers -> {Idle} \cup Work]
    /\ outbox \in [Workers -> SUBSET Users]

Init ==
    /\ ServiceInit
    /\ work = [w \in Workers |-> Idle]
    /\ outbox = [w \in Workers |-> {}]

GoTo(w, pc) == work' = [work EXCEPT ![w].pc = pc]

-----------------------------------------------------------------------------
TakeJob(w, j) ==
    /\ work[w] = Idle
    /\ job[j].state = "waiting"
    /\ job' = [job EXCEPT ![j].state = "active"]
    /\ work' = [work EXCEPT ![w] = [pc |-> "start", job |-> j]]
    /\ UNCHANGED <<storeVars, req, outbox>>

\* Variants: without the re-check of the capacity, and with one seat held back.
PromoteUnchecked(w, u) ==
    /\ work[w].pc = "start"
    /\ exists
    /\ u \in findOldestWaitlisted
    /\ Begin(w, u, "CONFIRMED")
    /\ GoTo(w, "tx")
    /\ UNCHANGED <<req, job, outbox>>
PromoteOffByOne(w, u) ==
    /\ countConfirmed + 1 < capacity
    /\ PromoteUnchecked(w, u)

\* Variant: addConfirmation is called inside the transaction.
PromoteCallingEarly(w, u) ==
    /\ work[w].pc = "start"
    /\ exists
    /\ countConfirmed < capacity
    /\ u \in findOldestWaitlisted
    /\ Begin(w, u, "CONFIRMED")
    /\ GoTo(w, "tx")
    /\ outbox' = [outbox EXCEPT ![w] = @ \cup {u}]
    /\ UNCHANGED <<req, job>>

\* Inside the transaction: the event, the count, and the oldest row.
PromoteOldest(w, u) ==
    /\ work[w].pc = "start"
    /\ exists
    /\ countConfirmed < capacity
    /\ u \in findOldestWaitlisted
    /\ Begin(w, u, "CONFIRMED")
    /\ GoTo(w, "tx")
    /\ UNCHANGED <<req, job, outbox>>

\* No seat or nobody waiting: the job succeeds without a write.
PromoteNobody(w) ==
    /\ work[w].pc = "start"
    /\ exists
    /\ countConfirmed >= capacity \/ Waiting = {}
    /\ GoTo(w, "done")
    /\ UNCHANGED <<storeVars, req, job, outbox>>

\* addConfirmation(promotedId) is called after the commit and not awaited.
CommitPromotion(w) ==
    /\ work[w].pc = "tx"
    /\ Commit(w)
    /\ GoTo(w, "done")
    /\ outbox' = [outbox EXCEPT ![w] = @ \cup {tx[w].row}]
    /\ UNCHANGED <<req, job>>

\* promoteWaitlisted throws: the event is gone or the transaction aborted.
PromotionThrows(w) ==
    \/ work[w].pc = "start" /\ (exists => "abort" \in Env)
    \/ work[w].pc = "tx" /\ (~tx[w].doomed => "abort" \in Env)

Requeued(failed, stalled) ==
    [state |-> "waiting", failed |-> failed, stalled |-> stalled]

\* Variant: a queue without an attempts limit.
FailPromotionUnlimited(w) ==
    /\ PromotionThrows(w)
    /\ RollbackIfOpen(w)
    /\ job' = [job EXCEPT ![work[w].job].state = "waiting"]
    /\ work' = [work EXCEPT ![w] = Idle]
    /\ UNCHANGED <<req, outbox>>

\* BullMQ retries the job until its attempts are used up.
FailPromotion(w) ==
    LET j == work[w].job IN
    /\ PromotionThrows(w)
    /\ RollbackIfOpen(w)
    /\ job' = [job EXCEPT ![j] =
                 IF job[j].failed + 1 < JobAttempts
                 THEN Requeued(job[j].failed + 1, job[j].stalled)
                 ELSE GoneJob]
    /\ work' = [work EXCEPT ![w] = Idle]
    /\ UNCHANGED <<req, outbox>>

CompleteJob(w) ==
    /\ work[w].pc = "done"
    /\ job' = [job EXCEPT ![work[w].job] = GoneJob]
    /\ work' = [work EXCEPT ![w] = Idle]
    /\ UNCHANGED <<storeVars, req, outbox>>

\* addConfirmation settles: queued, or rejected and logged.
SettleConfirmation(w, u) ==
    /\ u \in outbox[w]
    /\ outbox' = [outbox EXCEPT ![w] = @ \ {u}]
    /\ UNCHANGED <<storeVars, req, job, work>>

\* The process dies.  Its transaction is rolled back, its calls in flight are
\* lost, and BullMQ hands a stalled job out again, a bounded number of times.  A
\* shutdown waits for the job, but not for the calls.
CrashWorker(w) ==
    LET j == work[w].job IN
    /\ "crash" \in Env
    /\ work[w] # Idle \/ outbox[w] # {}
    /\ RollbackIfOpen(w)
    /\ job' = IF work[w] = Idle THEN job
              ELSE [job EXCEPT ![j] =
                      IF job[j].stalled < MaxStalled
                      THEN Requeued(job[j].failed, job[j].stalled + 1)
                      ELSE GoneJob]
    /\ work' = [work EXCEPT ![w] = Idle]
    /\ outbox' = [outbox EXCEPT ![w] = {}]
    /\ UNCHANGED req

PromotionStep(w) ==
    \/ \E j \in Jobs : TakeJob(w, j)
    \/ \E u \in Users : PromoteOldest(w, u)
    \/ PromoteNobody(w) \/ FailPromotion(w) \/ CompleteJob(w)

WorkerStep(w) ==
    \/ PromotionStep(w) \/ CommitPromotion(w)
    \/ \E u \in Users : SettleConfirmation(w, u)

-----------------------------------------------------------------------------
ApiStep ==
    /\ CrashServer \/ \E r \in Requests : NewRequest(r) \/ RequestStep(r)
    /\ UNCHANGED workerVars

DatabaseStep == StoreStep /\ UNCHANGED <<req, job, workerVars>>

Next ==
    \/ ApiStep
    \/ \E w \in Workers : WorkerStep(w) \/ CrashWorker(w)
    \/ DatabaseStep

Spec == Init /\ [][Next]_vars

\* A request that has started is carried on by the event loop, and so is a
\* worker that has a job or an unsettled call or finds a job waiting.  Nothing
\* makes a user send a request, the organizer act, or a process crash.
Fairness ==
    /\ \A r \in Requests : WF_vars(RequestStep(r) /\ UNCHANGED workerVars)
    /\ \A w \in Workers : WF_vars(WorkerStep(w))

FairSpec == Spec /\ Fairness

-----------------------------------------------------------------------------
(* Safety.                                                                 *)

\* The confirmed bookings never exceed the capacity: the count that
\* createBooking and promoteWaitlisted make still holds when they commit,
\* whatever books, promotes or cancels in between.  Needs "lower" \notin Env.
NoOversell == countConfirmed <= capacity

\* With "lower" too, a booking may be confirmed against a capacity that is gone
\* by then, but all of them together stay within the bound that no capacity of the
\* event exceeds.
FitsLargestCapacity == countConfirmed <= MaxCapacity

\* A transaction that can still commit writes over the very status it read:
\* no commit undoes a cancellation, books a user twice or brings a booking
\* back that was withdrawn while it waited for promotion.
NoLostUpdate ==
    \A s \in Sessions : Live(s) => booking[tx[s].row] = tx[s].from

\* A deleted event leaves nothing behind that needs it: no booking row and no
\* promotion job, so the "event not found" of promoteWaitlisted is unreachable.
EventOutlivesBookings ==
    ~exists => /\ \A u \in Users : booking[u] = "NONE"
               /\ \A j \in Jobs : job[j].state = "none"
               /\ \A r \in Requests : req[r].pc \notin {"cancel", "enqueue"}

\* Whoever leaves the waitlist for a seat has waited longest, by createdAt, of
\* those who wait when the promotion commits, not only of those in its snapshot.
PromotesOldest ==
    [][\A u \in Waiting :
         booking'[u] = "CONFIRMED"
            => \A v \in Waiting : createdAt[u] <= createdAt[v]]_vars

-----------------------------------------------------------------------------
(* The inductive invariants behind the safety properties.                  *)

\* A transaction writes a row that was not confirmed, and takes a row off the
\* waitlist only to confirm it.
WritesMakeSense ==
    \A s \in Sessions : IsOpen(s) =>
        /\ tx[s].from # "CONFIRMED"
        /\ tx[s].from = "WAITLISTED" => tx[s].to = "CONFIRMED"

\* A promotion that can still commit has the oldest waiting row in hand.
PromotionsHoldOldest ==
    \A s \in Sessions :
        Live(s) /\ tx[s].from = "WAITLISTED" => tx[s].row \in findOldestWaitlisted

RowsNeedEvent == ~exists => \A u \in Users : booking[u] = "NONE"

\* A cancel, a promotion job and a worker at work all descend from a row.
SomeRow == \E u \in Users : booking[u] # "NONE"
WorkNeedsRows ==
    /\ \A r \in Requests : req[r].pc \in {"cancel", "enqueue"}
                            => booking[req[r].user] # "NONE"
    /\ \A j \in Jobs : job[j].state # "none" => SomeRow
    /\ \A w \in Workers : work[w] # Idle => SomeRow

RowInv == TypeOK /\ NoLostUpdate /\ WritesMakeSense /\ PromotionsHoldOldest
          /\ RowsNeedEvent /\ WorkNeedsRows

\* A transaction that can still commit a seat finds one free when it does.
SeatsAreReserved ==
    \A s \in Sessions :
        Live(s) /\ tx[s].to = "CONFIRMED" => countConfirmed < capacity

\* The capacity createBooking has read is not above the present one.
CapacityIsNotStale ==
    \A r \in Requests :
        req[r].pc \in {"begin", "tx"} => req[r].cap <= capacity

\* The whole inductive invariant of the instances without "lower": between
\* reading the capacity and committing a seat nothing can invalidate either.
SeatInv == RowInv /\ NoOversell /\ SeatsAreReserved /\ CapacityIsNotStale

-----------------------------------------------------------------------------
(* Lost wakeups.                                                           *)

\* The promotions that are still going to look for a seat to give away.
Wakeups ==
    Cardinality({r \in Requests : req[r].pc = "enqueue"})
    + Cardinality({j \in Jobs : /\ job[j].state # "none"
                                /\ \A w \in Workers :
                                     work[w] # [pc |-> "done", job |-> j]})

\* While anybody waits, every free seat has a promotion on its way to it.
FreeSeatsAreOffered ==
    Waiting # {} => capacity - countConfirmed <= Wakeups

\* A transaction is open exactly while the code is inside it.
TransactionsMatch ==
    /\ \A r \in Requests : IsOpen(r) <=> req[r].pc = "tx"
    /\ \A w \in Workers : IsOpen(w) <=> work[w].pc = "tx"

\* The job a worker has in hand is active, and nobody else has it.
JobsHaveOneHolder ==
    \A w \in Workers : work[w] # Idle =>
        /\ job[work[w].job].state = "active"
        /\ \A v \in Workers \ {w} : work[v] # Idle => work[v].job # work[w].job

\* Without "withdraw" cancels are of confirmed bookings; one request at a time,
\* the row is still confirmed at the UPDATE.
CancelsFreeSeats ==
    \A r \in Requests :
        /\ req[r].pc \in {"cancel", "enqueue"} => req[r].seen = "CONFIRMED"
        /\ req[r].pc = "cancel" => booking[req[r].user] = "CONFIRMED"

\* Without "raise" and one request at a time, who joins the waitlist does so while
\* the event is full.
WaitersFindItFull ==
    \A r \in Requests :
        /\ req[r].pc \in {"begin", "tx"} => req[r].cap >= capacity
        /\ IsOpen(r) /\ tx[r].to = "WAITLISTED" => countConfirmed >= capacity

\* What a worker has open is a promotion.
WorkersPromote == \A w \in Workers : IsOpen(w) => tx[w].from = "WAITLISTED"

Enqueuing == {r \in Requests : req[r].pc = "enqueue"}

\* A job whose transaction is doomed may be out of attempts.
Lapsed(j) ==
    \E w \in Workers :
        /\ work[w] # Idle
        /\ work[w].job = j
        /\ work[w].pc = "done" \/ (IsOpen(w) /\ tx[w].doomed)

Seeking == {j \in Jobs : job[j].state # "none" /\ ~Lapsed(j)}

\* Whoever dooms a promotion has taken the seat it was for.
SeatsAreSought ==
    Waiting # {} =>
        capacity - countConfirmed <= Cardinality(Enqueuing) + Cardinality(Seeking)

\* The inductive invariant of the instances in which free seats are offered.
WakeupInv == RowInv /\ TransactionsMatch /\ JobsHaveOneHolder /\ CancelsFreeSeats
             /\ WaitersFindItFull /\ WorkersPromote /\ SeatsAreSought

-----------------------------------------------------------------------------
(* What finishing rests on: nobody waits for anybody, and there is an end  *)
(* to what each request and each job can do.                               *)

RequestCanGoOn(r) ==
    \/ req[r].pc = "begin" /\ ~IsOpen(r)
    \/ req[r].pc = "tx" /\ (Committable(r) \/ SerializationFailure(r) \/ Unretried(r))
    \/ req[r].pc = "cancel"
    \/ req[r].pc = "enqueue" /\ \E j \in Jobs : job[j].state = "none"

WorkerCanGoOn(w) ==
    \/ /\ work[w].pc = "start"
       /\ \/ PromotionThrows(w) \/ countConfirmed >= capacity \/ Waiting = {}
          \/ ~IsOpen(w) /\ findOldestWaitlisted # {}
    \/ work[w].pc = "tx" /\ (Committable(w) \/ PromotionThrows(w))
    \/ work[w].pc = "done"

\* A request that has started and a worker with a job always have a step of their
\* own to take: no transaction is left that can neither commit nor fail, no cancel
\* is without a place in the queue, whatever the others have done meanwhile.
NobodyIsStuck ==
    /\ \A r \in Requests : req[r] # Idle => RequestCanGoOn(r)
    /\ \A w \in Workers : work[w] # Idle => WorkerCanGoOn(w)

\* An upper bound of the steps a request in state q still takes.
RequestSteps(q) ==
    CASE q.pc = "begin"   -> 2 * (MaxRetries - q.attempt)
      [] q.pc = "tx"      -> 2 * (MaxRetries - q.attempt) - 1
      [] q.pc = "cancel"  -> 2
      [] q.pc = "enqueue" -> 1
      [] OTHER            -> 0

\* Every change of a request under way brings it nearer to its answer: nothing, not
\* even a conflict with another booking, sets its retry loop back.
RequestsAreBounded ==
    [][\A r \in Requests :
         req[r] # Idle /\ req'[r] # req[r]
            => RequestSteps(req'[r]) < RequestSteps(req[r])]_vars

\* Where the worker that has job j is with it, when the workers are doing what
\* doing says.
Stage(doing, j) ==
    {doing[w].pc : w \in {v \in Workers : doing[v] # Idle /\ doing[v].job = j}}

\* An upper bound of the steps a job in state q, and at this stage, still takes.
JobSteps(q, stage) ==
    IF q.state = "none" THEN 0
    ELSE 4 * ((JobAttempts - q.failed) + (MaxStalled - q.stalled))
         + (CASE "done" \in stage  -> 0
              [] "tx" \in stage    -> 1
              [] "start" \in stage -> 2
              [] OTHER             -> 3)

\* So does every change of a promotion job, through failures, crashes of the worker
\* that has it and redeliveries to another.
JobsAreBounded ==
    [][\A j \in Jobs :
         (/\ job[j].state # "none"
          /\ job'[j] # job[j] \/ Stage(work', j) # Stage(work, j))
            => JobSteps(job'[j], Stage(work', j)) < JobSteps(job[j], Stage(work, j))]_vars

-----------------------------------------------------------------------------
(* Liveness.                                                               *)

\* A free seat and a waiting user do not stay together for ever.
WaitersAreServed ==
    (Waiting # {} /\ countConfirmed < capacity)
        ~> (Waiting = {} \/ countConfirmed >= capacity)

\* Every request is answered: the retry loop is bounded and nothing in it
\* waits for another request.
RequestsFinish == \A r \in Requests : req[r] # Idle ~> req[r] = Idle

\* Every promotion job leaves the queue, completed or failed for good.
JobsFinish == \A j \in Jobs : job[j].state # "none" ~> job[j].state = "none"
=============================================================================
