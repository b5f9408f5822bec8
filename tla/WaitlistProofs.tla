--------------------------- MODULE WaitlistProofs ---------------------------
(***************************************************************************)
(* Proofs about bookings and the waitlist, for any number of users,        *)
(* requests, workers and jobs and any capacity.                            *)
(***************************************************************************)
EXTENDS WaitlistWorker, FiniteSetTheorems, TLAPS

-----------------------------------------------------------------------------
(* What a step does to the rows and to the open transactions.              *)

\* Why a transaction that writes sets out to do so.
MayBegin(s, u, to) ==
    \/ /\ HasNoLiveRow(u)
       /\ to = "CONFIRMED" => /\ s \in Requests
                              /\ req[s].pc = "begin"
                              /\ countConfirmed < req[s].cap
    \/ /\ to = "CONFIRMED"
       /\ u \in findOldestWaitlisted
       /\ countConfirmed < capacity

\* The transactions of the sessions in S are rolled back.
Drop(S) ==
    /\ tx' = [z \in Sessions |-> IF z \in S THEN NoTx ELSE tx[z]]
    /\ UNCHANGED rowVars

Effect ==
    \/ UNCHANGED storeVars
    \/ \E s \in Sessions, u \in Users, to \in {"CONFIRMED", "WAITLISTED"} :
          Begin(s, u, to) /\ MayBegin(s, u, to)
    \/ \E s \in Sessions : Commit(s)
    \/ \E S \in SUBSET Sessions : Drop(S)
    \/ \E r \in Requests :
          /\ req[r].pc = "cancel"
          /\ req[r].user \in Users
          /\ CancelRow(req[r].user)
    \/ StoreStep

LEMMA RollbackDrops ==
    ASSUME StoreTypeOK, NEW s \in Sessions, RollbackIfOpen(s)
    PROVE  Drop({s})
  BY DEF StoreTypeOK, RollbackIfOpen, Drop

LEMMA ApiEffect ==
    ASSUME TypeOK, ApiStep
    PROVE  Effect
<1>1. CASE CrashServer
  BY <1>1 DEF CrashServer, Drop, Effect, Sessions
<1>2. ASSUME NEW r \in Requests, NewRequest(r)
      PROVE  Effect
  BY <1>2 DEF NewRequest, StartBooking, StartCancel, Effect
<1>3. ASSUME NEW r \in Requests, RequestStep(r)
      PROVE  Effect
  <2> USE DEF TypeOK, ServiceTypeOK
  <2>0. r \in Sessions
    BY DEF Sessions
  <2>1. CASE BookSeat(r)
    <3>1. req[r].user \in Users
      BY <2>1 DEF BookSeat, Idle, BookingReq, CancelReq
    <3>2. Begin(r, req[r].user, "CONFIRMED") /\ MayBegin(r, req[r].user, "CONFIRMED")
      BY <2>1 DEF BookSeat, Write, MayBegin
    <3> QED BY <2>0, <3>1, <3>2 DEF Effect
  <2>2. CASE BookWaitlist(r)
    <3>1. req[r].user \in Users
      BY <2>2 DEF BookWaitlist, Idle, BookingReq, CancelReq
    <3>2. Begin(r, req[r].user, "WAITLISTED") /\ MayBegin(r, req[r].user, "WAITLISTED")
      BY <2>2 DEF BookWaitlist, Write, MayBegin
    <3> QED BY <2>0, <3>1, <3>2 DEF Effect
  <2>3. CASE CommitBooking(r)
    BY <2>0, <2>3 DEF CommitBooking, Effect
  <2>4. CASE RejectBooking(r) \/ RetryBooking(r) \/ GiveUpBooking(r)
    <3>1. RollbackIfOpen(r)
      BY <2>4 DEF RejectBooking, RetryBooking, GiveUpBooking
    <3> QED BY <2>0, <3>1, RollbackDrops DEF Effect
  <2>5. CASE FinishCancel(r)
    <3>1. req[r].user \in Users
      BY <2>5 DEF FinishCancel, Idle, BookingReq, CancelReq
    <3> QED BY <2>5, <3>1 DEF FinishCancel, Effect
  <2>6. CASE AnswerExisting(r) \/ LosePromotion(r) \/ \E j \in Jobs : EnqueuePromotion(r, j)
    BY <2>6 DEF AnswerExisting, LosePromotion, EnqueuePromotion, Effect
  <2> QED BY <1>3, <2>1, <2>2, <2>3, <2>4, <2>5, <2>6 DEF RequestStep
<1> QED BY <1>1, <1>2, <1>3 DEF ApiStep

LEMMA WorkerEffect ==
    ASSUME TypeOK, NEW w \in Workers, WorkerStep(w) \/ CrashWorker(w)
    PROVE  Effect
<1> USE DEF TypeOK, ServiceTypeOK
<1>0. w \in Sessions
  BY DEF Sessions
<1>1. ASSUME NEW u \in Users, PromoteOldest(w, u)
      PROVE  Effect
  <2>1. Begin(w, u, "CONFIRMED") /\ MayBegin(w, u, "CONFIRMED")
    BY <1>1 DEF PromoteOldest, MayBegin
  <2> QED BY <1>0, <2>1 DEF Effect
<1>2. CASE CommitPromotion(w)
  BY <1>0, <1>2 DEF CommitPromotion, Effect
<1>3. CASE FailPromotion(w) \/ CrashWorker(w)
  <2>1. RollbackIfOpen(w)
    BY <1>3 DEF FailPromotion, CrashWorker
  <2> QED BY <1>0, <2>1, RollbackDrops DEF Effect
<1>4. CASE PromoteNobody(w) \/ CompleteJob(w) \/ \E j \in Jobs : TakeJob(w, j)
  BY <1>4 DEF PromoteNobody, CompleteJob, TakeJob, Effect
<1>5. ASSUME NEW u \in Users, SettleConfirmation(w, u)
      PROVE  Effect
  BY <1>5 DEF SettleConfirmation, Effect
<1> QED BY <1>1, <1>2, <1>3, <1>4, <1>5 DEF WorkerStep, PromotionStep

\* Every step of the system has one of six effects on the store.
LEMMA StepEffect ==
    ASSUME TypeOK, [Next]_vars
    PROVE  Effect
<1>1. CASE ApiStep
  BY <1>1, ApiEffect
<1>2. CASE DatabaseStep
  BY <1>2 DEF DatabaseStep, Effect
<1>3. CASE UNCHANGED vars
  BY <1>3 DEF vars, storeVars, Effect
<1> QED BY <1>1, <1>2, <1>3, WorkerEffect DEF Next

-----------------------------------------------------------------------------
(* Types.                                                                  *)

LEMMA EffectKeepsStoreType ==
    ASSUME StoreTypeOK, Effect
    PROVE  StoreTypeOK'
<1> USE DEF StoreTypeOK
<1>1. CASE UNCHANGED storeVars
  BY <1>1 DEF storeVars
<1>2. ASSUME NEW s \in Sessions, NEW u \in Users,
             NEW to \in {"CONFIRMED", "WAITLISTED"}, Begin(s, u, to)
      PROVE  StoreTypeOK'
  <2>1. [row |-> u, from |-> booking[u], to |-> to, stamp |-> clock,
         doomed |-> FALSE] \in Tx
    BY DEF Tx
  <2> QED BY <1>2, <2>1 DEF Begin, rowVars
<1>3. ASSUME NEW s \in Sessions, Commit(s)
      PROVE  StoreTypeOK'
  <2>1. tx[s] \in Tx
    BY <1>3 DEF Commit, Committable, Live, IsOpen
  <2>2. booking' \in [Users -> Status] /\ createdAt' \in [Users -> 0..MaxClock]
    BY <1>3, <2>1 DEF Commit, Tx, Status
  <2>3. \A z \in Sessions : IsOpen(z) => [tx[z] EXCEPT !.doomed = TRUE] \in Tx
    BY DEF IsOpen, Tx
  <2>4. tx' \in [Sessions -> Tx \cup {NoTx}]
    BY <1>3, <2>3 DEF Commit
  <2> QED BY <1>3, <2>2, <2>4 DEF Commit
<1>4. ASSUME NEW S \in SUBSET Sessions, Drop(S)
      PROVE  StoreTypeOK'
  BY <1>4 DEF Drop, rowVars
<1>5. ASSUME NEW u \in Users, CancelRow(u)
      PROVE  StoreTypeOK'
  <2>1. \A z \in Sessions : IsOpen(z) => [tx[z] EXCEPT !.doomed = TRUE] \in Tx
    BY DEF IsOpen, Tx
  <2>2. tx' \in [Sessions -> Tx \cup {NoTx}]
    BY <1>5, <2>1 DEF CancelRow
  <2> QED BY <1>5, <2>2 DEF CancelRow, Status
<1>6. ASSUME NEW c \in Capacities, UpdateCapacity(c)
      PROVE  StoreTypeOK'
  BY <1>6 DEF UpdateCapacity
<1>7. CASE DeleteEvent
  BY <1>7 DEF DeleteEvent
<1>8. CASE Tick
  <2>1. clock' \in 0..MaxClock
    BY <1>8, StoreAssumption DEF Tick
  <2> QED BY <1>8, <2>1 DEF Tick
<1> QED BY <1>1, <1>2, <1>3, <1>4, <1>5, <1>6, <1>7, <1>8 DEF Effect, StoreStep

Request == {Idle} \cup BookingReq \cup CancelReq

LEMMA RequestFields ==
    ASSUME NEW q \in Request
    PROVE  /\ q.pc \in {"begin", "tx"} => q \in BookingReq
           /\ q.pc \in {"cancel", "enqueue"} => q \in CancelReq
           /\ q.pc = "idle" => q = Idle
  BY DEF Request, Idle, BookingReq, CancelReq

LEMMA ApiStepType ==
    ASSUME TypeOK, ApiStep
    PROVE  req' \in [Requests -> Request] /\ job' \in [Jobs -> JobRecord]
<1> USE DEF TypeOK, ServiceTypeOK, Request
<1>1. CASE CrashServer
  BY <1>1 DEF CrashServer
<1>2. ASSUME NEW r \in Requests, NEW u \in Users, StartBooking(r, u)
      PROVE  req' \in [Requests -> Request] /\ job' \in [Jobs -> JobRecord]
  <2>1. [pc |-> "begin", user |-> u, cap |-> capacity, attempt |-> 0] \in BookingReq
    BY ServiceAssumption DEF BookingReq, StoreTypeOK
  <2> QED BY <1>2, <2>1 DEF StartBooking
<1>3. ASSUME NEW r \in Requests, NEW u \in Users,
             NEW actor \in Users \cup {Admin}, StartCancel(r, actor, u)
      PROVE  req' \in [Requests -> Request] /\ job' \in [Jobs -> JobRecord]
  <2>1. [pc |-> "cancel", user |-> u, seen |-> booking[u]] \in CancelReq
    BY <1>3 DEF StartCancel, CancelReq
  <2> QED BY <1>3, <2>1 DEF StartCancel
<1>4. ASSUME NEW r \in Requests, RequestStep(r)
      PROVE  req' \in [Requests -> Request] /\ job' \in [Jobs -> JobRecord]
  <2>1. CASE BookSeat(r) \/ BookWaitlist(r)
    <3>1. /\ req[r].pc = "begin"
          /\ req' = [req EXCEPT ![r].pc = "tx"]
          /\ job' = job
      BY <2>1 DEF BookSeat, BookWaitlist, Write
    <3>2. [req[r] EXCEPT !.pc = "tx"] \in BookingReq
      BY <3>1, RequestFields DEF BookingReq
    <3> QED BY <3>1, <3>2
  <2>2. CASE \/ AnswerExisting(r) \/ CommitBooking(r) \/ RejectBooking(r)
             \/ GiveUpBooking(r) \/ LosePromotion(r)
    BY <2>2 DEF AnswerExisting, CommitBooking, RejectBooking, GiveUpBooking,
                LosePromotion, Finish
  <2>3. CASE RetryBooking(r)
    <3>1. req[r] \in BookingReq
      BY <2>3, RequestFields DEF RetryBooking, SerializationFailure
    <3>2. [req[r] EXCEPT !.pc = "begin", !.attempt = req[r].attempt + 1] \in BookingReq
      BY <2>3, <3>1, ServiceAssumption DEF RetryBooking, BookingReq
    <3> QED BY <2>3, <3>2 DEF RetryBooking
  <2>4. CASE FinishCancel(r)
    <3>1. [req[r] EXCEPT !.pc = "enqueue"] \in CancelReq
      BY <2>4, RequestFields DEF FinishCancel, CancelReq
    <3> QED BY <2>4, <3>1 DEF FinishCancel, Finish
  <2>5. ASSUME NEW j \in Jobs, EnqueuePromotion(r, j)
        PROVE  req' \in [Requests -> Request] /\ job' \in [Jobs -> JobRecord]
    BY <2>5, ServiceAssumption DEF EnqueuePromotion, Finish, NewJob, JobRecord
  <2> QED BY <1>4, <2>1, <2>2, <2>3, <2>4, <2>5 DEF RequestStep
<1> QED BY <1>1, <1>2, <1>3, <1>4 DEF ApiStep, NewRequest

LEMMA GoneJobType == GoneJob \in JobRecord
  BY ServiceAssumption DEF GoneJob, JobRecord

LEMMA WorkerStepType ==
    ASSUME TypeOK, NEW w \in Workers, WorkerStep(w) \/ CrashWorker(w)
    PROVE  /\ req' = req
           /\ job' \in [Jobs -> JobRecord]
           /\ work' \in [Workers -> {Idle} \cup Work]
           /\ outbox' \in [Workers -> SUBSET Users]
<1> DEFINE Typed == /\ req' = req
                    /\ job' \in [Jobs -> JobRecord]
                    /\ work' \in [Workers -> {Idle} \cup Work]
                    /\ outbox' \in [Workers -> SUBSET Users]
<1> USE DEF TypeOK, ServiceTypeOK
<1>1. ASSUME NEW j \in Jobs, TakeJob(w, j)
      PROVE  Typed
  <2>1. [job[j] EXCEPT !.state = "active"] \in JobRecord
    BY DEF JobRecord
  <2>2. [pc |-> "start", job |-> j] \in Work
    BY DEF Work
  <2> QED BY <1>1, <2>1, <2>2 DEF TakeJob
<1>2. ASSUME NEW pc \in {"tx", "done"}, work[w].pc \in {"start", "tx"}
      PROVE  [work EXCEPT ![w].pc = pc] \in [Workers -> {Idle} \cup Work]
  <2>1. work[w] \in Work
    BY <1>2 DEF Idle
  <2>2. [work[w] EXCEPT !.pc = pc] \in Work
    BY <2>1 DEF Work
  <2> QED BY <2>2
<1>3. ASSUME NEW u \in Users, PromoteOldest(w, u)
      PROVE  Typed
  BY <1>2, <1>3 DEF PromoteOldest, GoTo
<1>4. ASSUME NEW u \in Users, SettleConfirmation(w, u)
      PROVE  Typed
  BY <1>4 DEF SettleConfirmation
<1>5. CASE PromoteNobody(w)
  BY <1>2, <1>5 DEF PromoteNobody, GoTo
<1>6. CASE CommitPromotion(w)
  <2>1. tx[w].row \in Users
    BY <1>6 DEF CommitPromotion, Commit, Committable, Live, IsOpen, StoreTypeOK,
                Sessions, Tx
  <2> QED BY <1>2, <1>6, <2>1 DEF CommitPromotion, GoTo
<1>7. CASE FailPromotion(w)
  <2>1. work[w] \in Work
    BY <1>7 DEF FailPromotion, PromotionThrows, Idle
  <2>2. work[w].job \in Jobs
    BY <2>1 DEF Work
  <2>3. job[work[w].job].failed + 1 < JobAttempts =>
           Requeued(job[work[w].job].failed + 1, job[work[w].job].stalled) \in JobRecord
    BY <2>2, ServiceAssumption DEF JobRecord, Requeued
  <2> QED BY <1>7, <2>2, <2>3, GoneJobType DEF FailPromotion
<1>8. CASE CompleteJob(w)
  BY <1>8, GoneJobType DEF CompleteJob
<1>9. CASE CrashWorker(w)
  <2>1. work[w] # Idle => work[w].job \in Jobs
    BY DEF Work
  <2>2. (work[w] # Idle /\ job[work[w].job].stalled < MaxStalled) =>
           Requeued(job[work[w].job].failed, job[work[w].job].stalled + 1) \in JobRecord
    BY <2>1, ServiceAssumption DEF JobRecord, Requeued
  <2> QED BY <1>9, <2>1, <2>2, GoneJobType DEF CrashWorker
<1> QED BY <1>1, <1>3, <1>4, <1>5, <1>6, <1>7, <1>8, <1>9 DEF WorkerStep, PromotionStep

LEMMA InitType ==
    ASSUME Init
    PROVE  TypeOK
<1>1. StoreTypeOK
  BY StoreAssumption DEF Init, ServiceInit, StoreInit, StoreTypeOK, Capacities, Status
<1> QED BY <1>1, GoneJobType DEF Init, ServiceInit, TypeOK, ServiceTypeOK

LEMMA StepType ==
    ASSUME TypeOK, [Next]_vars
    PROVE  TypeOK'
<1>1. StoreTypeOK'
  BY StepEffect, EffectKeepsStoreType DEF TypeOK, ServiceTypeOK
<1>2. CASE ApiStep
  <2>1. work' = work /\ outbox' = outbox
    BY <1>2 DEF ApiStep, workerVars
  <2> QED BY <1>1, <1>2, <2>1, ApiStepType DEF TypeOK, ServiceTypeOK, Request
<1>3. ASSUME NEW w \in Workers, WorkerStep(w) \/ CrashWorker(w)
      PROVE  TypeOK'
  BY <1>1, <1>3, WorkerStepType DEF TypeOK, ServiceTypeOK
<1>4. CASE DatabaseStep
  BY <1>1, <1>4 DEF DatabaseStep, workerVars, TypeOK, ServiceTypeOK
<1>5. CASE UNCHANGED vars
  BY <1>1, <1>5 DEF vars, TypeOK, ServiceTypeOK
<1> QED BY <1>2, <1>3, <1>4, <1>5 DEF Next

\* Every variable keeps its type: in particular no booking request runs its
\* loop more than MaxRetries times and no job is tried more than JobAttempts
\* times, since attempt and failed never leave their ranges.
THEOREM TypeCorrect == Spec => []TypeOK
<1>1. Init => TypeOK
  BY InitType
<1>2. TypeOK /\ [Next]_vars => TypeOK'
  BY StepType
<1> QED BY <1>1, <1>2, PTL DEF Spec
=============================================================================
