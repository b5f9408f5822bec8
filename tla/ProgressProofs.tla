---------------------------- MODULE ProgressProofs ----------------------------
(***************************************************************************)
(* What becomes of requests, promotion jobs and free seats: nobody is      *)
(* stuck, nothing goes on for ever, a free seat is on its way to whoever   *)
(* waits; and when what the documents say of bookings is true.             *)
(***************************************************************************)
EXTENDS SeatProofs, WaitlistClaims, WellFoundedInduction

LEMMA Apart ==
    ASSUME NEW r \in Requests, NEW w \in Workers
    PROVE  r # w /\ r \in Sessions /\ w \in Sessions
  BY StoreAssumption DEF Sessions

-----------------------------------------------------------------------------
(* Who changes what.                                                       *)

\* A request changes by steps of its own, or dies with the process.
LEMMA RequestMoves ==
    ASSUME [Next]_vars, NEW r \in Requests, req'[r] # req[r], TypeOK
    PROVE  ApiStep /\ (CrashServer \/ NewRequest(r) \/ RequestStep(r))
<1>1. ApiStep
  BY WorkerStepType DEF Next, vars, DatabaseStep
<1>2. ASSUME NEW q \in Requests, NewRequest(q) \/ RequestStep(q)
      PROVE  q = r
  BY <1>2 DEF NewRequest, StartBooking, StartCancel, RequestStep, BookSeat, BookWaitlist,
              Write, AnswerExisting, CommitBooking, RejectBooking, RetryBooking,
              GiveUpBooking, FinishCancel, LosePromotion, EnqueuePromotion, Finish, TypeOK,
              ServiceTypeOK
<1> QED BY <1>1, <1>2 DEF ApiStep

\* A worker changes by steps of its own.
LEMMA WorkMoves ==
    ASSUME [Next]_vars, NEW w \in Workers, work'[w] # work[w], TypeOK
    PROVE  PromotionStep(w) \/ CommitPromotion(w) \/ CrashWorker(w)
<1>1. ASSUME NEW v \in Workers, WorkerStep(v) \/ CrashWorker(v)
      PROVE  v = w /\ ~\E u \in Users : SettleConfirmation(v, u)
  BY <1>1 DEF WorkerStep, PromotionStep, CrashWorker, TakeJob, PromoteOldest, PromoteNobody,
              GoTo, CommitPromotion, FailPromotion, CompleteJob, SettleConfirmation, TypeOK
<1>2. ~ApiStep /\ ~DatabaseStep /\ ~UNCHANGED vars
  BY DEF ApiStep, DatabaseStep, workerVars, vars
<1> QED BY <1>1, <1>2 DEF Next, WorkerStep

\* A transaction is opened, committed and rolled back by its own session.
LEMMA OpenElsewhere ==
    ASSUME StoreTypeOK, NEW s \in Sessions, NEW z \in Sessions, z # s,
           \/ \E u \in Users, to \in {"CONFIRMED", "WAITLISTED"} : Begin(s, u, to)
           \/ Commit(s)
           \/ RollbackIfOpen(s)
    PROVE  IsOpen(z)' <=> IsOpen(z)
<1>1. CASE Commit(s)
  <2>1. IsOpen(z) => [tx[z] EXCEPT !.doomed = TRUE] # NoTx
    BY LiveTxType, NoTxAssumption DEF Tx
  <2> QED BY <1>1, <2>1 DEF Commit, IsOpen
<1> QED BY <1>1 DEF Begin, RollbackIfOpen, IsOpen, StoreTypeOK

LEMMA OpenThroughCancel ==
    ASSUME StoreTypeOK, NEW u \in Users, CancelRow(u), NEW z \in Sessions
    PROVE  IsOpen(z)' <=> IsOpen(z)
<1>1. IsOpen(z) => [tx[z] EXCEPT !.doomed = TRUE] # NoTx
  BY LiveTxType, NoTxAssumption DEF Tx
<1> QED BY <1>1 DEF CancelRow, IsOpen

\* What a session that acts is left with.
LEMMA OpenHere ==
    ASSUME StoreTypeOK, NEW s \in Sessions
    PROVE  /\ \A u \in Users, to \in {"CONFIRMED", "WAITLISTED"} :
                 Begin(s, u, to) => IsOpen(s)' /\ tx'[s].to = to /\ ~tx'[s].doomed
           /\ Commit(s) => ~IsOpen(s)'
           /\ RollbackIfOpen(s) => ~IsOpen(s)'
<1>1. ASSUME NEW u \in Users, NEW to \in {"CONFIRMED", "WAITLISTED"}, Begin(s, u, to)
      PROVE  IsOpen(s)' /\ tx'[s].to = to /\ ~tx'[s].doomed
  <2>1. [row |-> u, from |-> booking[u], to |-> to, stamp |-> clock,
         doomed |-> FALSE] \in Tx
    BY DEF Tx, StoreTypeOK
  <2> QED BY <1>1, <2>1, NoTxAssumption DEF Begin, IsOpen, StoreTypeOK
<1> QED BY <1>1 DEF Commit, RollbackIfOpen, IsOpen, StoreTypeOK

-----------------------------------------------------------------------------
(* A transaction is open exactly while its code is inside it.              *)

\* Only s moves, and it matches.
LEMMA MatchFrame ==
    ASSUME TransactionsMatch, NEW s \in Sessions,
           \A z \in Sessions : z # s => (IsOpen(z)' <=> IsOpen(z)),
           \A r \in Requests : r # s => req'[r] = req[r],
           \A w \in Workers : w # s => work'[w] = work[w],
           s \in Requests => (IsOpen(s)' <=> req'[s].pc = "tx"),
           s \in Workers => (IsOpen(s)' <=> work'[s].pc = "tx")
    PROVE  TransactionsMatch'
  BY DEF TransactionsMatch, Sessions

LEMMA RequestMatches ==
    ASSUME TypeOK, TransactionsMatch, NEW r \in Requests, RequestStep(r),
           UNCHANGED workerVars
    PROVE  TransactionsMatch'
<1> USE DEF TypeOK, ServiceTypeOK
<1>1. r \in Sessions /\ r \notin Workers /\ StoreTypeOK
  BY StoreAssumption DEF Sessions
<1>2. /\ \A q \in Requests : q # r => req'[q] = req[q]
      /\ \A w \in Workers : work'[w] = work[w]
  BY DEF workerVars, RequestStep, BookSeat, BookWaitlist, Write, AnswerExisting,
         CommitBooking, RejectBooking, RetryBooking, GiveUpBooking, FinishCancel,
         LosePromotion, EnqueuePromotion, Finish
<1>3. ASSUME NEW to \in {"CONFIRMED", "WAITLISTED"}, Write(r, to), req[r].pc = "begin"
      PROVE  TransactionsMatch'
  <2>1. req[r].user \in Users
    BY <1>3, RequestFields DEF Request, BookingReq
  <2>2. IsOpen(r)' /\ \A z \in Sessions : z # r => (IsOpen(z)' <=> IsOpen(z))
    BY <1>1, <1>3, <2>1, OpenHere, OpenElsewhere DEF Write
  <2>3. req[r] \in BookingReq /\ req'[r] = [req[r] EXCEPT !.pc = "tx"]
    BY <1>3, RequestFields DEF Write, Request
  <2>4. req'[r].pc = "tx"
    BY <2>3 DEF BookingReq
  <2> QED BY <1>1, <1>2, <2>2, <2>4, MatchFrame
<1>4. ASSUME Commit(r) \/ RollbackIfOpen(r), req'[r].pc # "tx"
      PROVE  TransactionsMatch'
  <2>1. ~IsOpen(r)' /\ \A z \in Sessions : z # r => (IsOpen(z)' <=> IsOpen(z))
    BY <1>1, <1>4, OpenHere, OpenElsewhere
  <2> QED BY <1>1, <1>2, <1>4, <2>1, MatchFrame
<1>5. ASSUME tx' = tx, req[r].pc # "tx", req'[r].pc # "tx"
      PROVE  TransactionsMatch'
  <2>1. ~IsOpen(r) /\ \A z \in Sessions : IsOpen(z)' <=> IsOpen(z)
    BY <1>5 DEF TransactionsMatch, IsOpen
  <2> QED BY <1>1, <1>2, <1>5, <2>1, MatchFrame
<1>6. CASE BookSeat(r) \/ BookWaitlist(r)
  BY <1>3, <1>6 DEF BookSeat, BookWaitlist
<1>7. CASE CommitBooking(r) \/ RejectBooking(r) \/ GiveUpBooking(r)
  BY <1>4, <1>7 DEF CommitBooking, RejectBooking, GiveUpBooking, Finish, Idle
<1>8. CASE RetryBooking(r)
  <2>1. req[r] \in BookingReq
    BY <1>8, RequestFields DEF RetryBooking, SerializationFailure, Request
  <2>2. req'[r] = [req[r] EXCEPT !.pc = "begin", !.attempt = req[r].attempt + 1]
    BY <1>8 DEF RetryBooking
  <2>3. req'[r].pc = "begin"
    BY <2>1, <2>2 DEF BookingReq
  <2> QED BY <1>4, <1>8, <2>3 DEF RetryBooking
<1>9. CASE FinishCancel(r)
  <2>1. req[r] \in CancelReq
    BY <1>9, RequestFields DEF FinishCancel, Request
  <2>2. req'[r].pc # "tx"
    BY <1>9, <2>1 DEF FinishCancel, Finish, Idle, CancelReq
  <2>3. \A z \in Sessions : IsOpen(z)' <=> IsOpen(z)
    BY <1>1, <1>9, <2>1, OpenThroughCancel DEF FinishCancel, CancelReq
  <2>4. ~IsOpen(r)
    BY <1>9 DEF FinishCancel, TransactionsMatch
  <2> QED BY <1>1, <1>2, <2>2, <2>3, <2>4, MatchFrame
<1>10. CASE AnswerExisting(r) \/ LosePromotion(r) \/ \E j \in Jobs : EnqueuePromotion(r, j)
  BY <1>5, <1>10 DEF AnswerExisting, LosePromotion, EnqueuePromotion, storeVars, Finish, Idle
<1> QED BY <1>6, <1>7, <1>8, <1>9, <1>10 DEF RequestStep

LEMMA WorkerMatches ==
    ASSUME TypeOK, TransactionsMatch, NEW w \in Workers, WorkerStep(w) \/ CrashWorker(w)
    PROVE  TransactionsMatch'
<1> USE DEF TypeOK, ServiceTypeOK
<1>1. w \in Sessions /\ w \notin Requests /\ StoreTypeOK
  BY StoreAssumption DEF Sessions
<1>2. /\ \A q \in Requests : req'[q] = req[q]
      /\ \A v \in Workers : v # w => work'[v] = work[v]
  BY DEF WorkerStep, PromotionStep, CrashWorker, TakeJob, PromoteOldest, PromoteNobody, GoTo,
         CommitPromotion, FailPromotion, CompleteJob, SettleConfirmation
<1>3. ASSUME NEW u \in Users, PromoteOldest(w, u)
      PROVE  TransactionsMatch'
  <2>1. IsOpen(w)' /\ \A z \in Sessions : z # w => (IsOpen(z)' <=> IsOpen(z))
    BY <1>1, <1>3, OpenHere, OpenElsewhere DEF PromoteOldest
  <2>2. work'[w].pc = "tx"
    BY <1>3 DEF PromoteOldest, GoTo, Idle, Work
  <2> QED BY <1>1, <1>2, <2>1, <2>2, MatchFrame
<1>4. ASSUME Commit(w) \/ RollbackIfOpen(w), work'[w].pc # "tx"
      PROVE  TransactionsMatch'
  <2>1. ~IsOpen(w)' /\ \A z \in Sessions : z # w => (IsOpen(z)' <=> IsOpen(z))
    BY <1>1, <1>4, OpenHere, OpenElsewhere
  <2> QED BY <1>1, <1>2, <1>4, <2>1, MatchFrame
<1>5. ASSUME tx' = tx, work[w].pc = "tx" <=> work'[w].pc = "tx"
      PROVE  TransactionsMatch'
  BY <1>1, <1>2, <1>5 DEF TransactionsMatch, IsOpen
<1>6. CASE CommitPromotion(w)
  BY <1>4, <1>6 DEF CommitPromotion, GoTo, Idle, Work
<1>7. CASE FailPromotion(w) \/ CrashWorker(w)
  BY <1>4, <1>7 DEF FailPromotion, CrashWorker, Idle
<1>8. CASE PromoteNobody(w)
  BY <1>5, <1>8 DEF PromoteNobody, storeVars, GoTo, Idle, Work
<1>9. CASE CompleteJob(w) \/ \E j \in Jobs : TakeJob(w, j)
  BY <1>5, <1>9 DEF CompleteJob, TakeJob, storeVars, Idle
<1>10. CASE \E u \in Users : SettleConfirmation(w, u)
  BY <1>5, <1>10 DEF SettleConfirmation, storeVars
<1> QED BY <1>3, <1>6, <1>7, <1>8, <1>9, <1>10 DEF WorkerStep, PromotionStep

LEMMA TransactionsMatchStep ==
    ASSUME TypeOK, TransactionsMatch, [Next]_vars
    PROVE  TransactionsMatch'
<1>1. ASSUME CrashServer, UNCHANGED workerVars
      PROVE  TransactionsMatch'
  BY <1>1, StoreAssumption
     DEF CrashServer, workerVars, TransactionsMatch, IsOpen, Idle, Sessions
<1>2. ASSUME NEW r \in Requests, NewRequest(r), UNCHANGED workerVars
      PROVE  TransactionsMatch'
  BY <1>2 DEF NewRequest, StartBooking, StartCancel, storeVars, workerVars, TransactionsMatch,
              IsOpen, Idle, TypeOK, ServiceTypeOK
<1>3. CASE DatabaseStep
  BY <1>3 DEF DatabaseStep, StoreStep, UpdateCapacity, DeleteEvent, Tick, workerVars,
              TransactionsMatch, IsOpen
<1>4. CASE UNCHANGED vars
  BY <1>4 DEF vars, storeVars, TransactionsMatch, IsOpen
<1> QED BY <1>1, <1>2, <1>3, <1>4, RequestMatches, WorkerMatches DEF Next, ApiStep

-----------------------------------------------------------------------------
(* A job under way is held by one worker.                                  *)

\* The worker keeps its job, the queue is unchanged.
LEMMA HolderFrame ==
    ASSUME TypeOK, JobsHaveOneHolder, job' = job,
           \A v \in Workers : \/ work'[v] = Idle
                              \/ work[v] # Idle /\ work'[v].job = work[v].job
    PROVE  JobsHaveOneHolder'
<1>1. Idle' = Idle
  BY DEF Idle
<1> QED BY <1>1 DEF JobsHaveOneHolder

\* Worker w takes its hands off job[w], whatever becomes of it.
LEMMA HolderLeaves ==
    ASSUME TypeOK, JobsHaveOneHolder, NEW w \in Workers, work[w] # Idle,
           \A j \in Jobs : j # work[w].job => job'[j] = job[j],
           work' = [work EXCEPT ![w] = Idle]
    PROVE  JobsHaveOneHolder'
<1>1. Idle' = Idle
  BY DEF Idle
<1>2. \A v \in Workers : work[v] # Idle => work[v].job \in Jobs
  BY DEF TypeOK, Work
<1> QED BY <1>1, <1>2 DEF JobsHaveOneHolder, TypeOK

LEMMA JobsHaveOneHolderStep ==
    ASSUME TypeOK, JobsHaveOneHolder, [Next]_vars
    PROVE  JobsHaveOneHolder'
<1> USE DEF TypeOK, ServiceTypeOK
<1>0. \A v \in Workers : work[v] # Idle => work[v] \in Work /\ work[v].job \in Jobs
  BY DEF Work
<1>1. CASE ApiStep
  <2>1. work' = work
    BY <1>1 DEF ApiStep, workerVars
  <2>2. CASE job' = job
    BY <2>1, <2>2, HolderFrame
  <2>3. CASE job' # job
    <3>1. PICK r \in Requests, j \in Jobs : EnqueuePromotion(r, j)
      BY <1>1, <2>3 DEF ApiStep, CrashServer, NewRequest, StartBooking, StartCancel,
            RequestStep, BookSeat, BookWaitlist, Write, AnswerExisting, CommitBooking,
            RejectBooking, RetryBooking, GiveUpBooking, FinishCancel, LosePromotion
    <3>2. \A k \in Jobs : job[k].state = "active" => job'[k] = job[k]
      BY <3>1 DEF EnqueuePromotion
    <3> QED BY <1>0, <2>1, <3>2 DEF JobsHaveOneHolder, Idle
  <2> QED BY <2>2, <2>3
<1>2. ASSUME NEW w \in Workers, NEW j \in Jobs, TakeJob(w, j)
      PROVE  JobsHaveOneHolder'
  <2>1. /\ job[j].state = "waiting"
        /\ job' = [job EXCEPT ![j].state = "active"]
        /\ work' = [work EXCEPT ![w] = [pc |-> "start", job |-> j]]
    BY <1>2 DEF TakeJob
  <2>2. \A v \in Workers \ {w} :
          work'[v] = work[v] /\ (work[v] # Idle => work[v].job # j)
    BY <2>1 DEF JobsHaveOneHolder
  <2>3. work'[w].job = j /\ job'[j].state = "active"
    BY <2>1 DEF JobRecord
  <2>4. \A k \in Jobs : k # j => job'[k] = job[k]
    BY <2>1
  <2> QED BY <1>0, <2>2, <2>3, <2>4 DEF JobsHaveOneHolder, Idle
<1>3. ASSUME NEW w \in Workers,
             \/ \E u \in Users : PromoteOldest(w, u) \/ SettleConfirmation(w, u)
             \/ PromoteNobody(w) \/ CommitPromotion(w)
      PROVE  JobsHaveOneHolder'
  <2>1. job' = job
    BY <1>3 DEF PromoteOldest, SettleConfirmation, PromoteNobody, CommitPromotion
  <2>2. \/ work' = work
        \/ /\ work[w] # Idle
           /\ \E pc \in {"tx", "done"} : work' = [work EXCEPT ![w].pc = pc]
    BY <1>3 DEF PromoteOldest, SettleConfirmation, PromoteNobody, CommitPromotion, GoTo, Idle
  <2>3. \A v \in Workers : \/ work'[v] = Idle
                           \/ work[v] # Idle /\ work'[v].job = work[v].job
    BY <1>0, <2>2 DEF Work
  <2> QED BY <2>1, <2>3, HolderFrame
<1>4. ASSUME NEW w \in Workers, FailPromotion(w) \/ CompleteJob(w) \/ CrashWorker(w)
      PROVE  JobsHaveOneHolder'
  <2>1. work' = [work EXCEPT ![w] = Idle]
    BY <1>4 DEF FailPromotion, CompleteJob, CrashWorker
  <2>2. CASE work[w] = Idle
    <3>1. CrashWorker(w)
      BY <1>4, <2>2 DEF FailPromotion, PromotionThrows, CompleteJob, Idle
    <3>2. job' = job /\ work' = work
      BY <2>1, <2>2, <3>1 DEF CrashWorker
    <3> QED BY <3>2, HolderFrame
  <2>3. CASE work[w] # Idle
    <3>1. \A j \in Jobs : j # work[w].job => job'[j] = job[j]
      BY <1>0, <1>4, <2>3 DEF FailPromotion, CompleteJob, CrashWorker
    <3> QED BY <2>1, <2>3, <3>1, HolderLeaves
  <2> QED BY <2>2, <2>3
<1>5. CASE DatabaseStep \/ UNCHANGED vars
  <2>1. job' = job /\ work' = work
    BY <1>5 DEF DatabaseStep, workerVars, vars
  <2> QED BY <2>1, HolderFrame
<1> QED BY <1>1, <1>2, <1>3, <1>4, <1>5 DEF Next, WorkerStep, PromotionStep

-----------------------------------------------------------------------------
(* Where a cancel comes from, and when the capacity check holds.            *)

\* A cancel is what it was, or has just read its row.
LEMMA SeenOrigin ==
    ASSUME TypeOK, [Next]_vars, NEW r \in Requests,
           req'[r].pc \in {"cancel", "enqueue"}, req'[r] # req[r]
    PROVE  \/ /\ FinishCancel(r)
              /\ req[r].seen = "CONFIRMED"
              /\ req'[r] = [req[r] EXCEPT !.pc = "enqueue"]
           \/ \E u \in Users :
                 /\ req'[r] = [pc |-> "cancel", user |-> u, seen |-> booking[u]]
                 /\ UNCHANGED storeVars
                 /\ booking[u] \in {"CONFIRMED", "WAITLISTED"}
                 /\ booking[u] = "WAITLISTED" => "withdraw" \in Env
<1> USE DEF TypeOK, ServiceTypeOK
<1>1. req'[r] # Idle
  BY DEF Idle
<1>2. ApiStep /\ ~CrashServer
  BY <1>1, RequestMoves DEF CrashServer
<1>3. NewRequest(r) \/ RequestStep(r)
  BY <1>2, RequestMoves
<1>4. ASSUME NEW u \in Users, StartBooking(r, u)
      PROVE  FALSE
  BY <1>4 DEF StartBooking
<1>5. ASSUME NEW u \in Users, NEW actor \in Users \cup {Admin}, StartCancel(r, actor, u)
      PROVE  /\ req'[r] = [pc |-> "cancel", user |-> u, seen |-> booking[u]]
             /\ UNCHANGED storeVars
             /\ booking[u] \in {"CONFIRMED", "WAITLISTED"}
             /\ booking[u] = "WAITLISTED" => "withdraw" \in Env
  BY <1>5 DEF StartCancel
<1>6. ASSUME BookSeat(r) \/ BookWaitlist(r) \/ RetryBooking(r)
      PROVE  FALSE
  <2>1. req[r] \in BookingReq
    BY <1>6, RequestFields DEF BookSeat, BookWaitlist, RetryBooking, SerializationFailure, Request
  <2>2. \/ req'[r] = [req[r] EXCEPT !.pc = "tx"]
        \/ req'[r] = [req[r] EXCEPT !.pc = "begin", !.attempt = req[r].attempt + 1]
    BY <1>6 DEF BookSeat, BookWaitlist, Write, RetryBooking
  <2> QED BY <2>1, <2>2 DEF BookingReq
<1>7. ASSUME RequestStep(r)
      PROVE  /\ FinishCancel(r)
             /\ req[r].seen = "CONFIRMED"
             /\ req'[r] = [req[r] EXCEPT !.pc = "enqueue"]
  <2>1. FinishCancel(r)
    BY <1>1, <1>6, <1>7 DEF RequestStep, AnswerExisting, CommitBooking, RejectBooking,
            GiveUpBooking, LosePromotion, EnqueuePromotion, Finish
  <2> QED BY <1>1, <2>1 DEF FinishCancel, Finish
<1> QED BY <1>3, <1>4, <1>5, <1>7 DEF NewRequest

\* A row is cancelled by the UPDATE of a cancel alone.
LEMMA CancelIsRequested ==
    ASSUME TypeOK, [Next]_vars, NEW u \in Users,
           booking[u] # "CANCELLED", booking'[u] = "CANCELLED"
    PROVE  \E r \in Requests : FinishCancel(r) /\ req[r].user = u
<1> USE DEF TypeOK, ServiceTypeOK, StoreTypeOK
<1>1. ASSUME NEW s \in Sessions, Commit(s)
      PROVE  FALSE
  <2>1. tx[s] \in Tx
    BY <1>1, LiveTxType DEF Commit, Committable, Live
  <2> QED BY <1>1, <2>1 DEF Commit, Tx
<1>2. ASSUME NEW w \in Workers, WorkerStep(w) \/ CrashWorker(w)
      PROVE  FALSE
  BY <1>1, <1>2 DEF WorkerStep, PromotionStep, CrashWorker, TakeJob, PromoteOldest,
        PromoteNobody, CommitPromotion, FailPromotion, CompleteJob, SettleConfirmation,
        RollbackIfOpen, Begin, storeVars, rowVars, Sessions
<1>3. ~DatabaseStep /\ ~UNCHANGED vars
  BY DEF DatabaseStep, StoreStep, UpdateCapacity, DeleteEvent, Tick, vars, storeVars
<1>4. ~CrashServer /\ \A r \in Requests : ~NewRequest(r)
  BY DEF CrashServer, NewRequest, StartBooking, StartCancel, storeVars, rowVars
<1>5. PICK r \in Requests : RequestStep(r)
  BY <1>2, <1>3, <1>4 DEF Next, ApiStep
<1>6. FinishCancel(r)
  BY <1>1, <1>5 DEF RequestStep, BookSeat, BookWaitlist, Write, Begin, AnswerExisting,
        CommitBooking, RejectBooking, RetryBooking, GiveUpBooking, LosePromotion,
        EnqueuePromotion, RollbackIfOpen, storeVars, rowVars, Sessions
<1> QED BY <1>6 DEF FinishCancel, CancelRow

\* "the capacity check above is inside the Serializable transaction" comes true as
\* long as nobody lowers the capacity: the one createBooking has read before its
\* loop is then never above the one its transaction would find.
THEOREM CapacityCheckHolds == "lower" \notin Env => (Spec => CapacityCheckedInTransaction)
<1> SUFFICES ASSUME "lower" \notin Env
             PROVE  Spec => CapacityCheckedInTransaction
  OBVIOUS
<1>1. SeatInv /\ [Next]_vars =>
        [\A r \in Requests :
           (~IsOpen(r) /\ tx'[r] # NoTx /\ tx'[r].to = "CONFIRMED")
              => countConfirmed < capacity]_vars
  <2> SUFFICES ASSUME SeatInv, [Next]_vars, NEW r \in Requests,
                      ~IsOpen(r), tx'[r] # NoTx, tx'[r].to = "CONFIRMED"
               PROVE  countConfirmed < capacity
    OBVIOUS
  <2> USE DEF SeatInv, RowInv
  <2>1. TypeOK /\ StoreTypeOK /\ Effect /\ r \in Sessions /\ req \in [Requests -> Request]
    BY StepEffect, TypeIsStoreType DEF TypeOK, ServiceTypeOK, Sessions, Request
  <2>2. ~\E s \in Sessions : Commit(s)
    BY <2>1, AfterCommit DEF IsOpen
  <2>3. ~\E u \in Users : CancelRow(u)
    BY <2>1, AfterCancel DEF IsOpen
  <2>4. ~\E S \in SUBSET Sessions : Drop(S)
    BY <2>1, AfterDrop DEF IsOpen
  <2>5. ~UNCHANGED storeVars /\ ~StoreStep
    BY DEF storeVars, StoreStep, UpdateCapacity, DeleteEvent, Tick, IsOpen
  <2>6. PICK s \in Sessions, u \in Users, to \in {"CONFIRMED", "WAITLISTED"} :
           Begin(s, u, to) /\ MayBegin(s, u, to)
    BY <2>1, <2>2, <2>3, <2>4, <2>5 DEF Effect
  <2>7. s = r /\ to = "CONFIRMED"
    BY <2>1, <2>6, AfterBegin DEF IsOpen
  <2>8. CASE req[r].pc = "begin" /\ countConfirmed < req[r].cap
    <3>1. req[r].cap \in Nat /\ req[r].cap <= capacity
      BY <2>1, <2>8, RequestFields, StoreAssumption
         DEF BookingReq, Capacities, CapacityIsNotStale
    <3>2. countConfirmed \in Nat /\ capacity \in Nat
      BY <2>1, CountType, StoreAssumption
         DEF countConfirmed, Confirmed, StoreTypeOK, Capacities
    <3> QED BY <2>8, <3>1, <3>2
  <2> QED BY <2>6, <2>7, <2>8 DEF MayBegin
<1> QED BY <1>1, SeatInvariant, PTL DEF Spec, CapacityCheckedInTransaction

-----------------------------------------------------------------------------
(* Lost wakeups, one request and one worker at a time.                     *)

LEMMA WorkersPromoteStep ==
    ASSUME TypeOK, WorkersPromote, TransactionsMatch, TransactionsMatch', [Next]_vars
    PROVE  WorkersPromote'
<1> SUFFICES ASSUME NEW w \in Workers, IsOpen(w)'
             PROVE  tx'[w].from = "WAITLISTED"
  BY DEF WorkersPromote
<1>0. w \in Sessions /\ StoreTypeOK /\ Effect
  BY StepEffect, TypeIsStoreType DEF Sessions
<1>1. CASE IsOpen(w)
  <2>1. \A s \in Sessions, u \in Users, to \in {"CONFIRMED", "WAITLISTED"} :
          Begin(s, u, to) => tx'[w] = tx[w]
    BY <1>0, <1>1 DEF Begin, StoreTypeOK
  <2>2. tx'[w].from = tx[w].from
    BY <1>0, <2>1, AfterCommit, AfterCancel, AfterDrop
       DEF Effect, storeVars, StoreStep, UpdateCapacity, DeleteEvent, Tick
  <2> QED BY <1>1, <2>2 DEF WorkersPromote
<1>2. CASE ~IsOpen(w)
  <2>1. work[w].pc # "tx" /\ work'[w].pc = "tx"
    BY <1>2 DEF TransactionsMatch
  <2>2. PICK u \in Users : PromoteOldest(w, u)
    BY <2>1, WorkMoves DEF PromotionStep, TakeJob, PromoteNobody, GoTo, FailPromotion,
          CompleteJob, CommitPromotion, CrashWorker, Idle, Work, TypeOK
  <2>3. booking[u] = "WAITLISTED" /\ tx'[w].from = booking[u]
    BY <1>0, <2>2, AfterBegin DEF PromoteOldest, findOldestWaitlisted, Waiting
  <2> QED BY <2>3
<1> QED BY <1>1, <1>2

LEMMA FreeType ==
    ASSUME StoreTypeOK
    PROVE  capacity \in Nat /\ countConfirmed \in Nat
  BY CountType, StoreAssumption DEF countConfirmed, Confirmed, StoreTypeOK, Capacities

LEMMA SeekersType ==
    /\ IsFiniteSet(Enqueuing) /\ Cardinality(Enqueuing) \in Nat
    /\ IsFiniteSet(Seeking) /\ Cardinality(Seeking) \in Nat
  BY ServiceAssumption, FS_Subset, FS_CardinalityType DEF Enqueuing, Seeking

\* A commit takes exactly one seat: the row it writes was not confirmed.
LEMMA SeatTaken ==
    ASSUME RowInv, NEW s \in Sessions, Commit(s), tx[s].to = "CONFIRMED"
    PROVE  countConfirmed' = countConfirmed + 1 /\ Waiting' \subseteq Waiting
<1>1. StoreTypeOK
  BY TypeIsStoreType DEF RowInv
<1>2. tx[s] \in Tx /\ booking[tx[s].row] # "CONFIRMED"
  BY <1>1, LiveTxType DEF Commit, Committable, Live, RowInv, NoLostUpdate, WritesMakeSense
<1>3. tx[s].row \in Users \ Confirmed
  BY <1>2 DEF Tx, Confirmed
<1>4. \A v \in Users : booking'[v] = IF v = tx[s].row THEN "CONFIRMED" ELSE booking[v]
  BY <1>1 DEF Commit, StoreTypeOK
<1>5. Confirmed' = Confirmed \cup {tx[s].row} /\ Waiting' \subseteq Waiting
  BY <1>3, <1>4 DEF Confirmed, Waiting
<1>6. IsFiniteSet(Confirmed)
  BY CountType DEF Confirmed
<1> QED BY <1>3, <1>5, <1>6, FS_AddElement DEF countConfirmed

LEMMA SeatFreed ==
    ASSUME StoreTypeOK, NEW u \in Confirmed, CancelRow(u)
    PROVE  countConfirmed' = countConfirmed - 1 /\ Waiting' = Waiting
<1>1. \A v \in Users : booking'[v] = IF v = u THEN "CANCELLED" ELSE booking[v]
  BY DEF CancelRow, StoreTypeOK
<1>2. Confirmed' = Confirmed \ {u} /\ Waiting' = Waiting
  BY <1>1 DEF Confirmed, Waiting
<1>3. IsFiniteSet(Confirmed)
  BY CountType DEF Confirmed
<1> QED BY <1>2, <1>3, FS_RemoveElement DEF countConfirmed

\* A confirmed row is left alone by every commit.
LEMMA ConfirmedStays ==
    ASSUME RowInv, [Next]_vars, NEW u \in Users, booking[u] = "CONFIRMED",
           booking'[u] # "CONFIRMED"
    PROVE  \E r \in Requests : FinishCancel(r) /\ req[r].user = u
<1>1. TypeOK /\ StoreTypeOK /\ Effect
  BY StepEffect, TypeIsStoreType DEF RowInv
<1>2. ASSUME NEW s \in Sessions, Commit(s)
      PROVE  FALSE
  <2>1. booking[tx[s].row] # "CONFIRMED"
    BY <1>1, <1>2 DEF Commit, Committable, Live, RowInv, NoLostUpdate, WritesMakeSense
  <2> QED BY <1>1, <1>2, <2>1 DEF Commit, StoreTypeOK
<1>3. booking'[u] = "CANCELLED"
  BY <1>1, <1>2 DEF Effect, storeVars, Begin, Drop, rowVars, CancelRow, StoreStep,
                    UpdateCapacity, DeleteEvent, Tick, StoreTypeOK
<1> QED BY <1>1, <1>3, CancelIsRequested

\* Without "raise" the capacity only goes down.
LEMMA CapacityShrinks ==
    ASSUME StoreTypeOK, Effect, "raise" \notin Env
    PROVE  capacity \in Nat /\ capacity' \in Nat /\ capacity' <= capacity
<1>1. capacity \in Nat
  BY FreeType
<1>2. ASSUME NEW c \in Capacities, UpdateCapacity(c)
      PROVE  capacity' \in Nat /\ capacity' <= capacity
  BY <1>1, <1>2, StoreAssumption DEF UpdateCapacity, Capacities
<1>3. CASE UNCHANGED capacity
  BY <1>1, <1>3
<1> QED BY <1>1, <1>2, <1>3 DEF Effect, storeVars, Begin, Commit, Drop, CancelRow, rowVars,
                          StoreStep, DeleteEvent, Tick

OneAtATime ==
    /\ Env \subseteq {"lower", "delete"}
    /\ \A r, q \in Requests : r = q
    /\ \A v, w \in Workers : v = w

LEMMA CancelsFreeSeatsStep ==
    ASSUME RowInv, CancelsFreeSeats, [Next]_vars, OneAtATime
    PROVE  CancelsFreeSeats'
<1> SUFFICES ASSUME NEW r \in Requests, req'[r].pc \in {"cancel", "enqueue"}
             PROVE  /\ req'[r].seen = "CONFIRMED"
                    /\ req'[r].pc = "cancel" => booking'[req'[r].user] = "CONFIRMED"
  BY DEF CancelsFreeSeats
<1>0. TypeOK /\ StoreTypeOK
  BY TypeIsStoreType DEF RowInv
<1>1. CASE req'[r] = req[r]
  <2>1. req[r].seen = "CONFIRMED"
    BY <1>1 DEF CancelsFreeSeats
  <2>2. ASSUME req[r].pc = "cancel", booking'[req[r].user] # "CONFIRMED"
        PROVE  FALSE
    <3>1. req[r] \in CancelReq
      BY <1>0, <2>2, RequestFields DEF TypeOK, ServiceTypeOK, Request
    <3>2. req[r].user \in Users /\ booking[req[r].user] = "CONFIRMED"
      BY <2>2, <3>1 DEF CancelsFreeSeats, CancelReq
    <3>3. FinishCancel(r)
      BY <2>2, <3>2, ConfirmedStays DEF OneAtATime
    <3>4. req'[r].pc # "cancel"
      BY <1>0, <3>1, <3>3 DEF FinishCancel, Finish, Idle, CancelReq, TypeOK, ServiceTypeOK
    <3> QED BY <1>1, <2>2, <3>4
  <2> QED BY <1>1, <2>1, <2>2
<1>2. CASE FinishCancel(r) /\ req'[r] = [req[r] EXCEPT !.pc = "enqueue"]
  <2>1. req[r] \in CancelReq
    BY <1>0, <1>2, RequestFields DEF FinishCancel, TypeOK, ServiceTypeOK, Request
  <2> QED BY <1>2, <2>1 DEF FinishCancel, CancelsFreeSeats, CancelReq
<1>3. ASSUME NEW u \in Users,
             req'[r] = [pc |-> "cancel", user |-> u, seen |-> booking[u]],
             UNCHANGED storeVars, booking[u] = "CONFIRMED"
      PROVE  req'[r].seen = "CONFIRMED" /\ booking'[req'[r].user] = "CONFIRMED"
  BY <1>3 DEF storeVars
<1> QED BY <1>0, <1>1, <1>2, <1>3, SeenOrigin DEF OneAtATime

\* A transaction of a request is opened by the two writes of createBooking.
LEMMA RequestOpens ==
    ASSUME TypeOK, TransactionsMatch, TransactionsMatch', [Next]_vars, NEW r \in Requests,
           ~IsOpen(r), IsOpen(r)'
    PROVE  BookSeat(r) \/ BookWaitlist(r)
<1> USE DEF TypeOK, ServiceTypeOK
<1>1. req[r].pc # "tx" /\ req'[r].pc = "tx"
  BY DEF TransactionsMatch
<1>2. NewRequest(r) \/ RequestStep(r)
  <2>1. ~CrashServer
    BY <1>1 DEF CrashServer, Idle
  <2> QED BY <1>1, <2>1, RequestMoves
<1>3. ~NewRequest(r)
  BY <1>1 DEF NewRequest, StartBooking, StartCancel
<1>4. ~FinishCancel(r)
  <2> SUFFICES ASSUME FinishCancel(r)
               PROVE  FALSE
    OBVIOUS
  <2>1. req[r] \in CancelReq
    BY RequestFields DEF FinishCancel, Request
  <2> QED BY <1>1, <2>1 DEF FinishCancel, Finish, Idle, CancelReq
<1>5. ~RetryBooking(r)
  <2> SUFFICES ASSUME RetryBooking(r)
               PROVE  FALSE
    OBVIOUS
  <2>1. req[r] \in BookingReq
    BY RequestFields DEF RetryBooking, SerializationFailure, Request
  <2>2. req'[r] = [req[r] EXCEPT !.pc = "begin", !.attempt = req[r].attempt + 1]
    BY DEF RetryBooking
  <2> QED BY <1>1, <2>1, <2>2 DEF BookingReq
<1> QED BY <1>1, <1>2, <1>3, <1>4, <1>5
        DEF RequestStep, AnswerExisting, CommitBooking, RejectBooking, GiveUpBooking,
            LosePromotion, EnqueuePromotion, Finish, Idle

LEMMA WaitersFindItFullStep ==
    ASSUME RowInv, TransactionsMatch, TransactionsMatch', WaitersFindItFull, [Next]_vars,
           OneAtATime
    PROVE  WaitersFindItFull'
<1>0. TypeOK /\ StoreTypeOK /\ StoreTypeOK' /\ Effect
  BY StepEffect, StepType, TypeIsStoreType DEF RowInv, TypeOK, ServiceTypeOK
<1>1. capacity \in Nat /\ capacity' \in Nat /\ capacity' <= capacity
  BY <1>0, CapacityShrinks DEF OneAtATime
<1>2. ASSUME NEW r \in Requests, req'[r].pc \in {"begin", "tx"}
      PROVE  req'[r].cap >= capacity'
  <2>1. CASE req[r].pc \in {"begin", "tx"} /\ req'[r].cap = req[r].cap
    <3>1. req[r].cap \in Nat /\ req[r].cap >= capacity
      BY <1>0, <2>1, RequestFields, StoreAssumption
         DEF TypeOK, ServiceTypeOK, Request, BookingReq, Capacities, WaitersFindItFull
    <3> QED BY <1>1, <2>1, <3>1
  <2>2. CASE req'[r].cap = capacity
    BY <1>1, <2>2
  <2> QED BY <1>0, <1>2, <2>1, <2>2, CapOrigin
<1>3. ASSUME NEW r \in Requests, IsOpen(r)', tx'[r].to = "WAITLISTED"
      PROVE  countConfirmed' >= capacity'
  <2>0. countConfirmed \in Nat /\ countConfirmed' \in Nat /\ r \in Sessions
    BY <1>0, CountType DEF countConfirmed, Confirmed, Sessions
  <2>1. CASE ~IsOpen(r)
    <3>1. BookSeat(r) \/ BookWaitlist(r)
      BY <1>0, <1>3, <2>1, RequestOpens
    <3>2. req[r] \in BookingReq /\ req[r].pc = "begin"
      BY <1>0, <3>1, RequestFields
         DEF BookSeat, BookWaitlist, TypeOK, ServiceTypeOK, Request
    <3>3. ~BookSeat(r)
      BY <1>0, <1>3, <2>0, <3>2, AfterBegin DEF BookSeat, Write, BookingReq
    <3>4. countConfirmed >= req[r].cap /\ countConfirmed' = countConfirmed
      BY <3>1, <3>3 DEF BookWaitlist, Write, Begin, rowVars, countConfirmed, Confirmed
    <3>5. req[r].cap \in Nat /\ req[r].cap >= capacity
      BY <3>2, StoreAssumption DEF BookingReq, Capacities, WaitersFindItFull
    <3> QED BY <1>1, <2>0, <3>4, <3>5
  <2>2. CASE IsOpen(r)
    <3>1. \A s \in Sessions, u \in Users, to \in {"CONFIRMED", "WAITLISTED"} :
            Begin(s, u, to) => tx'[r] = tx[r]
      BY <1>0, <2>0, <2>2 DEF Begin, StoreTypeOK
    <3>2. tx'[r].to = tx[r].to
      BY <1>0, <1>3, <2>0, <3>1, AfterCommit, AfterCancel, AfterDrop
         DEF Effect, storeVars, StoreStep, UpdateCapacity, DeleteEvent, Tick
    <3>3. countConfirmed >= capacity
      BY <1>3, <2>2, <3>2 DEF WaitersFindItFull
    <3>4. req[r].pc = "tx"
      BY <2>2 DEF TransactionsMatch
    <3>5. \A q \in Requests : ~FinishCancel(q)
      BY <3>4 DEF FinishCancel, OneAtATime
    <3>6. Confirmed \subseteq Confirmed' /\ IsFiniteSet(Confirmed')
      BY <3>5, ConfirmedStays, CountType DEF Confirmed
    <3>7. countConfirmed <= countConfirmed'
      BY <3>6, FS_Subset DEF countConfirmed
    <3> QED BY <1>1, <2>0, <3>3, <3>7
  <2> QED BY <2>1, <2>2
<1> QED BY <1>2, <1>3 DEF WaitersFindItFull

\* Nobody is without a seat that is free.
LEMMA FullIsSought ==
    ASSUME TypeOK', capacity' <= countConfirmed' \/ Waiting' = {}
    PROVE  SeatsAreSought'
<1>1. capacity' \in Nat /\ countConfirmed' \in Nat
  BY CountType, StoreAssumption
     DEF countConfirmed, Confirmed, TypeOK, ServiceTypeOK, StoreTypeOK, Capacities
<1>2. Cardinality(Enqueuing') \in Nat /\ Cardinality(Seeking') \in Nat
  BY ServiceAssumption, FS_Subset, FS_CardinalityType DEF Enqueuing, Seeking
<1> QED BY <1>1, <1>2 DEF SeatsAreSought

LEMMA Balance ==
    ASSUME NEW c \in Int, NEW d \in Int, NEW c1 \in Int, NEW d1 \in Int,
           NEW e \in Int, NEW s \in Int, NEW e1 \in Int, NEW s1 \in Int,
           c - d <= e + s, c1 <= c,
           \/ d1 = d     /\ e1 >= e     /\ s1 >= s
           \/ d1 = d + 1 /\ e1 >= e     /\ s1 >= s - 1
           \/ d1 = d - 1 /\ e1 >= e + 1 /\ s1 >= s
           \/ d1 = d     /\ e1 >= e - 1 /\ s1 >= s + 1
    PROVE  c1 - d1 <= e1 + s1
  OBVIOUS

\* Seats and promotions balance: a seat taken for a promotion that ends, a promotion
\* for a seat that becomes free, a job for a request that ends.
LEMMA SoughtStep ==
    ASSUME TypeOK, TypeOK', SeatsAreSought, Waiting' \subseteq Waiting,
           capacity' <= capacity,
           \/ /\ countConfirmed' = countConfirmed
              /\ Cardinality(Enqueuing') >= Cardinality(Enqueuing)
              /\ Cardinality(Seeking') >= Cardinality(Seeking)
           \/ /\ countConfirmed' = countConfirmed + 1
              /\ Cardinality(Enqueuing') >= Cardinality(Enqueuing)
              /\ Cardinality(Seeking') >= Cardinality(Seeking) - 1
           \/ /\ countConfirmed' = countConfirmed - 1
              /\ Cardinality(Enqueuing') >= Cardinality(Enqueuing) + 1
              /\ Cardinality(Seeking') >= Cardinality(Seeking)
           \/ /\ countConfirmed' = countConfirmed
              /\ Cardinality(Enqueuing') >= Cardinality(Enqueuing) - 1
              /\ Cardinality(Seeking') >= Cardinality(Seeking) + 1
    PROVE  SeatsAreSought'
<1>1. /\ capacity \in Int /\ countConfirmed \in Int
      /\ capacity' \in Int /\ countConfirmed' \in Int
  BY CountType, StoreAssumption
     DEF countConfirmed, Confirmed, TypeOK, ServiceTypeOK, StoreTypeOK, Capacities
<1>2. /\ Cardinality(Enqueuing) \in Int /\ Cardinality(Seeking) \in Int
      /\ Cardinality(Enqueuing') \in Int /\ Cardinality(Seeking') \in Int
  BY SeekersType, ServiceAssumption, FS_Subset, FS_CardinalityType DEF Enqueuing, Seeking
<1>3. Waiting' # {} =>
        capacity - countConfirmed <= Cardinality(Enqueuing) + Cardinality(Seeking)
  BY DEF SeatsAreSought
<1>4. Waiting' # {} =>
        capacity' - countConfirmed' <= Cardinality(Enqueuing') + Cardinality(Seeking')
  BY <1>1, <1>2, <1>3, Balance
<1> QED BY <1>4 DEF SeatsAreSought

\* Promotions and free seats as before, or more of the one and fewer of the other.
LEMMA SoughtFrame ==
    ASSUME TypeOK, TypeOK', SeatsAreSought, Waiting' \subseteq Waiting,
           capacity' <= capacity, countConfirmed' = countConfirmed,
           Enqueuing \subseteq Enqueuing', Seeking \subseteq Seeking'
    PROVE  SeatsAreSought'
<1>1. /\ Cardinality(Enqueuing') >= Cardinality(Enqueuing)
      /\ Cardinality(Seeking') >= Cardinality(Seeking)
  BY SeekersType, ServiceAssumption, FS_Subset, FS_CardinalityType DEF Enqueuing, Seeking
<1> QED BY <1>1, SoughtStep

\* No worker moves, and none is newly doomed.
LEMMA SeekingStays ==
    ASSUME UNCHANGED <<job, work>>,
           \A w \in Workers : IsOpen(w)' /\ tx'[w].doomed => IsOpen(w) /\ tx[w].doomed
    PROVE  Seeking \subseteq Seeking'
<1>1. Idle' = Idle
  BY DEF Idle
<1> QED BY <1>1 DEF Seeking, Lapsed

LEMMA OneFewer ==
    ASSUME NEW S, NEW T, NEW x, IsFiniteSet(S), IsFiniteSet(T), S \ {x} \subseteq T
    PROVE  Cardinality(T) >= Cardinality(S) - 1
<1>1. /\ IsFiniteSet(S \ {x})
      /\ Cardinality(S \ {x}) = IF x \in S THEN Cardinality(S) - 1 ELSE Cardinality(S)
  BY FS_RemoveElement
<1>2. Cardinality(S \ {x}) <= Cardinality(T)
  BY FS_Subset
<1> QED BY <1>1, <1>2, FS_CardinalityType

LEMMA OneMoreIn ==
    ASSUME NEW S, NEW T, NEW x, IsFiniteSet(S), IsFiniteSet(T), x \notin S,
           S \cup {x} \subseteq T
    PROVE  Cardinality(T) >= Cardinality(S) + 1
<1>1. IsFiniteSet(S \cup {x}) /\ Cardinality(S \cup {x}) = Cardinality(S) + 1
  BY FS_AddElement
<1>2. Cardinality(S \cup {x}) <= Cardinality(T)
  BY FS_Subset
<1> QED BY <1>1, <1>2, FS_CardinalityType

LEMMA SeekersFinite ==
    /\ IsFiniteSet(Enqueuing) /\ IsFiniteSet(Enqueuing')
    /\ IsFiniteSet(Seeking) /\ IsFiniteSet(Seeking')
  BY ServiceAssumption, FS_Subset DEF Enqueuing, Seeking

\* The request opens or gives up a transaction, or has none.
LEMMA RequestSeeks ==
    ASSUME WakeupInv, TypeOK', NEW r \in Requests, UNCHANGED workerVars, OneAtATime,
           \/ BookSeat(r) \/ BookWaitlist(r) \/ AnswerExisting(r)
           \/ RejectBooking(r) \/ RetryBooking(r) \/ GiveUpBooking(r) \/ NewRequest(r)
    PROVE  SeatsAreSought'
<1> USE DEF WakeupInv, RowInv
<1>1. UNCHANGED rowVars /\ job' = job /\ work' = work
  BY DEF BookSeat, BookWaitlist, Write, Begin, AnswerExisting, RejectBooking, RetryBooking,
         GiveUpBooking, RollbackIfOpen, NewRequest, StartBooking, StartCancel, storeVars,
         rowVars, workerVars
<1>2. Waiting' = Waiting /\ countConfirmed' = countConfirmed /\ capacity' = capacity
  BY <1>1 DEF rowVars, Waiting, countConfirmed, Confirmed
<1>3. \A w \in Workers : tx'[w] = tx[w]
  BY Apart DEF BookSeat, BookWaitlist, Write, Begin, AnswerExisting, RejectBooking,
               RetryBooking, GiveUpBooking, RollbackIfOpen, NewRequest, StartBooking,
               StartCancel, storeVars, TypeOK, ServiceTypeOK, StoreTypeOK
<1>4. Seeking \subseteq Seeking'
  BY <1>1, <1>3, SeekingStays DEF IsOpen
<1>5. req[r].pc # "enqueue"
  BY DEF BookSeat, BookWaitlist, AnswerExisting, RejectBooking, Unretried, RetryBooking,
         GiveUpBooking, SerializationFailure, NewRequest, StartBooking, StartCancel, Idle
<1>6. Enqueuing \subseteq Enqueuing'
  BY <1>5 DEF Enqueuing, OneAtATime
<1>7. capacity' <= capacity
  BY <1>2, FreeType, TypeIsStoreType
<1> QED BY <1>2, <1>4, <1>6, <1>7, SoughtFrame

LEMMA CommitSeeks ==
    ASSUME WakeupInv, TypeOK', NEW r \in Requests, CommitBooking(r),
           UNCHANGED workerVars, OneAtATime
    PROVE  SeatsAreSought'
<1> USE DEF WakeupInv, RowInv
<1>1. /\ StoreTypeOK /\ r \in Sessions /\ Commit(r) /\ job' = job /\ work' = work
      /\ tx[r] \in Tx /\ IsOpen(r) /\ capacity' = capacity
  BY TypeIsStoreType, LiveTxType
     DEF CommitBooking, Commit, Committable, Live, Sessions, workerVars
<1>2. capacity \in Nat /\ countConfirmed \in Nat
  BY <1>1, FreeType
<1>3. CASE tx[r].to = "WAITLISTED"
  <2>1. countConfirmed >= capacity
    BY <1>1, <1>3 DEF WaitersFindItFull
  <2>2. \A u \in Confirmed : booking'[u] = "CONFIRMED"
    <3>1. booking[tx[r].row] # "CONFIRMED"
      BY <1>1 DEF Commit, Committable, Live, NoLostUpdate, WritesMakeSense
    <3> QED BY <1>1, <3>1 DEF Commit, StoreTypeOK, Confirmed
  <2>3. Confirmed \subseteq Confirmed' /\ IsFiniteSet(Confirmed')
    BY <2>2, CountType DEF Confirmed
  <2>4. countConfirmed <= countConfirmed' /\ countConfirmed' \in Nat
    BY <2>3, FS_Subset, FS_CardinalityType DEF countConfirmed
  <2>5. capacity' <= countConfirmed'
    BY <1>1, <1>2, <2>1, <2>4
  <2> QED BY <2>5, FullIsSought
<1>4. CASE tx[r].to = "CONFIRMED"
  <2>1. countConfirmed' = countConfirmed + 1 /\ Waiting' \subseteq Waiting
    BY <1>1, <1>4, SeatTaken
  <2>2. req[r].pc = "tx"
    BY DEF CommitBooking
  <2>3. Enqueuing \subseteq Enqueuing'
    BY <2>2 DEF Enqueuing, OneAtATime
  <2>4. Cardinality(Enqueuing') >= Cardinality(Enqueuing)
    BY <2>3, SeekersFinite, FS_Subset, FS_CardinalityType
  <2>5. Cardinality(Seeking') >= Cardinality(Seeking) - 1
    <3>1. CASE \E w \in Workers : TRUE
      <4>1. PICK w \in Workers : \A v \in Workers : v = w
        BY <3>1 DEF OneAtATime
      <4>2. Idle' = Idle
        BY DEF Idle
      <4>3. Seeking \ {work[w].job} \subseteq Seeking'
        BY <1>1, <4>1, <4>2 DEF Seeking, Lapsed
      <4> QED BY <4>3, SeekersFinite, OneFewer
    <3>2. CASE ~\E w \in Workers : TRUE
      <4>1. Seeking \subseteq Seeking'
        BY <1>1, <3>2 DEF Seeking, Lapsed
      <4>2. Cardinality(Seeking') >= Cardinality(Seeking)
        BY <4>1, SeekersFinite, FS_Subset, FS_CardinalityType
      <4>3. Cardinality(Seeking) \in Nat /\ Cardinality(Seeking') \in Nat
        BY SeekersFinite, FS_CardinalityType
      <4> QED BY <4>2, <4>3
    <3> QED BY <3>1, <3>2
  <2>6. capacity' <= capacity
    BY <1>1, <1>2
  <2> QED BY <2>1, <2>4, <2>5, <2>6, SoughtStep
<1> QED BY <1>1, <1>3, <1>4 DEF Tx

LEMMA CancelSeeks ==
    ASSUME WakeupInv, TypeOK', NEW r \in Requests, FinishCancel(r), UNCHANGED workerVars
    PROVE  SeatsAreSought'
<1> USE DEF WakeupInv, RowInv
<1>1. StoreTypeOK /\ req[r] \in CancelReq /\ job' = job /\ work' = work /\ capacity' = capacity
  BY TypeIsStoreType, RequestFields
     DEF FinishCancel, CancelRow, TypeOK, ServiceTypeOK, Request, workerVars
<1> DEFINE u == req[r].user
<1>2. u \in Confirmed /\ CancelRow(u) /\ req[r].seen = "CONFIRMED"
  BY <1>1 DEF FinishCancel, CancelsFreeSeats, CancelReq, Confirmed
<1>3. countConfirmed' = countConfirmed - 1 /\ Waiting' = Waiting
  BY <1>1, <1>2, SeatFreed
<1>4. req' = [req EXCEPT ![r].pc = "enqueue"]
  BY <1>2 DEF FinishCancel
<1>5. r \notin Enqueuing /\ Enqueuing \cup {r} \subseteq Enqueuing'
  BY <1>1, <1>4 DEF FinishCancel, Enqueuing, CancelReq, TypeOK, ServiceTypeOK
<1>6. Cardinality(Enqueuing') >= Cardinality(Enqueuing) + 1
  BY <1>5, SeekersFinite, OneMoreIn
<1>7. ASSUME NEW w \in Workers, IsOpen(w)', tx'[w].doomed
      PROVE  IsOpen(w) /\ tx[w].doomed
  <2>1. w \in Sessions /\ IsOpen(w)
    BY <1>1, <1>2, <1>7, AfterCancel DEF Sessions, Confirmed
  <2>2. ASSUME ~tx[w].doomed
        PROVE  tx[w].row # u
    BY <1>2, <2>1, <2>2 DEF NoLostUpdate, WritesMakeSense, Live, Confirmed
  <2>3. tx[w].row # u => tx'[w] = tx[w]
    BY <1>2, <2>1 DEF CancelRow
  <2> QED BY <1>7, <2>1, <2>2, <2>3
<1>8. Seeking \subseteq Seeking'
  BY <1>1, <1>7, SeekingStays
<1>9. Cardinality(Seeking') >= Cardinality(Seeking)
  BY <1>8, SeekersFinite, FS_Subset, FS_CardinalityType
<1>10. capacity' <= capacity
  BY <1>1, FreeType
<1> QED BY <1>3, <1>6, <1>9, <1>10, SoughtStep

LEMMA EnqueueSeeks ==
    ASSUME WakeupInv, TypeOK', NEW r \in Requests, NEW j \in Jobs, EnqueuePromotion(r, j),
           UNCHANGED workerVars
    PROVE  SeatsAreSought'
<1> USE DEF WakeupInv, RowInv
<1>1. UNCHANGED storeVars /\ work' = work
  BY DEF EnqueuePromotion, workerVars
<1>2. Waiting' = Waiting /\ countConfirmed' = countConfirmed /\ capacity' = capacity
  BY <1>1 DEF storeVars, Waiting, countConfirmed, Confirmed
<1>3. Enqueuing \ {r} \subseteq Enqueuing'
  BY DEF EnqueuePromotion, Finish, Enqueuing
<1>4. Cardinality(Enqueuing') >= Cardinality(Enqueuing) - 1
  BY <1>3, SeekersFinite, OneFewer
<1>5. j \notin Seeking
  BY DEF EnqueuePromotion, Seeking
<1>6. Idle' = Idle
  BY DEF Idle
<1>7. \A k \in Jobs : Lapsed(k)' <=> Lapsed(k)
  BY <1>1, <1>6 DEF Lapsed, IsOpen, storeVars
<1>8. \A k \in Jobs : job'[k].state = IF k = j THEN "waiting" ELSE job[k].state
  BY DEF EnqueuePromotion, NewJob, TypeOK, ServiceTypeOK
<1>9. ~Lapsed(j)
  BY DEF EnqueuePromotion, Lapsed, JobsHaveOneHolder
<1>10. Seeking \cup {j} \subseteq Seeking'
  BY <1>7, <1>8, <1>9 DEF Seeking
<1>11. Cardinality(Seeking') >= Cardinality(Seeking) + 1
  BY <1>5, <1>10, SeekersFinite, OneMoreIn
<1>12. capacity' <= capacity
  BY <1>2, FreeType, TypeIsStoreType
<1> QED BY <1>2, <1>4, <1>11, <1>12, SoughtStep

\* The worker gives up its job, which was not seeking any more.
LEMMA GoneSeeks ==
    ASSUME WakeupInv, NEW w \in Workers, OneAtATime, work[w] # Idle, Lapsed(work[w].job),
           \A j \in Jobs : j # work[w].job => job'[j] = job[j],
           work' = [work EXCEPT ![w] = Idle]
    PROVE  Seeking \subseteq Seeking'
<1> USE DEF WakeupInv, RowInv, TypeOK
<1>1. Idle' = Idle
  BY DEF Idle
<1>2. \A k \in Jobs : ~Lapsed(k)'
  BY <1>1 DEF Lapsed, OneAtATime
<1> QED BY <1>2 DEF Seeking

LEMMA WorkerSeeks ==
    ASSUME WakeupInv, TypeOK', NEW w \in Workers, WorkerStep(w), OneAtATime
    PROVE  SeatsAreSought'
<1> USE DEF WakeupInv, RowInv
<1>1. StoreTypeOK /\ w \in Sessions /\ req' = req /\ Enqueuing' = Enqueuing
  BY TypeIsStoreType, WorkerStepType DEF Sessions, Enqueuing
<1>2. capacity \in Nat /\ countConfirmed \in Nat /\ Idle' = Idle
  BY <1>1, FreeType DEF Idle
<1>3. work[w] # Idle => work[w] \in Work
  BY DEF TypeOK
<1>4. ASSUME UNCHANGED rowVars, Seeking \subseteq Seeking'
      PROVE  SeatsAreSought'
  <2>1. Waiting' = Waiting /\ countConfirmed' = countConfirmed /\ capacity' = capacity
    BY <1>4 DEF rowVars, Waiting, countConfirmed, Confirmed
  <2>2. capacity' <= capacity
    BY <1>2, <2>1
  <2> QED BY <1>1, <1>4, <2>1, <2>2, SoughtFrame
<1>5. ASSUME NEW j \in Jobs, TakeJob(w, j)
      PROVE  SeatsAreSought'
  <2>1. ~IsOpen(w) /\ ~IsOpen(w)'
    BY <1>5 DEF TakeJob, TransactionsMatch, Idle, storeVars, IsOpen
  <2>2. work'[w].pc = "start" /\ work[w] = Idle
    BY <1>5 DEF TakeJob, TypeOK
  <2>3. \A k \in Jobs : ~Lapsed(k)'
    BY <2>1, <2>2 DEF Lapsed, OneAtATime
  <2>4. \A k \in Jobs : job'[k].state # "none" <=> job[k].state # "none"
    BY <1>5 DEF TakeJob, TypeOK, ServiceTypeOK, JobRecord
  <2>5. Seeking \subseteq Seeking'
    BY <2>3, <2>4 DEF Seeking
  <2> QED BY <1>4, <1>5, <2>5 DEF TakeJob, storeVars, rowVars
<1>6. ASSUME NEW u \in Users, PromoteOldest(w, u)
      PROVE  SeatsAreSought'
  <2>1. ~tx'[w].doomed
    BY <1>1, <1>6, OpenHere DEF PromoteOldest
  <2>2. work[w] # Idle /\ work'[w].pc = "tx"
    BY <1>3, <1>6 DEF PromoteOldest, GoTo, Idle, Work, TypeOK
  <2>3. \A k \in Jobs : ~Lapsed(k)'
    BY <2>1, <2>2 DEF Lapsed, OneAtATime
  <2>4. Seeking \subseteq Seeking'
    BY <1>6, <2>3 DEF PromoteOldest, Seeking
  <2> QED BY <1>4, <1>6, <2>4 DEF PromoteOldest, Begin
<1>7. CASE PromoteNobody(w)
  <2>1. UNCHANGED rowVars /\ (countConfirmed >= capacity \/ Waiting = {})
    BY <1>7 DEF PromoteNobody, storeVars, rowVars
  <2>2. Waiting' = Waiting /\ countConfirmed' = countConfirmed /\ capacity' = capacity
    BY <2>1 DEF rowVars, Waiting, countConfirmed, Confirmed
  <2>3. capacity' <= countConfirmed' \/ Waiting' = {}
    BY <1>2, <2>1, <2>2
  <2> QED BY <2>3, FullIsSought
<1>8. CASE CommitPromotion(w)
  <2>1. Commit(w) /\ IsOpen(w) /\ tx[w].to = "CONFIRMED"
    BY <1>1, <1>8 DEF CommitPromotion, Commit, Committable, Live, WorkersPromote,
                      WritesMakeSense
  <2>2. countConfirmed' = countConfirmed + 1 /\ Waiting' \subseteq Waiting
    BY <1>1, <2>1, SeatTaken
  <2>3. \A k \in Jobs : Lapsed(k)' => k = work[w].job
    BY <1>3, <1>8 DEF CommitPromotion, GoTo, Lapsed, OneAtATime, TypeOK, Idle, Work
  <2>4. Seeking \ {work[w].job} \subseteq Seeking'
    BY <1>8, <2>3 DEF CommitPromotion, Seeking
  <2>5. Cardinality(Seeking') >= Cardinality(Seeking) - 1
    BY <2>4, SeekersFinite, OneFewer
  <2>6. Cardinality(Enqueuing') >= Cardinality(Enqueuing)
    BY <1>1, SeekersType
  <2>7. capacity' <= capacity
    BY <1>2, <2>1 DEF Commit
  <2> QED BY <2>2, <2>5, <2>6, <2>7, SoughtStep
<1>9. CASE FailPromotion(w)
  <2>1. UNCHANGED rowVars /\ PromotionThrows(w) /\ work' = [work EXCEPT ![w] = Idle]
    BY <1>9 DEF FailPromotion, RollbackIfOpen
  <2>2. CASE work[w].pc = "start"
    <3>1. ~exists
      BY <2>1, <2>2 DEF PromotionThrows, OneAtATime
    <3>2. \A u \in Users : booking'[u] = "NONE"
      BY <2>1, <3>1 DEF rowVars, RowsNeedEvent
    <3>3. Waiting' = {}
      BY <3>2 DEF Waiting
    <3> QED BY <3>3, FullIsSought
  <2>3. CASE work[w].pc = "tx" /\ tx[w].doomed
    <3>1. IsOpen(w) /\ work[w] # Idle
      BY <2>3 DEF TransactionsMatch, Idle
    <3>2. Lapsed(work[w].job)
      BY <2>3, <3>1 DEF Lapsed
    <3>3. \A j \in Jobs : j # work[w].job => job'[j] = job[j]
      BY <1>9 DEF FailPromotion, TypeOK, ServiceTypeOK
    <3>4. Seeking \subseteq Seeking'
      BY <2>1, <3>1, <3>2, <3>3, GoneSeeks
    <3> QED BY <1>4, <2>1, <3>4
  <2> QED BY <2>1, <2>2, <2>3 DEF PromotionThrows, OneAtATime
<1>10. CASE CompleteJob(w)
  <2>1. work[w] # Idle /\ Lapsed(work[w].job)
    BY <1>10 DEF CompleteJob, Lapsed, Idle
  <2>2. \A j \in Jobs : j # work[w].job => job'[j] = job[j]
    BY <1>10 DEF CompleteJob, TypeOK, ServiceTypeOK
  <2>3. Seeking \subseteq Seeking'
    BY <1>10, <2>1, <2>2, GoneSeeks DEF CompleteJob
  <2> QED BY <1>4, <1>10, <2>3 DEF CompleteJob, storeVars, rowVars
<1>11. CASE \E u \in Users : SettleConfirmation(w, u)
  <2>1. UNCHANGED storeVars /\ job' = job /\ work' = work
    BY <1>11 DEF SettleConfirmation
  <2>2. Seeking \subseteq Seeking'
    BY <2>1, SeekingStays DEF storeVars, IsOpen
  <2> QED BY <1>4, <2>1, <2>2 DEF storeVars, rowVars
<1> QED BY <1>5, <1>6, <1>7, <1>8, <1>9, <1>10, <1>11 DEF WorkerStep, PromotionStep

LEMMA DatabaseSeeks ==
    ASSUME WakeupInv, TypeOK', OneAtATime, DatabaseStep \/ UNCHANGED vars
    PROVE  SeatsAreSought'
<1>1. UNCHANGED <<booking, tx, req, job, work>>
  BY DEF DatabaseStep, StoreStep, UpdateCapacity, DeleteEvent, Tick, workerVars, vars, storeVars
<1>2. Waiting' = Waiting /\ countConfirmed' = countConfirmed /\ Enqueuing' = Enqueuing
  BY <1>1 DEF Waiting, countConfirmed, Confirmed, Enqueuing
<1>3. Seeking \subseteq Seeking'
  BY <1>1, SeekingStays DEF IsOpen
<1>4. TypeOK /\ SeatsAreSought
  BY DEF WakeupInv, RowInv
<1>5. capacity' <= capacity
  <2>1. capacity \in Nat
    BY <1>4, FreeType, TypeIsStoreType
  <2>2. ASSUME NEW c \in Capacities, UpdateCapacity(c)
        PROVE  capacity' <= capacity
    BY <2>1, <2>2, StoreAssumption DEF UpdateCapacity, Capacities, OneAtATime
  <2>3. CASE UNCHANGED capacity
    BY <2>1, <2>3
  <2> QED BY <2>2, <2>3 DEF DatabaseStep, StoreStep, DeleteEvent, Tick, vars, storeVars
<1> QED BY <1>2, <1>3, <1>4, <1>5, SoughtFrame

LEMMA WakeupStep ==
    ASSUME WakeupInv, [Next]_vars, OneAtATime
    PROVE  WakeupInv'
<1>1. RowInv /\ RowInv' /\ TypeOK /\ TypeOK'
  BY StepRowInv DEF WakeupInv, RowInv
<1>2. TransactionsMatch' /\ JobsHaveOneHolder'
  BY <1>1, TransactionsMatchStep, JobsHaveOneHolderStep DEF WakeupInv
<1>3. CancelsFreeSeats' /\ WaitersFindItFull' /\ WorkersPromote'
  BY <1>1, <1>2, CancelsFreeSeatsStep, WaitersFindItFullStep, WorkersPromoteStep
     DEF WakeupInv
<1>4. SeatsAreSought'
  <2>1. ASSUME NEW r \in Requests, NewRequest(r) \/ RequestStep(r), UNCHANGED workerVars
        PROVE  SeatsAreSought'
    <3>1. ~LosePromotion(r)
      BY DEF LosePromotion, OneAtATime
    <3> QED BY <1>1, <2>1, <3>1, RequestSeeks, CommitSeeks, CancelSeeks, EnqueueSeeks
            DEF RequestStep
  <2>2. ~CrashServer /\ \A w \in Workers : ~CrashWorker(w)
    BY DEF CrashServer, CrashWorker, OneAtATime
  <2> QED BY <1>1, <2>1, <2>2, WorkerSeeks, DatabaseSeeks DEF Next, ApiStep
<1> QED BY <1>1, <1>2, <1>3, <1>4 DEF WakeupInv

LEMMA InitWakeupInv ==
    ASSUME Init
    PROVE  WakeupInv
<1>1. RowInv
  BY InitRowInv
<1>2. /\ \A s \in Sessions : ~IsOpen(s)
      /\ \A r \in Requests : req[r].pc = "idle"
      /\ \A w \in Workers : work[w] = Idle /\ work[w].pc = "idle"
  BY DEF Init, ServiceInit, StoreInit, IsOpen, Idle
<1>4. TransactionsMatch /\ JobsHaveOneHolder /\ WorkersPromote
  BY <1>2 DEF TransactionsMatch, JobsHaveOneHolder, WorkersPromote, Sessions
<1>5. CancelsFreeSeats /\ WaitersFindItFull
  BY <1>2 DEF CancelsFreeSeats, WaitersFindItFull, Sessions
<1>3. Waiting = {}
  BY DEF Init, ServiceInit, StoreInit, Waiting
<1> QED BY <1>1, <1>3, <1>4, <1>5 DEF WakeupInv, SeatsAreSought

\* The promotions that seek a seat are among those that wake somebody up.
LEMMA SeekersWakeUp ==
    ASSUME WakeupInv
    PROVE  FreeSeatsAreOffered
<1> DEFINE Woken == {j \in Jobs : /\ job[j].state # "none"
                                  /\ \A w \in Workers :
                                       work[w] # [pc |-> "done", job |-> j]}
<1>1. Seeking \subseteq Woken
  <2> SUFFICES ASSUME NEW j \in Jobs, ~Lapsed(j), NEW w \in Workers,
                      work[w] = [pc |-> "done", job |-> j]
               PROVE  FALSE
    BY DEF Seeking
  <2> QED BY DEF Lapsed, Idle
<1>2. IsFiniteSet(Woken) /\ Cardinality(Woken) \in Nat
  BY ServiceAssumption, FS_Subset, FS_CardinalityType
<1>3. Cardinality(Seeking) <= Cardinality(Woken)
  BY <1>1, <1>2, FS_Subset
<1>4. capacity \in Nat /\ countConfirmed \in Nat
  BY FreeType, TypeIsStoreType DEF WakeupInv, RowInv
<1>5. Wakeups = Cardinality(Enqueuing) + Cardinality(Woken)
  BY DEF Wakeups, Enqueuing
<1>6. Waiting # {} =>
        capacity - countConfirmed <= Cardinality(Enqueuing) + Cardinality(Seeking)
  BY DEF WakeupInv, SeatsAreSought
<1> HIDE DEF Woken
<1>7. Waiting # {} =>
        capacity - countConfirmed <= Cardinality(Enqueuing) + Cardinality(Woken)
  BY <1>2, <1>3, <1>4, <1>6, SeekersType
<1> QED BY <1>5, <1>7 DEF FreeSeatsAreOffered

\* One request and one worker at a time, nobody withdrawing and nothing failing,
\* the inductive invariant of the wakeups holds in every reachable state.
THEOREM WakeupInvariant ==
    ASSUME Env \subseteq {"lower", "delete"},
           \A r, q \in Requests : r = q,
           \A v, w \in Workers : v = w
    PROVE  Spec => []WakeupInv
<1>1. OneAtATime
  BY DEF OneAtATime
<1>2. Init => WakeupInv
  BY InitWakeupInv
<1>3. WakeupInv /\ [Next]_vars => WakeupInv'
  BY <1>1, WakeupStep
<1> QED BY <1>2, <1>3, PTL DEF Spec

\* Then no wakeup is lost: with any number of users, seats, jobs and attempts, each
\* free seat has a promotion of its own on the way while anybody waits.
THEOREM SeatsStayOffered ==
    ASSUME Env \subseteq {"lower", "delete"},
           \A r, q \in Requests : r = q,
           \A v, w \in Workers : v = w
    PROVE  Spec => []FreeSeatsAreOffered
<1>1. WakeupInv => FreeSeatsAreOffered
  BY SeekersWakeUp
<1> QED BY <1>1, WakeupInvariant, PTL

-----------------------------------------------------------------------------
(* Nobody is stuck.                                                        *)

\* There is an id for the job of every cancel on its way.
JobIdsSuffice ==
    Cardinality({r \in Requests : req[r].pc \in {"cancel", "enqueue"}})
        <= Cardinality({j \in Jobs : job[j].state = "none"})

\* Somebody has waited longest.
LEMMA OldestExists ==
    ASSUME StoreTypeOK, Waiting # {}
    PROVE  findOldestWaitlisted # {}
<1> DEFINE T == {createdAt[u] : u \in Waiting}
<1>1. T \subseteq Nat /\ T # {}
  BY StoreAssumption DEF StoreTypeOK, Waiting
<1> HIDE DEF T
<1>2. PICK t \in T : \A x \in T : ~(<<x, t>> \in OpToRel(<, Nat))
  BY <1>1, NatLessThanWellFounded, WFMin
<1>3. \A x \in T : ~(x < t)
  BY <1>1, <1>2 DEF OpToRel
<1> USE DEF T
<1>4. PICK u \in Waiting : t = createdAt[u]
  BY <1>2
<1>5. \A v \in Waiting : createdAt[u] <= createdAt[v]
  <2> SUFFICES ASSUME NEW v \in Waiting
               PROVE  createdAt[u] <= createdAt[v]
    OBVIOUS
  <2>1. createdAt[v] \in T /\ createdAt[v] \in Nat /\ createdAt[u] \in Nat
    BY <1>1, <1>4
  <2> QED BY <1>3, <1>4, <2>1
<1> QED BY <1>4, <1>5 DEF findOldestWaitlisted

\* Cancels on their way, and ids that are free, in terms of what a step changes.
Cancels == {r \in Requests : req[r].pc \in {"cancel", "enqueue"}}
FreeIds == {j \in Jobs : job[j].state = "none"}

LEMMA IdsFinite ==
    /\ IsFiniteSet(Cancels) /\ IsFiniteSet(Cancels')
    /\ IsFiniteSet(FreeIds) /\ IsFiniteSet(FreeIds')
    /\ Cardinality(Cancels) \in Int /\ Cardinality(Cancels') \in Int
    /\ Cardinality(FreeIds) \in Int /\ Cardinality(FreeIds') \in Int
  BY ServiceAssumption, FS_Subset, FS_CardinalityType DEF Cancels, FreeIds

LEMMA JobIdsFrame ==
    ASSUME JobIdsSuffice, Cancels' \subseteq Cancels, FreeIds \subseteq FreeIds'
    PROVE  JobIdsSuffice'
<1>1. /\ Cardinality(Cancels') <= Cardinality(Cancels)
      /\ Cardinality(FreeIds) <= Cardinality(FreeIds')
  BY IdsFinite, FS_Subset
<1>2. Cardinality(Cancels) <= Cardinality(FreeIds)
  BY DEF JobIdsSuffice, Cancels, FreeIds
<1>3. Cardinality(Cancels') <= Cardinality(FreeIds')
  BY <1>1, <1>2, IdsFinite
<1> QED BY <1>3 DEF JobIdsSuffice, Cancels, FreeIds

LEMMA JobIdsSufficeStep ==
    ASSUME TypeOK, JobsHaveOneHolder, JobIdsSuffice, [Next]_vars
    PROVE  JobIdsSuffice'
<1> USE DEF TypeOK, ServiceTypeOK
<1>1. CASE CrashServer
  <2>1. Cancels' \subseteq Cancels /\ FreeIds' = FreeIds
    BY <1>1 DEF CrashServer, Cancels, FreeIds, Idle
  <2> QED BY <2>1, JobIdsFrame
<1>2. ASSUME NEW r \in Requests, NEW u \in Users, StartBooking(r, u)
      PROVE  JobIdsSuffice'
  <2>1. Cancels' \subseteq Cancels /\ FreeIds' = FreeIds
    BY <1>2 DEF StartBooking, Cancels, FreeIds
  <2> QED BY <2>1, JobIdsFrame
<1>3. ASSUME NEW r \in Requests, NEW u \in Users,
             NEW actor \in Users \cup {Admin}, StartCancel(r, actor, u)
      PROVE  JobIdsSuffice'
  <2>1. Cancels' \subseteq Cancels \cup {r} /\ FreeIds' = FreeIds
    BY <1>3 DEF StartCancel, Cancels, FreeIds
  <2>2. Cardinality(Cancels') <= Cardinality(Cancels \cup {r})
    BY <2>1, IdsFinite, OneMore, FS_Subset
  <2>3. /\ Cardinality(Cancels \cup {r}) <= Cardinality(Cancels) + 1
        /\ Cardinality(Cancels \cup {r}) \in Int
    <3>1. IsFiniteSet(Cancels)
      BY IdsFinite
    <3>2. /\ Cardinality(Cancels \cup {r}) \in Nat
          /\ Cardinality(Cancels \cup {r}) <= Cardinality(Cancels) + 1
      BY <3>1, OneMore
    <3> QED BY <3>2
  <2>4. Cardinality(Cancels) < Cardinality(FreeIds)
    BY <1>3 DEF StartCancel, JobIdLeft, Cancels, FreeIds
  <2>5. Cardinality(Cancels') <= Cardinality(FreeIds)
    BY <2>2, <2>3, <2>4, IdsFinite
  <2>6. Cardinality(Cancels') <= Cardinality(FreeIds')
    BY <2>1, <2>5
  <2> QED BY <2>6 DEF JobIdsSuffice, Cancels, FreeIds
<1>4. ASSUME NEW r \in Requests, NEW j \in Jobs, EnqueuePromotion(r, j)
      PROVE  JobIdsSuffice'
  <2>1. r \in Cancels /\ Cancels' \subseteq Cancels \ {r} /\ FreeIds \ {j} \subseteq FreeIds'
    BY <1>4 DEF EnqueuePromotion, Finish, Idle, Cancels, FreeIds
  <2>2. IsFiniteSet(Cancels \ {r}) /\ Cardinality(Cancels \ {r}) = Cardinality(Cancels) - 1
    BY <2>1, IdsFinite, FS_RemoveElement
  <2>3. Cardinality(Cancels') <= Cardinality(Cancels \ {r})
    BY <2>1, <2>2, FS_Subset
  <2>4. Cardinality(FreeIds') >= Cardinality(FreeIds) - 1
    BY <2>1, IdsFinite, OneFewer
  <2>5. Cardinality(Cancels) <= Cardinality(FreeIds)
    BY DEF JobIdsSuffice, Cancels, FreeIds
  <2>6. Cardinality(Cancels') <= Cardinality(FreeIds')
    BY <2>2, <2>3, <2>4, <2>5, IdsFinite
  <2> QED BY <2>6 DEF JobIdsSuffice, Cancels, FreeIds
<1>5. ASSUME NEW r \in Requests, RequestStep(r), ~\E j \in Jobs : EnqueuePromotion(r, j)
      PROVE  JobIdsSuffice'
  <2>1. job' = job /\ \A q \in Requests : q # r => req'[q] = req[q]
    BY <1>5 DEF RequestStep, BookSeat, BookWaitlist, Write, AnswerExisting, CommitBooking,
          RejectBooking, RetryBooking, GiveUpBooking, FinishCancel, LosePromotion, Finish
  <2>2. req'[r].pc \in {"cancel", "enqueue"} => req[r].pc \in {"cancel", "enqueue"}
    <3>1. req[r].pc = "cancel" \/ req'[r] = Idle \/ req[r] \in BookingReq
      BY <1>5, RequestFields
         DEF RequestStep, BookSeat, BookWaitlist, AnswerExisting, CommitBooking,
             RejectBooking, RetryBooking, SerializationFailure, GiveUpBooking, FinishCancel,
             LosePromotion, Finish, Request
    <3>2. ASSUME req[r] \in BookingReq
          PROVE  req'[r] = Idle \/ req'[r].pc \in {"begin", "tx"}
      <4>1. \/ req'[r] = Idle
            \/ req'[r] = [req[r] EXCEPT !.pc = "tx"]
            \/ req'[r] = [req[r] EXCEPT !.pc = "begin", !.attempt = req[r].attempt + 1]
        BY <1>5, <3>2
           DEF RequestStep, BookSeat, BookWaitlist, Write, AnswerExisting, CommitBooking,
               RejectBooking, RetryBooking, GiveUpBooking, FinishCancel, LosePromotion,
               Finish, BookingReq
      <4> QED BY <3>2, <4>1 DEF BookingReq
    <3> QED BY <3>1, <3>2 DEF Idle
  <2>3. Cancels' \subseteq Cancels /\ FreeIds' = FreeIds
    BY <2>1, <2>2 DEF Cancels, FreeIds
  <2> QED BY <2>3, JobIdsFrame
<1>6. ASSUME NEW w \in Workers, WorkerStep(w) \/ CrashWorker(w)
      PROVE  JobIdsSuffice'
  <2>1. req' = req
    BY <1>6, WorkerStepType
  <2>2. FreeIds \subseteq FreeIds'
    <3> SUFFICES ASSUME NEW j \in Jobs, job[j].state = "none", job'[j] # job[j]
                 PROVE  FALSE
      BY DEF FreeIds
    <3>1. work[w] # Idle => work[w].job # j
      BY DEF JobsHaveOneHolder
    <3>2. work[w].pc \in {"start", "tx", "done"} => work[w] # Idle
      BY DEF Idle
    <3> QED BY <1>6, <3>1, <3>2
            DEF WorkerStep, PromotionStep, CrashWorker, TakeJob, PromoteOldest, PromoteNobody,
                CommitPromotion, FailPromotion, PromotionThrows, CompleteJob,
                SettleConfirmation
  <2> QED BY <2>1, <2>2, JobIdsFrame DEF Cancels
<1>7. CASE DatabaseStep \/ UNCHANGED vars
  <2>1. Cancels' = Cancels /\ FreeIds' = FreeIds
    BY <1>7 DEF DatabaseStep, vars, Cancels, FreeIds
  <2> QED BY <2>1, JobIdsFrame
<1> QED BY <1>1, <1>2, <1>3, <1>4, <1>5, <1>6, <1>7 DEF Next, ApiStep, NewRequest

LEMMA NoOneStuck ==
    ASSUME RowInv, TransactionsMatch, JobIdsSuffice
    PROVE  NobodyIsStuck
<1> USE DEF RowInv, TypeOK, ServiceTypeOK
<1>1. StoreTypeOK
  OBVIOUS
<1>2. ASSUME NEW r \in Requests, req[r] # Idle
      PROVE  RequestCanGoOn(r)
  <2>1. req[r].pc \in {"begin", "tx", "cancel", "enqueue"}
    BY <1>2 DEF BookingReq, CancelReq
  <2>2. CASE req[r].pc = "begin"
    BY <2>2 DEF RequestCanGoOn, TransactionsMatch
  <2>3. CASE req[r].pc = "tx"
    <3>1. IsOpen(r)
      BY <2>3 DEF TransactionsMatch
    <3>2. CASE tx[r].doomed
      BY <2>3, <3>2 DEF RequestCanGoOn, SerializationFailure
    <3>3. CASE ~tx[r].doomed
      BY <2>3, <3>1, <3>3 DEF RequestCanGoOn, Committable, Live, Unretried
    <3> QED BY <3>2, <3>3
  <2>4. CASE req[r].pc = "enqueue"
    <3>1. Cancels # {}
      BY <2>4 DEF Cancels
    <3>2. Cardinality(Cancels) # 0
      BY <3>1, IdsFinite, FS_EmptySet
    <3>3. Cardinality(Cancels) <= Cardinality(FreeIds) /\ Cardinality(Cancels) \in Nat
      BY IdsFinite, FS_CardinalityType DEF JobIdsSuffice, Cancels, FreeIds
    <3>4. FreeIds # {}
      BY <3>2, <3>3, FS_EmptySet
    <3> QED BY <2>4, <3>4 DEF FreeIds, RequestCanGoOn
  <2> QED BY <2>1, <2>2, <2>3, <2>4 DEF RequestCanGoOn
<1>3. ASSUME NEW w \in Workers, work[w] # Idle
      PROVE  WorkerCanGoOn(w)
  <2>1. work[w].pc \in {"start", "tx", "done"}
    BY <1>3 DEF Work
  <2>2. exists
    BY <1>3 DEF WorkNeedsRows, SomeRow, RowsNeedEvent
  <2>3. CASE work[w].pc = "start"
    <3>1. ~IsOpen(w)
      BY <2>3 DEF TransactionsMatch
    <3> QED BY <1>1, <2>3, <3>1, OldestExists DEF WorkerCanGoOn
  <2>4. CASE work[w].pc = "tx"
    <3>1. IsOpen(w)
      BY <2>4 DEF TransactionsMatch
    <3> QED BY <2>2, <2>4, <3>1 DEF WorkerCanGoOn, Committable, Live, PromotionThrows
  <2> QED BY <2>1, <2>3, <2>4 DEF WorkerCanGoOn
<1> QED BY <1>2, <1>3 DEF NobodyIsStuck

\* What rests on the transactions and jobs being where the code is with them.
FlowInv == RowInv /\ TransactionsMatch /\ JobsHaveOneHolder /\ JobIdsSuffice

LEMMA InitFlowInv ==
    ASSUME Init
    PROVE  FlowInv
<1>1. RowInv
  BY InitRowInv
<1>2. /\ \A s \in Sessions : ~IsOpen(s)
      /\ \A r \in Requests : req[r].pc = "idle"
      /\ \A w \in Workers : work[w] = Idle /\ work[w].pc = "idle"
  BY DEF Init, ServiceInit, StoreInit, IsOpen, Idle
<1>3. TransactionsMatch /\ JobsHaveOneHolder
  BY <1>2 DEF TransactionsMatch, JobsHaveOneHolder, Sessions
<1>4. JobIdsSuffice
  <2>1. Cancels = {}
    BY <1>2 DEF Cancels
  <2>2. Cardinality(Cancels) = 0 /\ Cardinality(FreeIds) \in Nat
    BY <2>1, IdsFinite, FS_EmptySet, FS_CardinalityType
  <2>3. Cardinality(Cancels) <= Cardinality(FreeIds)
    BY <2>2
  <2> QED BY <2>3 DEF JobIdsSuffice, Cancels, FreeIds
<1> QED BY <1>1, <1>3, <1>4 DEF FlowInv

LEMMA StepFlowInv ==
    ASSUME FlowInv, [Next]_vars
    PROVE  FlowInv'
<1>1. RowInv' /\ TypeOK
  BY StepRowInv DEF FlowInv, RowInv
<1> QED BY <1>1, TransactionsMatchStep, JobsHaveOneHolderStep, JobIdsSufficeStep DEF FlowInv

\* A transaction is open exactly while a request or a worker is inside it, and a job
\* under way has one worker: through conflicts, aborts, retries, redeliveries and
\* crashes, in every instance.
THEOREM FlowInvariant == Spec => []FlowInv
<1>1. Init => FlowInv
  BY InitFlowInv
<1>2. FlowInv /\ [Next]_vars => FlowInv'
  BY StepFlowInv
<1> QED BY <1>1, <1>2, PTL DEF Spec

\* Nobody is ever stuck: each request and each worker under way has a step of its own,
\* whatever the others have done to its rows, its event or its transaction.
THEOREM NobodyStuck == Spec => []NobodyIsStuck
<1>1. FlowInv => NobodyIsStuck
  BY NoOneStuck DEF FlowInv
<1> QED BY <1>1, FlowInvariant, PTL

-----------------------------------------------------------------------------
(* There is an end to what a request and a job can do.                     *)

LEMMA RequestStepsType ==
    ASSUME NEW q \in Request
    PROVE  /\ RequestSteps(q) \in Nat
           /\ q # Idle => RequestSteps(q) > 0
           /\ q = Idle => RequestSteps(q) = 0
<1>1. CASE q \in BookingReq
  <2>1. q.attempt \in Nat /\ q.attempt < MaxRetries /\ MaxRetries \in Nat
    BY <1>1, ServiceAssumption DEF BookingReq
  <2>2. q.pc = "begin" \/ q.pc = "tx"
    BY <1>1 DEF BookingReq
  <2> QED BY <1>1, <2>1, <2>2 DEF RequestSteps, Idle
<1>2. CASE q \in CancelReq
  BY <1>2 DEF RequestSteps, CancelReq, Idle
<1>3. CASE q = Idle
  BY <1>3 DEF RequestSteps, Idle
<1> QED BY <1>1, <1>2, <1>3 DEF Request

LEMMA RequestStepsFall ==
    ASSUME NEW q \in Request, NEW p \in Request, q # Idle, p # q,
           \/ p = Idle
           \/ q.pc = "begin" /\ p = [q EXCEPT !.pc = "tx"]
           \/ /\ q.pc \in {"begin", "tx"}
              /\ p = [q EXCEPT !.pc = "begin", !.attempt = q.attempt + 1]
           \/ q.pc = "cancel" /\ p = [q EXCEPT !.pc = "enqueue"]
    PROVE  RequestSteps(p) < RequestSteps(q)
<1>1. CASE p = Idle
  BY <1>1, RequestStepsType
<1>2. CASE q \in BookingReq /\ p # Idle
  <2>1. q.attempt \in Nat /\ q.attempt < MaxRetries /\ MaxRetries \in Nat
    BY <1>2, ServiceAssumption DEF BookingReq
  <2>2. CASE p.pc = "tx" /\ p.attempt = q.attempt /\ q.pc = "begin"
    BY <2>1, <2>2 DEF RequestSteps
  <2>3. CASE p.pc = "begin" /\ p.attempt = q.attempt + 1 /\ q.pc \in {"begin", "tx"}
    BY <2>1, <2>3 DEF RequestSteps
  <2> QED BY <1>2, <2>2, <2>3 DEF BookingReq
<1>3. CASE q \in CancelReq /\ p # Idle
  <2>1. q.pc = "cancel" /\ p.pc = "enqueue"
    BY <1>3 DEF CancelReq
  <2> QED BY <2>1 DEF RequestSteps
<1> QED BY <1>1, <1>2, <1>3 DEF Request

\* The retry loop, the writes, the cancel and the enqueueing all lead to an answer:
\* no conflict and no schedule sets a request back.
THEOREM RequestsEnd == Spec => RequestsAreBounded
<1>1. TypeOK /\ TypeOK' /\ [Next]_vars =>
        [\A r \in Requests :
           req[r] # Idle /\ req'[r] # req[r]
              => RequestSteps(req'[r]) < RequestSteps(req[r])]_vars
  <2> SUFFICES ASSUME TypeOK, TypeOK', [Next]_vars, NEW r \in Requests,
                      req[r] # Idle, req'[r] # req[r]
               PROVE  RequestSteps(req'[r]) < RequestSteps(req[r])
    OBVIOUS
  <2>1. req[r] \in Request /\ req'[r] \in Request
    BY DEF TypeOK, ServiceTypeOK, Request
  <2>2. CASE CrashServer
    BY <2>1, <2>2, RequestStepsFall DEF CrashServer
  <2>3. ~NewRequest(r)
    BY DEF NewRequest, StartBooking, StartCancel
  <2>4. CASE RequestStep(r)
    <3> USE DEF TypeOK, ServiceTypeOK
    <3>1. \/ req'[r] = Idle
          \/ req[r].pc = "begin" /\ req'[r] = [req[r] EXCEPT !.pc = "tx"]
          \/ /\ req[r].pc \in {"begin", "tx"}
             /\ req'[r] = [req[r] EXCEPT !.pc = "begin", !.attempt = req[r].attempt + 1]
          \/ req[r].pc = "cancel" /\ req'[r] = [req[r] EXCEPT !.pc = "enqueue"]
      BY <2>4 DEF RequestStep, BookSeat, BookWaitlist, Write, AnswerExisting, CommitBooking,
            RejectBooking, RetryBooking, SerializationFailure, GiveUpBooking, FinishCancel,
            LosePromotion, EnqueuePromotion, Finish
    <3> QED BY <2>1, <3>1, RequestStepsFall
  <2> QED BY <2>2, <2>3, <2>4, RequestMoves
<1> QED BY <1>1, TypeCorrect, PTL DEF Spec, RequestsAreBounded

\* The stages a job of which one worker, or none, has hold can be at.
LEMMA StageHeld ==
    ASSUME TypeOK, JobsHaveOneHolder, NEW w \in Workers, work[w] # Idle
    PROVE  Stage(work, work[w].job) = {work[w].pc}
  BY DEF Stage, JobsHaveOneHolder

LEMMA StageWaiting ==
    ASSUME TypeOK, JobsHaveOneHolder, NEW j \in Jobs, job[j].state = "waiting"
    PROVE  Stage(work, j) = {}
  BY DEF Stage, JobsHaveOneHolder

\* Worker w, and with it job j, goes on to the next stage.
LEMMA StageMoves ==
    ASSUME TypeOK, JobsHaveOneHolder, NEW w \in Workers, NEW j \in Jobs,
           NEW x \in Work, x.job = j, work' = [work EXCEPT ![w] = x],
           \/ work[w] = Idle /\ job[j].state = "waiting"
           \/ work[w] # Idle /\ work[w].job = j
    PROVE  /\ Stage(work', j) = {x.pc}
           /\ \A k \in Jobs : k # j => Stage(work', k) = Stage(work, k)
<1>1. Idle' = Idle /\ x # Idle
  BY DEF Idle, Work
<1>2. \A v \in Workers : v # w /\ work[v] # Idle => work[v].job # j
  BY DEF JobsHaveOneHolder
<1> QED BY <1>1, <1>2 DEF Stage, TypeOK

LEMMA StageEnds ==
    ASSUME TypeOK, JobsHaveOneHolder, NEW w \in Workers, work[w] # Idle,
           work' = [work EXCEPT ![w] = Idle]
    PROVE  /\ Stage(work', work[w].job) = {}
           /\ \A k \in Jobs : k # work[w].job => Stage(work', k) = Stage(work, k)
<1>1. Idle' = Idle
  BY DEF Idle
<1>2. \A v \in Workers : v # w /\ work[v] # Idle => work[v].job # work[w].job
  BY DEF JobsHaveOneHolder
<1> QED BY <1>1, <1>2 DEF Stage, TypeOK

LEMMA JobStepsFall ==
    ASSUME NEW q \in JobRecord, NEW p \in JobRecord, NEW pc \in {"start", "tx", "done"},
           q.state # "none"
    PROVE  /\ q.failed = p.failed /\ q.stalled = p.stalled
                 => /\ JobSteps(p, {"start"}) < JobSteps(q, {})
                    /\ JobSteps(p, {"tx"}) < JobSteps(q, {"start"})
                    /\ JobSteps(p, {"done"}) < JobSteps(q, {"start"})
                    /\ JobSteps(p, {"done"}) < JobSteps(q, {"tx"})
           /\ p = Requeued(q.failed + 1, q.stalled) => JobSteps(p, {}) < JobSteps(q, {"start"})
           /\ p = Requeued(q.failed + 1, q.stalled) => JobSteps(p, {}) < JobSteps(q, {"tx"})
           /\ p = Requeued(q.failed, q.stalled + 1) => JobSteps(p, {}) < JobSteps(q, {pc})
           /\ p = GoneJob => JobSteps(p, {}) < JobSteps(q, {pc})
<1>1. /\ JobAttempts \in Nat /\ MaxStalled \in Nat
      /\ q.failed \in Nat /\ q.stalled \in Nat
      /\ p.failed \in Nat /\ p.stalled \in Nat
      /\ q.failed < JobAttempts /\ q.stalled <= MaxStalled
      /\ p.failed < JobAttempts /\ p.stalled <= MaxStalled
  BY ServiceAssumption DEF JobRecord
<1>2. /\ p = Requeued(q.failed + 1, q.stalled)
            => p.failed = q.failed + 1 /\ p.stalled = q.stalled
      /\ p = Requeued(q.failed, q.stalled + 1)
            => p.failed = q.failed /\ p.stalled = q.stalled + 1
      /\ p = GoneJob => p.state = "none"
  BY DEF Requeued, GoneJob
<1> DEFINE Q == 4 * ((JobAttempts - q.failed) + (MaxStalled - q.stalled))
           P == 4 * ((JobAttempts - p.failed) + (MaxStalled - p.stalled))
<1>3. Q \in Nat /\ P \in Nat /\ Q >= 4 /\ P >= 4
  BY <1>1
<1>4. /\ q.failed = p.failed /\ q.stalled = p.stalled => P = Q
      /\ p.failed = q.failed + 1 /\ p.stalled = q.stalled => P = Q - 4
      /\ p.failed = q.failed /\ p.stalled = q.stalled + 1 => P = Q - 4
  BY <1>1
<1>5. /\ JobSteps(q, {}) = Q + 3
      /\ JobSteps(q, {"start"}) = Q + 2
      /\ JobSteps(q, {"tx"}) = Q + 1
      /\ JobSteps(q, {"done"}) = Q
  BY <1>3 DEF JobSteps
<1>6. /\ p.state = "none" => \A S : JobSteps(p, S) = 0
      /\ p.state # "none" => /\ JobSteps(p, {}) = P + 3
                             /\ JobSteps(p, {"start"}) = P + 2
                             /\ JobSteps(p, {"tx"}) = P + 1
                             /\ JobSteps(p, {"done"}) = P
  BY <1>3 DEF JobSteps
<1> HIDE DEF Q, P
<1> QED BY <1>2, <1>3, <1>4, <1>5, <1>6

LEMMA JobsFall ==
    ASSUME TypeOK, TypeOK', JobsHaveOneHolder, [Next]_vars, NEW j \in Jobs,
           job[j].state # "none", job'[j] # job[j] \/ Stage(work', j) # Stage(work, j)
    PROVE  JobSteps(job'[j], Stage(work', j)) < JobSteps(job[j], Stage(work, j))
<1> USE DEF TypeOK, ServiceTypeOK
<1>0. job[j] \in JobRecord /\ job'[j] \in JobRecord /\ Idle' = Idle
  BY DEF Idle
<1>1. ASSUME UNCHANGED work, job'[j] = job[j]
      PROVE  FALSE
  BY <1>0, <1>1 DEF Stage
<1>2. CASE ApiStep
  <2>1. work' = work
    BY <1>2 DEF ApiStep, workerVars
  <2>2. job'[j] = job[j]
    BY <1>2 DEF ApiStep, CrashServer, NewRequest, StartBooking, StartCancel, RequestStep,
          BookSeat, BookWaitlist, Write, AnswerExisting, CommitBooking, RejectBooking,
          RetryBooking, GiveUpBooking, FinishCancel, LosePromotion, EnqueuePromotion
  <2> QED BY <1>1, <2>1, <2>2
<1>3. CASE DatabaseStep \/ UNCHANGED vars
  BY <1>1, <1>3 DEF DatabaseStep, workerVars, vars
<1>4. ASSUME NEW w \in Workers, NEW k \in Jobs, TakeJob(w, k)
      PROVE  JobSteps(job'[j], Stage(work', j)) < JobSteps(job[j], Stage(work, j))
  <2> DEFINE x == [pc |-> "start", job |-> k]
  <2>1. /\ x \in Work /\ x.job = k /\ work' = [work EXCEPT ![w] = x]
        /\ work[w] = Idle /\ job[k].state = "waiting"
    BY <1>4 DEF TakeJob, Work
  <2>2. Stage(work', k) = {"start"} /\ \A i \in Jobs : i # k => Stage(work', i) = Stage(work, i)
    BY <2>1, StageMoves
  <2>3. j = k
    BY <1>4, <2>2 DEF TakeJob
  <2>4. Stage(work, j) = {}
    BY <2>1, <2>3, StageWaiting
  <2>5. job'[j].failed = job[j].failed /\ job'[j].stalled = job[j].stalled
    BY <1>4, <2>3 DEF TakeJob, JobRecord
  <2> QED BY <1>0, <2>2, <2>3, <2>4, <2>5, JobStepsFall
<1>5. ASSUME NEW w \in Workers, work[w] # Idle, NEW pc \in {"tx", "done"},
             work' = [work EXCEPT ![w].pc = pc], job' = job,
             work[w].pc = "start" \/ (work[w].pc = "tx" /\ pc = "done")
      PROVE  JobSteps(job'[j], Stage(work', j)) < JobSteps(job[j], Stage(work, j))
  <2>0. PICK k \in Jobs : work[w].job = k
    BY <1>5 DEF Work
  <2>1. PICK x \in Work : /\ x.job = k /\ x.pc = pc
                          /\ work' = [work EXCEPT ![w] = x]
    <3>1. [work[w] EXCEPT !.pc = pc] \in Work
      BY <1>5 DEF Work
    <3> QED BY <1>5, <2>0, <3>1 DEF Work
  <2>2. Stage(work', k) = {pc} /\ \A i \in Jobs : i # k => Stage(work', i) = Stage(work, i)
    <3>1. work[w] # Idle
      BY <1>5
    <3>2. Stage(work', k) = {x.pc}
      BY <2>0, <2>1, <3>1, StageMoves
    <3>3. \A i \in Jobs : i # k => Stage(work', i) = Stage(work, i)
      BY <2>0, <2>1, <3>1, StageMoves
    <3> QED BY <2>1, <3>2, <3>3
  <2>3. j = k
    BY <1>5, <2>2
  <2>4. Stage(work, j) = {work[w].pc}
    BY <1>5, <2>0, <2>3, StageHeld
  <2> QED BY <1>0, <1>5, <2>2, <2>3, <2>4, JobStepsFall
<1>6. ASSUME NEW w \in Workers, work[w] # Idle, work' = [work EXCEPT ![w] = Idle],
             NEW x \in JobRecord, job' = [job EXCEPT ![work[w].job] = x],
             LET q == job[work[w].job] IN
             \/ x = GoneJob
             \/ x = Requeued(q.failed, q.stalled + 1)
             \/ work[w].pc # "done" /\ x = Requeued(q.failed + 1, q.stalled)
      PROVE  JobSteps(job'[j], Stage(work', j)) < JobSteps(job[j], Stage(work, j))
  <2> DEFINE k == work[w].job
  <2>1. k \in Jobs /\ work[w].pc \in {"start", "tx", "done"}
    BY <1>6 DEF Work
  <2>2. Stage(work', k) = {} /\ \A i \in Jobs : i # k => Stage(work', i) = Stage(work, i)
    BY <1>6, StageEnds
  <2>3. j = k
    BY <1>6, <2>1, <2>2
  <2>4. Stage(work, j) = {work[w].pc} /\ job'[j] = x
    BY <1>6, <2>3, StageHeld
  <2> QED BY <1>0, <1>6, <2>1, <2>2, <2>3, <2>4, JobStepsFall
<1>7. ASSUME NEW w \in Workers, WorkerStep(w) \/ CrashWorker(w)
      PROVE  JobSteps(job'[j], Stage(work', j)) < JobSteps(job[j], Stage(work, j))
  <2>1. CASE \E u \in Users : SettleConfirmation(w, u)
    BY <1>1, <2>1 DEF SettleConfirmation
  <2>2. CASE \E u \in Users : PromoteOldest(w, u)
    <3>1. work[w] # Idle /\ work[w].pc = "start" /\ job' = job
          /\ work' = [work EXCEPT ![w].pc = "tx"]
      BY <2>2 DEF PromoteOldest, GoTo, Idle
    <3> QED BY <1>5, <3>1
  <2>3. CASE PromoteNobody(w) \/ CommitPromotion(w)
    BY <1>5, <2>3 DEF PromoteNobody, CommitPromotion, GoTo, Idle
  <2>4. CASE CompleteJob(w)
    <3>1. work[w] # Idle
      BY <2>4 DEF CompleteJob, Idle
    <3> QED BY <1>6, <2>4, <3>1, GoneJobType DEF CompleteJob
  <2>5. CASE FailPromotion(w)
    <3>1. work[w] # Idle /\ work[w].pc # "done" /\ work[w].job \in Jobs
      BY <2>5 DEF FailPromotion, PromotionThrows, Idle, Work
    <3> DEFINE q == job[work[w].job]
    <3>2. q \in JobRecord
      BY <3>1
    <3>3. q.failed + 1 < JobAttempts => Requeued(q.failed + 1, q.stalled) \in JobRecord
      BY <3>2, ServiceAssumption DEF JobRecord, Requeued
    <3> QED BY <1>6, <2>5, <3>1, <3>3, GoneJobType DEF FailPromotion
  <2>6. CASE CrashWorker(w)
    <3>1. work[w] # Idle
      BY <1>1, <2>6 DEF CrashWorker
    <3> DEFINE q == job[work[w].job]
    <3>2. q \in JobRecord
      BY <3>1 DEF Work
    <3>3. q.stalled < MaxStalled => Requeued(q.failed, q.stalled + 1) \in JobRecord
      BY <3>2, ServiceAssumption DEF JobRecord, Requeued
    <3> QED BY <1>6, <2>6, <3>1, <3>3, GoneJobType DEF CrashWorker
  <2> QED BY <1>4, <1>7, <2>1, <2>2, <2>3, <2>4, <2>5, <2>6 DEF WorkerStep, PromotionStep
<1> QED BY <1>2, <1>3, <1>7 DEF Next

\* Promotions end too: a job that fails, or whose worker dies, is tried again, each
\* time with less left to try, until it completes or is given up.
THEOREM JobsEnd == Spec => JobsAreBounded
<1>1. FlowInv /\ TypeOK /\ TypeOK' /\ [Next]_vars =>
        [\A j \in Jobs :
           (/\ job[j].state # "none"
            /\ job'[j] # job[j] \/ Stage(work', j) # Stage(work, j))
              => JobSteps(job'[j], Stage(work', j)) < JobSteps(job[j], Stage(work, j))]_vars
  BY JobsFall DEF FlowInv
<1> QED BY <1>1, TypeCorrect, FlowInvariant, PTL DEF Spec, JobsAreBounded

=============================================================================
