----------------------------- MODULE SeatProofs -----------------------------
(***************************************************************************)
(* What the Serializable transactions of bookings and promotions           *)
(* guarantee: no update is lost, the oldest waiter is promoted, no seat is *)
(* sold twice, and so the abstract seat allocation is implemented.         *)
(***************************************************************************)
EXTENDS WaitlistProofs, BookingRefinement

LEMMA TypeIsStoreType == TypeOK => StoreTypeOK
  BY DEF TypeOK, ServiceTypeOK

LEMMA LiveTxType ==
    ASSUME StoreTypeOK, NEW s \in Sessions, IsOpen(s)
    PROVE  tx[s] \in Tx
  BY DEF StoreTypeOK, IsOpen

\* What remains open after a commit, and what of it can still commit.
LEMMA AfterCommit ==
    ASSUME StoreTypeOK, NEW s \in Sessions, Commit(s),
           NEW z \in Sessions, IsOpen(z)'
    PROVE  /\ z # s
           /\ IsOpen(z)
           /\ tx'[z].row = tx[z].row
           /\ tx'[z].from = tx[z].from
           /\ tx'[z].to = tx[z].to
           /\ Live(z)' => Live(z) /\ ~Conflict(tx[s], tx[z])
<1>1. z # s
  BY DEF Commit, IsOpen
<1>2. IsOpen(z)
  BY <1>1 DEF Commit, IsOpen
<1>3. tx[z] \in Tx
  BY <1>2, LiveTxType
<1>4. CASE Conflict(tx[s], tx[z])
  <2>1. tx'[z] = [tx[z] EXCEPT !.doomed = TRUE]
    BY <1>1, <1>2, <1>4 DEF Commit
  <2> QED BY <1>1, <1>2, <1>3, <2>1 DEF Tx, Live
<1>5. CASE ~Conflict(tx[s], tx[z])
  <2>1. tx'[z] = tx[z]
    BY <1>1, <1>5 DEF Commit
  <2> QED BY <1>1, <1>2, <1>5, <2>1 DEF Live, IsOpen
<1> QED BY <1>4, <1>5

LEMMA AfterCancel ==
    ASSUME StoreTypeOK, NEW u \in Users, CancelRow(u),
           NEW z \in Sessions, IsOpen(z)'
    PROVE  /\ IsOpen(z)
           /\ tx'[z].row = tx[z].row
           /\ tx'[z].from = tx[z].from
           /\ tx'[z].to = tx[z].to
           /\ Live(z)' => Live(z) /\ tx[z].row # u
<1>1. IsOpen(z)
  BY DEF CancelRow, IsOpen
<1>2. tx[z] \in Tx
  BY <1>1, LiveTxType
<1>3. CASE tx[z].row = u
  <2>1. tx'[z] = [tx[z] EXCEPT !.doomed = TRUE]
    BY <1>1, <1>3 DEF CancelRow
  <2> QED BY <1>1, <1>2, <2>1 DEF Tx, Live
<1>4. CASE tx[z].row # u
  <2>1. tx'[z] = tx[z]
    BY <1>4 DEF CancelRow
  <2> QED BY <1>1, <1>4, <2>1 DEF Live, IsOpen
<1> QED BY <1>3, <1>4

LEMMA AfterBegin ==
    ASSUME StoreTypeOK, NEW s \in Sessions, NEW u \in Users,
           NEW to \in {"CONFIRMED", "WAITLISTED"}, Begin(s, u, to),
           NEW z \in Sessions
    PROVE  /\ z = s => tx'[z].row = u /\ tx'[z].from = booking[u] /\ tx'[z].to = to
           /\ z # s => tx'[z] = tx[z]
  BY DEF Begin, StoreTypeOK

LEMMA AfterDrop ==
    ASSUME StoreTypeOK, NEW S \in SUBSET Sessions, Drop(S),
           NEW z \in Sessions, IsOpen(z)'
    PROVE  tx'[z] = tx[z]
  BY DEF Drop, IsOpen

-----------------------------------------------------------------------------
LEMMA LostUpdateStep ==
    ASSUME StoreTypeOK, NoLostUpdate, Effect
    PROVE  NoLostUpdate'
<1> SUFFICES ASSUME NEW z \in Sessions, Live(z)'
             PROVE  booking'[tx'[z].row] = tx'[z].from
  BY DEF NoLostUpdate, Sessions
<1>0. IsOpen(z)'
  BY DEF Live
<1>1. CASE UNCHANGED storeVars
  BY <1>1 DEF storeVars, NoLostUpdate, Live, IsOpen
<1>2. ASSUME NEW s \in Sessions, NEW u \in Users,
             NEW to \in {"CONFIRMED", "WAITLISTED"}, Begin(s, u, to)
      PROVE  booking'[tx'[z].row] = tx'[z].from
  BY <1>2, AfterBegin DEF Begin, rowVars, NoLostUpdate, Live, IsOpen
<1>3. ASSUME NEW s \in Sessions, Commit(s)
      PROVE  booking'[tx'[z].row] = tx'[z].from
  <2>1. Live(z) /\ tx[z].row # tx[s].row
    BY <1>0, <1>3, AfterCommit DEF Conflict
  <2>2. tx'[z].row = tx[z].row /\ tx'[z].from = tx[z].from
    BY <1>0, <1>3, AfterCommit
  <2>3. tx[z].row \in Users /\ tx[z].row # tx[s].row
    BY <2>1, LiveTxType DEF Live, Tx
  <2>4. booking'[tx[z].row] = booking[tx[z].row]
    BY <1>3, <2>3 DEF Commit, StoreTypeOK
  <2> QED BY <2>1, <2>2, <2>4 DEF NoLostUpdate
<1>4. ASSUME NEW S \in SUBSET Sessions, Drop(S)
      PROVE  booking'[tx'[z].row] = tx'[z].from
  BY <1>0, <1>4, AfterDrop DEF Drop, rowVars, NoLostUpdate, Live, IsOpen
<1>5. ASSUME NEW u \in Users, CancelRow(u)
      PROVE  booking'[tx'[z].row] = tx'[z].from
  <2>1. Live(z) /\ tx[z].row # u /\ tx'[z].row = tx[z].row /\ tx'[z].from = tx[z].from
    BY <1>0, <1>5, AfterCancel
  <2>2. booking'[tx[z].row] = booking[tx[z].row]
    BY <1>5, <2>1, LiveTxType DEF CancelRow, StoreTypeOK, Live, Tx
  <2> QED BY <2>1, <2>2 DEF NoLostUpdate
<1>6. CASE StoreStep
  BY <1>6 DEF StoreStep, UpdateCapacity, DeleteEvent, Tick, NoLostUpdate, Live, IsOpen
<1> QED BY <1>1, <1>2, <1>3, <1>4, <1>5, <1>6 DEF Effect

LEMMA WritesMakeSenseStep ==
    ASSUME StoreTypeOK, WritesMakeSense, Effect
    PROVE  WritesMakeSense'
<1> DEFINE Good(z) == /\ tx'[z].from # "CONFIRMED"
                      /\ tx'[z].from = "WAITLISTED" => tx'[z].to = "CONFIRMED"
<1> SUFFICES ASSUME NEW z \in Sessions, IsOpen(z)'
             PROVE  Good(z)
  BY DEF WritesMakeSense, Sessions
<1>1. CASE UNCHANGED storeVars
  BY <1>1 DEF storeVars, WritesMakeSense, IsOpen
<1>2. ASSUME NEW s \in Sessions, NEW u \in Users,
             NEW to \in {"CONFIRMED", "WAITLISTED"}, Begin(s, u, to), MayBegin(s, u, to)
      PROVE  Good(z)
  <2>1. booking[u] # "CONFIRMED" /\ (booking[u] = "WAITLISTED" => to = "CONFIRMED")
    BY <1>2 DEF MayBegin, HasNoLiveRow, findOldestWaitlisted, Waiting
  <2> QED BY <1>2, <2>1, AfterBegin DEF WritesMakeSense, IsOpen
<1>3. ASSUME NEW s \in Sessions, Commit(s)
      PROVE  Good(z)
  BY <1>3, AfterCommit DEF WritesMakeSense
<1>4. ASSUME NEW S \in SUBSET Sessions, Drop(S)
      PROVE  Good(z)
  BY <1>4, AfterDrop DEF WritesMakeSense, IsOpen
<1>5. ASSUME NEW u \in Users, CancelRow(u)
      PROVE  Good(z)
  BY <1>5, AfterCancel DEF WritesMakeSense
<1>6. CASE StoreStep
  BY <1>6 DEF StoreStep, UpdateCapacity, DeleteEvent, Tick, WritesMakeSense, IsOpen
<1> QED BY <1>1, <1>2, <1>3, <1>4, <1>5, <1>6 DEF Effect

LEMMA PromotionsHoldOldestStep ==
    ASSUME StoreTypeOK, PromotionsHoldOldest, WritesMakeSense, Effect
    PROVE  PromotionsHoldOldest'
<1> SUFFICES ASSUME NEW z \in Sessions, Live(z)', tx'[z].from = "WAITLISTED"
             PROVE  tx'[z].row \in findOldestWaitlisted'
  BY DEF PromotionsHoldOldest, Sessions
<1>0. IsOpen(z)'
  BY DEF Live
<1>1. CASE UNCHANGED storeVars
  BY <1>1 DEF storeVars, PromotionsHoldOldest, Live, IsOpen, findOldestWaitlisted, Waiting
<1>2. ASSUME NEW s \in Sessions, NEW u \in Users,
             NEW to \in {"CONFIRMED", "WAITLISTED"}, Begin(s, u, to), MayBegin(s, u, to)
      PROVE  tx'[z].row \in findOldestWaitlisted'
  <2>1. findOldestWaitlisted' = findOldestWaitlisted
    BY <1>2 DEF Begin, rowVars, findOldestWaitlisted, Waiting
  <2>2. CASE z = s
    <3>1. tx'[z].row = u /\ booking[u] = "WAITLISTED"
      BY <1>2, <2>2, AfterBegin
    <3> QED BY <1>2, <2>1, <3>1 DEF MayBegin, HasNoLiveRow
  <2>3. CASE z # s
    <3>1. tx'[z] = tx[z]
      BY <1>2, <2>3, AfterBegin
    <3> QED BY <2>1, <3>1 DEF PromotionsHoldOldest, Live, IsOpen
  <2> QED BY <2>2, <2>3
<1>3. ASSUME NEW s \in Sessions, Commit(s)
      PROVE  FALSE
  <2>1. Live(z) /\ ~Conflict(tx[s], tx[z]) /\ tx[z].from = "WAITLISTED"
    BY <1>0, <1>3, AfterCommit
  <2>2. tx[z].to = "CONFIRMED"
    BY <2>1 DEF WritesMakeSense, Live
  <2>3. tx[s] \in Tx
    BY <1>3, LiveTxType DEF Commit, Committable, Live
  <2> QED BY <2>1, <2>2, <2>3 DEF Conflict, Affects, Tx
<1>4. ASSUME NEW S \in SUBSET Sessions, Drop(S)
      PROVE  tx'[z].row \in findOldestWaitlisted'
  BY <1>0, <1>4, AfterDrop
     DEF Drop, rowVars, PromotionsHoldOldest, Live, IsOpen, findOldestWaitlisted, Waiting
<1>5. ASSUME NEW u \in Users, CancelRow(u)
      PROVE  tx'[z].row \in findOldestWaitlisted'
  <2>1. /\ tx[z].row \in findOldestWaitlisted
        /\ tx[z].row # u
        /\ tx'[z].row = tx[z].row
    BY <1>0, <1>5, AfterCancel DEF PromotionsHoldOldest
  <2>2. \A v \in Users : v # u => booking'[v] = booking[v]
    BY <1>5 DEF CancelRow, StoreTypeOK
  <2>3. Waiting' = Waiting \ {u} /\ createdAt' = createdAt
    BY <1>5, <2>2 DEF CancelRow, Waiting, StoreTypeOK
  <2> QED BY <2>1, <2>3 DEF findOldestWaitlisted
<1>6. CASE StoreStep
  BY <1>6 DEF StoreStep, UpdateCapacity, DeleteEvent, Tick, PromotionsHoldOldest,
              Live, IsOpen, findOldestWaitlisted, Waiting
<1> QED BY <1>1, <1>2, <1>3, <1>4, <1>5, <1>6 DEF Effect

-----------------------------------------------------------------------------
(* Rows, and the work that rows give rise to, outlive nothing but          *)
(* themselves.                                                             *)

LEMMA RowsStay ==
    ASSUME StoreTypeOK, Effect, NEW u \in Users, booking[u] # "NONE"
    PROVE  booking'[u] # "NONE"
<1>1. ASSUME NEW s \in Sessions, Commit(s)
      PROVE  booking'[u] # "NONE"
  <2>1. tx[s] \in Tx
    BY <1>1, LiveTxType DEF Commit, Committable, Live
  <2> QED BY <1>1, <2>1 DEF Commit, StoreTypeOK, Tx
<1>2. ASSUME NEW v \in Users, CancelRow(v)
      PROVE  booking'[u] # "NONE"
  BY <1>2 DEF CancelRow, StoreTypeOK
<1> QED BY <1>1, <1>2 DEF Effect, storeVars, Begin, Drop, rowVars, StoreStep,
                          UpdateCapacity, DeleteEvent, Tick

LEMMA RowsNeedEventStep ==
    ASSUME StoreTypeOK, NoLostUpdate, RowsNeedEvent, WorkNeedsRows, Effect
    PROVE  RowsNeedEvent'
<1>1. ASSUME NEW s \in Sessions, Commit(s)
      PROVE  RowsNeedEvent'
  <2>1. tx[s] \in Tx /\ booking[tx[s].row] = tx[s].from
    BY <1>1, LiveTxType DEF Commit, Committable, Live, NoLostUpdate
  <2>2. exists
    BY <1>1, <2>1 DEF Commit, Committable, Tx, RowsNeedEvent
  <2> QED BY <1>1, <2>2 DEF Commit, RowsNeedEvent
<1>2. ASSUME NEW r \in Requests, req[r].pc = "cancel", req[r].user \in Users,
             CancelRow(req[r].user)
      PROVE  RowsNeedEvent'
  <2>1. exists
    BY <1>2 DEF WorkNeedsRows, RowsNeedEvent
  <2> QED BY <1>2, <2>1 DEF CancelRow, RowsNeedEvent
<1> QED BY <1>1, <1>2 DEF Effect, storeVars, Begin, Drop, rowVars, StoreStep,
                          UpdateCapacity, DeleteEvent, Tick, RowsNeedEvent

\* Where a cancel, a job and a worker at work come from.
LEMMA CancelOrigin ==
    ASSUME TypeOK, [Next]_vars, NEW r \in Requests,
           req'[r].pc \in {"cancel", "enqueue"}
    PROVE  /\ req'[r].user \in Users
           /\ \/ req[r].pc \in {"cancel", "enqueue"} /\ req'[r].user = req[r].user
              \/ booking[req'[r].user] # "NONE"
<1>1. req'[r].user \in Users
  <2>1. req'[r] \in Request
    BY StepType DEF TypeOK, ServiceTypeOK, Request
  <2> QED BY <2>1 DEF Request, Idle, BookingReq, CancelReq
<1>2. CASE req'[r] = req[r]
  BY <1>1, <1>2
<1>3. CASE req'[r] # req[r]
  <2> USE DEF TypeOK, ServiceTypeOK
  <2>1. ApiStep
    BY <1>3, WorkerStepType DEF Next, vars, DatabaseStep
  <2>2. CASE CrashServer
    BY <2>2 DEF CrashServer, Idle
  <2>3. ASSUME NEW q \in Requests, NEW u \in Users, StartBooking(q, u)
        PROVE  FALSE
    BY <1>3, <2>3 DEF StartBooking
  <2>4. ASSUME NEW q \in Requests, NEW u \in Users,
               NEW actor \in Users \cup {Admin}, StartCancel(q, actor, u)
        PROVE  booking[req'[r].user] # "NONE"
    BY <1>3, <2>4 DEF StartCancel
  <2>5. ASSUME NEW q \in Requests, RequestStep(q)
        PROVE  req[r].pc \in {"cancel", "enqueue"} /\ req'[r].user = req[r].user
    <3>1. q = r
      BY <1>3, <2>5 DEF RequestStep, BookSeat, BookWaitlist, Write, AnswerExisting,
            CommitBooking, RejectBooking, RetryBooking, GiveUpBooking, FinishCancel,
            LosePromotion, EnqueuePromotion, Finish
    <3>2. ASSUME BookSeat(r) \/ BookWaitlist(r)
          PROVE  FALSE
      <4>1. req[r] \in BookingReq
        BY <3>2, RequestFields DEF BookSeat, BookWaitlist, Request
      <4>2. req'[r] = [req[r] EXCEPT !.pc = "tx"]
        BY <3>2 DEF BookSeat, BookWaitlist, Write
      <4> QED BY <4>1, <4>2 DEF BookingReq
    <3>3. ASSUME RetryBooking(r)
          PROVE  FALSE
      <4>1. req[r] \in BookingReq
        BY <3>3, RequestFields DEF RetryBooking, SerializationFailure, Request
      <4>2. req'[r] = [req[r] EXCEPT !.pc = "begin", !.attempt = req[r].attempt + 1]
        BY <3>3 DEF RetryBooking
      <4> QED BY <4>1, <4>2 DEF BookingReq
    <3>4. req'[r] # Idle
      BY DEF Idle
    <3>5. FinishCancel(r)
      BY <2>5, <3>1, <3>2, <3>3, <3>4
         DEF RequestStep, AnswerExisting, CommitBooking, RejectBooking, GiveUpBooking,
             LosePromotion, EnqueuePromotion, Finish
    <3>6. req[r] \in CancelReq
      BY <3>5, RequestFields DEF FinishCancel, Request
    <3> QED BY <3>4, <3>5, <3>6 DEF FinishCancel, Finish, CancelReq
  <2> QED BY <1>1, <2>1, <2>2, <2>3, <2>4, <2>5 DEF ApiStep, NewRequest
<1> QED BY <1>2, <1>3

LEMMA JobOrigin ==
    ASSUME TypeOK, [Next]_vars, NEW j \in Jobs, job'[j].state # "none"
    PROVE  \/ job[j].state # "none"
           \/ \E r \in Requests : req[r].pc = "enqueue"
           \/ \E w \in Workers : work[w] # Idle
<1> SUFFICES ASSUME job'[j] # job[j],
                    \A w \in Workers : work[w] = Idle,
                    job[j].state = "none"
             PROVE  \E r \in Requests : req[r].pc = "enqueue"
  OBVIOUS
<1> USE DEF TypeOK, ServiceTypeOK
<1>1. CASE ApiStep
  BY <1>1 DEF ApiStep, CrashServer, NewRequest, StartBooking, StartCancel,
              RequestStep, BookSeat, BookWaitlist, Write, AnswerExisting, CommitBooking,
              RejectBooking, RetryBooking, GiveUpBooking, FinishCancel, LosePromotion,
              EnqueuePromotion
<1>2. ASSUME NEW w \in Workers, WorkerStep(w) \/ CrashWorker(w)
      PROVE  FALSE
  <2>1. work[w].pc = "idle"
    BY DEF Idle
  <2>2. \E k \in Jobs : TakeJob(w, k)
    BY <1>2, <2>1 DEF WorkerStep, PromotionStep, CrashWorker, PromoteOldest, PromoteNobody,
         CommitPromotion, FailPromotion, PromotionThrows, CompleteJob, SettleConfirmation
  <2> QED BY <2>2 DEF TakeJob
<1>3. CASE DatabaseStep \/ UNCHANGED vars
  BY <1>3 DEF DatabaseStep, vars
<1> QED BY <1>1, <1>2, <1>3 DEF Next

LEMMA WorkOrigin ==
    ASSUME TypeOK, [Next]_vars, NEW w \in Workers, work'[w] # Idle
    PROVE  work[w] # Idle \/ \E j \in Jobs : job[j].state # "none"
<1> SUFFICES ASSUME work[w] = Idle
             PROVE  \E j \in Jobs : job[j].state # "none"
  OBVIOUS
<1> USE DEF TypeOK, ServiceTypeOK
<1>1. ASSUME NEW v \in Workers, WorkerStep(v) \/ CrashWorker(v)
      PROVE  \E j \in Jobs : job[j].state # "none"
  <2>1. v = w
    BY <1>1 DEF WorkerStep, PromotionStep, CrashWorker, TakeJob, PromoteOldest, PromoteNobody, GoTo,
         CommitPromotion, FailPromotion, CompleteJob, SettleConfirmation
  <2>2. work[v].pc = "idle"
    BY <2>1 DEF Idle
  <2>3. CASE \E k \in Jobs : TakeJob(v, k)
    BY <2>3 DEF TakeJob
  <2>4. CASE ~\E k \in Jobs : TakeJob(v, k)
    <3>1. work'[w] = Idle
      BY <1>1, <2>1, <2>2, <2>4
         DEF WorkerStep, PromotionStep, CrashWorker, PromoteOldest, PromoteNobody,
             CommitPromotion, FailPromotion, PromotionThrows, CompleteJob, SettleConfirmation
    <3> QED BY <3>1
  <2> QED BY <2>3, <2>4
<1>2. CASE ApiStep \/ DatabaseStep \/ UNCHANGED vars
  BY <1>2 DEF ApiStep, DatabaseStep, workerVars, vars
<1> QED BY <1>1, <1>2 DEF Next

LEMMA WorkNeedsRowsStep ==
    ASSUME TypeOK, WorkNeedsRows, [Next]_vars
    PROVE  WorkNeedsRows'
<1> DEFINE RowThere(u) == booking'[u] # "NONE"
<1>1. \A u \in Users : booking[u] # "NONE" => RowThere(u)
  BY RowsStay, StepEffect, TypeIsStoreType
<1>2. ASSUME NEW r \in Requests, req'[r].pc \in {"cancel", "enqueue"}
      PROVE  booking'[req'[r].user] # "NONE"
  BY <1>1, <1>2, CancelOrigin DEF WorkNeedsRows
<1>3. SomeRow => SomeRow'
  BY <1>1 DEF SomeRow
<1>4. ASSUME NEW r \in Requests, req[r].pc \in {"cancel", "enqueue"}
      PROVE  SomeRow
  <2>1. req[r].user \in Users
    BY <1>4, RequestFields DEF TypeOK, ServiceTypeOK, Request, CancelReq
  <2> QED BY <1>4, <2>1 DEF WorkNeedsRows, SomeRow
<1>5. ASSUME NEW j \in Jobs, job'[j].state # "none"
      PROVE  SomeRow'
  BY <1>3, <1>4, <1>5, JobOrigin DEF WorkNeedsRows
<1>6. ASSUME NEW w \in Workers, work'[w] # Idle
      PROVE  SomeRow'
  BY <1>3, <1>6, WorkOrigin DEF WorkNeedsRows
<1>7. Idle' = Idle
  BY DEF Idle
<1> QED BY <1>2, <1>5, <1>6, <1>7 DEF WorkNeedsRows

-----------------------------------------------------------------------------
LEMMA InitRowInv ==
    ASSUME Init
    PROVE  RowInv
<1>1. TypeOK
  BY InitType
<1>2. NoLostUpdate /\ WritesMakeSense /\ PromotionsHoldOldest
  BY DEF Init, ServiceInit, StoreInit, NoLostUpdate, WritesMakeSense,
         PromotionsHoldOldest, Live, IsOpen
<1>3. RowsNeedEvent /\ WorkNeedsRows
  BY DEF Init, ServiceInit, StoreInit, RowsNeedEvent, WorkNeedsRows, Idle, GoneJob
<1> QED BY <1>1, <1>2, <1>3 DEF RowInv

LEMMA StepRowInv ==
    ASSUME RowInv, [Next]_vars
    PROVE  RowInv'
<1> USE DEF RowInv
<1>1. TypeOK' /\ StoreTypeOK /\ Effect
  BY StepType, StepEffect, TypeIsStoreType
<1>2. NoLostUpdate' /\ WritesMakeSense' /\ PromotionsHoldOldest'
  BY <1>1, LostUpdateStep, WritesMakeSenseStep, PromotionsHoldOldestStep
<1>3. RowsNeedEvent' /\ WorkNeedsRows'
  BY <1>1, RowsNeedEventStep, WorkNeedsRowsStep
<1> QED BY <1>1, <1>2, <1>3

\* Rows, transactions, cancels, promotion jobs and workers fit together in every
\* reachable state: what the seat theorems rest on.
THEOREM RowInvariant == Spec => []RowInv
<1>1. Init => RowInv
  BY InitRowInv
<1>2. RowInv /\ [Next]_vars => RowInv'
  BY StepRowInv
<1> QED BY <1>1, <1>2, PTL DEF Spec

-----------------------------------------------------------------------------
(* Counting seats.                                                         *)

LEMMA CountType ==
    ASSUME NEW S \in SUBSET Users
    PROVE  IsFiniteSet(S) /\ Cardinality(S) \in Nat
  BY StoreAssumption, FS_Subset, FS_CardinalityType

LEMMA OneMore ==
    ASSUME NEW S, NEW x, IsFiniteSet(S)
    PROVE  /\ IsFiniteSet(S \cup {x})
           /\ Cardinality(S \cup {x}) \in Nat
           /\ Cardinality(S \cup {x}) <= Cardinality(S) + 1
<1>1. Cardinality(S) \in Nat
  BY FS_CardinalityType
<1>2. IsFiniteSet(S \cup {x})
  BY FS_AddElement
<1>3. Cardinality(S \cup {x}) = IF x \in S THEN Cardinality(S) ELSE Cardinality(S) + 1
  BY FS_AddElement
<1> QED BY <1>1, <1>2, <1>3

LEMMA CountAfterCommit ==
    ASSUME StoreTypeOK, NEW s \in Sessions, Commit(s)
    PROVE  /\ tx[s].to = "CONFIRMED" => countConfirmed' <= countConfirmed + 1
           /\ tx[s].to # "CONFIRMED" => countConfirmed' <= countConfirmed
<1>1. tx[s] \in Tx
  BY LiveTxType DEF Commit, Committable, Live
<1>2. Confirmed \in SUBSET Users /\ Confirmed' \in SUBSET Users
  BY DEF Confirmed
<1>3. Confirmed' \subseteq Confirmed \cup {tx[s].row}
  BY DEF Commit, StoreTypeOK, Confirmed
<1>4. IsFiniteSet(Confirmed) /\ countConfirmed \in Nat /\ countConfirmed' \in Nat
  BY <1>2, CountType DEF countConfirmed
<1>5. CASE tx[s].to = "CONFIRMED"
  <2>1. /\ IsFiniteSet(Confirmed \cup {tx[s].row})
        /\ Cardinality(Confirmed \cup {tx[s].row}) \in Nat
        /\ Cardinality(Confirmed \cup {tx[s].row}) <= countConfirmed + 1
    BY <1>4, OneMore DEF countConfirmed
  <2>2. countConfirmed' <= Cardinality(Confirmed \cup {tx[s].row})
    BY <1>3, <2>1, FS_Subset DEF countConfirmed
  <2> QED BY <1>4, <1>5, <2>1, <2>2
<1>6. CASE tx[s].to # "CONFIRMED"
  <2>1. Confirmed' \subseteq Confirmed
    BY <1>6 DEF Commit, StoreTypeOK, Confirmed
  <2> QED BY <1>4, <1>6, <2>1, FS_Subset DEF countConfirmed
<1> QED BY <1>5, <1>6

LEMMA CountAfterCancel ==
    ASSUME StoreTypeOK, NEW u \in Users, CancelRow(u)
    PROVE  countConfirmed' <= countConfirmed
<1>1. Confirmed' \subseteq Confirmed
  BY DEF CancelRow, StoreTypeOK, Confirmed
<1>2. IsFiniteSet(Confirmed)
  BY CountType DEF Confirmed
<1> QED BY <1>1, <1>2, FS_Subset DEF countConfirmed

\* Only the organizer changes the capacity, and here only upwards.
LEMMA CapacityGrows ==
    ASSUME StoreTypeOK, Effect, "lower" \notin Env
    PROVE  capacity \in Nat /\ capacity' \in Nat /\ capacity <= capacity'
<1>1. capacity \in Nat
  BY StoreAssumption DEF StoreTypeOK, Capacities
<1>2. ASSUME NEW c \in Capacities, UpdateCapacity(c)
      PROVE  capacity' \in Nat /\ capacity <= capacity'
  BY <1>1, <1>2, StoreAssumption DEF UpdateCapacity, Capacities
<1>3. CASE UNCHANGED capacity
  BY <1>1, <1>3
<1> QED BY <1>1, <1>2, <1>3 DEF Effect, storeVars, Begin, Commit, Drop, CancelRow, rowVars,
                          StoreStep, DeleteEvent, Tick

LEMMA NoOversellStep ==
    ASSUME StoreTypeOK, NoOversell, SeatsAreReserved, Effect, "lower" \notin Env
    PROVE  NoOversell'
<1>1. capacity \in Nat /\ capacity' \in Nat /\ capacity <= capacity'
  BY CapacityGrows
<1>2. countConfirmed \in Nat /\ countConfirmed' \in Nat
  BY CountType DEF countConfirmed, Confirmed
<1>3. ASSUME NEW s \in Sessions, Commit(s)
      PROVE  NoOversell'
  <2>1. tx[s].to = "CONFIRMED" => countConfirmed < capacity
    BY <1>3 DEF Commit, Committable, SeatsAreReserved
  <2> QED BY <1>1, <1>2, <1>3, <2>1, CountAfterCommit DEF NoOversell
<1>4. ASSUME NEW u \in Users, CancelRow(u)
      PROVE  NoOversell'
  BY <1>1, <1>2, <1>4, CountAfterCancel DEF NoOversell
<1>5. CASE UNCHANGED booking
  <2>1. countConfirmed' = countConfirmed
    BY <1>5 DEF countConfirmed, Confirmed
  <2> QED BY <1>1, <1>2, <2>1 DEF NoOversell
<1> QED BY <1>3, <1>4, <1>5 DEF Effect, storeVars, Begin, Drop, rowVars,
                          StoreStep, UpdateCapacity, DeleteEvent, Tick

LEMMA SeatsAreReservedStep ==
    ASSUME StoreTypeOK, SeatsAreReserved, CapacityIsNotStale, Effect,
           req \in [Requests -> Request], "lower" \notin Env
    PROVE  SeatsAreReserved'
<1> SUFFICES ASSUME NEW z \in Sessions, Live(z)', tx'[z].to = "CONFIRMED"
             PROVE  countConfirmed' < capacity'
  BY DEF SeatsAreReserved, Sessions
<1>0. IsOpen(z)'
  BY DEF Live
<1>1. capacity \in Nat /\ capacity' \in Nat /\ capacity <= capacity'
  BY CapacityGrows
<1>2. countConfirmed \in Nat /\ countConfirmed' \in Nat
  BY CountType DEF countConfirmed, Confirmed
<1>3. ASSUME UNCHANGED booking, Live(z), tx[z].to = "CONFIRMED"
      PROVE  countConfirmed' < capacity'
  <2>1. countConfirmed' = countConfirmed
    BY <1>3 DEF countConfirmed, Confirmed
  <2> QED BY <1>1, <1>2, <1>3, <2>1 DEF SeatsAreReserved
<1>4. ASSUME NEW s \in Sessions, NEW u \in Users,
             NEW to \in {"CONFIRMED", "WAITLISTED"}, Begin(s, u, to), MayBegin(s, u, to)
      PROVE  countConfirmed' < capacity'
  <2>1. CASE z # s
    BY <1>3, <1>4, <2>1, AfterBegin DEF Begin, rowVars, Live, IsOpen
  <2>2. CASE z = s
    <3>1. to = "CONFIRMED"
      BY <1>4, <2>2, AfterBegin
    <3>2. CASE s \in Requests /\ req[s].pc = "begin" /\ countConfirmed < req[s].cap
      <4>1. req[s].cap \in Nat
        BY <3>2, RequestFields, StoreAssumption DEF BookingReq, Capacities
      <4>2. req[s].cap <= capacity
        BY <3>2 DEF CapacityIsNotStale
      <4> QED BY <1>1, <1>2, <3>2, <4>1, <4>2, <1>4
              DEF Begin, rowVars, countConfirmed, Confirmed
    <3>3. CASE countConfirmed < capacity
      BY <1>4, <3>3 DEF Begin, rowVars, countConfirmed, Confirmed
    <3> QED BY <1>4, <3>1, <3>2, <3>3 DEF MayBegin
  <2> QED BY <2>1, <2>2
<1>5. ASSUME NEW s \in Sessions, Commit(s)
      PROVE  countConfirmed' < capacity'
  <2>1. Live(z) /\ ~Conflict(tx[s], tx[z]) /\ tx[z].to = "CONFIRMED"
    BY <1>0, <1>5, AfterCommit
  <2>2. tx[s].to # "CONFIRMED"
    BY <2>1 DEF Conflict, Affects
  <2> QED BY <1>1, <1>2, <1>5, <2>1, <2>2, CountAfterCommit DEF SeatsAreReserved
<1>6. ASSUME NEW u \in Users, CancelRow(u)
      PROVE  countConfirmed' < capacity'
  <2>1. Live(z) /\ tx[z].to = "CONFIRMED"
    BY <1>0, <1>6, AfterCancel
  <2> QED BY <1>1, <1>2, <1>6, <2>1, CountAfterCancel DEF SeatsAreReserved
<1>7. ASSUME NEW S \in SUBSET Sessions, Drop(S)
      PROVE  countConfirmed' < capacity'
  BY <1>0, <1>3, <1>7, AfterDrop DEF Drop, rowVars, Live, IsOpen
<1>8. CASE UNCHANGED storeVars \/ StoreStep
  BY <1>3, <1>8 DEF storeVars, StoreStep, UpdateCapacity, DeleteEvent, Tick, Live, IsOpen
<1> QED BY <1>4, <1>5, <1>6, <1>7, <1>8 DEF Effect

\* Where the capacity a booking request holds comes from.
LEMMA CapOrigin ==
    ASSUME TypeOK, [Next]_vars, NEW r \in Requests,
           req'[r].pc \in {"begin", "tx"}
    PROVE  \/ req[r].pc \in {"begin", "tx"} /\ req'[r].cap = req[r].cap
           \/ req'[r].cap = capacity
<1>1. CASE req'[r] = req[r]
  BY <1>1
<1>2. CASE req'[r] # req[r]
  <2> USE DEF TypeOK, ServiceTypeOK
  <2>1. ApiStep
    BY <1>2, WorkerStepType DEF Next, vars, DatabaseStep
  <2>2. req'[r] # Idle
    BY DEF Idle
  <2>3. CASE CrashServer
    BY <2>2, <2>3 DEF CrashServer
  <2>4. ASSUME NEW q \in Requests, NEW u \in Users, StartBooking(q, u)
        PROVE  req'[r].cap = capacity
    BY <1>2, <2>4 DEF StartBooking
  <2>5. ASSUME NEW q \in Requests, NEW u \in Users,
               NEW actor \in Users \cup {Admin}, StartCancel(q, actor, u)
        PROVE  FALSE
    BY <1>2, <2>5 DEF StartCancel
  <2>6. ASSUME NEW q \in Requests, RequestStep(q)
        PROVE  req[r].pc \in {"begin", "tx"} /\ req'[r].cap = req[r].cap
    <3>1. q = r
      BY <1>2, <2>6 DEF RequestStep, BookSeat, BookWaitlist, Write, AnswerExisting,
            CommitBooking, RejectBooking, RetryBooking, GiveUpBooking, FinishCancel,
            LosePromotion, EnqueuePromotion, Finish
    <3>2. ~FinishCancel(r)
      <4> SUFFICES ASSUME FinishCancel(r)
                   PROVE  FALSE
        OBVIOUS
      <4>1. req[r] \in CancelReq
        BY RequestFields DEF FinishCancel, Request
      <4>2. req'[r] = [req[r] EXCEPT !.pc = "enqueue"]
        BY <2>2 DEF FinishCancel, Finish
      <4> QED BY <4>1, <4>2 DEF CancelReq
    <3>3. \/ BookSeat(r) \/ BookWaitlist(r)
          \/ RetryBooking(r)
      BY <2>2, <2>6, <3>1, <3>2
         DEF RequestStep, AnswerExisting, CommitBooking, RejectBooking, GiveUpBooking,
             LosePromotion, EnqueuePromotion, Finish
    <3>4. req[r] \in BookingReq
      BY <3>3, RequestFields DEF BookSeat, BookWaitlist, RetryBooking,
                                 SerializationFailure, Request
    <3>5. \/ req'[r] = [req[r] EXCEPT !.pc = "tx"]
          \/ req'[r] = [req[r] EXCEPT !.pc = "begin", !.attempt = req[r].attempt + 1]
      BY <3>3 DEF BookSeat, BookWaitlist, Write, RetryBooking
    <3> QED BY <3>4, <3>5 DEF BookingReq
  <2> QED BY <2>1, <2>3, <2>4, <2>5, <2>6 DEF ApiStep, NewRequest
<1> QED BY <1>1, <1>2

LEMMA CapacityIsNotStaleStep ==
    ASSUME TypeOK, CapacityIsNotStale, [Next]_vars, "lower" \notin Env
    PROVE  CapacityIsNotStale'
<1> SUFFICES ASSUME NEW r \in Requests, req'[r].pc \in {"begin", "tx"}
             PROVE  req'[r].cap <= capacity'
  BY DEF CapacityIsNotStale
<1>1. capacity \in Nat /\ capacity' \in Nat /\ capacity <= capacity'
  BY CapacityGrows, StepEffect, TypeIsStoreType
<1>2. CASE req'[r].cap = capacity
  BY <1>1, <1>2
<1>3. CASE req[r].pc \in {"begin", "tx"} /\ req'[r].cap = req[r].cap
  <2>1. req[r].cap \in Nat
    BY <1>3, RequestFields, StoreAssumption
       DEF TypeOK, ServiceTypeOK, Request, BookingReq, Capacities
  <2>2. req[r].cap <= capacity
    BY <1>3 DEF CapacityIsNotStale
  <2> QED BY <1>1, <1>3, <2>1, <2>2
<1> QED BY <1>2, <1>3, CapOrigin

LEMMA InitSeatInv ==
    ASSUME Init
    PROVE  SeatInv
<1>1. RowInv
  BY InitRowInv
<1>2. NoOversell
  <2>1. Confirmed = {}
    BY DEF Init, ServiceInit, StoreInit, Confirmed
  <2>2. capacity \in Nat
    BY StoreAssumption DEF Init, ServiceInit, StoreInit, Capacities
  <2> QED BY <2>1, <2>2, FS_EmptySet DEF NoOversell, countConfirmed
<1>3. SeatsAreReserved /\ CapacityIsNotStale
  BY DEF Init, ServiceInit, StoreInit, SeatsAreReserved, CapacityIsNotStale,
         Live, IsOpen, Idle
<1> QED BY <1>1, <1>2, <1>3 DEF SeatInv

LEMMA StepSeatInv ==
    ASSUME SeatInv, [Next]_vars, "lower" \notin Env
    PROVE  SeatInv'
<1> USE DEF SeatInv
<1>1. RowInv'
  BY StepRowInv
<1>2. TypeOK /\ StoreTypeOK /\ Effect /\ req \in [Requests -> Request]
  BY StepEffect, TypeIsStoreType DEF RowInv, TypeOK, ServiceTypeOK, Request
<1>3. NoOversell'
  BY <1>2, NoOversellStep
<1>4. SeatsAreReserved'
  BY <1>2, SeatsAreReservedStep
<1>5. CapacityIsNotStale'
  BY <1>2, CapacityIsNotStaleStep
<1> QED BY <1>1, <1>3, <1>4, <1>5

-----------------------------------------------------------------------------
(* The largest capacity there can have been: also when it is lowered.      *)

\* A transaction that can still commit a seat stays within the largest capacity.
CommitsFit ==
    \A s \in Sessions :
        Live(s) /\ tx[s].to = "CONFIRMED" => countConfirmed < MaxCapacity

LEMMA FitsStep ==
    ASSUME StoreTypeOK, FitsLargestCapacity, CommitsFit, Effect
    PROVE  FitsLargestCapacity'
<1>1. MaxCapacity \in Nat /\ countConfirmed \in Nat /\ countConfirmed' \in Nat
  BY StoreAssumption, CountType DEF countConfirmed, Confirmed
<1>2. ASSUME NEW s \in Sessions, Commit(s)
      PROVE  FitsLargestCapacity'
  <2>1. tx[s].to = "CONFIRMED" => countConfirmed < MaxCapacity
    BY <1>2 DEF Commit, Committable, CommitsFit
  <2> QED BY <1>1, <1>2, <2>1, CountAfterCommit DEF FitsLargestCapacity
<1>3. ASSUME NEW u \in Users, CancelRow(u)
      PROVE  FitsLargestCapacity'
  BY <1>1, <1>3, CountAfterCancel DEF FitsLargestCapacity
<1>4. CASE UNCHANGED booking
  BY <1>4 DEF FitsLargestCapacity, countConfirmed, Confirmed
<1> QED BY <1>2, <1>3, <1>4 DEF Effect, storeVars, Begin, Drop, rowVars,
                          StoreStep, UpdateCapacity, DeleteEvent, Tick

LEMMA CommitsFitStep ==
    ASSUME StoreTypeOK, CommitsFit, Effect, req \in [Requests -> Request]
    PROVE  CommitsFit'
<1> SUFFICES ASSUME NEW z \in Sessions, Live(z)', tx'[z].to = "CONFIRMED"
             PROVE  countConfirmed' < MaxCapacity
  BY DEF CommitsFit, Sessions
<1>0. IsOpen(z)'
  BY DEF Live
<1>1. /\ MaxCapacity \in Nat /\ countConfirmed \in Nat /\ countConfirmed' \in Nat
      /\ capacity \in Nat /\ capacity <= MaxCapacity
  BY StoreAssumption, CountType DEF countConfirmed, Confirmed, StoreTypeOK, Capacities
<1>2. ASSUME UNCHANGED booking, Live(z), tx[z].to = "CONFIRMED"
      PROVE  countConfirmed' < MaxCapacity
  BY <1>2 DEF CommitsFit, countConfirmed, Confirmed
<1>3. ASSUME NEW s \in Sessions, NEW u \in Users,
             NEW to \in {"CONFIRMED", "WAITLISTED"}, Begin(s, u, to), MayBegin(s, u, to)
      PROVE  countConfirmed' < MaxCapacity
  <2>1. CASE z # s
    BY <1>2, <1>3, <2>1, AfterBegin DEF Begin, rowVars, Live, IsOpen
  <2>2. CASE z = s
    <3>1. to = "CONFIRMED"
      BY <1>3, <2>2, AfterBegin
    <3>2. CASE s \in Requests /\ req[s].pc = "begin" /\ countConfirmed < req[s].cap
      <4>1. req[s].cap \in Nat /\ req[s].cap <= MaxCapacity
        BY <3>2, RequestFields, StoreAssumption DEF BookingReq, Capacities
      <4> QED BY <1>1, <3>2, <4>1, <1>3 DEF Begin, rowVars, countConfirmed, Confirmed
    <3>3. CASE countConfirmed < capacity
      BY <1>1, <1>3, <3>3 DEF Begin, rowVars, countConfirmed, Confirmed
    <3> QED BY <1>3, <3>1, <3>2, <3>3 DEF MayBegin
  <2> QED BY <2>1, <2>2
<1>4. ASSUME NEW s \in Sessions, Commit(s)
      PROVE  countConfirmed' < MaxCapacity
  <2>1. Live(z) /\ ~Conflict(tx[s], tx[z]) /\ tx[z].to = "CONFIRMED"
    BY <1>0, <1>4, AfterCommit
  <2>2. tx[s].to # "CONFIRMED"
    BY <2>1 DEF Conflict, Affects
  <2> QED BY <1>1, <1>4, <2>1, <2>2, CountAfterCommit DEF CommitsFit
<1>5. ASSUME NEW u \in Users, CancelRow(u)
      PROVE  countConfirmed' < MaxCapacity
  <2>1. Live(z) /\ tx[z].to = "CONFIRMED"
    BY <1>0, <1>5, AfterCancel
  <2> QED BY <1>1, <1>5, <2>1, CountAfterCancel DEF CommitsFit
<1>6. ASSUME NEW S \in SUBSET Sessions, Drop(S)
      PROVE  countConfirmed' < MaxCapacity
  BY <1>0, <1>2, <1>6, AfterDrop DEF Drop, rowVars, Live, IsOpen
<1>7. CASE UNCHANGED storeVars \/ StoreStep
  BY <1>2, <1>7 DEF storeVars, StoreStep, UpdateCapacity, DeleteEvent, Tick, Live, IsOpen
<1> QED BY <1>3, <1>4, <1>5, <1>6, <1>7 DEF Effect

-----------------------------------------------------------------------------
(* The theorems.                                                           *)

\* However bookings, cancellations, promotions, capacity changes, aborts and
\* crashes interleave, a transaction that commits overwrites the status it read.
THEOREM LosesNoUpdate == Spec => []NoLostUpdate
<1>1. RowInv => NoLostUpdate
  BY DEF RowInv
<1> QED BY <1>1, RowInvariant, PTL

\* A deleted event leaves no row, no cancel under way and no promotion job.
THEOREM EventsOutliveBookings == Spec => []EventOutlivesBookings
<1>1. RowInv => EventOutlivesBookings
  <2> SUFFICES ASSUME RowInv, ~exists
               PROVE  /\ \A u \in Users : booking[u] = "NONE"
                      /\ \A j \in Jobs : job[j].state = "none"
                      /\ \A r \in Requests : req[r].pc \notin {"cancel", "enqueue"}
    BY DEF EventOutlivesBookings
  <2>1. \A u \in Users : booking[u] = "NONE"
    BY DEF RowInv, RowsNeedEvent
  <2>2. \A j \in Jobs : job[j].state = "none"
    BY <2>1 DEF RowInv, WorkNeedsRows, SomeRow
  <2>3. ASSUME NEW r \in Requests, req[r].pc \in {"cancel", "enqueue"}
        PROVE  FALSE
    <3>1. req[r].user \in Users
      BY <2>3, RequestFields DEF RowInv, TypeOK, ServiceTypeOK, Request, CancelReq
    <3> QED BY <2>1, <2>3, <3>1 DEF RowInv, WorkNeedsRows
  <2> QED BY <2>1, <2>2, <2>3
<1> QED BY <1>1, RowInvariant, PTL

\* A waiting user who gets a seat is, in the state in which the promotion
\* commits, among those whose rows are oldest.
THEOREM OldestIsPromoted == Spec => PromotesOldest
<1>1. RowInv /\ [Next]_vars =>
        [\A u \in Waiting :
           booking'[u] = "CONFIRMED"
              => \A v \in Waiting : createdAt[u] <= createdAt[v]]_vars
  <2> SUFFICES ASSUME RowInv, [Next]_vars,
                      NEW u \in Users, booking[u] = "WAITLISTED",
                      booking'[u] = "CONFIRMED"
               PROVE  u \in findOldestWaitlisted
    BY DEF Waiting, findOldestWaitlisted
  <2>1. StoreTypeOK /\ Effect
    BY StepEffect, TypeIsStoreType DEF RowInv
  <2>2. ASSUME NEW s \in Sessions, Commit(s)
        PROVE  u \in findOldestWaitlisted
    <3>1. u = tx[s].row
      BY <2>1, <2>2 DEF Commit, StoreTypeOK
    <3>2. Live(s)
      BY <2>2 DEF Commit, Committable
    <3> QED BY <3>1, <3>2 DEF RowInv, NoLostUpdate, PromotionsHoldOldest
  <2>3. ASSUME NEW v \in Users, CancelRow(v)
        PROVE  FALSE
    BY <2>1, <2>3 DEF CancelRow, StoreTypeOK
  <2> QED BY <2>1, <2>2, <2>3 DEF Effect, storeVars, Begin, Drop, rowVars, StoreStep,
                                UpdateCapacity, DeleteEvent, Tick
<1> QED BY <1>1, RowInvariant, PTL DEF Spec, PromotesOldest

\* The inductive invariant behind NeverOversold.
THEOREM SeatInvariant == "lower" \notin Env => (Spec => []SeatInv)
<1> SUFFICES ASSUME "lower" \notin Env
             PROVE  Spec => []SeatInv
  OBVIOUS
<1>1. Init => SeatInv
  BY InitSeatInv
<1>2. SeatInv /\ [Next]_vars => SeatInv'
  BY StepSeatInv
<1> QED BY <1>1, <1>2, PTL DEF Spec

\* While nobody lowers the capacity, no schedule of concurrent bookings,
\* cancellations, promotions, retries and crashes confirms more users than
\* the event has seats.
THEOREM NeverOversold == "lower" \notin Env => (Spec => []NoOversell)
<1> SUFFICES ASSUME "lower" \notin Env
             PROVE  Spec => []NoOversell
  OBVIOUS
<1>1. SeatInv => NoOversell
  BY DEF SeatInv
<1> QED BY <1>1, SeatInvariant, PTL

\* Whatever the organizer does, and however stale the capacity a booking has been
\* compared with, the confirmed bookings fit the largest capacity.
THEOREM NeverAboveTheLargest == Spec => []FitsLargestCapacity
<1> DEFINE Fits == FitsLargestCapacity /\ CommitsFit
<1>1. Init => Fits
  <2> SUFFICES ASSUME Init
               PROVE  Fits
    OBVIOUS
  <2>1. countConfirmed = 0
    BY FS_EmptySet DEF Init, ServiceInit, StoreInit, Confirmed, countConfirmed
  <2>2. MaxCapacity \in Nat
    BY StoreAssumption
  <2>3. CommitsFit
    BY DEF Init, ServiceInit, StoreInit, CommitsFit, Live, IsOpen
  <2> QED BY <2>1, <2>2, <2>3 DEF FitsLargestCapacity
<1>2. TypeOK /\ Fits /\ [Next]_vars => Fits'
  <2> SUFFICES ASSUME TypeOK, Fits, [Next]_vars
               PROVE  Fits'
    OBVIOUS
  <2>1. StoreTypeOK /\ Effect /\ req \in [Requests -> Request]
    BY StepEffect, TypeIsStoreType DEF TypeOK, ServiceTypeOK, Request
  <2> QED BY <2>1, FitsStep, CommitsFitStep
<1> QED BY TypeCorrect, <1>1, <1>2, PTL DEF Spec

-----------------------------------------------------------------------------
(* The booking system implements SeatAllocation.                         *)

LEMMA SeatsType ==
    ASSUME StoreTypeOK
    PROVE  capacity \in Nat /\ capacity > 0 /\ capacity <= MaxCapacity
  BY StoreAssumption DEF StoreTypeOK, Capacities

LEMMA SameCardinality ==
    ASSUME NEW S
    PROVE  Alloc!Cardinality(S) = Cardinality(S)
  BY DEF Alloc!Cardinality, Cardinality

LEMMA CommitAllocates ==
    ASSUME SeatInv, NEW s \in Sessions, Commit(s)
    PROVE  Alloc!Next
<1> DEFINE u == tx[s].row
<1>1. StoreTypeOK
  BY TypeIsStoreType DEF SeatInv, RowInv
<1>2. /\ tx[s] \in Tx
      /\ booking[u] = tx[s].from
      /\ tx[s].from # "CONFIRMED"
      /\ tx[s].from = "WAITLISTED" => tx[s].to = "CONFIRMED"
      /\ tx[s].to = "CONFIRMED" => countConfirmed < capacity
  BY <1>1, LiveTxType
     DEF Commit, Committable, Live, SeatInv, RowInv, NoLostUpdate, WritesMakeSense,
         SeatsAreReserved
<1>3. u \in Users /\ tx[s].to \in {"CONFIRMED", "WAITLISTED"}
  BY <1>2 DEF Tx
<1>4. exists /\ exists' = exists /\ capacity' = capacity
  BY <1>2, <1>3 DEF Commit, Committable, SeatInv, RowInv, RowsNeedEvent
<1>5. \A v \in Users : booking'[v] = IF v = u THEN tx[s].to ELSE booking[v]
  BY <1>1 DEF Commit, StoreTypeOK
<1>6. u \notin Confirmed
  BY <1>2 DEF Confirmed
<1>7. CASE tx[s].to = "CONFIRMED"
  <2>1. Confirmed' = Confirmed \cup {u} /\ Waiting' = Waiting \ {u}
    BY <1>3, <1>5, <1>7 DEF Confirmed, Waiting
  <2>2. Alloc!SeatFree
    BY <1>2, <1>4, <1>7, SameCardinality DEF Alloc!SeatFree, countConfirmed
  <2>3. CASE u \in Waiting
    <3>1. Alloc!Promote(u)
      BY <1>4, <2>1, <2>2, <2>3 DEF Alloc!Promote
    <3> QED BY <1>3, <3>1 DEF Alloc!Next
  <2>4. CASE u \notin Waiting
    <3>1. Waiting' = Waiting
      BY <2>1, <2>4
    <3>2. Alloc!Take(u)
      BY <1>4, <1>6, <2>1, <2>2, <2>4, <3>1 DEF Alloc!Take
    <3> QED BY <1>3, <3>2 DEF Alloc!Next
  <2> QED BY <2>3, <2>4
<1>8. CASE tx[s].to = "WAITLISTED"
  <2>1. u \notin Waiting
    BY <1>2, <1>8 DEF Waiting
  <2>2. Confirmed' = Confirmed /\ Waiting' = Waiting \cup {u}
    BY <1>3, <1>5, <1>6, <1>8 DEF Confirmed, Waiting
  <2>3. Alloc!Wait(u)
    BY <1>1, <1>4, <1>6, <2>1, <2>2, SeatsType DEF Alloc!Wait
  <2> QED BY <1>3, <2>3 DEF Alloc!Next
<1> QED BY <1>3, <1>7, <1>8

LEMMA CancelAllocates ==
    ASSUME StoreTypeOK, NEW u \in Users, CancelRow(u)
    PROVE  [Alloc!Next]_(Alloc!allocVars)
<1>1. Confirmed' = Confirmed \ {u} /\ Waiting' = Waiting \ {u}
  BY DEF CancelRow, StoreTypeOK, Confirmed, Waiting
<1>2. exists' = exists /\ capacity' = capacity
  BY DEF CancelRow
<1>3. CASE u \in Confirmed \cup Waiting
  <2>1. Alloc!Leave(u)
    BY <1>1, <1>2, <1>3 DEF Alloc!Leave
  <2> QED BY <2>1 DEF Alloc!Next
<1>4. CASE u \notin Confirmed \cup Waiting
  BY <1>1, <1>2, <1>4 DEF Alloc!allocVars
<1> QED BY <1>3, <1>4

LEMMA OrganizerAllocates ==
    ASSUME StoreTypeOK, StoreStep, "lower" \notin Env
    PROVE  [Alloc!Next]_(Alloc!allocVars)
<1>1. Confirmed' = Confirmed /\ Waiting' = Waiting
  BY DEF StoreStep, UpdateCapacity, DeleteEvent, Tick, Confirmed, Waiting
<1>2. ASSUME NEW c \in Capacities, UpdateCapacity(c)
      PROVE  Alloc!Grow
  <2>1. c \in Nat /\ c > capacity /\ c <= MaxCapacity
    BY <1>2, SeatsType, StoreAssumption DEF UpdateCapacity, Capacities
  <2>2. capacity' = c /\ exists /\ exists' = exists
    BY <1>2 DEF UpdateCapacity
  <2>3. c \in (capacity + 1)..MaxCapacity
    BY <2>1, SeatsType, StoreAssumption
  <2> QED BY <1>1, <2>2, <2>3, SeatsType DEF Alloc!Grow
<1>3. CASE DeleteEvent
  <2>1. Confirmed = {} /\ Waiting = {}
    BY <1>3 DEF DeleteEvent, Confirmed, Waiting
  <2>2. exists /\ ~exists'
    BY <1>3 DEF DeleteEvent
  <2>3. Alloc!Close
    BY <1>1, <2>1, <2>2, SeatsType DEF Alloc!Close
  <2> QED BY <2>3 DEF Alloc!Next
<1>4. CASE Tick
  BY <1>1, <1>4 DEF Tick, Alloc!allocVars
<1> QED BY <1>2, <1>3, <1>4 DEF StoreStep, Alloc!Next

\* Whatever the API process and the workers do, users see seats handed out one
\* at a time, from the waitlist or directly, and never more than there are.
THEOREM ImplementsAllocation == "lower" \notin Env => (Spec => AllocatesSeats)
<1> SUFFICES ASSUME "lower" \notin Env
             PROVE  Spec => AllocatesSeats
  OBVIOUS
<1>1. Init => Alloc!Init
  <2> SUFFICES ASSUME Init
               PROVE  Alloc!Init
    OBVIOUS
  <2>1. Confirmed = {} /\ Waiting = {}
    BY DEF Init, ServiceInit, StoreInit, Confirmed, Waiting
  <2>2. exists /\ capacity \in 1..MaxCapacity
    BY DEF Init, ServiceInit, StoreInit, Capacities
  <2> QED BY <2>1, <2>2 DEF Alloc!Init
<1>2. SeatInv /\ [Next]_vars => [Alloc!Next]_(Alloc!allocVars)
  <2> SUFFICES ASSUME SeatInv, [Next]_vars
               PROVE  [Alloc!Next]_(Alloc!allocVars)
    OBVIOUS
  <2>1. StoreTypeOK /\ Effect
    BY StepEffect, TypeIsStoreType DEF SeatInv, RowInv
  <2>2. CASE UNCHANGED rowVars
    BY <2>2 DEF rowVars, Confirmed, Waiting, Alloc!allocVars
  <2> QED BY <2>1, <2>2, CommitAllocates, CancelAllocates, OrganizerAllocates
          DEF Effect, storeVars, rowVars, Begin, Drop
<1>3. Init => SeatInv
  BY InitSeatInv
<1>4. SeatInv /\ [Next]_vars => SeatInv'
  BY StepSeatInv
<1> QED BY <1>1, <1>2, <1>3, <1>4, PTL DEF Spec, AllocatesSeats, Alloc!Spec
=============================================================================
