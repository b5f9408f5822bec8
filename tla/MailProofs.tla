----------------------------- MODULE MailProofs -----------------------------
(***************************************************************************)
(* Proofs about the confirmation mails, for any number of users, requests, *)
(* worker processes and jobs.                                              *)
(***************************************************************************)
EXTENDS ConfirmationMail, SeatProofs

-----------------------------------------------------------------------------
(* The waitlist goes on below the mails as it does without them.           *)

LEMMA MailStepIsStep ==
    ASSUME [MailNext]_allVars
    PROVE  [Next]_vars
<1>1. CASE UNCHANGED allVars
  BY <1>1 DEF allVars
<1>2. CASE WithoutMail(ApiStep) \/ WithoutMail(DatabaseStep)
  BY <1>2 DEF WithoutMail, Next
<1>3. ASSUME NEW w \in Workers, WithoutMail(PromotionStep(w)) \/ CommitOwing(w)
      PROVE  Next
  BY <1>3 DEF WithoutMail, CommitOwing, Next, WorkerStep
<1>4. ASSUME NEW w \in Workers, SettleMail(w)
      PROVE  Next
  BY <1>4 DEF SettleMail, EnqueueMail, ForgetMail, Next, WorkerStep
<1>5. ASSUME NEW w \in Workers, MailStep(w)
      PROVE  UNCHANGED vars
  BY <1>5 DEF MailStep, TakeMail, SendConfirmation, FailMail, CompleteMail
<1>6. ASSUME NEW w \in Workers, CrashMailing(w)
      PROVE  [Next]_vars
  BY <1>6 DEF CrashMailing, Next
<1> QED BY <1>1, <1>2, <1>3, <1>4, <1>5, <1>6 DEF MailNext

\* The composition behaves, in the variables of the waitlist, as the waitlist does
\* alone: what is proved of Spec holds of it.
THEOREM MailRefinesWaitlist == MailSpec => Spec
<1>1. MailInit => Init
  BY DEF MailInit
<1>2. [MailNext]_allVars => [Next]_vars
  BY MailStepIsStep
<1> QED BY <1>1, <1>2, PTL DEF MailSpec, Spec

\* While nobody lowers the capacity, the whole system with its mails still hands
\* out seats one at a time, in order, and never more than there are.
THEOREM MailImplementsAllocation == "lower" \notin Env => (MailSpec => AllocatesSeats)
  BY MailRefinesWaitlist, ImplementsAllocation

-----------------------------------------------------------------------------
(* The booking-email queue and its workers.                                *)

SomeMailJob == [state: {"none", "waiting", "active"}, failed: 0..(JobAttempts - 1),
                stalled: 0..MaxStalled, sends: Nat]

\* A worker at a mail has the job to itself, and has sent it when it says so.
JobsAreHeld ==
    \A w \in Workers : mailing[w] # Idle =>
        /\ mail[mailing[w].row].state = "active"
        /\ mailing[w].pc = "sent" => mail[mailing[w].row].sends > 0
        /\ \A v \in Workers \ {w} :
             mailing[v] # Idle => mailing[v].row # mailing[w].row

QueueInv ==
    /\ mail \in [Users -> SomeMailJob]
    /\ mailing \in [Workers -> {Idle} \cup Mailing]
    /\ JobsAreHeld
    /\ MailsAreNotRepeated

LEMMA MailingType ==
    ASSUME QueueInv, NEW w \in Workers, mailing[w] # Idle
    PROVE  /\ mailing[w] = [pc |-> mailing[w].pc, row |-> mailing[w].row]
           /\ mailing[w].pc \in {"start", "sent"}
           /\ mailing[w].row \in Users
  BY DEF QueueInv, Mailing

LEMMA Starting ==
    ASSUME NEW w, mailing[w].pc \in {"start", "sent"}
    PROVE  mailing[w] # Idle
  BY DEF Idle

SentMail(u) == [pc |-> "sent", row |-> u]

\* One step of one worker with one job that no other worker holds.
LEMMA JobStep ==
    ASSUME QueueInv, NEW u \in Users, NEW w \in Workers,
           NEW j \in SomeMailJob, NEW m \in {Idle} \cup Mailing,
           \A v \in Workers \ {w} : mailing[v] # Idle => mailing[v].row # u,
           mailing[w] = Idle \/ mailing[w].row = u,
           m = Idle \/ (m.row = u /\ j.state = "active"),
           m = SentMail(u) => j.sends > 0,
           j.sends <= j.stalled + IF m = SentMail(u) THEN 1 ELSE 0,
           mail' = [mail EXCEPT ![u] = j],
           mailing' = [mailing EXCEPT ![w] = m]
    PROVE  QueueInv'
<1>1. mail' \in [Users -> SomeMailJob] /\ mailing' \in [Workers -> {Idle} \cup Mailing]
  BY DEF QueueInv
<1>2. m # Idle => m \in Mailing
  OBVIOUS
<1>3. JobsAreHeld'
  <2> SUFFICES ASSUME NEW v \in Workers, mailing'[v] # Idle
               PROVE  /\ mail'[mailing'[v].row].state = "active"
                      /\ mailing'[v].pc = "sent" => mail'[mailing'[v].row].sends > 0
                      /\ \A z \in Workers \ {v} :
                           mailing'[z] # Idle => mailing'[z].row # mailing'[v].row
    BY DEF JobsAreHeld
  <2>1. CASE v = w
    <3>1. mailing'[v] = m /\ m \in Mailing /\ m.row = u /\ mail'[u] = j
      BY <1>2, <2>1 DEF QueueInv
    <3>2. m.pc = "sent" => m = SentMail(u)
      BY <3>1 DEF Mailing, SentMail
    <3> QED BY <2>1, <3>1, <3>2 DEF QueueInv
  <2>2. CASE v # w
    <3>1. mailing'[v] = mailing[v] /\ mailing[v].row \in Users /\ mailing[v].row # u
      BY <2>2, MailingType DEF QueueInv
    <3>2. mail'[mailing[v].row] = mail[mailing[v].row]
      BY <3>1 DEF QueueInv
    <3>3. \A z \in Workers \ {v} : mailing'[z] # Idle => mailing'[z].row # mailing[v].row
      <4> SUFFICES ASSUME NEW z \in Workers \ {v}, mailing'[z] # Idle
                   PROVE  mailing'[z].row # mailing[v].row
        OBVIOUS
      <4>1. CASE z = w
        BY <3>1, <4>1 DEF QueueInv
      <4>2. CASE z # w
        BY <3>1, <4>2 DEF QueueInv, JobsAreHeld
      <4> QED BY <4>1, <4>2
    <3> QED BY <3>1, <3>2, <3>3 DEF QueueInv, JobsAreHeld
  <2> QED BY <2>1, <2>2
<1>4. MailsAreNotRepeated'
  <2> SUFFICES ASSUME NEW x \in Users
               PROVE  mail'[x].sends <= mail'[x].stalled
                        + (IF \E v \in Workers : mailing'[v] = [pc |-> "sent", row |-> x]
                           THEN 1 ELSE 0)
    BY DEF MailsAreNotRepeated
  <2>1. CASE x = u
    <3>1. mail'[x] = j /\ mailing'[w] = m
      BY <2>1 DEF QueueInv
    <3>2. j.sends \in Nat /\ j.stalled \in Nat
      BY ServiceAssumption DEF SomeMailJob
    <3> QED BY <2>1, <3>1, <3>2 DEF SentMail
  <2>2. CASE x # u
    <3>1. mail'[x] = mail[x]
      BY <2>2 DEF QueueInv
    <3>2. (\E v \in Workers : mailing[v] = [pc |-> "sent", row |-> x])
            => \E v \in Workers : mailing'[v] = [pc |-> "sent", row |-> x]
      <4> SUFFICES ASSUME NEW v \in Workers, mailing[v] = [pc |-> "sent", row |-> x]
                   PROVE  mailing'[v] = [pc |-> "sent", row |-> x]
        OBVIOUS
      <4>1. v # w
        BY <2>2 DEF Idle
      <4> QED BY <4>1 DEF QueueInv
    <3>3. mail[x].sends \in Nat /\ mail[x].stalled \in Nat
      BY ServiceAssumption DEF QueueInv, SomeMailJob
    <3>4. mail[x].sends <= mail[x].stalled
            + (IF \E v \in Workers : mailing[v] = [pc |-> "sent", row |-> x] THEN 1 ELSE 0)
      BY DEF QueueInv, MailsAreNotRepeated
    <3> QED BY <3>1, <3>2, <3>3, <3>4
  <2> QED BY <2>1, <2>2
<1> QED BY <1>1, <1>3, <1>4 DEF QueueInv

\* The case that the worker lets go of the job.
LEMMA ReleaseStep ==
    ASSUME QueueInv, NEW u \in Users, NEW w \in Workers, NEW j \in SomeMailJob,
           \A v \in Workers \ {w} : mailing[v] # Idle => mailing[v].row # u,
           mailing[w].row = u,
           j.sends <= j.stalled,
           mail' = [mail EXCEPT ![u] = j],
           mailing' = [mailing EXCEPT ![w] = Idle]
    PROVE  QueueInv'
<1>1. Idle # SentMail(u)
  BY DEF Idle, SentMail
<1>2. j.sends \in Nat /\ j.stalled \in Nat
  BY ServiceAssumption DEF SomeMailJob
<1>3. PICK m \in {Idle} \cup Mailing : m = Idle
  OBVIOUS
<1>4. m # SentMail(u)
  BY <1>1, <1>3
<1>5. j.sends <= j.stalled + IF m = SentMail(u) THEN 1 ELSE 0
  BY <1>2, <1>4
<1>6. mailing' = [mailing EXCEPT ![w] = m]
  BY <1>3
<1> QED BY <1>3, <1>4, <1>5, <1>6, JobStep

LEMMA NewMailType ==
    /\ GoneMail \in SomeMailJob /\ GoneMail.state = "none"
    /\ NewMail \in SomeMailJob
    /\ NewMail.state = "waiting" /\ NewMail.sends = 0 /\ NewMail.stalled = 0
    /\ GoneMail.sends = 0 /\ GoneMail.stalled = 0
  BY ServiceAssumption DEF GoneMail, NewMail, SomeMailJob

LEMMA EnqueueKeepsQueue ==
    ASSUME QueueInv, NEW u \in Users, mail[u] = GoneMail,
           mail' = [mail EXCEPT ![u] = NewMail], mailing' = mailing
    PROVE  QueueInv'
<1>1. mail' \in [Users -> SomeMailJob]
  BY NewMailType DEF QueueInv
<1>2. \A w \in Workers : mailing[w] # Idle => mailing[w].row \in Users \ {u}
  BY NewMailType, MailingType DEF QueueInv, JobsAreHeld
<1>3. \A w \in Workers : mailing[w] # Idle => mail'[mailing[w].row] = mail[mailing[w].row]
  BY <1>2 DEF QueueInv
<1>4. JobsAreHeld'
  BY <1>3 DEF QueueInv, JobsAreHeld
<1>5. MailsAreNotRepeated'
  BY NewMailType DEF QueueInv, MailsAreNotRepeated
<1> QED BY <1>1, <1>4, <1>5 DEF QueueInv

\* The job that worker w is at.
LEMMA HeldJob ==
    ASSUME QueueInv, NEW w \in Workers, mailing[w] # Idle
    PROVE  LET u == mailing[w].row IN
           /\ u \in Users
           /\ mail[u] \in SomeMailJob
           /\ mail[u].sends \in Nat /\ mail[u].stalled \in 0..MaxStalled
           /\ mail[u].stalled \in Nat
           /\ mail[u].state = "active"
           /\ \A v \in Workers \ {w} : mailing[v] # Idle => mailing[v].row # u
           /\ mailing[w].pc = "start" => mail[u].sends <= mail[u].stalled
           /\ mail[u].sends <= mail[u].stalled + 1
           /\ mailing[w].pc = "sent" => mail[u].sends > 0
<1> DEFINE u == mailing[w].row
<1>1. u \in Users
  BY MailingType
<1>2. /\ mail[u] \in SomeMailJob
      /\ mail[u].sends \in Nat /\ mail[u].stalled \in 0..MaxStalled
      /\ mail[u].stalled \in Nat
  BY <1>1, ServiceAssumption DEF QueueInv, SomeMailJob
<1>3. \A v \in Workers \ {w} : mailing[v] # Idle => mailing[v].row # u
  BY DEF QueueInv, JobsAreHeld
<1>4. mail[u].sends <= mail[u].stalled
        + (IF \E v \in Workers : mailing[v] = [pc |-> "sent", row |-> u] THEN 1 ELSE 0)
  BY <1>1 DEF QueueInv, MailsAreNotRepeated
<1>5. ASSUME NEW v \in Workers, mailing[v] = [pc |-> "sent", row |-> u]
      PROVE  mailing[w].pc = "sent"
  <2>1. mailing[v] # Idle
    BY <1>5 DEF Idle
  <2>2. v = w
    BY <1>3, <1>5, <2>1
  <2> QED BY <1>5, <2>2
<1>6. mailing[w].pc = "start" => mail[u].sends <= mail[u].stalled
  BY <1>2, <1>4, <1>5
<1>7. mail[u].sends <= mail[u].stalled + 1
  BY <1>2, <1>4
<1> QED BY <1>1, <1>2, <1>3, <1>6, <1>7 DEF QueueInv, JobsAreHeld

LEMMA MailStepKeepsQueue ==
    ASSUME QueueInv, NEW w \in Workers, MailStep(w)
    PROVE  QueueInv'
<1>1. ASSUME NEW u \in Users, TakeMail(w, u)
      PROVE  QueueInv'
  <2> DEFINE j == [mail[u] EXCEPT !.state = "active"]
             m == [pc |-> "start", row |-> u]
  <2>1. mail[u] \in SomeMailJob /\ mail[u].state = "waiting"
    BY <1>1 DEF TakeMail, QueueInv
  <2>2. /\ j \in SomeMailJob /\ j.state = "active"
        /\ j.sends = mail[u].sends /\ j.stalled = mail[u].stalled
    BY <2>1 DEF SomeMailJob
  <2>3. m \in Mailing /\ m.row = u /\ m # SentMail(u)
    BY DEF Mailing, SentMail
  <2>4. \A v \in Workers : mailing[v] # Idle => mailing[v].row # u
    BY <2>1 DEF QueueInv, JobsAreHeld
  <2>5. mail[u].sends <= mail[u].stalled
    <3>1. ~\E v \in Workers : mailing[v] = [pc |-> "sent", row |-> u]
      BY <2>4, Starting
    <3> QED BY <2>1, <3>1, ServiceAssumption DEF QueueInv, MailsAreNotRepeated, SomeMailJob
  <2>6. j.sends <= j.stalled + 0
    BY <2>1, <2>2, <2>5, ServiceAssumption DEF SomeMailJob
  <2>7. /\ mail' = [mail EXCEPT ![u] = j]
        /\ mailing' = [mailing EXCEPT ![w] = m]
        /\ mailing[w] = Idle
    BY <1>1 DEF TakeMail
  <2> HIDE DEF j, m
  <2> QED BY <2>2, <2>3, <2>4, <2>6, <2>7, JobStep
<1>2. CASE SendConfirmation(w)
  <2> DEFINE u == mailing[w].row
             j == [mail[u] EXCEPT !.sends = @ + 1]
             m == [mailing[w] EXCEPT !.pc = "sent"]
  <2>1. mailing[w].pc = "start" /\ mailing[w] # Idle
    BY <1>2, Starting DEF SendConfirmation
  <2>2. /\ u \in Users /\ mail[u] \in SomeMailJob /\ mail[u].state = "active"
        /\ \A v \in Workers \ {w} : mailing[v] # Idle => mailing[v].row # u
        /\ mail[u].sends <= mail[u].stalled
    BY <2>1, HeldJob
  <2>3. /\ j \in SomeMailJob /\ j.state = "active"
        /\ j.sends = mail[u].sends + 1 /\ j.stalled = mail[u].stalled
    BY <2>2 DEF SomeMailJob
  <2>4. m = SentMail(u) /\ m \in Mailing /\ m.row = u
    <3>1. mailing[w] = [pc |-> "start", row |-> u]
      BY <2>1, MailingType
    <3> QED BY <2>2, <3>1 DEF SentMail, Mailing
  <2>5. j.sends > 0 /\ j.sends <= j.stalled + 1
    BY <2>2, <2>3, ServiceAssumption DEF SomeMailJob
  <2>6. /\ mail' = [mail EXCEPT ![u] = j]
        /\ mailing' = [mailing EXCEPT ![w] = m]
    BY <1>2 DEF SendConfirmation
  <2> HIDE DEF u, j, m
  <2>7. mailing[w].row = u
    BY DEF u
  <2> QED BY <2>2, <2>3, <2>4, <2>5, <2>6, <2>7, JobStep
<1>3. CASE FailMail(w)
  <2> DEFINE u == mailing[w].row
             j == IF mail[u].failed + 1 < JobAttempts
                  THEN [mail[u] EXCEPT !.state = "waiting", !.failed = @ + 1]
                  ELSE GoneMail
  <2>1. mailing[w].pc = "start" /\ mailing[w] # Idle
    BY <1>3, Starting DEF FailMail, MailThrows
  <2>2. /\ u \in Users /\ mail[u] \in SomeMailJob
        /\ \A v \in Workers \ {w} : mailing[v] # Idle => mailing[v].row # u
        /\ mail[u].sends <= mail[u].stalled
    BY <2>1, HeldJob
  <2>3. j \in SomeMailJob /\ j.sends <= j.stalled
    <3>1. CASE mail[u].failed + 1 < JobAttempts
      <4>1. /\ j = [mail[u] EXCEPT !.state = "waiting", !.failed = @ + 1]
            /\ mail[u].failed + 1 \in 0..(JobAttempts - 1)
        BY <2>2, <3>1, ServiceAssumption DEF SomeMailJob
      <4>2. j \in SomeMailJob
        BY <2>2, <4>1 DEF SomeMailJob
      <4>3. j.sends = mail[u].sends /\ j.stalled = mail[u].stalled
        BY <2>2, <4>1 DEF SomeMailJob
      <4> QED BY <2>2, <4>2, <4>3
    <3>2. CASE ~(mail[u].failed + 1 < JobAttempts)
      BY <3>2, NewMailType
    <3> QED BY <3>1, <3>2
  <2>4. /\ mail' = [mail EXCEPT ![u] = j]
        /\ mailing' = [mailing EXCEPT ![w] = Idle]
    BY <1>3 DEF FailMail
  <2> HIDE DEF u, j
  <2>5. mailing[w].row = u
    BY DEF u
  <2> QED BY <2>2, <2>3, <2>4, <2>5, ReleaseStep
<1>4. CASE CompleteMail(w)
  <2> DEFINE u == mailing[w].row
  <2>1. mailing[w] # Idle
    BY <1>4, Starting DEF CompleteMail
  <2>2. /\ u \in Users
        /\ \A v \in Workers \ {w} : mailing[v] # Idle => mailing[v].row # u
    BY <2>1, HeldJob
  <2>3. /\ mail' = [mail EXCEPT ![u] = GoneMail]
        /\ mailing' = [mailing EXCEPT ![w] = Idle]
    BY <1>4 DEF CompleteMail
  <2> HIDE DEF u
  <2>4. mailing[w].row = u
    BY DEF u
  <2>5. GoneMail.sends <= GoneMail.stalled
    BY NewMailType
  <2> QED BY <2>2, <2>3, <2>4, <2>5, NewMailType, ReleaseStep
<1> QED BY <1>1, <1>2, <1>3, <1>4 DEF MailStep

LEMMA CrashKeepsQueue ==
    ASSUME QueueInv, NEW w \in Workers, CrashMailing(w)
    PROVE  QueueInv'
<1>1. CASE mailing[w] = Idle
  <2>1. mailing' = mailing /\ mail' = mail
    BY <1>1 DEF CrashMailing, QueueInv
  <2> QED BY <2>1 DEF QueueInv, JobsAreHeld, MailsAreNotRepeated
<1>2. CASE mailing[w] # Idle
  <2> DEFINE u == mailing[w].row
             j == Redelivered(mail[u])
  <2>1. /\ u \in Users /\ mail[u] \in SomeMailJob
        /\ \A v \in Workers \ {w} : mailing[v] # Idle => mailing[v].row # u
        /\ mail[u].sends <= mail[u].stalled + 1
    BY <1>2, HeldJob
  <2>2. j \in SomeMailJob /\ j.sends <= j.stalled
    <3>1. CASE mail[u].stalled < MaxStalled
      <4>1. /\ j = [mail[u] EXCEPT !.state = "waiting", !.stalled = @ + 1]
            /\ mail[u].stalled + 1 \in 0..MaxStalled
        BY <2>1, <3>1, ServiceAssumption DEF SomeMailJob, Redelivered
      <4>2. j \in SomeMailJob
        BY <2>1, <4>1 DEF SomeMailJob
      <4>3. j.sends = mail[u].sends /\ j.stalled = mail[u].stalled + 1
        BY <2>1, <4>1 DEF SomeMailJob
      <4> QED BY <2>1, <4>2, <4>3
    <3>2. CASE ~(mail[u].stalled < MaxStalled)
      BY <3>2, NewMailType DEF Redelivered
    <3> QED BY <3>1, <3>2
  <2>3. /\ mail' = [mail EXCEPT ![u] = j]
        /\ mailing' = [mailing EXCEPT ![w] = Idle]
    BY <1>2 DEF CrashMailing, QueueInv
  <2> HIDE DEF u, j
  <2>4. mailing[w].row = u
    BY DEF u
  <2> QED BY <2>1, <2>2, <2>3, <2>4, ReleaseStep
<1> QED BY <1>1, <1>2

-----------------------------------------------------------------------------
(* The mails that are owed.                                                *)

LEMMA PromotionCallsNobody ==
    ASSUME NEW w \in Workers, PromotionStep(w)
    PROVE  UNCHANGED outbox
  BY DEF PromotionStep, TakeJob, PromoteOldest, PromoteNobody, FailPromotion, CompleteJob

LEMMA CallsAreFinite ==
    ASSUME NEW u
    PROVE  IsFiniteSet(Calls(u)) /\ Cardinality(Calls(u)) \in Nat
<1>1. Calls(u) \in SUBSET Workers
  BY DEF Calls
<1>2. IsFiniteSet(Calls(u))
  BY <1>1, MailAssumption, FS_Subset
<1> QED BY <1>2, FS_CardinalityType

LEMMA CallGone ==
    ASSUME NEW u, NEW w \in Workers, w \in Calls(u), Calls(u)' = Calls(u) \ {w}
    PROVE  Cardinality(Calls(u)') = Cardinality(Calls(u)) - 1
  BY CallsAreFinite, FS_RemoveElement

LEMMA CallMade ==
    ASSUME NEW u, NEW w \in Workers, w \notin Calls(u), Calls(u)' = Calls(u) \cup {w}
    PROVE  Cardinality(Calls(u)') = Cardinality(Calls(u)) + 1
  BY CallsAreFinite, FS_AddElement

OwedInv == owed \in [Users -> Int] /\ OwedIsOnTheWay

\* What the owed mails of each booking depend on.
LEMMA OwedStep ==
    ASSUME OwedInv, owed' \in [Users -> Int],
           \A u \in Users :
               owed'[u] - owed[u] = (Cardinality(Calls(u)') - Cardinality(Calls(u)))
                                    + (Unsent(u)' - Unsent(u))
    PROVE  OwedInv'
<1> SUFFICES ASSUME NEW u \in Users
             PROVE  owed'[u] = Cardinality(Calls(u)') + Unsent(u)'
  BY DEF OwedInv, OwedIsOnTheWay
<1>1. Cardinality(Calls(u)) \in Nat
  BY CallsAreFinite
<1>2. Cardinality(Calls(u)') \in Nat
  <2>1. IsFiniteSet(Calls(u)')
    <3>1. Calls(u)' \in SUBSET Workers
      BY DEF Calls
    <3> QED BY <3>1, MailAssumption, FS_Subset
  <2> QED BY <2>1, FS_CardinalityType
<1>3. Unsent(u) \in Int /\ Unsent(u)' \in Int
  BY DEF Unsent
<1>4. owed[u] = Cardinality(Calls(u)) + Unsent(u)
  BY DEF OwedInv, OwedIsOnTheWay
<1>5. owed[u] \in Int /\ owed'[u] \in Int
  BY DEF OwedInv
<1>6. owed'[u] - owed[u] = (Cardinality(Calls(u)') - Cardinality(Calls(u)))
                           + (Unsent(u)' - Unsent(u))
  OBVIOUS
<1> QED BY <1>1, <1>2, <1>3, <1>4, <1>5, <1>6

LEMMA SameCalls ==
    ASSUME NEW u
    PROVE  /\ (\A w \in Workers : u \in outbox'[w] <=> u \in outbox[w])
                => Calls(u)' = Calls(u) /\ Cardinality(Calls(u)') - Cardinality(Calls(u)) = 0
<1>1. (\A w \in Workers : u \in outbox'[w] <=> u \in outbox[w]) => Calls(u)' = Calls(u)
  BY DEF Calls
<1>2. Calls(u)' = Calls(u) => Cardinality(Calls(u)') - Cardinality(Calls(u)) = 0
  BY CallsAreFinite
<1> QED BY <1>1, <1>2

LEMMA CommitKeepsOwed ==
    ASSUME TypeOK, OwedInv, NEW w \in Workers, CommitOwing(w)
    PROVE  OwedInv'
<1> DEFINE x == tx[w].row
<1>1. x \in Users
  <2>1. w \in Sessions /\ IsOpen(w)
    BY DEF Sessions, CommitOwing, CommitPromotion, Commit, Committable, Live
  <2> QED BY <2>1 DEF TypeOK, ServiceTypeOK, StoreTypeOK, IsOpen, Tx
<1>2. /\ owed' = [owed EXCEPT ![x] = @ + 1]
      /\ mail' = mail
      /\ outbox' = [outbox EXCEPT ![w] = @ \cup {x}]
      /\ x \notin outbox[w]
  BY DEF CommitOwing, CommitPromotion
<1>3. outbox \in [Workers -> SUBSET Users]
  BY DEF TypeOK
<1> HIDE DEF x
<1>4. owed' \in [Users -> Int]
  BY <1>1, <1>2 DEF OwedInv
<1> SUFFICES ASSUME NEW u \in Users
             PROVE  owed'[u] - owed[u] = (Cardinality(Calls(u)') - Cardinality(Calls(u)))
                                         + (Unsent(u)' - Unsent(u))
  BY <1>4, OwedStep
<1>5. Unsent(u)' - Unsent(u) = 0
  BY <1>2 DEF Unsent
<1>6. CASE u = x
  <2>1. w \notin Calls(u) /\ Calls(u)' = Calls(u) \cup {w}
    BY <1>2, <1>3, <1>6 DEF Calls
  <2>2. Cardinality(Calls(u)') = Cardinality(Calls(u)) + 1
    BY <2>1, CallMade
  <2>3. owed'[u] - owed[u] = 1
    BY <1>1, <1>2, <1>6 DEF OwedInv
  <2> QED BY <1>5, <2>2, <2>3, CallsAreFinite
<1>7. CASE u # x
  <2>1. \A v \in Workers : u \in outbox'[v] <=> u \in outbox[v]
    BY <1>2, <1>3, <1>7
  <2>2. owed'[u] - owed[u] = 0
    BY <1>1, <1>2, <1>7 DEF OwedInv
  <2> QED BY <1>5, <2>1, <2>2, SameCalls
<1> QED BY <1>6, <1>7

LEMMA SettleKeepsOwed ==
    ASSUME TypeOK, QueueInv, OwedInv, NEW w \in Workers, NEW x \in Users,
           EnqueueMail(w, x) \/ ForgetMail(w, x)
    PROVE  OwedInv'
<1>1. /\ x \in outbox[w]
      /\ outbox' = [outbox EXCEPT ![w] = @ \ {x}]
  BY DEF EnqueueMail, ForgetMail, SettleConfirmation
<1>2. outbox \in [Workers -> SUBSET Users]
  BY DEF TypeOK
<1>3. owed' \in [Users -> Int]
  BY DEF EnqueueMail, ForgetMail, OwedInv
<1> SUFFICES ASSUME NEW u \in Users
             PROVE  owed'[u] - owed[u] = (Cardinality(Calls(u)') - Cardinality(Calls(u)))
                                         + (Unsent(u)' - Unsent(u))
  BY <1>3, OwedStep
<1>4. CASE u = x
  <2>1. w \in Calls(u) /\ Calls(u)' = Calls(u) \ {w}
    BY <1>1, <1>2, <1>4 DEF Calls
  <2>2. Cardinality(Calls(u)') = Cardinality(Calls(u)) - 1
    BY <2>1, CallGone
  <2>3. CASE EnqueueMail(w, x)
    <3>1. Unsent(u) = 0 /\ Unsent(u)' = 1
      BY <1>4, <2>3, NewMailType DEF EnqueueMail, Unsent, QueueInv
    <3>2. owed'[u] - owed[u] = 0
      BY <2>3 DEF EnqueueMail, OwedInv
    <3> QED BY <2>2, <3>1, <3>2, CallsAreFinite
  <2>4. CASE ForgetMail(w, x)
    <3>1. Unsent(u)' - Unsent(u) = 0
      BY <2>4 DEF ForgetMail, Unsent
    <3>2. owed'[u] - owed[u] = -1
      BY <1>4, <2>4 DEF ForgetMail, OwedInv
    <3> QED BY <2>2, <3>1, <3>2, CallsAreFinite
  <2> QED BY <2>3, <2>4
<1>5. CASE u # x
  <2>1. \A v \in Workers : u \in outbox'[v] <=> u \in outbox[v]
    BY <1>1, <1>2, <1>5
  <2>2. owed'[u] - owed[u] = 0
    BY <1>5 DEF EnqueueMail, ForgetMail, OwedInv
  <2>3. Unsent(u)' - Unsent(u) = 0
    BY <1>5 DEF EnqueueMail, ForgetMail, Unsent, QueueInv
  <2> QED BY <2>1, <2>2, <2>3, SameCalls
<1> QED BY <1>4, <1>5

LEMMA MailStepKeepsOwed ==
    ASSUME QueueInv, OwedInv, NEW w \in Workers, MailStep(w)
    PROVE  OwedInv'
<1>0. outbox' = outbox
  BY DEF MailStep, TakeMail, SendConfirmation, FailMail, CompleteMail, vars
<1>1. \A u \in Users : Cardinality(Calls(u)') - Cardinality(Calls(u)) = 0
  BY <1>0, SameCalls
<1>2. SUFFICES /\ owed' \in [Users -> Int]
               /\ \A u \in Users : owed'[u] - owed[u] = Unsent(u)' - Unsent(u)
  <2>1. \A u \in Users : Unsent(u) \in Int /\ Unsent(u)' \in Int
    BY DEF Unsent
  <2> QED BY <1>1, <1>2, <2>1, OwedStep
<1>3. ASSUME NEW x \in Users, TakeMail(w, x)
      PROVE  /\ owed' \in [Users -> Int]
             /\ \A u \in Users : owed'[u] - owed[u] = Unsent(u)' - Unsent(u)
  <2>1. /\ mail' = [mail EXCEPT ![x] = [mail[x] EXCEPT !.state = "active"]]
        /\ mail[x] \in SomeMailJob /\ mail[x].state = "waiting"
        /\ owed' = owed
    BY <1>3 DEF TakeMail, QueueInv
  <2>2. \A u \in Users : Unsent(u)' = Unsent(u)
    BY <2>1 DEF Unsent, QueueInv, SomeMailJob
  <2>3. \A u \in Users : Unsent(u) \in Int
    BY DEF Unsent
  <2> QED BY <2>1, <2>2, <2>3 DEF OwedInv
<1>4. ASSUME NEW x \in Users, mail[x].state = "active", Settled(x), NEW j,
             mail' = [mail EXCEPT ![x] = j], j.state = "none" \/ j.sends # 0
      PROVE  /\ owed' \in [Users -> Int]
             /\ \A u \in Users : owed'[u] - owed[u] = Unsent(u)' - Unsent(u)
  <2>1. owed' \in [Users -> Int]
    BY <1>4 DEF Settled, OwedInv
  <2>2. mail'[x] = j
    BY <1>4 DEF QueueInv
  <2>3. owed'[x] - owed[x] = Unsent(x)' - Unsent(x)
    BY <1>4, <2>2 DEF Settled, OwedInv, Unsent
  <2>4. ASSUME NEW u \in Users, u # x
        PROVE  owed'[u] - owed[u] = Unsent(u)' - Unsent(u)
    BY <1>4, <2>4 DEF Settled, OwedInv, Unsent, QueueInv
  <2> QED BY <2>1, <2>3, <2>4
<1>5. CASE SendConfirmation(w)
  <2> DEFINE x == mailing[w].row
             j == [mail[x] EXCEPT !.sends = @ + 1]
  <2>1. x \in Users /\ mail[x] \in SomeMailJob /\ mail[x].state = "active" /\ mail[x].sends \in Nat
    BY <1>5, Starting, HeldJob DEF SendConfirmation
  <2>2. j.sends # 0
    BY <2>1 DEF SomeMailJob
  <2>3. Settled(x) /\ mail' = [mail EXCEPT ![x] = j]
    BY <1>5 DEF SendConfirmation
  <2> HIDE DEF x, j
  <2> QED BY <1>4, <2>1, <2>2, <2>3
<1>6. CASE FailMail(w)
  <2> DEFINE x == mailing[w].row
  <2>1. x \in Users /\ mail[x] \in SomeMailJob /\ mail[x].state = "active"
    BY <1>6, Starting, HeldJob DEF FailMail, MailThrows
  <2>2. CASE mail[x].failed + 1 < JobAttempts
    <3>1. /\ mail' = [mail EXCEPT ![x] = [mail[x] EXCEPT !.state = "waiting", !.failed = @ + 1]]
          /\ owed' = owed
      BY <1>6, <2>2 DEF FailMail
    <3> HIDE DEF x
    <3>2. \A u \in Users : Unsent(u)' = Unsent(u)
      BY <2>1, <3>1 DEF Unsent, QueueInv, SomeMailJob
    <3>3. \A u \in Users : Unsent(u) \in Int
      BY DEF Unsent
    <3> QED BY <3>1, <3>2, <3>3 DEF OwedInv
  <2>3. CASE ~(mail[x].failed + 1 < JobAttempts)
    <3>1. mail' = [mail EXCEPT ![x] = GoneMail] /\ Settled(x)
      BY <1>6, <2>3 DEF FailMail
    <3> HIDE DEF x
    <3> QED BY <1>4, <2>1, <3>1, NewMailType
  <2> QED BY <2>2, <2>3
<1>7. CASE CompleteMail(w)
  <2> DEFINE x == mailing[w].row
  <2>1. x \in Users /\ mail[x].sends > 0 /\ mail[x].sends \in Nat
    BY <1>7, Starting, HeldJob DEF CompleteMail
  <2>2. mail' = [mail EXCEPT ![x] = GoneMail] /\ owed' = owed
    BY <1>7 DEF CompleteMail
  <2> HIDE DEF x
  <2>3. \A u \in Users : Unsent(u)' = Unsent(u)
    BY <2>1, <2>2, NewMailType DEF Unsent, QueueInv
  <2>4. \A u \in Users : Unsent(u) \in Int
    BY DEF Unsent
  <2> QED BY <2>2, <2>3, <2>4 DEF OwedInv
<1> QED BY <1>3, <1>5, <1>6, <1>7 DEF MailStep

LEMMA CrashKeepsOwed ==
    ASSUME TypeOK, QueueInv, OwedInv, NEW w \in Workers, CrashMailing(w)
    PROVE  OwedInv'
<1> DEFINE IsMailed(u) == mailing[w] # Idle /\ mailing[w].row = u
           IsGivenUp(u) == /\ IsMailed(u)
                           /\ mail[u].stalled = MaxStalled
                           /\ mail[u].sends = 0
           Call(u) == IF u \in outbox[w] THEN 1 ELSE 0
           GivenUp(u) == IF IsGivenUp(u) THEN 1 ELSE 0
<1>1. /\ owed' = [u \in Users |-> owed[u] - (Call(u) + GivenUp(u))]
      /\ mail' = [u \in Users |-> IF IsMailed(u) THEN Redelivered(mail[u]) ELSE mail[u]]
  BY DEF CrashMailing
<1>2. outbox' = [outbox EXCEPT ![w] = {}]
  <2>1. outbox \in [Workers -> SUBSET Users]
    BY DEF TypeOK
  <2>2. CASE CrashWorker(w)
    BY <2>2 DEF CrashWorker
  <2>3. CASE outbox[w] = {} /\ UNCHANGED vars
    BY <2>1, <2>3 DEF vars
  <2> QED BY <2>2, <2>3 DEF CrashMailing
<1>3. owed' \in [Users -> Int]
  BY <1>1 DEF OwedInv
<1> SUFFICES ASSUME NEW u \in Users
             PROVE  owed'[u] - owed[u] = (Cardinality(Calls(u)') - Cardinality(Calls(u)))
                                         + (Unsent(u)' - Unsent(u))
  BY <1>3, OwedStep
<1>4. Cardinality(Calls(u)') - Cardinality(Calls(u)) = -Call(u)
  <2>1. outbox \in [Workers -> SUBSET Users]
    BY DEF TypeOK
  <2>2. CASE u \in outbox[w]
    <3>1. w \in Calls(u) /\ Calls(u)' = Calls(u) \ {w}
      BY <1>2, <2>1, <2>2 DEF Calls
    <3>2. Cardinality(Calls(u)') = Cardinality(Calls(u)) - 1
      BY <3>1, CallGone
    <3>3. Cardinality(Calls(u)) \in Nat
      BY CallsAreFinite
    <3> QED BY <2>2, <3>2, <3>3
  <2>3. CASE u \notin outbox[w]
    <3>1. \A v \in Workers : u \in outbox'[v] <=> u \in outbox[v]
      BY <1>2, <2>1, <2>3
    <3> QED BY <2>3, <3>1, SameCalls
  <2> QED BY <2>2, <2>3
<1>5. Unsent(u)' - Unsent(u) = -GivenUp(u)
  <2>1. CASE ~IsMailed(u)
    BY <1>1, <2>1 DEF Unsent
  <2>2. CASE IsMailed(u)
    <3>1. /\ mail[u] \in SomeMailJob /\ mail[u].state = "active"
          /\ mail[u].stalled \in 0..MaxStalled
      BY <2>2, HeldJob
    <3>2. mail'[u] = Redelivered(mail[u])
      BY <1>1, <2>2
    <3>3. CASE mail[u].stalled < MaxStalled
      <4>1. mail'[u] = [mail[u] EXCEPT !.state = "waiting", !.stalled = @ + 1]
        BY <3>2, <3>3 DEF Redelivered
      <4>2. mail'[u].state = "waiting" /\ mail'[u].sends = mail[u].sends
        BY <3>1, <4>1 DEF SomeMailJob
      <4>3. GivenUp(u) = 0
        BY <3>1, <3>3, ServiceAssumption
      <4> QED BY <3>1, <4>2, <4>3 DEF Unsent
    <3>4. CASE ~(mail[u].stalled < MaxStalled)
      <4>1. mail'[u] = GoneMail
        BY <3>2, <3>4 DEF Redelivered
      <4>2. mail[u].stalled = MaxStalled
        BY <3>1, <3>4, ServiceAssumption
      <4> QED BY <2>2, <3>1, <4>1, <4>2, NewMailType DEF Unsent
    <3> QED BY <3>3, <3>4
  <2> QED BY <2>1, <2>2
<1>6. owed'[u] - owed[u] = -(Call(u) + GivenUp(u))
  BY <1>1 DEF OwedInv
<1>7. Call(u) \in Int /\ GivenUp(u) \in Int
  OBVIOUS
<1> QED BY <1>4, <1>5, <1>6, <1>7

-----------------------------------------------------------------------------
(* The theorems.                                                           *)

MailInv == TypeOK /\ QueueInv /\ OwedInv

LEMMA InitMail == MailInit => MailInv
<1> SUFFICES ASSUME MailInit
             PROVE  MailInv
  OBVIOUS
<1>1. TypeOK
  BY InitType DEF MailInit
<1>2. QueueInv
  BY NewMailType DEF MailInit, QueueInv, JobsAreHeld, MailsAreNotRepeated
<1>3. OwedInv
  <2> SUFFICES ASSUME NEW u \in Users
               PROVE  Cardinality(Calls(u)) = 0 /\ Unsent(u) = 0
    BY DEF MailInit, OwedInv, OwedIsOnTheWay
  <2>1. Calls(u) = {}
    BY DEF MailInit, Init, Calls
  <2>2. Unsent(u) = 0
    BY NewMailType DEF MailInit, Unsent
  <2> QED BY <2>1, <2>2, FS_EmptySet
<1> QED BY <1>1, <1>2, <1>3 DEF MailInv

LEMMA StepMail ==
    ASSUME MailInv, [MailNext]_allVars
    PROVE  MailInv'
<1> USE DEF MailInv
<1>1. TypeOK'
  BY MailStepIsStep, StepType
<1>2. ASSUME UNCHANGED mailVars, UNCHANGED outbox
      PROVE  QueueInv' /\ OwedInv'
  <2>1. QueueInv'
    BY <1>2 DEF mailVars, QueueInv, JobsAreHeld, MailsAreNotRepeated
  <2>2. \A u \in Users : Calls(u)' = Calls(u) /\ Unsent(u)' = Unsent(u)
    BY <1>2 DEF mailVars, Calls, Unsent
  <2>3. OwedInv'
    BY <1>2, <2>2 DEF mailVars, OwedInv, OwedIsOnTheWay
  <2> QED BY <2>1, <2>3
<1>3. CASE UNCHANGED allVars
  BY <1>1, <1>2, <1>3 DEF allVars, vars
<1>4. CASE WithoutMail(ApiStep) \/ WithoutMail(DatabaseStep)
  BY <1>1, <1>2, <1>4 DEF WithoutMail, ApiStep, DatabaseStep, workerVars
<1>5. ASSUME NEW w \in Workers, WithoutMail(PromotionStep(w))
      PROVE  QueueInv' /\ OwedInv'
  BY <1>2, <1>5, PromotionCallsNobody DEF WithoutMail
<1>6. ASSUME NEW w \in Workers, CommitOwing(w)
      PROVE  QueueInv' /\ OwedInv'
  <2>1. QueueInv'
    BY <1>6 DEF CommitOwing, QueueInv, JobsAreHeld, MailsAreNotRepeated
  <2> QED BY <1>6, <2>1, CommitKeepsOwed
<1>7. ASSUME NEW w \in Workers, NEW u \in Users, EnqueueMail(w, u)
      PROVE  QueueInv' /\ OwedInv'
  BY <1>7, EnqueueKeepsQueue, SettleKeepsOwed DEF EnqueueMail
<1>8. ASSUME NEW w \in Workers, NEW u \in Users, ForgetMail(w, u)
      PROVE  QueueInv' /\ OwedInv'
  <2>1. QueueInv'
    BY <1>8 DEF ForgetMail, QueueInv, JobsAreHeld, MailsAreNotRepeated
  <2> QED BY <1>8, <2>1, SettleKeepsOwed
<1>9. ASSUME NEW w \in Workers, MailStep(w)
      PROVE  QueueInv' /\ OwedInv'
  BY <1>9, MailStepKeepsQueue, MailStepKeepsOwed
<1>10. ASSUME NEW w \in Workers, CrashMailing(w)
      PROVE  QueueInv' /\ OwedInv'
  BY <1>10, CrashKeepsQueue, CrashKeepsOwed
<1> QED
  BY <1>1, <1>3, <1>4, <1>5, <1>6, <1>7, <1>8, <1>9, <1>10 DEF MailNext, SettleMail

LEMMA MailInvariant == MailSpec => []MailInv
  BY InitMail, StepMail, PTL DEF MailSpec

\* No booking is owed less than nothing, and no mail job is sent more often than it
\* can be handed out.
THEOREM MailTypeCorrect == MailSpec => []MailTypeOK
<1>1. MailInv => MailTypeOK
  <2> SUFFICES ASSUME MailInv
               PROVE  MailTypeOK
    OBVIOUS
  <2> USE DEF MailInv
  <2>1. mail \in [Users -> MailJob]
    <3> SUFFICES ASSUME NEW u \in Users
                 PROVE  mail[u] \in MailJob
      BY DEF QueueInv
    <3>1. mail[u] \in SomeMailJob
      BY DEF QueueInv
    <3>2. mail[u].sends <= mail[u].stalled + 1
      <4> DEFINE sentNow == \E w \in Workers : mailing[w] = [pc |-> "sent", row |-> u]
      <4>1. mail[u].sends <= mail[u].stalled + (IF sentNow THEN 1 ELSE 0)
        BY DEF QueueInv, MailsAreNotRepeated
      <4>2. mail[u].sends \in Nat /\ mail[u].stalled \in Nat
        BY <3>1, ServiceAssumption DEF SomeMailJob
      <4> HIDE DEF sentNow
      <4> QED BY <4>1, <4>2
    <3>3. mail[u].sends \in 0..(MaxStalled + 1)
      BY <3>1, <3>2, ServiceAssumption DEF SomeMailJob
    <3> QED BY <3>1, <3>3 DEF SomeMailJob, MailJob
  <2>2. owed \in [Users -> Nat]
    <3> SUFFICES ASSUME NEW u \in Users
                 PROVE  owed[u] \in Nat
      BY DEF OwedInv
    <3>1. owed[u] = Cardinality(Calls(u)) + Unsent(u)
      BY DEF OwedInv, OwedIsOnTheWay
    <3>2. Unsent(u) \in Nat
      BY DEF Unsent
    <3> QED BY <3>1, <3>2, CallsAreFinite
  <2> QED BY <2>1, <2>2 DEF MailTypeOK, QueueInv
<1> QED BY MailInvariant, <1>1, PTL

\* A mail is owed exactly while a call of addConfirmation or a job of the queue is
\* on its way to send it.
THEOREM OwedMailsAreOnTheWay == MailSpec => []OwedIsOnTheWay
<1>1. MailInv => OwedIsOnTheWay
  BY DEF MailInv, OwedInv
<1> QED BY MailInvariant, <1>1, PTL

\* Retries of a job that fails never send its mail again: only a redelivery does.
THEOREM OnlyRedeliveryRepeats == MailSpec => []MailsAreNotRepeated
<1>1. MailInv => MailsAreNotRepeated
  BY DEF MailInv, QueueInv
<1> QED BY MailInvariant, <1>1, PTL

-----------------------------------------------------------------------------
(* What the mails are about.                                               *)

\* A mail is called for, or queued.
IsMailing(u) == Calls(u) # {} \/ mail[u] # GoneMail

MailsNeedRows == \A u \in Users : IsMailing(u) => booking[u] # "NONE"

\* Where a mail comes from: the commit of a promotion.
LEMMA MailOrigin ==
    ASSUME MailInv, [MailNext]_allVars, NEW u \in Users, IsMailing(u)'
    PROVE  \/ IsMailing(u)
           \/ \E w \in Workers : Commit(w) /\ tx[w].row = u
<1>0. outbox \in [Workers -> SUBSET Users] /\ mail \in [Users -> SomeMailJob]
  BY DEF MailInv, TypeOK, QueueInv
<1>1. ASSUME UNCHANGED mail, UNCHANGED outbox
      PROVE  IsMailing(u)
  BY <1>1 DEF IsMailing, Calls
<1>2. CASE UNCHANGED allVars
  BY <1>1, <1>2 DEF allVars, vars, mailVars
<1>3. CASE WithoutMail(ApiStep) \/ WithoutMail(DatabaseStep)
  BY <1>1, <1>3 DEF WithoutMail, mailVars, ApiStep, DatabaseStep, workerVars
<1>4. ASSUME NEW w \in Workers, WithoutMail(PromotionStep(w))
      PROVE  IsMailing(u)
  BY <1>1, <1>4, PromotionCallsNobody DEF WithoutMail, mailVars
<1>5. ASSUME NEW w \in Workers, CommitOwing(w)
      PROVE  IsMailing(u) \/ (Commit(w) /\ tx[w].row = u)
  BY <1>0, <1>5 DEF CommitOwing, CommitPromotion, IsMailing, Calls
<1>6. ASSUME NEW w \in Workers, SettleMail(w)
      PROVE  IsMailing(u)
  <2>1. PICK x \in Users : EnqueueMail(w, x) \/ ForgetMail(w, x)
    BY <1>6 DEF SettleMail
  <2>2. x \in outbox[w] /\ outbox' = [outbox EXCEPT ![w] = @ \ {x}]
    BY <2>1 DEF EnqueueMail, ForgetMail, SettleConfirmation
  <2>3. u # x => mail'[u] = mail[u]
    BY <1>0, <2>1 DEF EnqueueMail, ForgetMail
  <2> QED BY <1>0, <2>2, <2>3 DEF IsMailing, Calls
<1>7. ASSUME NEW w \in Workers, MailStep(w)
      PROVE  IsMailing(u)
  <2>1. outbox' = outbox
    BY <1>7 DEF MailStep, TakeMail, SendConfirmation, FailMail, CompleteMail, vars
  <2>2. ASSUME NEW x \in Users, TakeMail(w, x)
        PROVE  mail'[u] = mail[u] \/ mail[u] # GoneMail
    BY <1>0, <2>2, NewMailType DEF TakeMail
  <2>3. mailing[w] # Idle => mailing[w].row \in Users /\ mail[mailing[w].row] # GoneMail
    BY HeldJob, NewMailType DEF MailInv
  <2>4. ASSUME SendConfirmation(w) \/ FailMail(w) \/ CompleteMail(w)
        PROVE  mail'[u] = mail[u] \/ mail[u] # GoneMail
    BY <1>0, <2>3, <2>4, Starting DEF SendConfirmation, FailMail, MailThrows, CompleteMail
  <2> QED BY <1>7, <2>1, <2>2, <2>4 DEF MailStep, IsMailing, Calls
<1>8. ASSUME NEW w \in Workers, CrashMailing(w)
      PROVE  IsMailing(u)
  <2>1. Calls(u)' # {} => Calls(u) # {}
    BY <1>0, <1>8 DEF CrashMailing, CrashWorker, vars, Calls
  <2>2. mail'[u] = mail[u] \/ (mailing[w] # Idle /\ mailing[w].row = u)
    BY <1>8 DEF CrashMailing
  <2>3. mailing[w] # Idle => mail[mailing[w].row] # GoneMail
    BY HeldJob, NewMailType DEF MailInv
  <2> QED BY <2>1, <2>2, <2>3 DEF IsMailing
<1> QED BY <1>2, <1>3, <1>4, <1>5, <1>6, <1>7, <1>8 DEF MailNext

\* However long a mail waits, is retried or redelivered, its booking and its event
\* are there when the worker looks for them.
THEOREM MailsHaveRows == MailSpec => []MailsFindTheirRows
<1> DEFINE Inv == MailInv /\ RowInv /\ MailsNeedRows
<1>1. MailInit => MailsNeedRows
  BY DEF MailInit, Init, MailsNeedRows, IsMailing, Calls
<1>2. Inv /\ [MailNext]_allVars => MailsNeedRows'
  <2> SUFFICES ASSUME Inv, [MailNext]_allVars, NEW u \in Users, IsMailing(u)'
               PROVE  booking'[u] # "NONE"
    BY DEF MailsNeedRows
  <2>1. StoreTypeOK /\ Effect
    BY MailStepIsStep, StepEffect, TypeIsStoreType DEF MailInv
  <2>2. CASE IsMailing(u)
    BY <2>1, <2>2, RowsStay DEF MailsNeedRows
  <2>3. ASSUME NEW w \in Workers, Commit(w), tx[w].row = u
        PROVE  booking'[u] # "NONE"
    <3>1. w \in Sessions
      BY DEF Sessions
    <3>2. tx[w] \in Tx
      BY <2>1, <2>3, <3>1, LiveTxType DEF Commit, Committable, Live
    <3> QED BY <2>1, <2>3, <3>2 DEF Commit, StoreTypeOK, Tx
  <2> QED BY <2>2, <2>3, MailOrigin
<1>3. Inv => MailsFindTheirRows
  BY DEF RowInv, RowsNeedEvent, MailsNeedRows, IsMailing, MailsFindTheirRows
<1>4. MailSpec => []RowInv
  BY MailRefinesWaitlist, RowInvariant
<1>5. MailSpec => []MailInv
  BY MailInvariant
<1> QED BY <1>1, <1>2, <1>3, <1>4, <1>5, PTL DEF MailSpec

=============================================================================
