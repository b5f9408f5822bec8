--------------------------- MODULE ConfirmationMail ---------------------------
(***************************************************************************)
(* The booking-email queue (jobs/email.queue.ts) and its workers           *)
(* (worker.ts, infra/mailer.ts), composed with the waitlist: what becomes  *)
(* of the confirmation mail of a promoted booking.                         *)
(*                                                                         *)
(* A booking is its user.  Bound: each booking has at most one job in the  *)
(* queue and one call of addConfirmation in flight in each process.        *)
(***************************************************************************)
EXTENDS WaitlistWorker

CONSTANT MaxMails  \* bound: jobs in the booking-email queue at one time

ASSUME MailAssumption == IsFiniteSet(Workers) /\ MaxMails \in Nat \ {0}

VARIABLES
    mail,    \* the job of each booking in the booking-email queue
    mailing, \* what the booking-email worker of each process is doing
    owed     \* history: promotions of each booking whose mail has been neither
             \* sent nor given up

mailVars == <<mail, mailing, owed>>
allVars == <<vars, mailVars>>

\* sends: history, how often the mail of the job has been sent.
MailJob == [state: {"none", "waiting", "active"}, failed: 0..(JobAttempts - 1),
            stalled: 0..MaxStalled, sends: 0..(MaxStalled + 1)]
GoneMail == [state |-> "none", failed |-> 0, stalled |-> 0, sends |-> 0]
NewMail == [GoneMail EXCEPT !.state = "waiting"]

\* "start": the processor has the job; "sent": sendConfirmation has returned.
Mailing == [pc: {"start", "sent"}, row: Users]

MailTypeOK ==
    /\ TypeOK
    /\ mail \in [Users -> MailJob]
    /\ mailing \in [Workers -> {Idle} \cup Mailing]
    /\ owed \in [Users -> Nat]

MailInit ==
    /\ Init
    /\ mail = [u \in Users |-> GoneMail]
    /\ mailing = [w \in Workers |-> Idle]
    /\ owed = [u \in Users |-> 0]

-----------------------------------------------------------------------------
(* promoteWaitlisted and its call of addConfirmation.                      *)

CommitOwing(w) ==
    /\ CommitPromotion(w)
    /\ tx[w].row \notin outbox[w]
    /\ owed' = [owed EXCEPT ![tx[w].row] = @ + 1]
    /\ UNCHANGED <<mail, mailing>>

\* addConfirmation: emailQueue.add.
EnqueueMail(w, u) ==
    /\ SettleConfirmation(w, u)
    /\ mail[u] = GoneMail
    /\ Cardinality({v \in Users : mail[v] # GoneMail}) < MaxMails
    /\ mail' = [mail EXCEPT ![u] = NewMail]
    /\ UNCHANGED <<mailing, owed>>

\* The add rejects: the error is logged and the mail forgotten.
ForgetMail(w, u) ==
    /\ "redisDown" \in Env
    /\ SettleConfirmation(w, u)
    /\ owed' = [owed EXCEPT ![u] = @ - 1]
    /\ UNCHANGED <<mail, mailing>>

SettleMail(w) == \E u \in Users : EnqueueMail(w, u) \/ ForgetMail(w, u)

-----------------------------------------------------------------------------
(* The booking-email worker.                                               *)

TakeMail(w, u) ==
    /\ mailing[w] = Idle
    /\ mail[u].state = "waiting"
    /\ mail' = [mail EXCEPT ![u].state = "active"]
    /\ mailing' = [mailing EXCEPT ![w] = [pc |-> "start", row |-> u]]
    /\ UNCHANGED <<vars, owed>>

\* The promotion is mailed, or given up, unless it has been mailed before.
Settled(u) ==
    owed' = IF mail[u].sends = 0 THEN [owed EXCEPT ![u] = @ - 1] ELSE owed

\* loadBookingDetails and sendConfirmation.  The status of the booking, cancelled
\* meanwhile or not, is not looked at.
SendConfirmation(w) ==
    LET u == mailing[w].row IN
    /\ mailing[w].pc = "start"
    /\ booking[u] # "NONE"
    /\ mailing' = [mailing EXCEPT ![w].pc = "sent"]
    /\ mail' = [mail EXCEPT ![u].sends = @ + 1]
    /\ Settled(u)
    /\ UNCHANGED vars

\* The processor throws before it has sent: a row is not found, a query fails.
MailThrows(w) ==
    /\ mailing[w].pc = "start"
    /\ booking[mailing[w].row] = "NONE" \/ "abort" \in Env

\* Variants: one attempt too many, and retries without counting.
FailMailOnceMore(w) ==
    LET u == mailing[w].row IN
    /\ MailThrows(w)
    /\ IF mail[u].failed < JobAttempts
       THEN /\ mail' = [mail EXCEPT ![u].state = "waiting", ![u].failed = @ + 1]
            /\ UNCHANGED owed
       ELSE /\ mail' = [mail EXCEPT ![u] = GoneMail]
            /\ Settled(u)
    /\ mailing' = [mailing EXCEPT ![w] = Idle]
    /\ UNCHANGED vars
FailMailForEver(w) ==
    LET u == mailing[w].row IN
    /\ MailThrows(w)
    /\ mail' = [mail EXCEPT ![u].state = "waiting"]
    /\ mailing' = [mailing EXCEPT ![w] = Idle]
    /\ UNCHANGED <<vars, owed>>

\* BullMQ retries the job until its attempts are used up.
FailMail(w) ==
    LET u == mailing[w].row IN
    /\ MailThrows(w)
    /\ IF mail[u].failed + 1 < JobAttempts
       THEN /\ mail' = [mail EXCEPT ![u].state = "waiting", ![u].failed = @ + 1]
            /\ UNCHANGED owed
       ELSE /\ mail' = [mail EXCEPT ![u] = GoneMail]
            /\ Settled(u)
    /\ mailing' = [mailing EXCEPT ![w] = Idle]
    /\ UNCHANGED vars

\* Variant: the job throws when its mail has been sent, and is retried.
CompleteMailThrowing(w) ==
    /\ mailing[w].pc = "sent"
    /\ mail' = [mail EXCEPT ![mailing[w].row].state = "waiting"]
    /\ mailing' = [mailing EXCEPT ![w] = Idle]
    /\ UNCHANGED <<vars, owed>>

CompleteMail(w) ==
    /\ mailing[w].pc = "sent"
    /\ mail' = [mail EXCEPT ![mailing[w].row] = GoneMail]
    /\ mailing' = [mailing EXCEPT ![w] = Idle]
    /\ UNCHANGED <<vars, owed>>

MailStep(w) ==
    \/ \E u \in Users : TakeMail(w, u)
    \/ SendConfirmation(w) \/ FailMail(w) \/ CompleteMail(w)

\* A stalled job is handed out again, a bounded number of times.
Redelivered(m) ==
    IF m.stalled < MaxStalled
    THEN [m EXCEPT !.state = "waiting", !.stalled = @ + 1]
    ELSE GoneMail

\* Both workers of the process die, with the calls it has in flight.
CrashMailing(w) ==
    LET IsMailed(u) == mailing[w] # Idle /\ mailing[w].row = u
        IsGivenUp(u) == /\ IsMailed(u)
                        /\ mail[u].stalled = MaxStalled
                        /\ mail[u].sends = 0
        Lost(u) == (IF u \in outbox[w] THEN 1 ELSE 0)
                   + (IF IsGivenUp(u) THEN 1 ELSE 0)
    IN
    /\ \/ CrashWorker(w)
       \/ /\ "crash" \in Env
          /\ work[w] = Idle /\ outbox[w] = {} /\ mailing[w] # Idle
          /\ UNCHANGED vars
    /\ mail' = [u \in Users |->
                  IF IsMailed(u) THEN Redelivered(mail[u]) ELSE mail[u]]
    /\ owed' = [u \in Users |-> owed[u] - Lost(u)]
    /\ mailing' = [mailing EXCEPT ![w] = Idle]

-----------------------------------------------------------------------------
\* The steps of the waitlist that do not touch mails.
WithoutMail(A) == A /\ UNCHANGED mailVars

MailNext ==
    \/ WithoutMail(ApiStep)
    \/ WithoutMail(DatabaseStep)
    \/ \E w \in Workers :
         \/ WithoutMail(PromotionStep(w))
         \/ CommitOwing(w)
         \/ SettleMail(w) \/ MailStep(w) \/ CrashMailing(w)

MailSpec == MailInit /\ [][MailNext]_allVars

\* As in WaitlistWorker; of each process the promotions are carried on, and so are
\* its mails with the calls in flight.
MailFairness ==
    /\ \A r \in Requests :
         WF_allVars(RequestStep(r) /\ UNCHANGED <<workerVars, mailVars>>)
    /\ \A w \in Workers :
         /\ WF_allVars(WithoutMail(PromotionStep(w)) \/ CommitOwing(w))
         /\ WF_allVars(MailStep(w) \/ SettleMail(w))

MailFairSpec == MailSpec /\ MailFairness

-----------------------------------------------------------------------------
(* Properties.                                                             *)

Calls(u) == {w \in Workers : u \in outbox[w]}
Unsent(u) == IF mail[u].state # "none" /\ mail[u].sends = 0 THEN 1 ELSE 0

\* Every committed promotion whose mail has been neither sent nor given up has a
\* call or a job of its own, and there is no other: no mail is sent for a
\* promotion that has not been committed, none is forgotten without a crash, a
\* rejected call or a job out of attempts.
OwedIsOnTheWay == \A u \in Users : owed[u] = Cardinality(Calls(u)) + Unsent(u)

\* A mail is sent once, and again only for a job that was redelivered because its
\* process died.
MailsAreNotRepeated ==
    \A u \in Users :
        LET sentNow == \E w \in Workers : mailing[w] = [pc |-> "sent", row |-> u]
        IN  mail[u].sends <= mail[u].stalled + (IF sentNow THEN 1 ELSE 0)

\* loadBookingDetails finds the booking and the event of every mail that is called
\* for or queued, however much later it looks: its "not found" is never thrown.
MailsFindTheirRows ==
    \A u \in Users :
        Calls(u) # {} \/ mail[u] # GoneMail => booking[u] # "NONE" /\ exists

\* Once nobody waits for promotion any more, all promotions come to be mailed or
\* given up.
PromotedAreMailed == <>[](Waiting = {}) => <>[](\A u \in Users : owed[u] = 0)
=============================================================================
