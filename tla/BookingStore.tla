---------------------------- MODULE BookingStore ----------------------------
(***************************************************************************)
(* The PostgreSQL rows of one event and the operations that                *)
(* bookings/repository.ts and events/repository.ts perform on them: the    *)
(* Event row (exists, capacity), the Booking rows, at most one per user    *)
(* (@@unique([userId, eventId])), and the Serializable transactions that   *)
(* are open on them.                                                       *)
(*                                                                         *)
(* A Serializable transaction decides everything from its snapshot, so the *)
(* write it is going to make is fixed when the snapshot is taken (Begin)   *)
(* and takes effect, or not, later (Commit, rollback).  A transaction that *)
(* turns out to write nothing is a single step of its caller and never     *)
(* appears in tx.                                                          *)
(***************************************************************************)
EXTENDS Naturals, FiniteSets

CONSTANTS
    Users,        \* users who may hold a booking row for the event
    Requests,     \* HTTP requests the API process can serve at one time
    Workers,      \* waitlist-promote worker processes
    NoTx,         \* the value of tx[s] when session s has no open transaction
    MaxCapacity,  \* bound: largest capacity an event is given
    MaxClock,     \* bound: last value of the createdAt clock
    Env           \* what the environment may do in this instance

\* "raise", "lower": the organizer changes the capacity; "delete": deletes the
\* event; "withdraw": users cancel waitlisted bookings too; "abort": PostgreSQL
\* or Prisma fails a transaction without a conflict the model knows of;
\* "redisDown": enqueueing may fail; "crash": processes may crash.
Environment ==
    {"raise", "lower", "delete", "withdraw", "abort", "redisDown", "crash"}

ASSUME StoreAssumption ==
    /\ IsFiniteSet(Users)
    /\ Requests \cap Workers = {}
    /\ MaxCapacity \in Nat \ {0}
    /\ MaxClock \in Nat
    /\ Env \subseteq Environment

VARIABLES
    exists,     \* the Event row is there
    capacity,   \* Event.capacity
    booking,    \* Booking.status of each user's row, "NONE" when there is no row
    createdAt,  \* Booking.createdAt, 0 when there is no row
    clock,      \* the clock @default(now()) reads
    tx          \* the write each session's open transaction is going to commit

rowVars == <<exists, capacity, booking, createdAt, clock>>
storeVars == <<exists, capacity, booking, createdAt, clock, tx>>

Sessions == Requests \cup Workers
Capacities == 1..MaxCapacity
Status == {"NONE", "CONFIRMED", "WAITLISTED", "CANCELLED"}

\* from is the row's status in the snapshot: an INSERT when it is "NONE", a
\* waitlist promotion when it is "WAITLISTED", otherwise a re-booking.
Tx == [row: Users, from: Status, to: {"CONFIRMED", "WAITLISTED"},
       stamp: 0..MaxClock, doomed: BOOLEAN]

ASSUME NoTxAssumption == NoTx \notin Tx

StoreTypeOK ==
    /\ exists \in BOOLEAN
    /\ capacity \in Capacities
    /\ booking \in [Users -> Status]
    /\ createdAt \in [Users -> 0..MaxClock]
    /\ clock \in 0..MaxClock
    /\ tx \in [Sessions -> Tx \cup {NoTx}]

StoreInit ==
    /\ exists = TRUE
    /\ capacity \in Capacities
    /\ booking = [u \in Users |-> "NONE"]
    /\ createdAt = [u \in Users |-> 0]
    /\ clock = 0
    /\ tx = [s \in Sessions |-> NoTx]

-----------------------------------------------------------------------------
(* What the repository's queries return.                                   *)

Confirmed == {u \in Users : booking[u] = "CONFIRMED"}
Waiting == {u \in Users : booking[u] = "WAITLISTED"}

countConfirmed == Cardinality(Confirmed)

\* Variant: no orderBy.
findAnyWaitlisted == Waiting

\* A tie in createdAt may go either way: the query orders by nothing else.
findOldestWaitlisted ==
    {u \in Waiting : \A v \in Waiting : createdAt[u] <= createdAt[v]}

-----------------------------------------------------------------------------
(* Serializable transactions.                                              *)

IsOpen(s) == tx[s] # NoTx
Live(s) == IsOpen(s) /\ ~tx[s].doomed

\* The write w changes something the transaction t has read: every transaction
\* counts the CONFIRMED rows, a booking reads its user's row and a promotion
\* scans the waitlist.
Affects(w, t) ==
    \/ w.to = "CONFIRMED"
    \/ w.row = t.row
    \/ t.from = "WAITLISTED" /\ "WAITLISTED" \in {w.from, w.to}

\* Variants: what the weaker isolation levels let through.
RepeatableReadConflict(w, t) == w.row = t.row
ReadCommittedConflict(w, t) == FALSE

\* Two concurrent transactions of which only one may commit: they write one
\* row, or each of them missed what the other wrote (write skew).
Conflict(w, t) ==
    \/ w.row = t.row
    \/ Affects(w, t) /\ Affects(t, w)

Begin(s, u, to) ==
    /\ ~IsOpen(s)
    /\ tx' = [tx EXCEPT ![s] = [row |-> u, from |-> booking[u], to |-> to,
                                stamp |-> clock, doomed |-> FALSE]]
    /\ UNCHANGED rowVars

\* Variant: a schema without the foreign key.
CommittableWithoutForeignKey(s) == Live(s)

\* The INSERT's foreign key needs the Event row.  The unique index on
\* (userId, eventId) is the conflict of two transactions on one row.
Committable(s) ==
    /\ Live(s)
    /\ tx[s].from = "NONE" => exists

\* The first committer wins: whoever conflicts with it can only roll back.
Commit(s) ==
    /\ Committable(s)
    /\ booking' = [booking EXCEPT ![tx[s].row] = tx[s].to]
    /\ createdAt' = IF tx[s].from = "NONE"
                    THEN [createdAt EXCEPT ![tx[s].row] = tx[s].stamp]
                    ELSE createdAt
    /\ tx' = [z \in Sessions |->
                IF z = s THEN NoTx
                ELSE IF IsOpen(z) /\ Conflict(tx[s], tx[z])
                     THEN [tx[z] EXCEPT !.doomed = TRUE]
                     ELSE tx[z]]
    /\ UNCHANGED <<exists, capacity, clock>>

\* bookingRepo.cancel: one UPDATE by id, outside any transaction of the code.
\* An open transaction that is going to write this row finds it changed and is
\* aborted; no other transaction notices a write that is not Serializable.
CancelRow(u) ==
    /\ booking' = [booking EXCEPT ![u] = "CANCELLED"]
    /\ tx' = [z \in Sessions |->
                IF IsOpen(z) /\ tx[z].row = u
                THEN [tx[z] EXCEPT !.doomed = TRUE]
                ELSE tx[z]]
    /\ UNCHANGED <<exists, capacity, createdAt, clock>>

-----------------------------------------------------------------------------
(* The organizer and the clock.                                            *)

\* PATCH /events/:id with a capacity: nothing looks at the bookings.
UpdateCapacity(c) ==
    /\ exists
    /\ \/ c > capacity /\ "raise" \in Env
       \/ c < capacity /\ "lower" \in Env
    /\ capacity' = c
    /\ UNCHANGED <<exists, booking, createdAt, clock, tx>>

\* Variant: a foreign key that is ON DELETE CASCADE.
DeleteEventCascading ==
    /\ "delete" \in Env
    /\ exists
    /\ exists' = FALSE
    /\ booking' = [u \in Users |-> "NONE"]
    /\ UNCHANGED <<capacity, createdAt, clock, tx>>

\* DELETE /events/:id: the foreign key of Booking is ON DELETE RESTRICT and
\* booking rows are never deleted.
DeleteEvent ==
    /\ "delete" \in Env
    /\ exists
    /\ \A u \in Users : booking[u] = "NONE"
    /\ exists' = FALSE
    /\ UNCHANGED <<capacity, booking, createdAt, clock, tx>>

Tick ==
    /\ clock < MaxClock
    /\ clock' = clock + 1
    /\ UNCHANGED <<exists, capacity, booking, createdAt, tx>>

StoreStep == (\E c \in Capacities : UpdateCapacity(c)) \/ DeleteEvent \/ Tick
=============================================================================
