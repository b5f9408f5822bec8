--------------------------- MODULE RefreshTokens ----------------------------
(***************************************************************************)
(* auth/service.ts: refresh tokens that are exchanged one for the next, the *)
(* chain their rows form (replacedById), and the revocation of a family     *)
(* when a token that has been exchanged is presented again.                 *)
(*                                                                         *)
(* A row is its id: ids are handed out in the order of creation.  Tokens of *)
(* all users are in one table; a family is what one login has led to.       *)
(***************************************************************************)
EXTENDS Naturals, FiniteSets

CONSTANTS
    Slots,      \* refresh requests the API process can serve at one time
    MaxTokens   \* bound: RefreshToken rows

ASSUME RefreshAssumption ==
    /\ IsFiniteSet(Slots)
    /\ MaxTokens \in Nat \ {0}

VARIABLES
    issued,      \* rows created so far
    row,         \* the RefreshToken rows
    lineage,     \* history: the tokens each token has come from by exchanges
    overlapped,  \* history: two refreshes of one family have been under way at
                 \* the same time
    req          \* what each request is doing

vars == <<issued, row, lineage, overlapped, req>>

Ids == 1..MaxTokens
Issued == 1..issued

\* revoked: revokedAt is set; next: replacedById, 0 for null.
Row == [revoked: BOOLEAN, expired: BOOLEAN, next: 0..MaxTokens]
NewRow == [revoked |-> FALSE, expired |-> FALSE, next |-> 0]

Idle == [pc |-> "idle"]

\* rotateRefresh after it has read the row of its token: it is going to refuse
\* the token, to exchange it, or to revoke its family.  at and found are
\* currentId and idsToRevoke of revokeFamily.
Refresh == [pc: {"refuse", "rotate", "walk", "revoke"}, token: Ids, at: Ids,
            found: SUBSET Ids]

TypeOK ==
    /\ issued \in 0..MaxTokens
    /\ row \in [Ids -> Row]
    /\ lineage \in [Ids -> SUBSET Ids]
    /\ overlapped \in BOOLEAN
    /\ req \in [Slots -> {Idle} \cup Refresh]

Init ==
    /\ issued = 0
    /\ row = [t \in Ids |-> NewRow]
    /\ lineage = [t \in Ids |-> {}]
    /\ overlapped = FALSE
    /\ req = [r \in Slots |-> Idle]

Finish(r) == req' = [req EXCEPT ![r] = Idle]

Usable(t) == ~row[t].revoked /\ ~row[t].expired

\* t descends from p: exchanging p, and what came of it, has led to t.
Descends(t, p) == t \in Issued /\ p \in lineage[t]

Line(t) == {t} \cup lineage[t]
SameFamily(t, u) == Line(t) \cap Line(u) # {}

\* Bound: a row is left for every exchange on its way.
Exchanging == {r \in Slots : req[r].pc = "rotate"}
RowLeft == issued + Cardinality(Exchanging) < MaxTokens

-----------------------------------------------------------------------------
Login ==
    /\ RowLeft
    /\ issued' = issued + 1
    /\ UNCHANGED <<row, lineage, req, overlapped>>

Expire(t) ==
    /\ ~row[t].expired
    /\ row' = [row EXCEPT ![t].expired = TRUE]
    /\ UNCHANGED <<issued, lineage, req, overlapped>>

\* The read of rotateRefresh.  Clients keep what they have been given, so any
\* issued token may be presented at any time.
StartRefresh(r, t) ==
    /\ req[r] = Idle
    /\ Usable(t) => RowLeft
    /\ req' = [req EXCEPT ![r] =
                 [pc |-> IF row[t].revoked THEN "walk"
                         ELSE IF row[t].expired THEN "refuse" ELSE "rotate",
                  token |-> t, at |-> t, found |-> {}]]
    /\ overlapped' = (\/ overlapped
                      \/ \E q \in Slots : req[q] # Idle /\ SameFamily(t, req[q].token))
    /\ UNCHANGED <<issued, row, lineage>>

Refuse(r) ==
    /\ req[r].pc = "refuse"
    /\ Finish(r)
    /\ UNCHANGED <<issued, row, lineage, overlapped>>

\* Variant: an exchange that forgets to revoke the old row.
RotateWithoutRevoking(r) ==
    LET t == req[r].token
    IN  /\ req[r].pc = "rotate"
        /\ issued' = issued + 1
        /\ row' = [row EXCEPT ![t].next = issued + 1]
        /\ lineage' = [lineage EXCEPT ![issued + 1] = Line(t)]
        /\ Finish(r)
        /\ UNCHANGED overlapped

\* The transaction: the new row, and the old one revoked and linked to it,
\* whatever has become of the old one since the read.
Rotate(r) ==
    LET t == req[r].token
    IN  /\ req[r].pc = "rotate"
        /\ issued' = issued + 1
        /\ row' = [row EXCEPT ![t].revoked = TRUE, ![t].next = issued + 1]
        /\ lineage' = [lineage EXCEPT ![issued + 1] = Line(t)]
        /\ Finish(r)
        /\ UNCHANGED overlapped

\* Variants: a walk that takes the direct successor only, and one that never
\* moves on.
WalkOneStep(r) ==
    LET next == row[req[r].at].next
    IN  /\ req[r].pc = "walk"
        /\ IF next # 0
           THEN req' = [req EXCEPT ![r].found = {next}, ![r].pc = "revoke"]
           ELSE Finish(r)
        /\ UNCHANGED <<issued, row, lineage, overlapped>>
WalkInPlace(r) ==
    LET next == row[req[r].at].next
    IN  /\ req[r].pc = "walk"
        /\ IF next # 0
           THEN req' = [req EXCEPT ![r].found = @ \cup {next}]
           ELSE Finish(r)
        /\ UNCHANGED <<issued, row, lineage, overlapped>>

\* One round of revokeFamily's loop, and its early return.
Walk(r) ==
    LET next == row[req[r].at].next
    IN  /\ req[r].pc = "walk"
        /\ \/ /\ next # 0
              /\ req' = [req EXCEPT ![r].found = @ \cup {next}, ![r].at = next]
           \/ /\ next = 0
              /\ req[r].found # {}
              /\ req' = [req EXCEPT ![r].pc = "revoke"]
           \/ /\ next = 0
              /\ req[r].found = {}
              /\ Finish(r)
        /\ UNCHANGED <<issued, row, lineage, overlapped>>

\* Variant: an updateMany without the list of ids.
RevokeAll(r) ==
    /\ req[r].pc = "revoke"
    /\ row' = [t \in Ids |-> IF t \in Issued THEN [row[t] EXCEPT !.revoked = TRUE]
                             ELSE row[t]]
    /\ Finish(r)
    /\ UNCHANGED <<issued, lineage, overlapped>>

\* updateMany.
Revoke(r) ==
    /\ req[r].pc = "revoke"
    /\ row' = [t \in Ids |-> IF t \in req[r].found
                             THEN [row[t] EXCEPT !.revoked = TRUE]
                             ELSE row[t]]
    /\ Finish(r)
    /\ UNCHANGED <<issued, lineage, overlapped>>

\* A statement fails or the process dies: an exchange that has not committed
\* leaves nothing, and a revocation is given up.
Fail(r) ==
    /\ req[r] # Idle
    /\ Finish(r)
    /\ UNCHANGED <<issued, row, lineage, overlapped>>

RequestStep(r) == Refuse(r) \/ Rotate(r) \/ Walk(r) \/ Revoke(r)

Next ==
    \/ Login
    \/ \E t \in Issued : Expire(t) \/ \E r \in Slots : StartRefresh(r, t)
    \/ \E r \in Slots : RequestStep(r) \/ Fail(r)

Spec == Init /\ [][Next]_vars

\* A request that has started is carried on by the event loop.
FairSpec == Spec /\ \A r \in Slots : WF_vars(RequestStep(r))

-----------------------------------------------------------------------------
(* Properties.                                                             *)

\* The walk follows rows that other requests are changing, and still a replay
\* never ends a session it does not belong to: a token is revoked by its own
\* exchange, or by a replay of a token it has come from.
OnlyDescendantsAreRevoked ==
    [][\A t \in Issued :
         (~row[t].revoked /\ row'[t].revoked) =>
            \E r \in Slots :
               \/ req[r].pc = "rotate" /\ req[r].token = t
               \/ req[r].pc = "revoke" /\ Descends(t, req[r].token)]_vars

\* As long as no two refreshes of one family have overlapped, a family has one
\* token in force at most, through expiry, failed exchanges and replays.
OneLivePerFamily ==
    ~overlapped =>
        \A t, u \in Issued :
            (SameFamily(t, u) /\ ~row[t].revoked /\ ~row[u].revoked) => t = u

\* "Replaying an already-spent refresh token invalidates the entire descendant
\* token family" (README.md:45): what the updateMany of a replay is given is
\* everything that has come of the replayed token.
ReplayFindsFamily ==
    \A r \in Slots : req[r].pc = "revoke" =>
        \A t \in Issued : Descends(t, req[r].token) => t \in req[r].found

\* So it is as long as no two refreshes of one family have overlapped.
LoneReplayFindsFamily == ~overlapped => ReplayFindsFamily

InForce == {t \in Issued : ~row[t].revoked}

Sess == INSTANCE TokenSessions WITH live <- InForce

\* Request r is a replay and this step its last, as far as the code is concerned.
EndsReplay(r) ==
    req[r].pc \in {"walk", "revoke"} /\ RequestStep(r) /\ req'[r] = Idle

\* Until refreshes of one family overlap, tokens implement sessions: however the
\* reads, walks, failures and expiries of many families interleave, only a token in
\* force is exchanged, and a replay that gets to its end has ended the session as a
\* whole and no other, although its walk sees only what follows the replayed token.
SessionsAreKept ==
    /\ Sess!Init
    /\ [][\/ overlapped'
          \/ /\ [Sess!Next]_(Sess!sessionVars)
             /\ \A r \in Slots : EndsReplay(r) => Sess!EndSession(req[r].token)]_vars

\* Links lead forward, also those that exchanges set while a replay walks along them:
\* the loop of revokeFamily never comes back to a row it has seen.
WalksMoveForward ==
    [][\A r \in Slots :
         (req[r].pc = "walk" /\ req'[r].pc = "walk" /\ req'[r] # req[r])
            => req'[r].at > req[r].at]_vars

\* Every refresh is answered: the chain a replay walks along has an end, even
\* when exchanges extend it meanwhile.
RefreshesFinish == \A r \in Slots : req[r] # Idle ~> req[r] = Idle
-----------------------------------------------------------------------------
(* The inductive invariants behind the safety properties.                  *)

RowsAreReserved == issued + Cardinality(Exchanging) <= MaxTokens

UnissuedAreBlank ==
    \A t \in Ids : t > issued => row[t] = NewRow /\ lineage[t] = {}

LineageIsIssued == \A t \in Ids : lineage[t] \subseteq Issued

\* Whatever exchange has linked a row last, the link leads to a descendant.
LinksFollowLineage ==
    \A t \in Ids : row[t].next # 0 =>
        row[t].next \in Issued /\ Line(t) \subseteq lineage[row[t].next]

WalksFollowLineage ==
    \A r \in Slots : req[r] # Idle =>
        /\ req[r].token \in Issued
        /\ req[r].at \in Issued
        /\ req[r].token \in Line(req[r].at)
        /\ \A t \in req[r].found : Descends(t, req[r].token)

ChainInv == TypeOK /\ RowsAreReserved /\ UnissuedAreBlank /\ LineageIsIssued
            /\ LinksFollowLineage /\ WalksFollowLineage

\* FamilyInv, for as long as ~overlapped: a family is a line, each token of which but the last is
\* revoked and linked towards all that came of it.
FamiliesAreLines ==
    \A t, u \in Issued :
        SameFamily(t, u) => t = u \/ t \in lineage[u] \/ u \in lineage[t]

AncestorsAreSpent ==
    \A u \in Issued : \A t \in lineage[u] :
        row[t].revoked /\ row[t].next \in Line(u)

RequestsAreApart ==
    \A q, r \in Slots :
        (q # r /\ req[q] # Idle /\ req[r] # Idle)
            => ~SameFamily(req[q].token, req[r].token)

\* Nothing can happen to a token between its read and its exchange.
ReadsAreFresh ==
    \A r \in Slots : req[r].pc = "rotate" => ~row[req[r].token].revoked

\* What a walk has not found yet lies ahead of it.
WalksMissNothing ==
    \A r \in Slots : req[r].pc = "walk" =>
        \A t \in Issued : Descends(t, req[r].token)
                            => t \in req[r].found \/ req[r].at \in lineage[t]

FamilyInv == ChainInv /\ FamiliesAreLines /\ AncestorsAreSpent
             /\ RequestsAreApart /\ ReadsAreFresh /\ WalksMissNothing
             /\ ReplayFindsFamily

\* Until refreshes overlap, families are lines, requests find the tokens as they
\* have read them, and walks miss nothing; the chain agrees with the lineage
\* for ever.
RefreshInv == ChainInv /\ (~overlapped => FamilyInv)
=============================================================================
