--------------------------- MODULE RefreshProofs ----------------------------
(***************************************************************************)
(* Proofs about refresh tokens, for any number of requests and tokens.     *)
(***************************************************************************)
EXTENDS RefreshTokens, FiniteSetTheorems, TLAPS

LEMMA BusyRequest ==
    ASSUME TypeOK, NEW r \in Slots, req[r] # Idle
    PROVE  req[r] \in Refresh
  BY DEF TypeOK

LEMMA PcIsBusy ==
    ASSUME TypeOK, NEW r \in Slots
    PROVE  /\ req[r].pc \in {"refuse", "rotate", "walk", "revoke"} => req[r] # Idle
           /\ req[r] # Idle => req[r].pc \in {"refuse", "rotate", "walk", "revoke"}
  BY DEF TypeOK, Idle, Refresh

-----------------------------------------------------------------------------
(* The bound on the rows.                                                  *)

LEMMA ExchangingIsFinite ==
    ASSUME NEW S \in SUBSET Slots
    PROVE  IsFiniteSet(S) /\ Cardinality(S) \in Nat
  BY RefreshAssumption, FS_Subset, FS_CardinalityType

\* While exchanges only come to an end the rows reserved for them suffice.
LEMMA FewerExchanges ==
    ASSUME TypeOK, RowsAreReserved, Exchanging' \subseteq Exchanging,
           issued' = issued
    PROVE  RowsAreReserved'
<1>1. /\ Exchanging \in SUBSET Slots
      /\ Exchanging' \in SUBSET Slots
  BY DEF Exchanging
<1>2. Cardinality(Exchanging') <= Cardinality(Exchanging)
  BY <1>1, ExchangingIsFinite, FS_Subset
<1>3. /\ Cardinality(Exchanging) \in Nat
      /\ Cardinality(Exchanging') \in Nat
  BY <1>1, ExchangingIsFinite
<1> QED BY <1>2, <1>3, RefreshAssumption DEF RowsAreReserved, TypeOK

LEMMA StartReserves ==
    ASSUME TypeOK, RowsAreReserved, NEW r \in Slots, NEW t \in Issued,
           StartRefresh(r, t)
    PROVE  RowsAreReserved'
<1>1. /\ Exchanging \in SUBSET Slots
      /\ IsFiniteSet(Exchanging)
      /\ Cardinality(Exchanging) \in Nat
  BY ExchangingIsFinite DEF Exchanging
<1>2. CASE Usable(t)
  <2>1. Exchanging' = Exchanging \cup {r}
    BY <1>2 DEF StartRefresh, Exchanging, TypeOK, Usable
  <2>2. r \notin Exchanging
    BY DEF StartRefresh, Exchanging, Idle
  <2>3. Cardinality(Exchanging') = Cardinality(Exchanging) + 1
    BY <1>1, <2>1, <2>2, FS_AddElement
  <2>4. issued + Cardinality(Exchanging) < MaxTokens /\ issued' = issued
    BY <1>2 DEF StartRefresh, RowLeft
  <2> QED BY <1>1, <2>3, <2>4, RefreshAssumption DEF RowsAreReserved, TypeOK
<1>3. CASE ~Usable(t)
  <2>1. Exchanging' \subseteq Exchanging
    BY <1>3 DEF StartRefresh, Exchanging, TypeOK, Usable
  <2> QED BY <2>1, FewerExchanges DEF StartRefresh
<1> QED BY <1>2, <1>3

LEMMA RotateUsesReservation ==
    ASSUME TypeOK, RowsAreReserved, NEW r \in Slots, Rotate(r)
    PROVE  issued + 1 \in Ids /\ RowsAreReserved'
<1>1. /\ Exchanging \in SUBSET Slots
      /\ IsFiniteSet(Exchanging)
      /\ Cardinality(Exchanging) \in Nat
  BY ExchangingIsFinite DEF Exchanging
<1>2. r \in Exchanging
  BY DEF Rotate, Exchanging
<1>3. Exchanging' = Exchanging \ {r}
  BY DEF Rotate, Finish, Exchanging, TypeOK, Idle
<1>4. Cardinality(Exchanging') = Cardinality(Exchanging) - 1
  BY <1>1, <1>2, <1>3, FS_RemoveElement
<1>5. Cardinality(Exchanging') \in Nat
  BY <1>1, <1>3, ExchangingIsFinite
<1>6. issued' = issued + 1
  BY DEF Rotate
<1>7. issued + 1 <= MaxTokens
  BY <1>1, <1>4, <1>5, RefreshAssumption DEF RowsAreReserved, TypeOK
<1> QED BY <1>1, <1>4, <1>6, <1>7, RefreshAssumption DEF RowsAreReserved, TypeOK, Ids

-----------------------------------------------------------------------------
(* The chain invariant, one lemma per action that changes rows or walks.   *)

LEMMA LoginKeepsChain ==
    ASSUME ChainInv, Login
    PROVE  ChainInv'
<1> USE RefreshAssumption DEF ChainInv
<1>1. Exchanging' = Exchanging /\ Cardinality(Exchanging) \in Nat
  BY ExchangingIsFinite DEF Login, Exchanging
<1>2. issued \in Nat /\ issued' = issued + 1 /\ issued + 1 <= MaxTokens
  BY <1>1 DEF Login, RowLeft, TypeOK
<1>3. TypeOK' /\ RowsAreReserved'
  BY <1>1, <1>2 DEF Login, RowLeft, TypeOK, RowsAreReserved
<1>4. Issued \subseteq Issued'
  BY <1>2 DEF Issued
<1>5. UnissuedAreBlank'
  BY <1>2 DEF UnissuedAreBlank, Login, Ids
<1>6. LineageIsIssued'
  BY <1>4 DEF LineageIsIssued, Login
<1>7. LinksFollowLineage'
  BY <1>4 DEF LinksFollowLineage, Login, Line
<1>8. WalksFollowLineage'
  BY <1>4 DEF WalksFollowLineage, Login, Line, Descends
<1> QED BY <1>3, <1>5, <1>6, <1>7, <1>8

LEMMA LinkedRow ==
    ASSUME NEW x \in Row, NEW n \in Ids
    PROVE  [x EXCEPT !.revoked = TRUE, !.next = n] \in Row
<1>1. n \in 0..MaxTokens
  BY RefreshAssumption DEF Ids
<1> QED BY <1>1 DEF Row

LEMMA RotateKeepsChain ==
    ASSUME ChainInv, NEW r \in Slots, Rotate(r)
    PROVE  ChainInv'
<1> DEFINE t == req[r].token
           n == issued + 1
<1> USE DEF ChainInv
<1>1. n \in Ids /\ RowsAreReserved'
  BY RotateUsesReservation
<1>2. req[r] # Idle /\ req[r] \in Refresh
  BY PcIsBusy, BusyRequest DEF Rotate
<1>3. t \in Issued /\ t \in Ids /\ lineage[t] \subseteq Issued
  BY <1>2 DEF WalksFollowLineage, LineageIsIssued, Refresh
<1>4. /\ issued \in Nat
      /\ issued' = n
      /\ Issued \subseteq Issued'
      /\ n \in Issued' /\ n \notin Issued
      /\ t # n
  BY <1>1, <1>3, RefreshAssumption DEF Rotate, TypeOK, Issued
<1>0. Issued \subseteq Ids
  BY RefreshAssumption DEF Issued, Ids, TypeOK
<1>5. \A x \in Ids : lineage'[x] = IF x = n THEN Line(t) ELSE lineage[x]
  BY <1>1 DEF Rotate, TypeOK
<1>6. \A x \in Ids : row'[x].next = IF x = t THEN n ELSE row[x].next
  BY <1>3 DEF Rotate, TypeOK, Row
<1>7. TypeOK'
  <2>1. row' \in [Ids -> Row]
    <3>1. [row[t] EXCEPT !.revoked = TRUE, !.next = n] \in Row
      BY <1>1, <1>3, LinkedRow DEF TypeOK
    <3>2. row' = [row EXCEPT ![t] = [row[t] EXCEPT !.revoked = TRUE, !.next = n]]
      BY <1>3 DEF Rotate, TypeOK
    <3> QED BY <1>3, <3>1, <3>2 DEF TypeOK
  <2>2. Line(t) \in SUBSET Ids
    BY <1>3 DEF Line, TypeOK
  <2>3. lineage' \in [Ids -> SUBSET Ids]
    BY <1>1, <2>2 DEF Rotate, TypeOK
  <2>4. issued' \in 0..MaxTokens
    BY <1>1, <1>4, RefreshAssumption DEF Ids
  <2> QED BY <2>1, <2>3, <2>4 DEF TypeOK, Rotate, Finish
<1>8. UnissuedAreBlank'
  BY <1>1, <1>3, <1>4 DEF UnissuedAreBlank, Rotate, TypeOK, Ids, Issued
<1>9. LineageIsIssued'
  BY <1>3, <1>4, <1>5 DEF LineageIsIssued, Line
<1>10. row[n].next = 0
  BY <1>1, <1>4 DEF UnissuedAreBlank, NewRow, Ids
<1>11. LinksFollowLineage'
  <2> SUFFICES ASSUME NEW x \in Ids, row'[x].next # 0
               PROVE  /\ row'[x].next \in Issued'
                      /\ {x} \cup lineage'[x] \subseteq lineage'[row'[x].next]
    BY DEF LinksFollowLineage, Line
  <2>1. CASE x = t
    BY <1>1, <1>3, <1>4, <1>5, <1>6, <2>1 DEF Line
  <2>2. CASE x # t
    <3>1. x # n /\ row'[x].next = row[x].next /\ lineage'[x] = lineage[x]
      BY <1>4, <1>5, <1>6, <1>10, <2>2
    <3>2. row[x].next \in Issued /\ Line(x) \subseteq lineage[row[x].next]
      BY <3>1 DEF LinksFollowLineage
    <3>3. lineage'[row[x].next] = lineage[row[x].next]
      BY <1>0, <1>4, <1>5, <3>2
    <3> QED BY <1>4, <3>1, <3>2, <3>3 DEF Line
  <2> QED BY <2>1, <2>2
<1>12. \A x \in Issued : lineage'[x] = lineage[x]
  BY <1>0, <1>4, <1>5
<1>13. WalksFollowLineage'
  <2> SUFFICES ASSUME NEW q \in Slots, req'[q] # Idle
               PROVE  /\ req[q].token \in Issued'
                      /\ req[q].at \in Issued'
                      /\ req[q].token \in Line(req[q].at)'
                      /\ \A x \in req[q].found : x \in Issued' /\ req[q].token \in lineage'[x]
                      /\ req'[q] = req[q]
    BY DEF WalksFollowLineage, Descends, Line
  <2>1. req'[q] = req[q]
    BY DEF Rotate, Finish, TypeOK
  <2> QED BY <1>4, <1>12, <2>1 DEF WalksFollowLineage, Descends, Line
<1> QED BY <1>1, <1>7, <1>8, <1>9, <1>11, <1>13

\* Steps that leave the tokens as they are, but for flags that only the owner
\* of the row reads.
LEMMA FlagsKeepChain ==
    ASSUME ChainInv, TypeOK', issued' = issued, lineage' = lineage,
           \A t \in Ids : row'[t].next = row[t].next,
           \A t \in Ids \ Issued : row'[t] = row[t],
           \A r \in Slots : req'[r] = Idle \/ req'[r] = req[r]
    PROVE  ChainInv'
<1> USE DEF ChainInv
<1>1. Exchanging' \subseteq Exchanging
  BY DEF Exchanging, Idle
<1>2. RowsAreReserved'
  BY <1>1, FewerExchanges
<1>3. Issued' = Issued
  BY DEF Issued
<1>4. UnissuedAreBlank'
  BY RefreshAssumption DEF UnissuedAreBlank, Issued, Ids, TypeOK
<1>5. LineageIsIssued' /\ LinksFollowLineage'
  BY <1>3 DEF LineageIsIssued, LinksFollowLineage, Line
<1>6. WalksFollowLineage'
  BY <1>3 DEF WalksFollowLineage, Descends, Line
<1> QED BY <1>2, <1>4, <1>5, <1>6

LEMMA StartKeepsChain ==
    ASSUME ChainInv, NEW r \in Slots, NEW t \in Issued, StartRefresh(r, t)
    PROVE  ChainInv'
<1> USE DEF ChainInv
<1>1. RowsAreReserved'
  BY StartReserves
<1>2. t \in Ids
  BY RefreshAssumption DEF Issued, Ids, TypeOK
<1>3. /\ req'[r].token = t /\ req'[r].at = t /\ req'[r].found = {}
      /\ req'[r] \in Refresh
      /\ \A q \in Slots : q # r => req'[q] = req[q]
      /\ req' = [req EXCEPT ![r] = req'[r]]
  BY <1>2 DEF StartRefresh, Refresh, TypeOK
<1>4. TypeOK'
  BY <1>3 DEF StartRefresh, TypeOK
<1>5. issued' = issued /\ row' = row /\ lineage' = lineage
  BY DEF StartRefresh
<1>6. Issued' = Issued
  BY <1>5 DEF Issued
<1>7. UnissuedAreBlank' /\ LineageIsIssued' /\ LinksFollowLineage'
  BY <1>5, <1>6 DEF UnissuedAreBlank, LineageIsIssued, LinksFollowLineage, Line
<1>8. WalksFollowLineage'
  BY <1>3, <1>5, <1>6 DEF WalksFollowLineage, Descends, Line
<1> QED BY <1>1, <1>4, <1>7, <1>8

LEMMA WalkKeepsChain ==
    ASSUME ChainInv, NEW r \in Slots, Walk(r)
    PROVE  ChainInv'
<1> DEFINE next == row[req[r].at].next
<1> USE DEF ChainInv
<1>1. req[r] # Idle /\ req[r] \in Refresh /\ req[r].pc = "walk"
  BY PcIsBusy, BusyRequest DEF Walk
<1>2. /\ req[r].token \in Issued
      /\ req[r].at \in Issued /\ req[r].at \in Ids
      /\ req[r].token \in Line(req[r].at)
      /\ \A t \in req[r].found : Descends(t, req[r].token)
  BY <1>1 DEF WalksFollowLineage, Refresh
<1>3. /\ issued' = issued /\ row' = row /\ lineage' = lineage
      /\ overlapped' = overlapped /\ Issued' = Issued
  BY DEF Walk, Issued
<1>4. UnissuedAreBlank' /\ LineageIsIssued' /\ LinksFollowLineage'
  BY <1>3 DEF UnissuedAreBlank, LineageIsIssued, LinksFollowLineage, Line
<1>5. CASE next # 0 /\ req' = [req EXCEPT ![r].found = @ \cup {next}, ![r].at = next]
  <2>1. next \in Issued /\ Line(req[r].at) \subseteq lineage[next] /\ next \in Ids
    BY <1>2, <1>5, RefreshAssumption DEF LinksFollowLineage, Issued, Ids, TypeOK
  <2>2. req'[r] = [req[r] EXCEPT !.found = req[r].found \cup {next}, !.at = next]
    BY <1>5 DEF TypeOK
  <2>3. /\ req'[r].pc = "walk" /\ req'[r].token = req[r].token
        /\ req'[r].at = next /\ req'[r].found = req[r].found \cup {next}
        /\ req'[r] \in Refresh
    <3>1. req[r].found \cup {next} \in SUBSET Ids
      BY <1>1, <2>1 DEF Refresh
    <3> HIDE DEF next
    <3> QED BY <1>1, <2>1, <2>2, <3>1 DEF Refresh
  <2>4. \A q \in Slots : q # r => req'[q] = req[q]
    BY <1>5 DEF TypeOK
  <2>5. TypeOK'
    BY <1>3, <1>5, <2>2, <2>3 DEF TypeOK
  <2>6. RowsAreReserved'
    <3>1. Exchanging' \subseteq Exchanging
      BY <2>3, <2>4 DEF Exchanging
    <3> QED BY <1>3, <3>1, FewerExchanges
  <2>7. Descends(next, req[r].token)
    BY <1>2, <2>1 DEF Descends
  <2>8. WalksFollowLineage'
    <3>1. ASSUME NEW q \in Slots, req'[q] # Idle, q # r
          PROVE  /\ req'[q].token \in Issued /\ req'[q].at \in Issued
                 /\ req'[q].token \in Line(req'[q].at)
                 /\ \A t \in req'[q].found : Descends(t, req'[q].token)
      BY <2>4, <3>1 DEF WalksFollowLineage
    <3>2. /\ req'[r].token \in Issued /\ req'[r].at \in Issued
          /\ req'[r].token \in Line(req'[r].at)
          /\ \A t \in req'[r].found : Descends(t, req'[r].token)
      BY <1>2, <2>1, <2>3, <2>7 DEF Line
    <3> QED BY <1>3, <3>1, <3>2 DEF WalksFollowLineage, Line, Descends
  <2> QED BY <1>4, <2>5, <2>6, <2>8
<1>6. CASE req' = [req EXCEPT ![r].pc = "revoke"]
  <2>1. req'[r] = [req[r] EXCEPT !.pc = "revoke"]
    BY <1>6 DEF TypeOK
  <2>2. /\ req'[r].pc = "revoke" /\ req'[r].token = req[r].token
        /\ req'[r].at = req[r].at /\ req'[r].found = req[r].found
        /\ req'[r] \in Refresh
    BY <1>1, <2>1 DEF Refresh
  <2>3. \A q \in Slots : q # r => req'[q] = req[q]
    BY <1>6 DEF TypeOK
  <2>4. TypeOK'
    BY <1>3, <1>6, <2>1, <2>2 DEF TypeOK
  <2>5. RowsAreReserved'
    <3>1. Exchanging' \subseteq Exchanging
      BY <2>2, <2>3 DEF Exchanging
    <3> QED BY <1>3, <3>1, FewerExchanges
  <2>6. WalksFollowLineage'
    BY <1>1, <1>2, <1>3, <2>2, <2>3 DEF WalksFollowLineage, Line, Descends
  <2> QED BY <1>4, <2>4, <2>5, <2>6
<1>7. CASE Finish(r)
  <2>1. TypeOK'
    BY <1>3, <1>7 DEF Finish, TypeOK
  <2> QED BY <1>3, <1>7, <2>1, FlagsKeepChain DEF Finish, TypeOK
<1> QED BY <1>5, <1>6, <1>7 DEF Walk

LEMMA StepKeepsChain ==
    ASSUME ChainInv, [Next]_vars
    PROVE  ChainInv'
<1>1. ASSUME NEW t \in Issued, Expire(t)
      PROVE  ChainInv'
  <2>1. t \in Ids
    BY RefreshAssumption DEF Issued, Ids, ChainInv, TypeOK
  <2>2. TypeOK'
    BY <1>1, <2>1 DEF Expire, ChainInv, TypeOK, Row
  <2> QED BY <1>1, <2>1, <2>2, FlagsKeepChain DEF Expire, ChainInv, TypeOK, Row
<1>2. ASSUME NEW r \in Slots, Revoke(r)
      PROVE  ChainInv'
  <2>1. req[r] # Idle
    BY <1>2, PcIsBusy DEF Revoke, ChainInv
  <2>2. req[r].found \subseteq Issued
    BY <2>1 DEF ChainInv, WalksFollowLineage, Descends
  <2>3. TypeOK'
    BY <1>2 DEF Revoke, Finish, ChainInv, TypeOK, Row
  <2> QED BY <1>2, <2>2, <2>3, FlagsKeepChain DEF Revoke, Finish, ChainInv, TypeOK, Row
<1>3. ASSUME NEW r \in Slots, Refuse(r) \/ Fail(r)
      PROVE  ChainInv'
  BY <1>3, FlagsKeepChain DEF Refuse, Fail, Finish, ChainInv, TypeOK
<1>4. CASE UNCHANGED vars
  BY <1>4, FlagsKeepChain DEF vars, ChainInv, TypeOK
<1> QED BY <1>1, <1>2, <1>3, <1>4, LoginKeepsChain, RotateKeepsChain, StartKeepsChain,
           WalkKeepsChain DEF Next, RequestStep

LEMMA InitChain ==
    ASSUME Init
    PROVE  ChainInv
<1>1. Exchanging = {}
  BY DEF Init, Exchanging, Idle
<1>2. TypeOK
  <2>1. NewRow \in Row /\ 0 \in 0..MaxTokens
    BY RefreshAssumption DEF Row, NewRow
  <2> QED BY <2>1 DEF Init, TypeOK
<1>3. RowsAreReserved
  BY <1>1, FS_EmptySet, RefreshAssumption DEF Init, RowsAreReserved
<1> QED BY <1>2, <1>3 DEF Init, ChainInv, UnissuedAreBlank, LineageIsIssued, LinksFollowLineage,
                    WalksFollowLineage, NewRow

\* The chain of rows and the walks along it agree with who came of whom.
THEOREM ChainInvariant == Spec => []ChainInv
  BY InitChain, StepKeepsChain, PTL DEF Spec

\* Whatever overlaps and fails, a replay revokes nothing but descendants of
\* the replayed token: other families and other branches are left alone.
THEOREM RevokesDescendants == Spec => OnlyDescendantsAreRevoked
<1>1. ChainInv /\ [Next]_vars =>
        [\A t \in Issued :
           (~row[t].revoked /\ row'[t].revoked) =>
              \E r \in Slots :
                 \/ req[r].pc = "rotate" /\ req[r].token = t
                 \/ req[r].pc = "revoke" /\ Descends(t, req[r].token)]_vars
  <2> SUFFICES ASSUME ChainInv, Next, NEW t \in Issued, ~row[t].revoked, row'[t].revoked
               PROVE  \E r \in Slots :
                         \/ req[r].pc = "rotate" /\ req[r].token = t
                         \/ req[r].pc = "revoke" /\ Descends(t, req[r].token)
    BY DEF vars
  <2>0. t \in Ids /\ row \in [Ids -> Row]
    BY RefreshAssumption DEF Issued, Ids, ChainInv, TypeOK
  <2>1. ASSUME NEW r \in Slots, Revoke(r)
        PROVE  req[r].pc = "revoke" /\ Descends(t, req[r].token)
    <3>1. t \in req[r].found /\ req[r].pc = "revoke"
      BY <2>0, <2>1 DEF Revoke
    <3> QED BY <3>1, PcIsBusy DEF ChainInv, WalksFollowLineage
  <2>2. ASSUME NEW r \in Slots, Rotate(r)
        PROVE  req[r].pc = "rotate" /\ req[r].token = t
    BY <2>0, <2>2 DEF Rotate, Row
  <2>3. ASSUME NEW u \in Issued, Expire(u)
        PROVE  FALSE
    BY <2>0, <2>3 DEF Expire, Row
  <2> QED BY <2>1, <2>2, <2>3 DEF Next, RequestStep, Login, StartRefresh, Refuse, Walk, Fail
<1> QED BY <1>1, ChainInvariant, PTL DEF Spec, OnlyDescendantsAreRevoked

-----------------------------------------------------------------------------
(* Families without overlap.                                               *)

LEMMA IssuedAreIds ==
    ASSUME TypeOK
    PROVE  Issued \subseteq Ids
  BY RefreshAssumption DEF Issued, Ids, TypeOK

\* Steps that only set flags or end requests.
LEMMA FlagsKeepFamily ==
    ASSUME FamilyInv, ChainInv', issued' = issued, lineage' = lineage,
           \A t \in Ids : row'[t].next = row[t].next,
           \A t \in Ids : row[t].revoked => row'[t].revoked,
           \A r \in Slots : req'[r] = Idle \/ req'[r] = req[r],
           \A r \in Slots : req'[r].pc = "rotate" => ~row'[req[r].token].revoked
    PROVE  FamilyInv'
<1>1. Issued' = Issued /\ Issued \subseteq Ids
  BY IssuedAreIds DEF Issued, FamilyInv, ChainInv
<1>2. FamiliesAreLines'
  BY <1>1 DEF FamilyInv, FamiliesAreLines, SameFamily, Line
<1>3. AncestorsAreSpent'
  <2>1. \A u \in Issued : lineage[u] \subseteq Ids
    BY <1>1 DEF FamilyInv, ChainInv, TypeOK
  <2> QED BY <1>1, <2>1 DEF FamilyInv, AncestorsAreSpent, Line
<1>4. RequestsAreApart'
  BY DEF FamilyInv, RequestsAreApart, SameFamily, Line
<1>5. ReadsAreFresh'
  BY DEF ReadsAreFresh, Idle
<1>6. WalksMissNothing' /\ ReplayFindsFamily'
  BY <1>1 DEF FamilyInv, WalksMissNothing, ReplayFindsFamily, Descends, Idle
<1> QED BY <1>2, <1>3, <1>4, <1>5, <1>6 DEF FamilyInv

LEMMA LoginKeepsFamily ==
    ASSUME FamilyInv, Login
    PROVE  FamilyInv'
<1> DEFINE n == issued + 1
<1>1. ChainInv /\ ChainInv'
  BY LoginKeepsChain DEF FamilyInv
<1>2. /\ n \in Ids /\ n \notin Issued /\ n # 0
      /\ \A t \in Issued' : t \in Issued \/ t = n
      /\ Issued \subseteq Issued'
  BY <1>1, RefreshAssumption DEF Login, ChainInv, TypeOK, Issued, Ids
<1>3. row' = row /\ lineage' = lineage /\ req' = req
  BY DEF Login
<1>4. lineage[n] = {} /\ \A t \in Issued : n \notin lineage[t]
  BY <1>1, <1>2, IssuedAreIds DEF ChainInv, UnissuedAreBlank, LineageIsIssued, TypeOK
<1>5. FamiliesAreLines'
  BY <1>2, <1>3, <1>4 DEF FamilyInv, FamiliesAreLines, SameFamily, Line
<1>6. AncestorsAreSpent'
  BY <1>2, <1>3, <1>4 DEF FamilyInv, AncestorsAreSpent, Line
<1>7. RequestsAreApart' /\ ReadsAreFresh'
  BY <1>3 DEF FamilyInv, RequestsAreApart, ReadsAreFresh, SameFamily, Line
<1>8. WalksMissNothing' /\ ReplayFindsFamily'
  BY <1>2, <1>3, <1>4 DEF FamilyInv, WalksMissNothing, ReplayFindsFamily, Descends
<1> QED BY <1>1, <1>5, <1>6, <1>7, <1>8 DEF FamilyInv

LEMMA StartKeepsFamily ==
    ASSUME FamilyInv, ~overlapped', NEW r \in Slots, NEW t \in Issued, StartRefresh(r, t)
    PROVE  FamilyInv'
<1>1. ChainInv /\ ChainInv'
  BY StartKeepsChain DEF FamilyInv
<1>2. /\ req'[r].token = t /\ req'[r].at = t /\ req'[r].found = {}
      /\ req'[r].pc = "rotate" => Usable(t)
      /\ req'[r].pc # "revoke"
      /\ \A q \in Slots : q # r => req'[q] = req[q]
  BY <1>1 DEF StartRefresh, Usable, ChainInv, TypeOK
<1>3. issued' = issued /\ row' = row /\ lineage' = lineage /\ Issued' = Issued
  BY DEF StartRefresh, Issued
<1>4. FamiliesAreLines' /\ AncestorsAreSpent'
  BY <1>3 DEF FamilyInv, FamiliesAreLines, AncestorsAreSpent, SameFamily, Line
<1>5. RequestsAreApart'
  <2>1. \A q \in Slots : (q # r /\ req'[q] # Idle) =>
            ~SameFamily(t, req'[q].token) /\ ~SameFamily(req'[q].token, t)
    BY <1>2 DEF StartRefresh, SameFamily
  <2> QED BY <1>2, <1>3, <2>1 DEF FamilyInv, RequestsAreApart, SameFamily, Line
<1>6. ReadsAreFresh'
  BY <1>2, <1>3 DEF FamilyInv, ReadsAreFresh, Usable
<1>7. WalksMissNothing' /\ ReplayFindsFamily'
  BY <1>2, <1>3 DEF FamilyInv, WalksMissNothing, ReplayFindsFamily, Descends
<1> QED BY <1>1, <1>4, <1>5, <1>6, <1>7 DEF FamilyInv

\* The exchanged token has no descendants yet, and the new one has all of its
\* line behind it.
LEMMA RotateKeepsFamily ==
    ASSUME FamilyInv, NEW r \in Slots, Rotate(r)
    PROVE  FamilyInv'
<1> DEFINE t == req[r].token
           n == issued + 1
<1>1. ChainInv /\ ChainInv'
  BY RotateKeepsChain DEF FamilyInv
<1>2. n \in Ids
  BY <1>1, RotateUsesReservation DEF ChainInv
<1>3. t \in Issued /\ lineage[t] \subseteq Issued /\ ~row[t].revoked /\ req[r] # Idle
  BY <1>1, PcIsBusy, IssuedAreIds
     DEF Rotate, ChainInv, WalksFollowLineage, LineageIsIssued, FamilyInv, ReadsAreFresh
<1>4. /\ n \notin Issued /\ n # t /\ n # 0
      /\ \A x \in Issued' : x \in Issued \/ x = n
      /\ Issued \subseteq Issued'
      /\ Issued \subseteq Ids
  BY <1>1, <1>2, <1>3, IssuedAreIds, RefreshAssumption
     DEF Rotate, ChainInv, TypeOK, Issued, Ids
<1>5. /\ lineage'[n] = Line(t)
      /\ \A x \in Issued : lineage'[x] = lineage[x] /\ n \notin lineage[x]
  BY <1>1, <1>2, <1>4 DEF Rotate, ChainInv, TypeOK, LineageIsIssued
<1>6. /\ row'[t].revoked /\ row'[t].next = n
      /\ \A x \in Ids : x # t => row'[x] = row[x]
  BY <1>1, <1>3, <1>4 DEF Rotate, ChainInv, TypeOK, Row
<1>7. \A u \in Issued : t \notin lineage[u]
  BY <1>3 DEF FamilyInv, AncestorsAreSpent
<1>8. FamiliesAreLines'
  <2> SUFFICES ASSUME NEW u \in Issued', NEW v \in Issued', SameFamily(u, v)'
               PROVE  u = v \/ u \in lineage'[v] \/ v \in lineage'[u]
    BY DEF FamiliesAreLines
  <2>1. ASSUME NEW x \in Issued, ({n} \cup Line(t)) \cap Line(x) # {}
        PROVE  x \in Line(t)
    <3>1. SameFamily(t, x)
      BY <1>4, <1>5, <2>1 DEF SameFamily, Line
    <3> QED BY <1>3, <1>7, <3>1 DEF FamilyInv, FamiliesAreLines, Line
  <2>2. CASE u \in Issued /\ v \in Issued
    BY <1>5, <2>2 DEF FamilyInv, FamiliesAreLines, SameFamily, Line
  <2>3. CASE u = n /\ v \in Issued
    BY <1>5, <2>1, <2>3 DEF SameFamily, Line
  <2>4. CASE v = n /\ u \in Issued
    BY <1>5, <2>1, <2>4 DEF SameFamily, Line
  <2> QED BY <1>4, <2>2, <2>3, <2>4
<1>9. AncestorsAreSpent'
  <2> SUFFICES ASSUME NEW u \in Issued', NEW x \in lineage'[u]
               PROVE  row'[x].revoked /\ row'[x].next \in {u} \cup lineage'[u]
    BY DEF AncestorsAreSpent, Line
  <2>1. CASE u \in Issued
    <3>1. x \in lineage[u] /\ x # t /\ x \in Ids
      BY <1>1, <1>4, <1>5, <1>7, <2>1 DEF ChainInv, TypeOK
    <3> QED BY <1>5, <1>6, <2>1, <3>1 DEF FamilyInv, AncestorsAreSpent, Line
  <2>2. CASE u = n /\ x = t
    BY <1>6, <2>2
  <2>3. CASE u = n /\ x # t
    <3>1. x \in lineage[t] /\ x \in Ids
      BY <1>3, <1>4, <1>5, <2>3 DEF Line
    <3>2. row[x].revoked /\ row[x].next \in Line(t)
      BY <1>3, <3>1 DEF FamilyInv, AncestorsAreSpent
    <3> QED BY <1>5, <1>6, <2>3, <3>1, <3>2
  <2> QED BY <1>4, <2>1, <2>2, <2>3
<1>10. \A q \in Slots : req'[q] = Idle \/ (req'[q] = req[q] /\ q # r)
  BY <1>1 DEF Rotate, Finish, ChainInv, TypeOK
<1>11. ASSUME NEW q \in Slots, req'[q] # Idle
       PROVE  /\ req'[q] = req[q] /\ req[q] # Idle
              /\ req[q].token \in Issued /\ req[q].token \in Ids
              /\ req[q].token \notin Line(t)
  <2>1. req'[q] = req[q] /\ q # r
    BY <1>10, <1>11
  <2>2. ~SameFamily(req[q].token, t)
    BY <1>3, <1>11, <2>1 DEF FamilyInv, RequestsAreApart
  <2>3. req[q].token \in Issued
    BY <1>1, <1>11, <2>1 DEF ChainInv, WalksFollowLineage
  <2> QED BY <1>4, <1>11, <2>1, <2>2, <2>3 DEF SameFamily, Line
<1>12. RequestsAreApart'
  BY <1>5, <1>10, <1>11 DEF FamilyInv, RequestsAreApart, SameFamily, Line
<1>13. ReadsAreFresh'
  <2> SUFFICES ASSUME NEW q \in Slots, req'[q].pc = "rotate"
               PROVE  ~row'[req'[q].token].revoked
    BY DEF ReadsAreFresh
  <2>1. req'[q] # Idle
    BY DEF Idle
  <2> QED BY <1>6, <1>11, <2>1 DEF FamilyInv, ReadsAreFresh, Line
<1>14. WalksMissNothing'
  <2> SUFFICES ASSUME NEW q \in Slots, req'[q].pc = "walk",
                      NEW x \in Issued', req'[q].token \in lineage'[x]
               PROVE  x \in req'[q].found \/ req'[q].at \in lineage'[x]
    BY DEF WalksMissNothing, Descends
  <2>1. req'[q] # Idle
    BY DEF Idle
  <2>2. x \in Issued
    BY <1>4, <1>5, <1>11, <2>1
  <2> QED BY <1>5, <1>11, <2>1, <2>2 DEF FamilyInv, WalksMissNothing, Descends
<1>15. ReplayFindsFamily'
  <2> SUFFICES ASSUME NEW q \in Slots, req'[q].pc = "revoke",
                      NEW x \in Issued', req'[q].token \in lineage'[x]
               PROVE  x \in req'[q].found
    BY DEF ReplayFindsFamily, Descends
  <2>1. req'[q] # Idle
    BY DEF Idle
  <2>2. x \in Issued
    BY <1>4, <1>5, <1>11, <2>1
  <2> QED BY <1>5, <1>11, <2>1, <2>2 DEF FamilyInv, ReplayFindsFamily, Descends
<1> QED BY <1>1, <1>8, <1>9, <1>12, <1>13, <1>14, <1>15 DEF FamilyInv

LEMMA WalkKeepsFamily ==
    ASSUME FamilyInv, NEW r \in Slots, Walk(r)
    PROVE  FamilyInv'
<1> DEFINE next == row[req[r].at].next
<1>1. ChainInv /\ ChainInv'
  BY WalkKeepsChain DEF FamilyInv
<1>2. req[r] # Idle /\ req[r] \in Refresh /\ req[r].pc = "walk"
  BY <1>1, PcIsBusy, BusyRequest DEF Walk, ChainInv
<1>3. issued' = issued /\ row' = row /\ lineage' = lineage /\ Issued' = Issued
  BY DEF Walk, Issued
<1>4. FamiliesAreLines' /\ AncestorsAreSpent'
  BY <1>3 DEF FamilyInv, FamiliesAreLines, AncestorsAreSpent, SameFamily, Line
\* Whoever has at among its ancestors is its successor or descends from it.
<1>5. \A t \in Issued : req[r].at \in lineage[t] => next \in Line(t) /\ next # 0
  <2>1. \A t \in Issued : 0 \notin Line(t)
    BY <1>1, IssuedAreIds, RefreshAssumption DEF Line, ChainInv, TypeOK, Ids
  <2> QED BY <2>1 DEF FamilyInv, AncestorsAreSpent
<1>6. \A t \in Issued : req[r].token \in lineage[t] =>
          t \in req[r].found \/ req[r].at \in lineage[t]
  BY <1>2 DEF FamilyInv, WalksMissNothing, Descends
<1>7. CASE next # 0 /\ req' = [req EXCEPT ![r].found = @ \cup {next}, ![r].at = next]
  <2>1. /\ req'[r].pc = "walk" /\ req'[r].token = req[r].token
        /\ req'[r].at = next /\ req'[r].found = req[r].found \cup {next}
        /\ \A q \in Slots : q # r => req'[q] = req[q]
    <3>1. req'[r] = [req[r] EXCEPT !.found = req[r].found \cup {next}, !.at = next]
      BY <1>1, <1>7 DEF ChainInv, TypeOK
    <3>2. \A q \in Slots : q # r => req'[q] = req[q]
      BY <1>1, <1>7 DEF ChainInv, TypeOK
    <3> HIDE DEF next
    <3> QED BY <1>2, <3>1, <3>2 DEF Refresh
  <2>2. RequestsAreApart'
    BY <1>2, <1>3, <2>1 DEF FamilyInv, RequestsAreApart, SameFamily, Line
  <2>3. ReadsAreFresh' /\ ReplayFindsFamily'
    BY <1>3, <2>1 DEF FamilyInv, ReadsAreFresh, ReplayFindsFamily, Descends
  <2>4. WalksMissNothing'
    <3>1. \A t \in Issued : req[r].token \in lineage[t] =>
             t \in req'[r].found \/ req'[r].at \in lineage[t]
      BY <1>5, <1>6, <2>1 DEF Line
    <3> QED BY <1>3, <2>1, <3>1 DEF FamilyInv, WalksMissNothing, Descends
  <2> QED BY <1>1, <1>4, <2>2, <2>3, <2>4 DEF FamilyInv
<1>8. CASE next = 0 /\ req' = [req EXCEPT ![r].pc = "revoke"]
  <2>1. /\ req'[r].pc = "revoke" /\ req'[r].token = req[r].token
        /\ req'[r].found = req[r].found
        /\ \A q \in Slots : q # r => req'[q] = req[q]
    <3>1. /\ req'[r] = [req[r] EXCEPT !.pc = "revoke"]
          /\ \A q \in Slots : q # r => req'[q] = req[q]
      BY <1>1, <1>8 DEF ChainInv, TypeOK
    <3> QED BY <1>2, <3>1 DEF Refresh
  <2>2. RequestsAreApart'
    BY <1>2, <1>3, <2>1 DEF FamilyInv, RequestsAreApart, SameFamily, Line
  <2>3. ReadsAreFresh' /\ WalksMissNothing'
    BY <1>3, <2>1 DEF FamilyInv, ReadsAreFresh, WalksMissNothing, Descends
  <2>4. ReplayFindsFamily'
    BY <1>3, <1>5, <1>6, <1>8, <2>1 DEF FamilyInv, ReplayFindsFamily, Descends
  <2> QED BY <1>1, <1>4, <2>2, <2>3, <2>4 DEF FamilyInv
<1>9. CASE Finish(r)
  <2>1. \A q \in Slots : req'[q] = Idle \/ req'[q] = req[q]
    BY <1>1, <1>9 DEF Finish, ChainInv, TypeOK
  <2>2. \A q \in Slots : req'[q].pc = "rotate" => ~row'[req[q].token].revoked
    BY <1>3, <2>1 DEF FamilyInv, ReadsAreFresh, Idle
  <2> QED BY <1>1, <1>3, <2>1, <2>2, FlagsKeepFamily
<1> QED BY <1>7, <1>8, <1>9 DEF Walk

LEMMA StepKeepsFamily ==
    ASSUME FamilyInv, ~overlapped', [Next]_vars
    PROVE  FamilyInv'
<1>1. ChainInv /\ ChainInv' /\ TypeOK
  BY StepKeepsChain DEF FamilyInv, ChainInv
<1>2. ASSUME NEW t \in Issued, Expire(t)
      PROVE  FamilyInv'
  <2>1. t \in Ids
    BY <1>1, IssuedAreIds
  <2>2. \A x \in Ids : row'[x].next = row[x].next /\ row'[x].revoked = row[x].revoked
    BY <1>1, <1>2, <2>1 DEF Expire, TypeOK, Row
  <2>3. \A r \in Slots : req[r].pc = "rotate" => req[r].token \in Ids
    BY <1>1, PcIsBusy, BusyRequest DEF Refresh
  <2> QED BY <1>1, <1>2, <2>2, <2>3, FlagsKeepFamily DEF Expire, FamilyInv, ReadsAreFresh
<1>3. ASSUME NEW r \in Slots, Revoke(r)
      PROVE  FamilyInv'
  <2>1. req[r] # Idle
    BY <1>1, <1>3, PcIsBusy DEF Revoke
  <2>2. /\ \A x \in Ids : row'[x].next = row[x].next
        /\ \A x \in Ids : row[x].revoked => row'[x].revoked
        /\ \A x \in Ids : x \notin req[r].found => row'[x] = row[x]
    BY <1>1, <1>3 DEF Revoke, TypeOK, Row
  <2>3. \A q \in Slots : req'[q] = Idle \/ (req'[q] = req[q] /\ q # r)
    BY <1>1, <1>3 DEF Revoke, Finish, TypeOK
  <2>4. ASSUME NEW q \in Slots, req'[q].pc = "rotate"
        PROVE  ~row'[req[q].token].revoked
    <3>1. q # r /\ req'[q] = req[q] /\ req[q] # Idle
      BY <2>3, <2>4 DEF Idle
    <3>2. req[q].token \notin req[r].found
      <4>1. ~SameFamily(req[q].token, req[r].token)
        BY <2>1, <3>1 DEF FamilyInv, RequestsAreApart
      <4> QED BY <1>1, <2>1, <4>1
              DEF ChainInv, WalksFollowLineage, Descends, SameFamily, Line
    <3>3. req[q].token \in Ids
      BY <1>1, <3>1, BusyRequest DEF Refresh
    <3> QED BY <2>2, <2>4, <3>1, <3>2, <3>3 DEF FamilyInv, ReadsAreFresh
  <2> QED BY <1>1, <1>3, <2>2, <2>3, <2>4, FlagsKeepFamily DEF Revoke
<1>4. ASSUME NEW r \in Slots, Refuse(r) \/ Fail(r)
      PROVE  FamilyInv'
  <2>1. \A q \in Slots : req'[q] = Idle \/ req'[q] = req[q]
    BY <1>1, <1>4 DEF Refuse, Fail, Finish, TypeOK
  <2>2. issued' = issued /\ row' = row /\ lineage' = lineage
    BY <1>4 DEF Refuse, Fail
  <2>3. \A q \in Slots : req'[q].pc = "rotate" => ~row'[req[q].token].revoked
    BY <2>1, <2>2 DEF FamilyInv, ReadsAreFresh, Idle
  <2> QED BY <1>1, <2>1, <2>2, <2>3, FlagsKeepFamily
<1>5. CASE UNCHANGED vars
  <2>1. \A q \in Slots : req'[q].pc = "rotate" => ~row'[req[q].token].revoked
    BY <1>5 DEF vars, FamilyInv, ReadsAreFresh
  <2> QED BY <1>1, <1>5, <2>1, FlagsKeepFamily DEF vars
<1> QED BY <1>2, <1>3, <1>4, <1>5, LoginKeepsFamily, RotateKeepsFamily, StartKeepsFamily,
           WalkKeepsFamily DEF Next, RequestStep

LEMMA InitFamily ==
    ASSUME Init
    PROVE  FamilyInv
<1>1. Issued = {}
  BY DEF Init, Issued
<1> QED BY <1>1, InitChain DEF Init, FamilyInv, FamiliesAreLines, AncestorsAreSpent,
           RequestsAreApart, ReadsAreFresh, WalksMissNothing, ReplayFindsFamily, Idle

LEMMA OverlapIsForEver ==
    ASSUME TypeOK, overlapped, [Next]_vars
    PROVE  overlapped'
  BY DEF Next, RequestStep, vars, Login, Expire, StartRefresh, Refuse, Rotate, Walk,
         Revoke, Fail

\* Until two refreshes of one family overlap, families are lines, requests find
\* the tokens as they have read them, and walks miss nothing.
THEOREM RefreshInvariant == Spec => []RefreshInv
<1>1. Init => RefreshInv
  BY InitChain, InitFamily DEF RefreshInv
<1>2. RefreshInv /\ [Next]_vars => RefreshInv'
  <2> SUFFICES ASSUME RefreshInv, [Next]_vars
               PROVE  RefreshInv'
    OBVIOUS
  <2>1. ChainInv /\ ChainInv' /\ TypeOK
    BY StepKeepsChain DEF RefreshInv, ChainInv
  <2>2. ASSUME ~overlapped'
        PROVE  FamilyInv'
    <3>1. ~overlapped
      BY <2>1, <2>2, OverlapIsForEver
    <3> QED BY <2>2, <3>1, StepKeepsFamily DEF RefreshInv
  <2> QED BY <2>1, <2>2 DEF RefreshInv
<1> QED BY <1>1, <1>2, PTL DEF Spec

\* Until then a family has one token in force at most.
THEOREM OneTokenInForce == Spec => []OneLivePerFamily
<1>1. RefreshInv => OneLivePerFamily
  BY DEF RefreshInv, FamilyInv, FamiliesAreLines, AncestorsAreSpent, OneLivePerFamily
<1> QED BY <1>1, RefreshInvariant, PTL

\* And a replay revokes all that has come of the replayed token.
THEOREM ReplayIsThorough == Spec => []LoneReplayFindsFamily
<1>1. RefreshInv => LoneReplayFindsFamily
  BY DEF RefreshInv, FamilyInv, LoneReplayFindsFamily
<1> QED BY <1>1, RefreshInvariant, PTL

-----------------------------------------------------------------------------
(* The sessions that tokens implement.                                     *)

\* A replay is of a token that has been revoked.
ReplaysAreOfSpent ==
    \A r \in Slots :
        req[r].pc \in {"walk", "revoke"} =>
            req[r].token \in Issued /\ row[req[r].token].revoked

LEMMA SpentStaysSpent ==
    ASSUME ChainInv, ReplaysAreOfSpent, [Next]_vars
    PROVE  ReplaysAreOfSpent'
<1> SUFFICES ASSUME NEW r \in Slots, req'[r].pc \in {"walk", "revoke"}
             PROVE  req'[r].token \in Issued' /\ row'[req'[r].token].revoked
  BY DEF ReplaysAreOfSpent
<1> USE DEF ChainInv
<1>1. Issued \subseteq Issued' /\ Issued \subseteq Ids
  <2>1. issued' = issued \/ issued' = issued + 1
    BY DEF Next, RequestStep, Login, Expire, StartRefresh, Refuse, Rotate, Walk,
           Revoke, Fail, vars
  <2>2. issued \in Nat
    BY DEF TypeOK
  <2> QED BY <2>1, <2>2, IssuedAreIds DEF Issued
<1>2. ASSUME NEW t \in Issued, row[t].revoked
      PROVE  row'[t].revoked
  <2>0. row[t] \in Row /\ row \in [Ids -> Row] /\ t \in Ids
    BY <1>1 DEF TypeOK
  <2>1. ASSUME NEW u \in Issued, Expire(u)
        PROVE  row'[t].revoked
    BY <1>2, <2>0, <2>1 DEF Expire, Row
  <2>2. ASSUME NEW q \in Slots, Rotate(q)
        PROVE  row'[t].revoked
    BY <1>2, <2>0, <2>2 DEF Rotate, Row
  <2>3. ASSUME NEW q \in Slots, Revoke(q)
        PROVE  row'[t].revoked
    BY <1>2, <2>0, <2>3 DEF Revoke, Row
  <2> QED BY <1>2, <2>1, <2>2, <2>3 DEF Next, RequestStep, Login, StartRefresh, Refuse,
                                       Walk, Fail, vars
<1>3. CASE req'[r] = req[r]
  BY <1>1, <1>2, <1>3 DEF ReplaysAreOfSpent
<1>4. ASSUME NEW t \in Issued, StartRefresh(r, t)
      PROVE  req'[r].token \in Issued /\ row[req'[r].token].revoked
  BY <1>4 DEF StartRefresh, TypeOK
<1>5. CASE Walk(r)
  <2>1. req[r].pc = "walk" /\ req[r] \in Refresh
    BY <1>5, PcIsBusy, BusyRequest DEF Walk
  <2>2. req'[r].token = req[r].token
    BY <1>5, <2>1 DEF Walk, Finish, Idle, TypeOK, Refresh
  <2> QED BY <1>1, <1>2, <2>1, <2>2 DEF ReplaysAreOfSpent
<1>6. req'[r] = req[r] \/ Walk(r) \/ (\E t \in Issued : StartRefresh(r, t)) \/ req'[r] = Idle
  BY DEF Next, RequestStep, Login, Expire, StartRefresh, Refuse, Rotate, Walk,
         Revoke, Fail, Finish, vars, TypeOK
<1> QED BY <1>1, <1>2, <1>3, <1>4, <1>5, <1>6 DEF Idle

SessionInv == RefreshInv /\ ReplaysAreOfSpent

LEMMA SessionInvariant == Spec => []SessionInv
<1>1. Init => ReplaysAreOfSpent
  BY DEF Init, ReplaysAreOfSpent, Idle
<1>2. RefreshInv /\ ReplaysAreOfSpent /\ [Next]_vars => ReplaysAreOfSpent'
  BY SpentStaysSpent DEF RefreshInv
<1> QED BY <1>1, <1>2, RefreshInvariant, PTL DEF Spec, SessionInv

\* Of the session of a spent token nothing is in force but what has come of it.
LEMMA HeirsOfSpent ==
    ASSUME FamilyInv, NEW t \in Issued, row[t].revoked,
           NEW u \in Issued, ~row[u].revoked
    PROVE  SameFamily(u, t) <=> Descends(u, t)
<1>1. ASSUME SameFamily(u, t)
      PROVE  Descends(u, t)
  <2>1. u = t \/ u \in lineage[t] \/ t \in lineage[u]
    BY <1>1 DEF FamilyInv, FamiliesAreLines
  <2> QED BY <2>1 DEF FamilyInv, AncestorsAreSpent, Descends
<1>2. ASSUME Descends(u, t)
      PROVE  SameFamily(u, t)
  BY <1>2 DEF Descends, SameFamily, Line
<1> QED BY <1>1, <1>2

\* A revocation that has found all heirs of a spent token ends its session.
LEMMA RevocationEnds ==
    ASSUME FamilyInv, NEW t \in Issued, row[t].revoked, NEW F,
           \A u \in F : Descends(u, t),
           \A u \in Issued : Descends(u, t) => u \in F,
           InForce' = InForce \ F, UNCHANGED <<issued, lineage>>
    PROVE  Sess!EndSession(t)
<1>1. t \notin InForce
  BY DEF InForce
<1>2. ASSUME NEW u \in InForce
      PROVE  u \in F <=> u \in Sess!Session(t)
  <2>1. u \in Issued /\ ~row[u].revoked
    BY DEF InForce
  <2>2. u \in Sess!Session(t) <=> SameFamily(u, t)
    BY <2>1 DEF Sess!Session, Sess!Line, SameFamily, Line, Issued
  <2> QED BY <2>1, <2>2, HeirsOfSpent
<1>3. InForce' = InForce \ Sess!Session(t)
  BY <1>2
<1> QED BY <1>1, <1>3 DEF Sess!EndSession

LEMMA LastOfReplay ==
    ASSUME SessionInv, ~overlapped, NEW r \in Slots, EndsReplay(r) \/ Revoke(r)
    PROVE  Sess!EndSession(req[r].token)
<1> DEFINE t == req[r].token
<1>1. FamilyInv /\ ChainInv /\ TypeOK
  BY DEF SessionInv, RefreshInv, ChainInv
<1>2. req[r].pc \in {"walk", "revoke"} /\ req[r] # Idle
  BY <1>1, PcIsBusy DEF EndsReplay, Revoke
<1>3. t \in Issued /\ row[t].revoked
  BY <1>2 DEF SessionInv, ReplaysAreOfSpent
<1>4. \A u \in req[r].found : Descends(u, t)
  BY <1>1, <1>2 DEF ChainInv, WalksFollowLineage
<1>5. CASE Revoke(r)
  <2>1. \A u \in Issued : Descends(u, t) => u \in req[r].found
    BY <1>1, <1>5 DEF FamilyInv, ReplayFindsFamily, Revoke
  <2>2. UNCHANGED <<issued, lineage>>
    BY <1>5 DEF Revoke
  <2>3. InForce' = InForce \ req[r].found
    <3>1. \A u \in Issued : u \in Ids /\ row[u] \in Row
      BY <1>1, IssuedAreIds DEF TypeOK
    <3> QED BY <1>5, <2>2, <3>1 DEF Revoke, InForce, Issued, Row
  <2> QED BY <1>1, <1>3, <1>4, <2>1, <2>2, <2>3, RevocationEnds
<1>6. CASE Walk(r) /\ req'[r] = Idle
  <2>1. row[req[r].at].next = 0 /\ UNCHANGED <<issued, row, lineage>>
    <3>1. req[r] \in Refresh /\ req[r].pc = "walk"
      BY <1>1, <1>2, <1>6, BusyRequest DEF Walk
    <3>2. ASSUME NEW f, NEW a, req' = [req EXCEPT ![r].found = f, ![r].at = a]
          PROVE  req'[r].pc = "walk"
      BY <1>1, <3>1, <3>2 DEF TypeOK, Refresh
    <3> QED BY <1>6, <3>2 DEF Walk, Idle
  <2>2. req[r].found = {}
    <3>1. req[r] \in Refresh
      BY <1>1, <1>2, BusyRequest
    <3> QED BY <1>1, <1>6, <2>1, <3>1 DEF Walk, TypeOK, Idle, Refresh
  <2>3. ASSUME NEW u \in Issued, Descends(u, t)
        PROVE  FALSE
    <3>1. req[r].at \in lineage[u]
      BY <1>1, <1>6, <2>2, <2>3 DEF FamilyInv, WalksMissNothing, Walk
    <3>2. row[req[r].at].next \in Line(u)
      BY <1>1, <3>1 DEF FamilyInv, AncestorsAreSpent
    <3>3. Line(u) \subseteq Issued
      BY <1>1, IssuedAreIds DEF ChainInv, LineageIsIssued, Line
    <3> QED BY <1>1, <2>1, <3>2, <3>3 DEF Issued, TypeOK
  <2>4. PICK F : F = {}
    OBVIOUS
  <2>5. InForce' = InForce \ F
    BY <2>1, <2>4 DEF InForce, Issued
  <2>6. /\ \A u \in F : Descends(u, t)
        /\ \A u \in Issued : Descends(u, t) => u \in F
    BY <2>3, <2>4
  <2> QED BY <1>1, <1>3, <2>1, <2>5, <2>6, RevocationEnds
<1>7. Revoke(r) \/ Walk(r)
  BY <1>2 DEF EndsReplay, RequestStep, Refuse, Rotate
<1> QED BY <1>5, <1>6, <1>7 DEF EndsReplay

LEMMA SessionStep ==
    ASSUME SessionInv, ~overlapped, Next
    PROVE  [Sess!Next]_(Sess!sessionVars)
<1>1. FamilyInv /\ ChainInv /\ TypeOK
  BY DEF SessionInv, RefreshInv, ChainInv
<1>2. \A u \in Issued : u \in Ids /\ row[u] \in Row
  BY <1>1, IssuedAreIds DEF TypeOK
<1>3. issued \in Nat /\ issued + 1 \in Nat \ Issued /\ MaxTokens \in Nat
  BY <1>1, RefreshAssumption DEF TypeOK, Issued
<1>4. ASSUME UNCHANGED <<issued, lineage>>, \A u \in Issued : row'[u].revoked = row[u].revoked
      PROVE  UNCHANGED Sess!sessionVars
  BY <1>4 DEF Sess!sessionVars, InForce, Issued
<1>5. CASE Login
  <2>1. issued < MaxTokens
    BY <1>3, <1>5, ExchangingIsFinite DEF Login, RowLeft, Exchanging
  <2>2. ~row[issued + 1].revoked
    BY <1>1, <1>3, <2>1 DEF ChainInv, UnissuedAreBlank, NewRow, Ids
  <2>3. Issued' = Issued \cup {issued + 1}
    BY <1>3, <1>5 DEF Login, Issued
  <2>4. InForce' = InForce \cup {issued + 1}
    BY <1>5, <2>2, <2>3 DEF Login, InForce
  <2> QED BY <1>5, <2>1, <2>4 DEF Login, Sess!LogIn, Sess!Next
<1>6. ASSUME NEW r \in Slots, Rotate(r)
      PROVE  Sess!Next
  <2> DEFINE t == req[r].token
  <2>1. /\ req[r] # Idle /\ t \in Issued /\ ~row[t].revoked
    BY <1>1, <1>6, PcIsBusy DEF Rotate, ChainInv, WalksFollowLineage, FamilyInv, ReadsAreFresh
  <2>2. issued < MaxTokens
    BY <1>1, <1>3, <1>6, RotateUsesReservation DEF ChainInv, Ids
  <2>3. ~row[issued + 1].revoked /\ issued + 1 \in Ids
    BY <1>1, <1>3, <2>2 DEF ChainInv, UnissuedAreBlank, NewRow, Ids
  <2>4. Issued' = Issued \cup {issued + 1}
    BY <1>3, <1>6 DEF Rotate, Issued
  <2>5. /\ t \in Ids /\ t # issued + 1
        /\ row'[t].revoked
        /\ \A u \in Ids \ {t} : row'[u] = row[u]
    BY <1>1, <1>2, <1>3, <1>6, <2>1 DEF Rotate, TypeOK, Row
  <2>6. InForce' = (InForce \ {t}) \cup {issued + 1}
    BY <1>2, <2>3, <2>4, <2>5 DEF InForce
  <2>7. t \in InForce
    BY <2>1 DEF InForce
  <2>8. Sess!Exchange(t)
    BY <1>6, <2>2, <2>6, <2>7 DEF Rotate, Sess!Exchange, Sess!Line, Line
  <2> QED BY <2>1, <2>8 DEF Sess!Next, Issued
<1>7. ASSUME NEW r \in Slots, Revoke(r)
      PROVE  Sess!Next
  <2>1. Sess!EndSession(req[r].token)
    BY <1>7, LastOfReplay
  <2>2. req[r].token \in Issued
    BY <1>7 DEF SessionInv, ReplaysAreOfSpent, Revoke
  <2> QED BY <2>1, <2>2 DEF Sess!Next, Issued
<1>8. ASSUME NEW t \in Issued, Expire(t)
      PROVE  UNCHANGED Sess!sessionVars
  BY <1>1, <1>2, <1>4, <1>8 DEF Expire, TypeOK, Row
<1> QED BY <1>4, <1>5, <1>6, <1>7, <1>8 DEF Next, RequestStep, StartRefresh, Refuse, Walk, Fail

\* For any number of logins and requests, and until refreshes of one family
\* overlap: tokens implement sessions that are handed on from token to token, and
\* that a replay which gets to its end has ended as a whole.
THEOREM ImplementsSessions == Spec => SessionsAreKept
<1> DEFINE Kept == /\ [Sess!Next]_(Sess!sessionVars)
                   /\ \A r \in Slots : EndsReplay(r) => Sess!EndSession(req[r].token)
<1>1. Init => Sess!Init
  BY DEF Init, Sess!Init, InForce, Issued, Ids
<1>2. SessionInv /\ [Next]_vars => [overlapped' \/ Kept]_vars
  <2> SUFFICES ASSUME SessionInv, Next, ~overlapped'
               PROVE  Kept
    OBVIOUS
  <2>1. ~overlapped
    BY OverlapIsForEver DEF SessionInv, RefreshInv, ChainInv
  <2> QED BY <2>1, LastOfReplay, SessionStep
<1> QED BY <1>1, <1>2, SessionInvariant, PTL DEF Spec, SessionsAreKept

-----------------------------------------------------------------------------
(* The chain leads forward.                                                *)

LinksLeadForward == \A t \in Ids : row[t].next # 0 => row[t].next > t

LEMMA LinksStayForward ==
    ASSUME ChainInv, LinksLeadForward, [Next]_vars
    PROVE  LinksLeadForward'
<1> USE DEF ChainInv
<1> SUFFICES ASSUME NEW t \in Ids, row'[t].next # 0
             PROVE  row'[t].next > t
  BY DEF LinksLeadForward
<1>0. row[t] \in Row /\ row \in [Ids -> Row]
  BY DEF TypeOK
<1>1. ASSUME row'[t].next = row[t].next
      PROVE  row'[t].next > t
  BY <1>1 DEF LinksLeadForward
<1>2. ASSUME NEW r \in Slots, Rotate(r)
      PROVE  row'[t].next > t
  <2>1. req[r].token \in Issued
    BY <1>2, PcIsBusy DEF Rotate, WalksFollowLineage
  <2>2. CASE t = req[r].token
    <3>1. row'[t].next = issued + 1
      BY <1>0, <1>2, <2>2 DEF Rotate, Row
    <3>2. t \in 1..issued /\ issued \in Nat
      BY <2>1, <2>2 DEF Issued, TypeOK
    <3> QED BY <3>1, <3>2
  <2>3. CASE t # req[r].token
    BY <1>0, <1>1, <1>2, <2>3 DEF Rotate
  <2> QED BY <2>2, <2>3
<1>3. ASSUME NEW u \in Issued, Expire(u)
      PROVE  row'[t].next > t
  BY <1>0, <1>1, <1>3 DEF Expire, Row
<1>4. ASSUME NEW r \in Slots, Revoke(r)
      PROVE  row'[t].next > t
  BY <1>0, <1>1, <1>4 DEF Revoke, Row
<1> QED BY <1>1, <1>2, <1>3, <1>4 DEF Next, RequestStep, Login, StartRefresh, Refuse,
                                     Walk, Fail, vars

\* Whatever overlaps, a replay's walk along the chain only ever moves on to rows
\* that are newer than those it has been at.
THEOREM WalksGoForward == Spec => WalksMoveForward
<1>1. Init => LinksLeadForward
  BY DEF Init, LinksLeadForward, NewRow
<1>2. ChainInv /\ LinksLeadForward /\ [Next]_vars => LinksLeadForward'
  BY LinksStayForward
<1>3. ChainInv /\ LinksLeadForward /\ [Next]_vars =>
        [\A r \in Slots :
           (req[r].pc = "walk" /\ req'[r].pc = "walk" /\ req'[r] # req[r])
              => req'[r].at > req[r].at]_vars
  <2> SUFFICES ASSUME ChainInv, LinksLeadForward, Next, NEW r \in Slots,
                      req[r].pc = "walk", req'[r].pc = "walk", req'[r] # req[r]
               PROVE  req'[r].at > req[r].at
    OBVIOUS
  <2>1. TypeOK /\ req[r] # Idle /\ req[r] \in Refresh
    BY PcIsBusy, BusyRequest DEF ChainInv
  <2>2. Walk(r)
    <3>1. ASSUME NEW q \in Slots, Walk(q), q # r
          PROVE  req'[r] = req[r]
      BY <2>1, <3>1 DEF Walk, Finish, TypeOK
    <3>2. ASSUME NEW q \in Slots, \E x : req' = [req EXCEPT ![q] = x], req'[q].pc # "walk" \/ req[q] = Idle
          PROVE  FALSE
      BY <2>1, <3>2 DEF TypeOK
    <3>3. ASSUME NEW q \in Slots, Refuse(q) \/ Rotate(q) \/ Revoke(q) \/ Fail(q)
          PROVE  FALSE
      <4>1. req' = [req EXCEPT ![q] = Idle] /\ req'[q] = Idle
        BY <2>1, <3>3 DEF Refuse, Rotate, Revoke, Fail, Finish, TypeOK
      <4> QED BY <3>2, <4>1 DEF Idle
    <3>4. ASSUME NEW q \in Slots, NEW t \in Issued, StartRefresh(q, t)
          PROVE  FALSE
      BY <3>2, <3>4 DEF StartRefresh
    <3>5. ~Login /\ ~(\E t \in Issued : Expire(t))
      BY DEF Login, Expire
    <3> QED BY <3>1, <3>3, <3>4, <3>5 DEF Next, RequestStep
  <2>3. row[req[r].at].next # 0 /\ req'[r].at = row[req[r].at].next
    BY <2>1, <2>2 DEF Walk, Finish, TypeOK, Refresh, Idle
  <2> QED BY <2>1, <2>3 DEF LinksLeadForward, Refresh
<1> QED BY <1>1, <1>2, <1>3, ChainInvariant, PTL DEF Spec, WalksMoveForward

=============================================================================
