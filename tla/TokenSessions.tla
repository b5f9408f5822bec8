---------------------------- MODULE TokenSessions ---------------------------
(***************************************************************************)
(* What refresh tokens amount to, without rows, links, walks or            *)
(* transactions: a session starts with a login, is handed on from token to *)
(* token, and ends as a whole.                                             *)
(***************************************************************************)
EXTENDS Naturals

CONSTANT MaxTokens

VARIABLES
    issued,   \* tokens issued so far
    lineage,  \* the tokens each token has come from
    live      \* the tokens in force

sessionVars == <<issued, lineage, live>>

Init ==
    /\ issued = 0
    /\ lineage = [t \in 1..MaxTokens |-> {}]
    /\ live = {}

Line(t) == {t} \cup lineage[t]
Session(t) == {u \in 1..issued : Line(u) \cap Line(t) # {}}

LogIn ==
    /\ issued < MaxTokens
    /\ issued' = issued + 1
    /\ live' = live \cup {issued + 1}
    /\ UNCHANGED lineage

\* Only a token in force is exchanged, and its successor takes its place.
Exchange(t) ==
    /\ t \in live
    /\ issued < MaxTokens
    /\ issued' = issued + 1
    /\ lineage' = [lineage EXCEPT ![issued + 1] = Line(t)]
    /\ live' = (live \ {t}) \cup {issued + 1}

\* A token that is no longer in force has been presented: nothing of its session
\* stays in force, and every other session does.
EndSession(t) ==
    /\ t \notin live
    /\ live' = live \ Session(t)
    /\ UNCHANGED <<issued, lineage>>

Next ==
    \/ LogIn
    \/ \E t \in 1..issued : Exchange(t) \/ EndSession(t)

Spec == Init /\ [][Next]_sessionVars
=============================================================================
