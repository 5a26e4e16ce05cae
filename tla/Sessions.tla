----------------------------- MODULE Sessions -----------------------------
(***************************************************************************)
(* What the refresh tokens promise, without the table, its locks and its   *)
(* failures.  A session is opened by a login and named by its first token. *)
(* It has one usable token at a time, which a refresh replaces by one that *)
(* was never used before, until the session ends; an ended session is over *)
(* for good, and one event ends sessions of one user only.  RefreshTokens  *)
(* implements this specification.                                          *)
(***************************************************************************)
CONSTANTS
    Users,
    Tokens,
    None

VARIABLES
    used,       \* tokens that are or have been usable
    owner,      \* the user of each session
    usable      \* the usable tokens of each session

sessionVars == <<used, owner, usable>>

Init ==
    /\ used = {}
    /\ owner = [s \in Tokens |-> None]
    /\ usable = [s \in Tokens |-> {}]

Open(u, t) ==
    /\ t \notin used
    /\ used' = used \cup {t}
    /\ owner' = [owner EXCEPT ![t] = u]
    /\ usable' = [usable EXCEPT ![t] = {t}]

Renew(s, t) ==
    /\ t \notin used
    /\ \E old \in used : usable[s] = {old}
    /\ used' = used \cup {t}
    /\ usable' = [usable EXCEPT ![s] = {t}]
    /\ UNCHANGED owner

End(u, S) ==
    /\ \A s \in S : owner[s] = u
    /\ usable' = [s \in Tokens |-> IF s \in S THEN {} ELSE usable[s]]
    /\ UNCHANGED <<used, owner>>

Next ==
    \/ \E u \in Users, t \in Tokens : Open(u, t)
    \/ \E s, t \in Tokens : Renew(s, t)
    \/ \E u \in Users, S \in SUBSET Tokens : End(u, S)

Spec == Init /\ [][Next]_sessionVars

============================================================================
