--------------------------- MODULE RefreshTokens ---------------------------
(***************************************************************************)
(* Opaque refresh tokens: issued by Login, rotated by Refresh, revoked by  *)
(* Logout (pkg/service/user_service.go), stored in the PostgreSQL table    *)
(* refresh_tokens (pkg/repository/refresh_sqlc.go and dbsqlc).             *)
(*                                                                         *)
(* A request is a goroutine of one of the application's instances.  Every  *)
(* step below is the code between two points where another request can be  *)
(* observed: one SQL statement, or one read of the clock.  PostgreSQL runs *)
(* at its default isolation level, READ COMMITTED:                         *)
(*   - a SELECT sees the rows committed when it starts;                    *)
(*   - UPDATE ... WHERE id waits for the row's lock and evaluates WHERE on *)
(*     the committed row once it has it;                                   *)
(*   - UPDATE ... WHERE family_id (or user_id) takes its snapshot of the   *)
(*     matching rows when the statement starts, and then waits for the     *)
(*     lock of each of THOSE rows: rows inserted meanwhile are not seen.   *)
(***************************************************************************)
EXTENDS Naturals, FiniteSets

CONSTANTS
    Users,      \* users.id
    Tokens,     \* opaque token values; a token stands for its SHA-256 and its row
    Requests,   \* concurrent handlers of /login, /refresh and /logout
    RefreshTTL, \* auth.RefreshTokenTTL(), in clock ticks
    MaxTime,    \* bound of the model: the clock stops there
    None        \* nil

ASSUME TTLAssumption == RefreshTTL \in Nat /\ MaxTime \in Nat

\* A revocation addresses either a family or a user, and None is neither.
ASSUME NamesAssumption ==
    Users \cap Tokens = {} /\ None \notin Users /\ None \notin Tokens

VARIABLES
    \* the table refresh_tokens, column by column
    stored,     \* committed rows
    consumed,   \* rows with consumed_at set
    revoked,    \* rows with revoked_at set
    meta,       \* user_id, family_id and expires_at of the row built for a token
    clock,      \* time.Now()
    \* the local variables of each request
    pc,         \* where the handler is
    tok,        \* the presented refresh token (row.ID)
    seen,       \* the nullable columns found set in the row FindByHash returned
    new,        \* the token just minted (next)
    scope,      \* the family or the user being revoked
    snap,       \* snapshot of the revoking UPDATE
    \* what the clients hold
    issued,     \* tokens returned in an answer
    \* history, read by the properties only
    parent,     \* the token a token replaced
    caller,     \* the authenticated user of a logout
    overlap,    \* families with a rotation that overlapped the revoking UPDATE
    killed,     \* families on which a revoking UPDATE has taken effect
    cleanly     \* ... with no overlapping rotation

table   == <<stored, consumed, revoked>>
locals  == <<pc, tok, seen, new, scope, snap>>
history == <<parent, caller, overlap, killed, cleanly>>
vars    == <<stored, consumed, revoked, meta, clock, pc, tok, seen, new, scope,
             snap, issued, parent, caller, overlap, killed, cleanly>>

\* A family is named by the token its login issued.
Meta == [user : Users, family : Tokens, exp : Nat]

ASSUME MetaAssumption == None \notin Meta

Live(t) == t \in stored \ (consumed \cup revoked)

Families(S) == {meta[t].family : t \in S}

\* WHERE consumed_at IS NULL AND revoked_at IS NULL, on the row of t.
Consumable_ById(t) == TRUE
Consumable_IgnoresRevoked(t) == t \notin consumed
Consumable(t) == Live(t)

\* row.UserID == userID
OwnRow_Any(u, t) == TRUE
OwnRow(u, t) == meta[t].user = u

InScope(t, s) == s \in {meta[t].family, meta[t].user}

\* The row lock of t is held by the rotation that consumed it and has not
\* ended yet: row locks are kept until COMMIT or ROLLBACK.
Locked_NoRollback(t) ==
    \E r \in Requests : pc[r] \in {"commit", "revoke", "revoking"} /\ tok[r] = t
Locked(t) == \E r \in Requests : pc[r] = "commit" /\ tok[r] = t

Fresh(t) == t \notin stored /\ \A r \in Requests : new[r] # t

----------------------------------------------------------------------------
Init ==
    /\ stored = {} /\ consumed = {} /\ revoked = {}
    /\ meta = [t \in Tokens |-> None]
    /\ clock = 0
    /\ pc = [r \in Requests |-> "idle"]
    /\ tok = [r \in Requests |-> None]
    /\ seen = [r \in Requests |-> {}]
    /\ new = [r \in Requests |-> None]
    /\ scope = [r \in Requests |-> None]
    /\ snap = [r \in Requests |-> {}]
    /\ issued = {}
    /\ parent = [t \in Tokens |-> None]
    /\ caller = [r \in Requests |-> None]
    /\ overlap = [r \in Requests |-> {}]
    /\ killed = {} /\ cleanly = {}

Goto(r, l) == pc' = [pc EXCEPT ![r] = l]

\* The handler returns and its locals are gone.
Finish(r) ==
    /\ Goto(r, "idle")
    /\ tok' = [tok EXCEPT ![r] = None]
    /\ seen' = [seen EXCEPT ![r] = {}]
    /\ new' = [new EXCEPT ![r] = None]
    /\ scope' = [scope EXCEPT ![r] = None]
    /\ snap' = [snap EXCEPT ![r] = {}]
    /\ caller' = [caller EXCEPT ![r] = None]
    /\ overlap' = [overlap EXCEPT ![r] = {}]

----------------------------------------------------------------------------
(* Login *)

\* Credentials accepted; issueTokenPair builds the first row of a new family.
\* (A refused login changes nothing.)
Login(r, u, t) ==
    /\ pc[r] = "idle"
    /\ Fresh(t)
    /\ new' = [new EXCEPT ![r] = t]
    /\ meta' = [meta EXCEPT ![t] =
                   [user |-> u, family |-> t, exp |-> clock + RefreshTTL]]
    /\ Goto(r, "create")
    /\ UNCHANGED <<table, clock, tok, seen, scope, snap, issued, history>>

\* refresh.Create, one autocommitted INSERT.  The answer may be lost on its
\* way to the application (ack = FALSE): the row exists, the client got a 500.
Create(r, ack) ==
    /\ pc[r] = "create"
    /\ stored' = stored \cup {new[r]}
    /\ issued' = IF ack THEN issued \cup {new[r]} ELSE issued
    /\ Finish(r)
    /\ UNCHANGED <<consumed, revoked, meta, clock, parent, killed, cleanly>>

----------------------------------------------------------------------------
(* Refresh *)

\* FindByHash: a copy of the committed row, used by the later steps.
\* (An unknown token is refused with no effect.)
RefreshFind(r, t) ==
    /\ pc[r] = "idle"
    /\ t \in issued
    /\ tok' = [tok EXCEPT ![r] = t]
    /\ seen' = [seen EXCEPT ![r] =
                   (IF t \in consumed THEN {"consumed"} ELSE {})
                   \cup (IF t \in revoked THEN {"revoked"} ELSE {})]
    /\ Goto(r, "check")
    /\ UNCHANGED <<table, meta, clock, new, scope, snap, issued, history>>

Expired(t) == meta[t].exp < clock

\* now := time.Now(), and the refusals: a revoked row first, an expired one next.
RefreshRefuse(r) ==
    /\ pc[r] = "check"
    /\ "revoked" \in seen[r] \/ Expired(tok[r])
    /\ Finish(r)
    /\ UNCHANGED <<table, meta, clock, issued, parent, killed, cleanly>>

\* A consumed row is a reuse: its family is revoked.
RefreshReuse(r) ==
    /\ pc[r] = "check"
    /\ "revoked" \notin seen[r] /\ ~Expired(tok[r])
    /\ "consumed" \in seen[r]
    /\ scope' = [scope EXCEPT ![r] = meta[tok[r]].family]
    /\ Goto(r, "revoke")
    /\ UNCHANGED <<table, meta, clock, tok, seen, new, snap, issued, history>>

\* Otherwise the user is resolved and the new pair minted, before anything is
\* written.  The users table has no DELETE and no UPDATE, so the lookup is local.
RefreshMint(r, t) ==
    /\ pc[r] = "check"
    /\ seen[r] = {} /\ ~Expired(tok[r])
    /\ Fresh(t)
    /\ new' = [new EXCEPT ![r] = t]
    /\ meta' = [meta EXCEPT ![t] = [user |-> meta[tok[r]].user,
                                    family |-> meta[tok[r]].family,
                                    exp |-> clock + RefreshTTL]]
    /\ Goto(r, "consume")
    /\ UNCHANGED <<table, clock, tok, seen, scope, snap, issued, history>>

\* RotateAtomically, BEGIN and ConsumeRefreshTokenIfActive with one row
\* affected: the transaction now holds the row's lock and will set consumed_at.
\* History: the rotation overlaps every revocation in scope under way.
RotateConsume(r) ==
    /\ pc[r] = "consume"
    /\ ~Locked(tok[r])
    /\ Consumable(tok[r])
    /\ Goto(r, "commit")
    /\ overlap' = [q \in Requests |->
                      IF pc[q] = "revoking" /\ InScope(tok[r], scope[q])
                      THEN overlap[q] \cup {meta[tok[r]].family}
                      ELSE overlap[q]]
    /\ UNCHANGED <<table, meta, clock, tok, seen, new, scope, snap, issued,
                   parent, caller, killed, cleanly>>

\* The minted pair is dropped and the family is revoked.
Alarm(r) ==
    /\ new' = [new EXCEPT ![r] = None]
    /\ meta' = [meta EXCEPT ![new[r]] = None]
    /\ scope' = [scope EXCEPT ![r] = meta[tok[r]].family]
    /\ Goto(r, "revoke")
    /\ UNCHANGED <<table, clock, tok, seen, snap, issued, history>>

\* No row affected: ErrRefreshAlreadyConsumed, rollback, treated like a reuse.
RotateLost_AnyError(r) == pc[r] \in {"consume", "commit"} /\ Alarm(r)
RotateLost(r) ==
    /\ pc[r] = "consume"
    /\ ~Locked(tok[r])
    /\ ~Consumable(tok[r])
    /\ Alarm(r)

\* CreateRefreshToken and COMMIT: both writes become visible at once.  Without
\* the acknowledgement the client never learns the new token.
RotateCommit(r, ack) ==
    /\ pc[r] = "commit"
    /\ consumed' = consumed \cup {tok[r]}
    /\ stored' = stored \cup {new[r]}
    /\ parent' = [parent EXCEPT ![new[r]] = tok[r]]
    /\ issued' = IF ack THEN issued \cup {new[r]} ELSE issued
    /\ Finish(r)
    /\ UNCHANGED <<revoked, meta, clock, killed, cleanly>>

----------------------------------------------------------------------------
(* Logout *)

\* Logout with a refresh token: FindByHash, and the family is revoked if the
\* row is the caller's.  (An unknown or foreign token revokes nothing.)
LogoutFamily(r, u, t) ==
    /\ pc[r] = "idle"
    /\ t \in issued
    /\ OwnRow(u, t)
    /\ scope' = [scope EXCEPT ![r] = meta[t].family]
    /\ caller' = [caller EXCEPT ![r] = u]
    /\ Goto(r, "revoke")
    /\ UNCHANGED <<table, meta, clock, tok, seen, new, snap, issued,
                   parent, overlap, killed, cleanly>>

\* Logout with an empty body: every session of the caller.
LogoutAll(r, u) ==
    /\ pc[r] = "idle"
    /\ scope' = [scope EXCEPT ![r] = u]
    /\ caller' = [caller EXCEPT ![r] = u]
    /\ Goto(r, "revoke")
    /\ UNCHANGED <<table, meta, clock, tok, seen, new, snap, issued,
                   parent, overlap, killed, cleanly>>

----------------------------------------------------------------------------
(* RevokeFamily and RevokeAllForUser, one UPDATE each *)

\* The statement starts: the rows it will visit are fixed.
RevokeSnapshot(r) ==
    /\ pc[r] = "revoke"
    /\ snap' = [snap EXCEPT ![r] =
                   {t \in stored \ revoked : InScope(t, scope[r])}]
    /\ overlap' = [overlap EXCEPT ![r] =
          Families({t \in stored : Locked(t) /\ InScope(t, scope[r])})]
    /\ Goto(r, "revoking")
    /\ UNCHANGED <<table, meta, clock, tok, seen, new, scope, issued,
                   parent, caller, killed, cleanly>>

\* It has locked all of them, sets revoked_at and commits.  A lost answer makes
\* no difference to the table: the handler returns either way.
RevokeApply(r) ==
    /\ pc[r] = "revoking"
    /\ \A t \in snap[r] : ~Locked(t)
    /\ revoked' = revoked \cup snap[r]
    /\ killed' = killed \cup Families(snap[r])
    /\ cleanly' = cleanly \cup (Families(snap[r]) \ overlap[r])
    /\ Finish(r)
    /\ UNCHANGED <<stored, consumed, meta, clock, issued, parent>>

----------------------------------------------------------------------------
\* The handler returns an error; the row it had built is not in the table.
Abort(r) ==
    /\ meta' = [t \in Tokens |-> IF new[r] = t THEN None ELSE meta[t]]
    /\ Finish(r)
    /\ UNCHANGED <<stored, revoked, clock, parent, killed, cleanly>>

\* A database call or a mint fails, the request's context is cancelled or its
\* instance dies: an open transaction is rolled back.
Fail_ErrorIgnored(r) ==
    /\ pc[r] \in {"create", "commit"}
    /\ issued' = issued \cup {new[r]}
    /\ Abort(r) /\ UNCHANGED consumed
Fail_NoTransaction(r) ==
    /\ pc[r] = "commit"
    /\ consumed' = consumed \cup {tok[r]}
    /\ Abort(r) /\ UNCHANGED issued
Fail(r) ==
    /\ pc[r] # "idle"
    /\ Abort(r)
    /\ UNCHANGED <<consumed, issued>>

Tick ==
    /\ clock < MaxTime
    /\ clock' = clock + 1
    /\ UNCHANGED <<table, meta, locals, issued, history>>

\* The steps of a request that has been received.
Step(r) ==
    \/ \E ack \in BOOLEAN : Create(r, ack)
    \/ RefreshRefuse(r)
    \/ RefreshReuse(r)
    \/ \E t \in Tokens : RefreshMint(r, t)
    \/ RotateConsume(r)
    \/ RotateLost(r)
    \/ \E ack \in BOOLEAN : RotateCommit(r, ack)
    \/ RevokeSnapshot(r)
    \/ RevokeApply(r)

\* A client sends a request.
Receive(r) ==
    \/ \E u \in Users, t \in Tokens : Login(r, u, t)
    \/ \E t \in Tokens : RefreshFind(r, t)
    \/ \E u \in Users, t \in Tokens : LogoutFamily(r, u, t)
    \/ \E u \in Users : LogoutAll(r, u)

Next ==
    \/ Tick
    \/ \E r \in Requests : Receive(r) \/ Step(r) \/ Fail(r)

Spec == Init /\ [][Next]_vars

\* A handler goroutine keeps running, and PostgreSQL serves the waiters of a row
\* lock in turn: a step that waits for a lock freed again and again is taken.
\* Clients, the clock and failures owe nothing.
Fairness == \A r \in Requests : SF_vars(Step(r))

FairSpec == Spec /\ Fairness

----------------------------------------------------------------------------
(* Properties *)

Labels == {"idle", "create", "check", "consume", "commit", "revoke", "revoking"}

\* Type invariant: the shape of the table and of the handlers' locals.
TypeOK ==
    /\ stored \subseteq Tokens
    /\ consumed \subseteq stored
    /\ revoked \subseteq stored
    /\ issued \subseteq stored
    /\ meta \in [Tokens -> Meta \cup {None}]
    /\ clock \in Nat
    /\ pc \in [Requests -> Labels]
    /\ tok \in [Requests -> Tokens \cup {None}]
    /\ seen \in [Requests -> SUBSET {"consumed", "revoked"}]
    /\ new \in [Requests -> Tokens \cup {None}]
    /\ scope \in [Requests -> Tokens \cup Users \cup {None}]
    /\ snap \in [Requests -> SUBSET Tokens]
    /\ parent \in [Tokens -> Tokens \cup {None}]
    /\ caller \in [Requests -> Users \cup {None}]
    /\ overlap \in [Requests -> SUBSET Tokens]
    /\ killed \subseteq Tokens
    /\ cleanly \subseteq killed

\* A family never has two usable tokens, whatever refreshes, logouts and failures
\* race: the conditional UPDATE and the INSERT of RotateAtomically commit as one.
OneLivePerFamily ==
    \A s, t \in stored :
        Live(s) /\ Live(t) /\ meta[s].family = meta[t].family => s = t

\* Rotation is all or nothing and happens once: a token is consumed exactly when
\* one token in its family replaced it, for the same user.
RotationAtomic ==
    \A t \in stored :
        LET children == {c \in stored : parent[c] = t}
        IN  /\ t \in consumed <=> children # {}
            /\ \A c \in children :
                  /\ children = {c}
                  /\ meta[c].family = meta[t].family
                  /\ meta[c].user = meta[t].user

\* No false alarm: Refresh revokes a family only when the presented token is
\* consumed or revoked in the table, never because a competing rotation of it
\* that then rolled back was in the way.
NoFalseAlarm ==
    \A r \in Requests :
        pc[r] \in {"revoke", "revoking"} /\ caller[r] = None
            => tok[r] \in consumed \cup revoked

\* A logout revokes only rows of the caller, also when the body names the token
\* of somebody else's session.
LogoutOwnRowsOnly ==
    \A r \in Requests :
        caller[r] # None => \A t \in snap[r] : meta[t].user = caller[r]

\* A family whose revoking UPDATE overlapped no rotation of it has no usable
\* token, then and ever after: no refresh that was under way revives it.
RevokedStaysDead == \A t \in stored : meta[t].family \in cleanly => ~Live(t)

\* Every received request is answered: waiting for row locks cannot go on for
\* ever, and nobody waits for itself.  (A refresh that finds the model's supply
\* of tokens used up is excepted: that is a bound, not the code.)
RequestsFinish ==
    \A r \in Requests :
        pc[r] # "idle" ~>
            \/ pc[r] = "idle"
            \/ pc[r] = "check" /\ \A t \in Tokens : ~Fresh(t)

----------------------------------------------------------------------------
(* The sessions the table stands for *)

Session == INSTANCE Sessions WITH
    used   <- stored,
    owner  <- [f \in Tokens |-> IF f \in stored /\ meta[f].family = f
                                 THEN meta[f].user ELSE None],
    usable <- [f \in Tokens |-> {t \in stored : Live(t) /\ meta[t].family = f}]

\* The table and its racing, failing handlers implement sessions: one usable
\* token at a time, replaced by a fresh one or taken away for good, whatever the
\* order of the statements of RotateAtomically, RevokeFamily and
\* RevokeAllForUser; one statement ends sessions of one user.
ImplementsSessions == Session!Spec

----------------------------------------------------------------------------
(* What the comments of the code promise and the code does not keep *)

\* "Reuse of a consumed token (or a lost consume race) revokes the entire
\* family" (user_service.go:72): once RevokeFamily or RevokeAllForUser is done,
\* no token of the families it revoked is usable.
RevokesEntireFamily == \A t \in stored : meta[t].family \in killed => ~Live(t)

============================================================================
