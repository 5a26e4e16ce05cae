----------------------------- MODULE Accounts -----------------------------
(***************************************************************************)
(* User accounts and roles: Register, and the part of Login and Refresh    *)
(* that reads the users table and mints the access JWT                     *)
(* (pkg/service/user_service.go, pkg/repository/user_sqlc.go), and the     *)
(* check of the role claim on /admin (pkg/middleware/jwt_auth.go, rbac.go).*)
(*                                                                         *)
(* The role travels: users.role is read by one statement, becomes a claim  *)
(* when the JWT is minted, and is believed until the JWT expires.  The     *)
(* program never changes a role; whoever operates the database does.       *)
(* Requests have passed the API key check, and a username stands for its   *)
(* users.id (rows are never deleted).  What a refresh does to its token is *)
(* in RefreshTokens: here a session either can be refreshed or not.        *)
(***************************************************************************)
EXTENDS Integers, Sequences

CONSTANTS
    Names,          \* users.username
    Passwords,      \* passwords of at most 72 bytes (a longer one is a 400)
    Requests,       \* concurrent handlers of /register, /login and /refresh
    RequestTimeout, \* REQUEST_CONTEXT_TIMEOUT, in clock ticks
    AccessTTL,      \* auth.AccessTokenTTL(), in clock ticks
    MaxTime,        \* bound of the model: the clock stops there
    MaxChanges,     \* bound of the model: changes of users.role
    None            \* nil

ASSUME AccountBoundsAssumption ==
    /\ RequestTimeout \in Nat /\ AccessTTL \in Nat \ {0}
    /\ MaxTime \in Nat /\ MaxChanges \in Nat

VARIABLES
    users,      \* the users table
    sessions,   \* users with a usable refresh token
    tokens,     \* access JWTs given to clients
    clock,
    req,        \* the locals of each request, None when idle
    \* history, read by the properties only
    confirmed,  \* passwords whose registration was answered 201, by username
    ceased,     \* when a user last ceased to be an admin (-1: never was one)
    changes     \* times a role was changed

history == <<confirmed, ceased, changes>>
vars    == <<users, sessions, tokens, clock, req, confirmed, ceased, changes>>

Roles     == {"user", "admin"}
RoleTexts == Roles \cup {"", "root"}   \* what the column may hold
User      == [password : Passwords, role : RoleTexts]
Claims    == [name : Names, role : Roles, exp : Nat]

ASSUME NoRowAssumption == None \notin User

\* The row of n exists: INSERT violates the unique constraint on username.
Taken_Unchecked(n) == FALSE
Taken(n) == users[n] # None

ValidRole(role) == role \in Roles

\* The role a token is issued with, None if it must not be issued.  (White
\* space around the text is trimmed.)
EffectiveRole_Verbatim(role) == role
EffectiveRole(role) ==
    IF role = "" THEN "user" ELSE IF ValidRole(role) THEN role ELSE None

\* The request's context has not ended, so a statement can still be sent.
InTime_Always(r) == TRUE
InTime(r) == clock <= req[r].start + RequestTimeout

----------------------------------------------------------------------------
Init ==
    /\ users = [n \in Names |-> None]
    /\ sessions = {}
    /\ tokens = {}
    /\ clock = 0
    /\ req = [r \in Requests |-> None]
    /\ confirmed = [n \in Names |-> <<>>]
    /\ ceased = [n \in Names |-> -1]
    /\ changes = 0

Set(r, locals) == req' = [req EXCEPT ![r] = locals]

At(r, label) == req[r] # None /\ req[r].pc = label

\* The handler returns an error.
Refuse(r) ==
    /\ Set(r, None)
    /\ UNCHANGED <<users, sessions, tokens, clock, history>>

----------------------------------------------------------------------------
(* Register *)

\* The password is hashed, which takes a while.
Register(r, n, p) ==
    /\ req[r] = None
    /\ Set(r, [pc |-> "insert", name |-> n, password |-> p, start |-> clock])
    /\ UNCHANGED <<users, sessions, tokens, clock, history>>

\* users.Create: one INSERT.  Its answer may be lost (ack = FALSE): the account
\* exists and the client is told 500.
Insert(r, ack) ==
    /\ At(r, "insert")
    /\ InTime(r)
    /\ ~Taken(req[r].name)
    /\ users' = [users EXCEPT ![req[r].name] =
                    [password |-> req[r].password, role |-> "user"]]
    /\ confirmed' = IF ack
                    THEN [confirmed EXCEPT ![req[r].name] = Append(@, req[r].password)]
                    ELSE confirmed
    /\ Set(r, None)
    /\ UNCHANGED <<sessions, tokens, clock, ceased, changes>>

\* ErrUserUsernameConflict: 409.
Conflict(r) ==
    /\ At(r, "insert")
    /\ InTime(r)
    /\ Taken(req[r].name)
    /\ Refuse(r)

----------------------------------------------------------------------------
(* Login and Refresh *)

\* What the request keeps of the row it read.
Found(r, n, start) ==
    /\ Set(r, [pc |-> "mint", name |-> n, role |-> users[n].role, start |-> start])
    /\ UNCHANGED <<users, sessions, tokens, clock, history>>

\* FindByUsername, and the password is the row's.  (Otherwise 401, no effect.)
Login(r, n, p) ==
    /\ req[r] = None
    /\ users[n] # None /\ users[n].password = p
    /\ Found(r, n, clock)

\* FindByHash: the refresh token is usable.
Refresh(r, n) ==
    /\ req[r] = None
    /\ n \in sessions
    /\ Set(r, [pc |-> "user", name |-> n, start |-> clock])
    /\ UNCHANGED <<users, sessions, tokens, clock, history>>

\* FindByID: the role as it is now.
FindByID(r) ==
    /\ At(r, "user")
    /\ InTime(r)
    /\ Found(r, req[r].name, req[r].start)

\* GenerateToken reads the clock and fixes the claims.
Mint(r) ==
    /\ At(r, "mint")
    /\ EffectiveRole(req[r].role) # None
    /\ Set(r, [pc |-> "store", start |-> req[r].start,
               jwt |-> [name |-> req[r].name, role |-> EffectiveRole(req[r].role),
                        exp |-> clock + AccessTTL]])
    /\ UNCHANGED <<users, sessions, tokens, clock, history>>

\* An unknown role: ErrTokenGenerate, 500.
MintFails(r) ==
    /\ At(r, "mint")
    /\ EffectiveRole(req[r].role) = None
    /\ Refuse(r)

\* refresh.Create or RotateAtomically succeeds, and only then is the pair returned.
Return(r) ==
    /\ At(r, "store")
    /\ InTime(r)
    /\ tokens' = tokens \cup {req[r].jwt}
    /\ sessions' = sessions \cup {req[r].jwt.name}
    /\ Set(r, None)
    /\ UNCHANGED <<users, clock, history>>

\* A statement fails, or the context has ended: 500.
Fail(r) ==
    /\ req[r] # None
    /\ Refuse(r)

----------------------------------------------------------------------------
(* Environment *)

\* Every refresh token of n is revoked or has expired.
SessionEnds(n) ==
    /\ n \in sessions
    /\ sessions' = sessions \ {n}
    /\ UNCHANGED <<users, tokens, clock, req, history>>

\* The operator's UPDATE users SET role.
SetRole(n, role) ==
    /\ changes < MaxChanges
    /\ users[n] # None /\ role # users[n].role
    /\ users' = [users EXCEPT ![n].role = role]
    /\ ceased' = IF users[n].role = "admin" THEN [ceased EXCEPT ![n] = clock] ELSE ceased
    /\ changes' = changes + 1
    /\ UNCHANGED <<sessions, tokens, clock, req, confirmed>>

\* Time passes; a token that has reached its exp is never accepted again.
Tick ==
    /\ clock < MaxTime
    /\ clock' = clock + 1
    /\ tokens' = {t \in tokens : clock + 1 < t.exp}
    /\ UNCHANGED <<users, sessions, req, history>>

Next ==
    \/ Tick
    \/ \E n \in Names : SessionEnds(n) \/ \E role \in RoleTexts : SetRole(n, role)
    \/ \E r \in Requests :
          \/ \E n \in Names, p \in Passwords : Register(r, n, p) \/ Login(r, n, p)
          \/ \E n \in Names : Refresh(r, n)
          \/ \E ack \in BOOLEAN : Insert(r, ack)
          \/ Conflict(r) \/ FindByID(r) \/ Mint(r) \/ MintFails(r) \/ Return(r) \/ Fail(r)

Spec == Init /\ [][Next]_vars

----------------------------------------------------------------------------
(* GET /admin/me, which changes nothing *)

\* JWTAuth: signed, not expired and with a known role.
JWTAuth(t) == clock < t.exp /\ ValidRole(t.role)

RequireRole(t, allowed) == t.role \in allowed

AdminMe(t) == JWTAuth(t) /\ RequireRole(t, {"admin"})

----------------------------------------------------------------------------
(* Properties *)

Starts == 0 .. MaxTime
Locals ==
    [pc : {"insert"}, name : Names, password : Passwords, start : Starts]
    \cup [pc : {"user"}, name : Names, start : Starts]
    \cup [pc : {"mint"}, name : Names, role : RoleTexts, start : Starts]
    \cup [pc : {"store"}, jwt : Claims, start : Starts]

\* Type invariant: the shape of the table, of the requests and of the claims;
\* in particular no token names a role the application does not know.
TypeOK ==
    /\ users \in [Names -> User \cup {None}]
    /\ sessions \subseteq Names
    /\ tokens \subseteq Claims
    /\ clock \in Starts
    /\ req \in [Requests -> Locals \cup {None}]
    /\ confirmed \in [Names -> Seq(Passwords)]
    /\ ceased \in [Names -> -1 .. MaxTime]
    /\ changes \in 0 .. MaxChanges

\* However many registrations of a username race, are repeated or lose their
\* answer, at most one is confirmed, and its password is the account's, then and
\* ever after: nobody who was told 201 is locked out by a later registration.
ConfirmedOnce ==
    \A n \in Names :
        /\ Len(confirmed[n]) <= 1
        /\ \A i \in DOMAIN confirmed[n] :
              users[n] # None /\ users[n].password = confirmed[n][i]

\* Somebody who is no longer an admin is served on /admin for at most the life of
\* a token plus the time a request may take from reading the role to returning
\* the token (a default deadline is assumed: REQUEST_CONTEXT_TIMEOUT is not off),
\* however logins and refreshes overlap the change; and somebody who never was an
\* admin is never served.
AdminEnds ==
    \A t \in tokens : AdminMe(t) =>
        \/ users[t.name].role = "admin"
        \/ ceased[t.name] # -1 /\ clock < ceased[t.name] + RequestTimeout + AccessTTL

============================================================================
