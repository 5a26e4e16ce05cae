--------------------------- MODULE AccessDenylist ---------------------------
(***************************************************************************)
(* Access JWTs and their revocation: GenerateToken (pkg/auth/auth.go), the *)
(* JWTAuth middleware (pkg/middleware/jwt_auth.go), the Redis denylist     *)
(* (pkg/auth/denylist.go) and the part of Logout that writes it            *)
(* (pkg/service/user_service.go).                                          *)
(*                                                                         *)
(* The clock counts ticks, several to a second: the claims iat and exp and *)
(* the stored revoke_before are whole seconds, the expiry of a Redis key   *)
(* is not.  Each Redis command is one step, and time may pass between any  *)
(* two steps of a request.                                                 *)
(***************************************************************************)
EXTENDS Naturals

CONSTANTS
    Users,          \* users.id
    Tokens,         \* access JWTs; a token stands for its jti
    Requests,       \* concurrent authenticated requests
    TicksPerSecond, \* resolution of the clock
    AccessTTL,      \* auth.AccessTokenTTL(), in ticks
    MaxTime,        \* bound of the model: clock ticks
    None            \* nil

ASSUME ClockAssumption ==
    /\ TicksPerSecond \in Nat \ {0} /\ AccessTTL \in Nat \ {0} /\ MaxTime \in Nat

\* Whole seconds, and what the key of a user's cutoff may hold.
Seconds == 0 .. (MaxTime + AccessTTL) \div TicksPerSecond
Cutoffs == [sec : Seconds, exp : 0 .. MaxTime + AccessTTL]

ASSUME NoKeyAssumption == None \notin Cutoffs /\ None \notin 0 .. MaxTime

VARIABLES
    clock,
    jwt,        \* claims of each issued token: user, iat, exp; at is the exact time
    denied,     \* Redis: jtis denied, a key that expires with the token
    cutoff,     \* Redis: revoke_before of each user and the key's expiry
    pc, tok,    \* each request: where it is, the token it presented
    now,        \* Logout's time.Now()
    \* history, read by the properties only
    logoutAt,   \* latest logout-all of a user whose cutoff reached Redis
    denyDone,   \* jtis whose Deny reached Redis before they expired
    owed,       \* why a request must be refused, decided when it arrives
    crossed     \* users with two logout-alls under way at once

history == <<logoutAt, denyDone, owed, crossed>>
vars    == <<clock, jwt, denied, cutoff, pc, tok, now, logoutAt, denyDone, owed, crossed>>

\* time.Unix and jwt.NewNumericDate truncate to whole seconds.
Second_Ticks(t) == t
Second(t) == t \div TicksPerSecond
Instant(s) == s * TicksPerSecond

\* The stored revoke_before covers a token.
Covers_Before(sec, iat) == sec > iat
Covers(sec, iat) == sec >= iat

\* When Redis drops the key of a denied jti.
DenyUntil_Short(t) == Instant(jwt[t].exp) - 1
DenyUntil(t) == Instant(jwt[t].exp)

User(r)    == jwt[tok[r]].user
Expired(t) == clock >= Instant(jwt[t].exp)

----------------------------------------------------------------------------
Init ==
    /\ clock = 0
    /\ jwt = [t \in Tokens |-> None]
    /\ denied = {}
    /\ cutoff = [u \in Users |-> None]
    /\ pc = [r \in Requests |-> "idle"]
    /\ tok = [r \in Requests |-> None]
    /\ now = [r \in Requests |-> 0]
    /\ logoutAt = [u \in Users |-> None]
    /\ denyDone = {}
    /\ owed = [r \in Requests |-> {}]
    /\ crossed = {}

\* GenerateToken, from Login or Refresh.
GenerateToken(t, u) ==
    /\ jwt[t] = None
    /\ jwt' = [jwt EXCEPT ![t] = [user |-> u,
                                  iat |-> Second(clock),
                                  exp |-> Second(clock + AccessTTL),
                                  at |-> clock]]
    /\ UNCHANGED <<clock, denied, cutoff, pc, tok, now, history>>

----------------------------------------------------------------------------
(* JWTAuth *)

\* The token parses, its signature, user and role are right and it has not
\* expired.  (Otherwise the request is refused with no effect.)
Present(r, t) ==
    /\ pc[r] = "idle"
    /\ jwt[t] # None /\ ~Expired(t)
    /\ tok' = [tok EXCEPT ![r] = t]
    /\ pc' = [pc EXCEPT ![r] = "jti"]
    /\ owed' = [owed EXCEPT ![r] =
          (IF t \in denyDone THEN {"jti"} ELSE {}) \cup
          (IF logoutAt[jwt[t].user] # None /\ jwt[t].at <= logoutAt[jwt[t].user]
           THEN {"user"} ELSE {})]
    /\ UNCHANGED <<clock, jwt, denied, cutoff, now, logoutAt, denyDone, crossed>>

\* The request is over.
End(r) ==
    /\ pc' = [pc EXCEPT ![r] = "idle"]
    /\ tok' = [tok EXCEPT ![r] = None]
    /\ now' = [now EXCEPT ![r] = 0]
    /\ owed' = [owed EXCEPT ![r] = {}]

\* IsDenied: an error fails open.
IsDenied(r, ok) ==
    /\ pc[r] = "jti"
    /\ IF ok /\ tok[r] \in denied
       THEN End(r)
       ELSE /\ pc' = [pc EXCEPT ![r] = "user"]
            /\ owed' = [owed EXCEPT ![r] = IF ok THEN @ ELSE @ \ {"jti"}]
            /\ UNCHANGED <<tok, now>>
    /\ UNCHANGED <<clock, jwt, denied, cutoff, logoutAt, denyDone, crossed>>

\* IsUserRevoked: the stored second is at or after iat; an error fails open.
IsUserRevoked(r, ok) ==
    /\ pc[r] = "user"
    /\ IF ok /\ cutoff[User(r)] # None /\ Covers(cutoff[User(r)].sec, jwt[tok[r]].iat)
       THEN End(r)
       ELSE /\ pc' = [pc EXCEPT ![r] = "accepted"]
            /\ owed' = [owed EXCEPT ![r] = IF ok THEN @ ELSE @ \ {"user"}]
            /\ UNCHANGED <<tok, now>>
    /\ UNCHANGED <<clock, jwt, denied, cutoff, logoutAt, denyDone, crossed>>

----------------------------------------------------------------------------
(* The handler behind it *)

\* Any handler but logout, or a logout that fails to reach PostgreSQL.
Serve(r) ==
    /\ pc[r] = "accepted"
    /\ End(r)
    /\ UNCHANGED <<clock, jwt, denied, cutoff, logoutAt, denyDone, crossed>>

\* Logout with a refresh token: the family is revoked, the cutoff is not set.
LogoutFamily(r) ==
    /\ pc[r] = "accepted"
    /\ pc' = [pc EXCEPT ![r] = "deny"]
    /\ UNCHANGED <<clock, jwt, denied, cutoff, tok, now, history>>

\* Logout with an empty body: now := time.Now(), before RevokeAllForUser.
LogoutAll(r) ==
    /\ pc[r] = "accepted"
    /\ now' = [now EXCEPT ![r] = clock]
    /\ pc' = [pc EXCEPT ![r] = "revokeAll"]
    /\ crossed' = IF \E q \in Requests : pc[q] = "revokeAll" /\ User(q) = User(r)
                  THEN crossed \cup {User(r)} ELSE crossed
    /\ UNCHANGED <<clock, jwt, denied, cutoff, tok, logoutAt, denyDone, owed>>

\* RevokeAllForUser fails: the handler answers 500 before it reaches Redis.
RevokeAllFails(r) ==
    /\ pc[r] = "revokeAll"
    /\ End(r)
    /\ UNCHANGED <<clock, jwt, denied, cutoff, logoutAt, denyDone, crossed>>

\* RevokeAllForUser is done; DenyUserBefore sets the key whatever it holds.
\* A failed SET (ok = FALSE) is logged and ignored.
DenyUserBefore(r, ok) ==
    /\ pc[r] = "revokeAll"
    /\ cutoff' = IF ok
                 THEN [cutoff EXCEPT ![User(r)] =
                          [sec |-> Second(now[r]), exp |-> clock + AccessTTL]]
                 ELSE cutoff
    /\ logoutAt' = IF ok /\ (logoutAt[User(r)] = None \/ logoutAt[User(r)] < now[r])
                   THEN [logoutAt EXCEPT ![User(r)] = now[r]]
                   ELSE logoutAt
    /\ pc' = [pc EXCEPT ![r] = "deny"]
    /\ UNCHANGED <<clock, jwt, denied, tok, now, denyDone, owed, crossed>>

\* Deny: nothing to do for an expired token; a failed SET is logged and ignored.
Deny(r, ok) ==
    /\ pc[r] = "deny"
    /\ denied' = IF ok /\ ~Expired(tok[r]) THEN denied \cup {tok[r]} ELSE denied
    /\ denyDone' = IF ok /\ ~Expired(tok[r]) THEN denyDone \cup {tok[r]} ELSE denyDone
    /\ End(r)
    /\ UNCHANGED <<clock, jwt, cutoff, logoutAt, crossed>>

----------------------------------------------------------------------------
\* Time passes; Redis drops the keys that reach their expiry.
Tick ==
    /\ clock < MaxTime
    /\ clock' = clock + 1
    /\ denied' = {t \in denied : DenyUntil(t) > clock + 1}
    /\ cutoff' = [u \in Users |->
                     IF cutoff[u] # None /\ cutoff[u].exp <= clock + 1
                     THEN None ELSE cutoff[u]]
    /\ UNCHANGED <<jwt, pc, tok, now, history>>

Next ==
    \/ Tick
    \/ \E t \in Tokens, u \in Users : GenerateToken(t, u)
    \/ \E r \in Requests :
          \/ \E t \in Tokens : Present(r, t)
          \/ \E ok \in BOOLEAN :
                IsDenied(r, ok) \/ IsUserRevoked(r, ok) \/ DenyUserBefore(r, ok) \/ Deny(r, ok)
          \/ Serve(r) \/ LogoutFamily(r) \/ LogoutAll(r) \/ RevokeAllFails(r)

Spec == Init /\ [][Next]_vars

----------------------------------------------------------------------------
(* Properties *)

\* Type invariant: the shape of the claims, of Redis and of the requests' locals.
TypeOK ==
    /\ clock \in 0 .. MaxTime
    /\ jwt \in [Tokens -> [user : Users, iat : Seconds, exp : Seconds,
                           at : 0 .. MaxTime] \cup {None}]
    /\ denied \subseteq Tokens
    /\ cutoff \in [Users -> Cutoffs \cup {None}]
    /\ pc \in [Requests -> {"idle", "jti", "user", "accepted", "revokeAll", "deny"}]
    /\ tok \in [Requests -> Tokens \cup {None}]
    /\ now \in [Requests -> 0 .. MaxTime]
    /\ logoutAt \in [Users -> 0 .. MaxTime \cup {None}]
    /\ denyDone \subseteq Tokens
    /\ owed \in [Requests -> SUBSET {"jti", "user"}]
    /\ crossed \subseteq Users

Accepts(r) == pc[r] # "accepted" /\ pc'[r] = "accepted"

\* A request that arrives after its token was denied by a logout is refused, up to
\* the instant the token expires, if Redis answers: the key is never gone too soon.
DeniedTokenRefused ==
    [][\A r \in Requests : Accepts(r) /\ "jti" \in owed'[r] => Expired(tok[r])]_vars

\* A request that arrives after a logout-all has set the cutoff is refused with any
\* token issued up to the moment that logout began, as long as the token lives:
\* truncation to seconds and the expiry of the key never let one through.
\* (If logout-alls of the user never overlap; see CutoffNeverForgotten.)
LoggedOutUserRefused ==
    [][\A r \in Requests :
          Accepts(r) /\ "user" \in owed'[r] /\ User(r) \notin crossed
              => Expired(tok[r])]_vars

----------------------------------------------------------------------------
(* What the documentation promises and the code does not keep *)

\* "an empty logout body (logout all) also writes a per-user revoke_before cutoff
\* so other devices' access JWTs with iat at or before that cutoff are rejected
\* immediately" (README.md:301), for overlapping logout-alls too.
CutoffNeverForgotten ==
    [][\A r \in Requests :
          Accepts(r) /\ "user" \in owed'[r] => Expired(tok[r])]_vars

============================================================================
