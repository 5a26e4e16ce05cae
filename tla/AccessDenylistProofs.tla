----------------------- MODULE AccessDenylistProofs -----------------------
(***************************************************************************)
(* Theorems about AccessDenylist, for any number of users, tokens and      *)
(* requests, any resolution of the clock and any lifetime of the tokens.   *)
(***************************************************************************)
EXTENDS AccessDenylist, TLAPS

Active(r) == pc[r] # "idle"

\* The claims are those of GenerateToken.
ClaimsInv ==
    \A t \in Tokens : jwt[t] # None =>
        /\ jwt[t].iat = Second(jwt[t].at)
        /\ jwt[t].exp = Second(jwt[t].at + AccessTTL)

\* A request has presented an issued token, and a time it took is past.  If it must be
\* refused for its jti, the token is denied, or expired once the check is passed; if
\* for its user, the logout covers the token.
Held(r) ==
    /\ Active(r) => tok[r] \in Tokens /\ jwt[tok[r]] # None
    /\ ~Active(r) => owed[r] = {}
    /\ now[r] <= clock
    /\ "jti" \in owed[r] =>
           IF pc[r] = "jti" THEN tok[r] \in denyDone ELSE Expired(tok[r])
    /\ "user" \in owed[r] =>
           logoutAt[User(r)] # None /\ jwt[tok[r]].at <= logoutAt[User(r)]
RequestInv == \A r \in Requests : Held(r)

\* The key of a denied token is there until the token expires.
DenyInv == \A t \in denyDone : jwt[t] # None /\ (t \in denied \/ Expired(t))

\* The cutoff of a user's latest logout-all is there until every token it covers has
\* expired.
CutoffInv ==
    \A u \in Users \ crossed : logoutAt[u] # None =>
        /\ logoutAt[u] <= clock
        /\ cutoff[u] # None => /\ cutoff[u].sec = Second(logoutAt[u])
                               /\ cutoff[u].exp >= logoutAt[u] + AccessTTL
        /\ cutoff[u] = None => clock >= logoutAt[u] + AccessTTL

\* Of logout-alls that do not overlap, the one that ends last began last.
Alone == \A q, r \in Requests :
    pc[q] = "revokeAll" /\ pc[r] = "revokeAll" /\ q # r /\ User(q) = User(r)
        => User(r) \in crossed
Latest == \A r \in Requests :
    pc[r] = "revokeAll" /\ User(r) \notin crossed /\ logoutAt[User(r)] # None
        => logoutAt[User(r)] <= now[r]

IInv ==
    /\ TypeOK
    /\ ClaimsInv
    /\ RequestInv
    /\ DenyInv
    /\ CutoffInv
    /\ Alone /\ Latest

----------------------------------------------------------------------------
(* Time *)

LEMMA SecondFacts ==
    ASSUME NEW x \in Nat
    PROVE  /\ Second(x) \in Nat /\ Instant(Second(x)) <= x /\ Instant(Second(x)) \in Nat
           /\ \A y \in Nat : x <= y => Second(x) <= Second(y)
           /\ x <= MaxTime + AccessTTL => Second(x) \in Seconds
<1>a. TicksPerSecond \in Nat \ {0} /\ MaxTime + AccessTTL \in Nat
  BY ClockAssumption
<1>1. x \div TicksPerSecond \in Nat
  BY <1>a
<1>2. (x \div TicksPerSecond) * TicksPerSecond <= x
      /\ (x \div TicksPerSecond) * TicksPerSecond \in Nat
  BY <1>a, <1>1
<1>3. \A y \in Nat : x <= y => x \div TicksPerSecond <= y \div TicksPerSecond
  BY <1>a
<1>4. x <= MaxTime + AccessTTL => Second(x) \in Seconds
  <2>1. (MaxTime + AccessTTL) \div TicksPerSecond \in Nat
    BY <1>a
  <2>2. x <= MaxTime + AccessTTL
          => x \div TicksPerSecond <= (MaxTime + AccessTTL) \div TicksPerSecond
    BY <1>a, <1>3
  <2>. QED
    BY <1>1, <2>1, <2>2 DEF Second, Seconds
<1>. QED
  BY <1>1, <1>2, <1>3, <1>4 DEF Second, Instant

LEMMA ClockFacts ==
    ASSUME TypeOK
    PROVE  /\ clock \in Nat /\ clock <= MaxTime /\ MaxTime \in Nat /\ AccessTTL \in Nat
           /\ \A u \in Users : logoutAt[u] # None => logoutAt[u] \in 0 .. MaxTime
           /\ \A u \in Users : cutoff[u] # None => cutoff[u] \in Cutoffs
           /\ \A r \in Requests : now[r] \in 0 .. MaxTime
  BY ClockAssumption DEF TypeOK

\* What an issued token says.
LEMMA TokenFacts ==
    ASSUME TypeOK, NEW t \in Tokens, jwt[t] # None
    PROVE  /\ jwt[t].user \in Users /\ jwt[t].iat \in Seconds /\ jwt[t].exp \in Seconds
           /\ jwt[t].at \in 0 .. MaxTime /\ jwt[t].at \in Nat
           /\ jwt[t].exp \in Nat /\ Instant(jwt[t].exp) \in Nat
<1>1. jwt[t] \in [user : Users, iat : Seconds, exp : Seconds, at : 0 .. MaxTime]
  BY DEF TypeOK
<1>2. (MaxTime + AccessTTL) \div TicksPerSecond \in Nat
  BY ClockAssumption
<1>3. jwt[t].exp \in Nat
  BY <1>1, <1>2 DEF Seconds
<1>4. jwt[t].exp * TicksPerSecond \in Nat
  BY <1>3, ClockAssumption
<1>. QED
  BY <1>1, <1>3, <1>4, ClockAssumption DEF Instant

\* A token issued up to some moment is expired a lifetime later.
LEMMA ExpiredByThen ==
    ASSUME TypeOK, ClaimsInv, NEW t \in Tokens, jwt[t] # None,
           NEW x \in Nat, jwt[t].at <= x, clock >= x + AccessTTL
    PROVE  Expired(t)
<1>1. jwt[t].at \in Nat /\ clock \in Nat /\ AccessTTL \in Nat
  BY TokenFacts, ClockFacts
<1>2. PICK y \in Nat : y = jwt[t].at + AccessTTL
  BY <1>1
<1>3. jwt[t].exp = Second(y)
  BY <1>2 DEF ClaimsInv
<1>4. Instant(Second(y)) <= y /\ Instant(Second(y)) \in Nat
  BY SecondFacts
<1>. QED
  BY <1>1, <1>2, <1>3, <1>4 DEF Expired

----------------------------------------------------------------------------
(* What every step keeps *)

Keeps ==
    /\ clock' \in Nat /\ clock <= clock'
    /\ \A t \in Tokens : jwt[t] # None => jwt'[t] = jwt[t]
    /\ \A u \in Users : logoutAt[u] # None =>
          logoutAt'[u] # None /\ logoutAt'[u] \in Nat /\ logoutAt[u] <= logoutAt'[u]
    /\ denyDone \subseteq denyDone'
    /\ crossed \subseteq crossed'

LEMMA ExpiryStays ==
    ASSUME TypeOK, Keeps, NEW t \in Tokens, jwt[t] # None, Expired(t)
    PROVE  Expired(t)'
<1>1. Instant(jwt[t].exp) \in Nat /\ clock \in Nat
  BY TokenFacts, ClockFacts
<1>2. jwt'[t] = jwt[t] /\ clock <= clock' /\ clock' \in Nat
  BY DEF Keeps
<1>3. Instant(jwt'[t].exp) = Instant(jwt[t].exp)
  BY <1>2
<1>4. clock' >= Instant(jwt[t].exp)
  BY <1>1, <1>2 DEF Expired
<1>. QED
  BY <1>2, <1>3, <1>4 DEF Expired, Instant

LEMMA UserStays ==
    ASSUME TypeOK, RequestInv, Keeps, NEW r \in Requests, Active(r), tok'[r] = tok[r]
    PROVE  User(r)' = User(r) /\ User(r) \in Users /\ tok[r] \in Tokens
           /\ jwt[tok[r]] # None /\ jwt'[tok[r]] = jwt[tok[r]]
<1>1. tok[r] \in Tokens /\ jwt[tok[r]] # None
  BY DEF RequestInv, Held
<1>2. jwt'[tok[r]] = jwt[tok[r]]
  BY <1>1 DEF Keeps
<1>. QED
  BY <1>1, <1>2, TokenFacts DEF User

\* A step that does not touch a request leaves what is known of it true.
LEMMA HeldStays ==
    ASSUME TypeOK, RequestInv, Keeps, NEW r \in Requests,
           pc'[r] = pc[r], tok'[r] = tok[r], owed'[r] = owed[r], now'[r] = now[r]
    PROVE  Held(r)'
<1>a. Held(r) /\ now[r] \in Nat /\ clock \in Nat
  BY ClockFacts DEF RequestInv
<1>1. CASE ~Active(r)
  <2>1. pc'[r] = "idle" /\ owed'[r] = {}
    BY <1>a, <1>1 DEF Held, Active
  <2>2. now'[r] <= clock'
    BY <1>a DEF Held, Keeps
  <2>. QED
    BY <2>1, <2>2 DEF Held, Active
<1>2. CASE Active(r)
  <2>1. /\ User(r)' = User(r) /\ User(r) \in Users /\ tok[r] \in Tokens
        /\ jwt[tok[r]] # None /\ jwt'[tok[r]] = jwt[tok[r]]
    BY <1>2, UserStays
  <2>2. PICK t \in Tokens, u \in Users : t = tok[r] /\ u = User(r)
    BY <2>1
  <2>3. /\ jwt[t] # None /\ jwt'[t] = jwt[t] /\ jwt[t].at \in Nat
        /\ tok'[r] = t /\ User(r)' = u
    BY <2>1, <2>2, TokenFacts
  <2>4. now'[r] <= clock'
    BY <1>a DEF Held, Keeps
  <2>5. "jti" \in owed'[r] => IF pc'[r] = "jti" THEN t \in denyDone' ELSE Expired(t)'
    BY <1>a, <2>2, <2>3, ExpiryStays DEF Held, Keeps
  <2>6. "user" \in owed'[r] => logoutAt'[u] # None /\ jwt'[t].at <= logoutAt'[u]
    <3>. SUFFICES ASSUME "user" \in owed'[r]
                  PROVE  logoutAt'[u] # None /\ jwt'[t].at <= logoutAt'[u]
      OBVIOUS
    <3>1. logoutAt[u] # None /\ jwt[t].at <= logoutAt[u] /\ logoutAt[u] \in Nat
      BY <1>a, <2>2, ClockFacts DEF Held
    <3>2. logoutAt'[u] # None /\ logoutAt[u] <= logoutAt'[u] /\ logoutAt'[u] \in Nat
      BY <3>1 DEF Keeps
    <3>. QED
      BY <2>3, <3>1, <3>2
  <2>. QED
    BY <1>2, <2>3, <2>4, <2>5, <2>6 DEF Held, Active, Expired
<1>. QED
  BY <1>1, <1>2

----------------------------------------------------------------------------
(* The steps of the requests *)

RequestStep(r) ==
    \/ \E t \in Tokens : Present(r, t)
    \/ \E ok \in BOOLEAN :
          IsDenied(r, ok) \/ IsUserRevoked(r, ok) \/ DenyUserBefore(r, ok) \/ Deny(r, ok)
    \/ Serve(r) \/ LogoutFamily(r) \/ LogoutAll(r) \/ RevokeAllFails(r)

Untouched(q) == pc'[q] = pc[q] /\ tok'[q] = tok[q] /\ owed'[q] = owed[q] /\ now'[q] = now[q]

Known(r) == Held(r) /\ tok[r] \in Tokens /\ jwt[tok[r]] # None /\ User(r) \in Users

LEMMA ActiveKnown ==
    ASSUME IInv, NEW r \in Requests, Active(r)
    PROVE  Known(r)
<1>1. Held(r) /\ tok[r] \in Tokens /\ jwt[tok[r]] # None /\ TypeOK
  BY DEF IInv, RequestInv, Held
<1>. QED
  BY <1>1, TokenFacts DEF Known, User

LEMMA RequestTypes ==
    ASSUME IInv, NEW r \in Requests, RequestStep(r)
    PROVE  TypeOK'
<1>a. TypeOK
  BY DEF IInv
<1>1. ASSUME NEW t \in Tokens, Present(r, t)
      PROVE  TypeOK'
  <2>1. owed' \in [Requests -> SUBSET {"jti", "user"}]
    BY <1>a, <1>1 DEF Present, TypeOK
  <2>. QED
    BY <1>a, <1>1, <2>1 DEF Present, TypeOK
<1>2. ASSUME NEW ok \in BOOLEAN, IsDenied(r, ok)
      PROVE  TypeOK'
  BY <1>a, <1>2, ClockAssumption DEF IsDenied, TypeOK, End
<1>3. ASSUME NEW ok \in BOOLEAN, IsUserRevoked(r, ok)
      PROVE  TypeOK'
  BY <1>a, <1>3, ClockAssumption DEF IsUserRevoked, TypeOK, End
<1>4. ASSUME NEW ok \in BOOLEAN, DenyUserBefore(r, ok)
      PROVE  TypeOK'
  <2>1. User(r) \in Users /\ now[r] \in Nat /\ now[r] <= MaxTime /\ now[r] \in 0 .. MaxTime
        /\ clock \in Nat /\ clock <= MaxTime
    BY <1>a, <1>4, ActiveKnown, ClockFacts DEF DenyUserBefore, Active, Known
  <2>2. Second(now[r]) \in Seconds
    BY <2>1, SecondFacts, ClockAssumption
  <2>3. [sec |-> Second(now[r]), exp |-> clock + AccessTTL] \in Cutoffs
    BY <2>1, <2>2, ClockAssumption DEF Cutoffs
  <2>4. cutoff' \in [Users -> Cutoffs \cup {None}]
    BY <1>a, <1>4, <2>1, <2>3 DEF DenyUserBefore, TypeOK
  <2>5. logoutAt' \in [Users -> 0 .. MaxTime \cup {None}]
    BY <1>a, <1>4, <2>1 DEF DenyUserBefore, TypeOK
  <2>6. /\ pc' = [pc EXCEPT ![r] = "deny"]
        /\ UNCHANGED <<clock, jwt, denied, tok, now, denyDone, owed, crossed>>
    BY <1>4 DEF DenyUserBefore
  <2>. QED
    BY <1>a, <2>4, <2>5, <2>6 DEF TypeOK
<1>5. ASSUME NEW ok \in BOOLEAN, Deny(r, ok)
      PROVE  TypeOK'
  <2>1. tok[r] \in Tokens
    BY <1>5, ActiveKnown DEF Deny, Active, Known
  <2>2. denied' \subseteq Tokens /\ denyDone' \subseteq Tokens
    BY <1>a, <1>5, <2>1 DEF Deny, TypeOK
  <2>3. End(r) /\ UNCHANGED <<clock, jwt, cutoff, logoutAt, crossed>>
    BY <1>5 DEF Deny
  <2>. QED
    BY <1>a, <2>2, <2>3, ClockAssumption DEF TypeOK, End
<1>6. CASE Serve(r)
  BY <1>a, <1>6, ClockAssumption DEF Serve, TypeOK, End
<1>7. CASE LogoutFamily(r)
  BY <1>a, <1>7, ClockAssumption DEF LogoutFamily, TypeOK, history
<1>8. CASE LogoutAll(r)
  <2>1. User(r) \in Users
    BY <1>8, ActiveKnown DEF LogoutAll, Active, Known
  <2>. QED
    BY <1>a, <1>8, <2>1 DEF LogoutAll, TypeOK
<1>9. CASE RevokeAllFails(r)
  BY <1>a, <1>9, ClockAssumption DEF RevokeAllFails, TypeOK, End
<1>. QED
  BY <1>1, <1>2, <1>3, <1>4, <1>5, <1>6, <1>7, <1>8, <1>9 DEF RequestStep

LEMMA RequestKeeps ==
    ASSUME IInv, NEW r \in Requests, RequestStep(r)
    PROVE  Keeps /\ clock' = clock /\ jwt' = jwt /\ \A q \in Requests \ {r} : Untouched(q)
<1>a. TypeOK /\ clock \in Nat
      /\ \A u \in Users : logoutAt[u] # None => logoutAt[u] \in Nat
  BY ClockFacts DEF IInv
<1>1. clock' = clock /\ jwt' = jwt /\ denyDone \subseteq denyDone' /\ crossed \subseteq crossed'
  BY DEF RequestStep, Present, IsDenied, IsUserRevoked, DenyUserBefore, Deny, Serve, LogoutFamily,
     LogoutAll, RevokeAllFails, history
<1>2. \A q \in Requests \ {r} : Untouched(q)
  BY <1>a DEF RequestStep, Present, IsDenied, IsUserRevoked, DenyUserBefore, Deny, Serve,
     LogoutFamily, LogoutAll, RevokeAllFails, history, End, TypeOK, Untouched
<1>3. ASSUME NEW u \in Users, logoutAt[u] # None
      PROVE  logoutAt'[u] # None /\ logoutAt'[u] \in Nat /\ logoutAt[u] <= logoutAt'[u]
  <2>1. CASE logoutAt' = logoutAt
    BY <1>a, <1>3, <2>1
  <2>2. ASSUME NEW ok \in BOOLEAN, DenyUserBefore(r, ok), logoutAt' # logoutAt
        PROVE  logoutAt'[u] # None /\ logoutAt'[u] \in Nat /\ logoutAt[u] <= logoutAt'[u]
    <3>1. /\ logoutAt' = [logoutAt EXCEPT ![User(r)] = now[r]]
          /\ logoutAt[User(r)] = None \/ logoutAt[User(r)] < now[r]
      BY <2>2 DEF DenyUserBefore
    <3>2. now[r] \in Nat /\ now[r] # None
      BY <1>a, ClockFacts, NoKeyAssumption
    <3>3. logoutAt'[u] = IF u = User(r) THEN now[r] ELSE logoutAt[u]
      BY <1>a, <3>1 DEF TypeOK
    <3>. QED
      BY <1>a, <1>3, <3>1, <3>2, <3>3
  <2>. QED
    BY <2>1, <2>2 DEF RequestStep, Present, IsDenied, IsUserRevoked, Deny, Serve, LogoutFamily,
       LogoutAll, RevokeAllFails, history
<1>. QED
  BY <1>a, <1>1, <1>2, <1>3 DEF Keeps

LEMMA RequestDenies ==
    ASSUME IInv, NEW r \in Requests, RequestStep(r)
    PROVE  ClaimsInv' /\ DenyInv'
<1>a. ClaimsInv /\ DenyInv /\ clock' = clock /\ jwt' = jwt
  BY RequestKeeps DEF IInv
<1>1. ClaimsInv'
  BY <1>a DEF ClaimsInv
<1>2. CASE denied' = denied /\ denyDone' = denyDone
  BY <1>a, <1>1, <1>2 DEF DenyInv, Expired
<1>3. ASSUME NEW ok \in BOOLEAN, Deny(r, ok)
      PROVE  DenyInv'
  <2>1. jwt[tok[r]] # None
    BY <1>3, ActiveKnown DEF Deny, Active, Known
  <2>. QED
    BY <1>a, <1>3, <2>1 DEF Deny, DenyInv, Expired
<1>. QED
  BY <1>1, <1>2, <1>3 DEF RequestStep, Present, IsDenied, IsUserRevoked, DenyUserBefore, Serve,
     LogoutFamily, LogoutAll, RevokeAllFails, history


\* A request past the jti check moves on, with the same token and no new reason to be
\* refused.
LEMMA HeldMoves ==
    ASSUME TypeOK, RequestInv, Keeps, NEW r \in Requests, Active(r), pc[r] # "jti",
           pc'[r] \notin {"idle", "jti"}, tok'[r] = tok[r], owed'[r] \subseteq owed[r],
           now'[r] <= clock'
    PROVE  Held(r)'
<1>a. Held(r)
  BY DEF RequestInv
<1>1. /\ User(r)' = User(r) /\ User(r) \in Users /\ tok[r] \in Tokens
      /\ jwt[tok[r]] # None /\ jwt'[tok[r]] = jwt[tok[r]]
  BY UserStays
<1>2. PICK t \in Tokens, u \in Users : t = tok[r] /\ u = User(r)
  BY <1>1
<1>3. /\ jwt[t] # None /\ jwt'[t] = jwt[t] /\ jwt[t].at \in Nat
      /\ tok'[r] = t /\ User(r)' = u
  BY <1>1, <1>2, TokenFacts
<1>4. "jti" \in owed'[r] => Expired(t)'
  BY <1>a, <1>2, <1>3, ExpiryStays DEF Held
<1>5. "user" \in owed'[r] => logoutAt'[u] # None /\ jwt'[t].at <= logoutAt'[u]
  <2>. SUFFICES ASSUME "user" \in owed'[r]
                PROVE  logoutAt'[u] # None /\ jwt'[t].at <= logoutAt'[u]
    OBVIOUS
  <2>1. logoutAt[u] # None /\ jwt[t].at <= logoutAt[u] /\ logoutAt[u] \in Nat
    BY <1>a, <1>2, ClockFacts DEF Held
  <2>2. logoutAt'[u] # None /\ logoutAt[u] <= logoutAt'[u] /\ logoutAt'[u] \in Nat
    BY <2>1 DEF Keeps
  <2>. QED
    BY <1>3, <2>1, <2>2
<1>. QED
  BY <1>3, <1>4, <1>5 DEF Held, Active, Expired

LEMMA HeldEnds ==
    ASSUME TypeOK, NEW r \in Requests, End(r), clock' = clock
    PROVE  Held(r)'
<1>1. pc'[r] = "idle" /\ owed'[r] = {} /\ now'[r] = 0 /\ clock' \in Nat
  BY ClockFacts DEF End, TypeOK
<1>. QED
  BY <1>1 DEF Held, Active

LEMMA RequestHeld ==
    ASSUME IInv, NEW r \in Requests, RequestStep(r)
    PROVE  RequestInv'
<1>a. TypeOK /\ RequestInv /\ DenyInv /\ Held(r) /\ now[r] \in Nat /\ clock \in Nat
  BY ClockFacts DEF IInv, RequestInv
<1>b. Keeps /\ clock' = clock /\ jwt' = jwt /\ \A q \in Requests \ {r} : Untouched(q)
  BY RequestKeeps
<1>c. \A q \in Requests \ {r} : Held(q)'
  BY <1>a, <1>b, HeldStays DEF Untouched
<1>. SUFFICES Held(r)'
  BY <1>c DEF RequestInv
<1>1. ASSUME NEW t \in Tokens, Present(r, t)
      PROVE  Held(r)'
  <2>1. /\ pc'[r] = "jti" /\ tok'[r] = t /\ now'[r] = now[r] /\ jwt'[t] # None
        /\ logoutAt' = logoutAt /\ denyDone' = denyDone
    BY <1>a, <1>b, <1>1 DEF Present, TypeOK
  <2>2. owed'[r] = (IF t \in denyDone THEN {"jti"} ELSE {}) \cup
          (IF logoutAt[jwt[t].user] # None /\ jwt[t].at <= logoutAt[jwt[t].user]
           THEN {"user"} ELSE {})
    BY <1>a, <1>1 DEF Present, TypeOK
  <2>3. "jti" \in owed'[r] => t \in denyDone
    BY <2>2
  <2>4. "user" \in owed'[r]
          => logoutAt[jwt[t].user] # None /\ jwt[t].at <= logoutAt[jwt[t].user]
    BY <2>2
  <2>5. now'[r] <= clock'
    BY <1>a, <1>b, <2>1 DEF Held
  <2>. QED
    BY <1>b, <2>1, <2>3, <2>4, <2>5 DEF Held, Active, User
<1>2. ASSUME NEW ok \in BOOLEAN, IsDenied(r, ok)
      PROVE  Held(r)'
  <2>1. CASE ok /\ tok[r] \in denied
    BY <1>a, <1>b, <1>2, <2>1, HeldEnds DEF IsDenied
  <2>2. CASE ~(ok /\ tok[r] \in denied)
    <3>1. /\ pc[r] = "jti" /\ pc'[r] = "user" /\ tok' = tok /\ now' = now
          /\ logoutAt' = logoutAt /\ denyDone' = denyDone
          /\ owed'[r] = IF ok THEN owed[r] ELSE owed[r] \ {"jti"}
      BY <1>a, <1>2, <2>2 DEF IsDenied, TypeOK
    <3>2. Known(r)
      BY <3>1, ActiveKnown DEF Active
    <3>3. "jti" \in owed'[r] => Expired(tok[r])
      <4>. SUFFICES ASSUME "jti" \in owed'[r] PROVE Expired(tok[r])
        OBVIOUS
      <4>1. ok /\ "jti" \in owed[r]
        BY <3>1
      <4>2. tok[r] \in denyDone /\ tok[r] \notin denied
        BY <1>a, <2>2, <3>1, <4>1 DEF Held
      <4>. QED
        BY <1>a, <4>2 DEF DenyInv
    <3>4. "user" \in owed'[r] => "user" \in owed[r]
      BY <3>1
    <3>. QED
      BY <1>a, <1>b, <3>1, <3>2, <3>3, <3>4 DEF Held, Known, Active, Expired, User
  <2>. QED
    BY <2>1, <2>2
<1>3. ASSUME NEW ok \in BOOLEAN, IsUserRevoked(r, ok)
      PROVE  Held(r)'
  <2>1. CASE End(r)
    BY <1>a, <1>b, <2>1, HeldEnds
  <2>2. CASE ~End(r)
    <3>1. /\ pc[r] = "user" /\ pc'[r] = "accepted" /\ tok'[r] = tok[r] /\ now'[r] = now[r]
          /\ owed'[r] \subseteq owed[r]
      BY <1>a, <1>3, <2>2 DEF IsUserRevoked, TypeOK
    <3>. QED
      BY <1>a, <1>b, <3>1, HeldMoves DEF Held, Active
  <2>. QED
    BY <2>1, <2>2
<1>4. ASSUME NEW ok \in BOOLEAN, DenyUserBefore(r, ok)
      PROVE  Held(r)'
  <2>1. /\ pc[r] = "revokeAll" /\ pc'[r] = "deny" /\ tok'[r] = tok[r] /\ now'[r] = now[r]
        /\ owed'[r] \subseteq owed[r]
    BY <1>a, <1>4 DEF DenyUserBefore, TypeOK
  <2>. QED
    BY <1>a, <1>b, <2>1, HeldMoves DEF Held, Active
<1>5. ASSUME NEW ok \in BOOLEAN, Deny(r, ok)
      PROVE  Held(r)'
  BY <1>a, <1>b, <1>5, HeldEnds DEF Deny
<1>6. CASE Serve(r)
  BY <1>a, <1>b, <1>6, HeldEnds DEF Serve
<1>7. CASE LogoutFamily(r)
  <2>1. /\ pc[r] = "accepted" /\ pc'[r] = "deny" /\ tok'[r] = tok[r] /\ now'[r] = now[r]
        /\ owed'[r] \subseteq owed[r]
    BY <1>a, <1>7 DEF LogoutFamily, history, TypeOK
  <2>. QED
    BY <1>a, <1>b, <2>1, HeldMoves DEF Held, Active
<1>8. CASE LogoutAll(r)
  <2>1. /\ pc[r] = "accepted" /\ pc'[r] = "revokeAll" /\ tok'[r] = tok[r] /\ now'[r] = clock
        /\ owed'[r] \subseteq owed[r]
    BY <1>a, <1>8 DEF LogoutAll, TypeOK
  <2>. QED
    BY <1>a, <1>b, <2>1, HeldMoves DEF Active
<1>9. CASE RevokeAllFails(r)
  BY <1>a, <1>b, <1>9, HeldEnds DEF RevokeAllFails
<1>. QED
  BY <1>1, <1>2, <1>3, <1>4, <1>5, <1>6, <1>7, <1>8, <1>9 DEF RequestStep

LEMMA RequestCutoff ==
    ASSUME IInv, NEW r \in Requests, RequestStep(r)
    PROVE  CutoffInv'
<1>a. TypeOK /\ CutoffInv /\ Latest /\ clock \in Nat /\ now[r] \in Nat /\ AccessTTL \in Nat
      /\ \A u \in Users : logoutAt[u] # None => logoutAt[u] \in Nat
  BY ClockFacts DEF IInv
<1>b. Keeps /\ clock' = clock
  BY RequestKeeps
<1>1. CASE cutoff' = cutoff /\ logoutAt' = logoutAt
  BY <1>a, <1>b, <1>1 DEF CutoffInv, Keeps
<1>2. ASSUME NEW ok \in BOOLEAN, DenyUserBefore(r, ok), ok
      PROVE  CutoffInv'
  <2>1. Known(r) /\ now[r] <= clock /\ crossed' = crossed /\ pc[r] = "revokeAll"
    BY <1>2, ActiveKnown DEF DenyUserBefore, Active, Known, Held
  <2>2. PICK u \in Users : u = User(r)
    BY <2>1 DEF Known
  <2>3. PICK c : c = [sec |-> Second(now[r]), exp |-> clock + AccessTTL]
    OBVIOUS
  <2>4. /\ cutoff' = [cutoff EXCEPT ![u] = c]
        /\ logoutAt' = IF logoutAt[u] = None \/ logoutAt[u] < now[r]
                       THEN [logoutAt EXCEPT ![u] = now[r]] ELSE logoutAt
    BY <1>2, <2>2, <2>3 DEF DenyUserBefore
  <2>5. c # None /\ c.sec = Second(now[r]) /\ c.exp = clock + AccessTTL
    <3>1. now[r] <= MaxTime /\ clock <= MaxTime /\ MaxTime \in Nat
      BY <1>a, ClockFacts
    <3>2. Second(now[r]) \in Seconds
      BY <1>a, <3>1, SecondFacts
    <3>3. c \in Cutoffs
      BY <1>a, <2>3, <3>1, <3>2 DEF Cutoffs
    <3>. QED
      BY <2>3, <3>3, NoKeyAssumption
  <2>6. ASSUME u \notin crossed PROVE logoutAt'[u] = now[r]
    <3>1. logoutAt[u] # None => logoutAt[u] <= now[r]
      BY <1>a, <2>1, <2>2, <2>6 DEF Latest
    <3>. QED
      BY <1>a, <2>4, <3>1 DEF TypeOK
  <2>7. \A v \in Users \ {u} : cutoff'[v] = cutoff[v] /\ logoutAt'[v] = logoutAt[v]
    BY <1>a, <2>4 DEF TypeOK
  <2>8. cutoff'[u] = c
    BY <1>a, <2>4 DEF TypeOK
  <2>. SUFFICES ASSUME NEW v \in Users \ crossed', logoutAt'[v] # None
                PROVE  /\ logoutAt'[v] <= clock'
                       /\ cutoff'[v] # None => /\ cutoff'[v].sec = Second(logoutAt'[v])
                                               /\ cutoff'[v].exp >= logoutAt'[v] + AccessTTL
                       /\ cutoff'[v] = None => clock' >= logoutAt'[v] + AccessTTL
    BY DEF CutoffInv, Second
  <2>9. CASE v = u
    <3>1. logoutAt'[v] = now[r] /\ cutoff'[v] = c
      BY <2>1, <2>6, <2>8, <2>9
    <3>. QED
      BY <1>a, <1>b, <2>1, <2>5, <3>1
  <2>10. CASE v # u
    BY <1>a, <1>b, <2>1, <2>7, <2>10 DEF CutoffInv
  <2>. QED
    BY <2>9, <2>10
<1>. QED
  BY <1>1, <1>2 DEF RequestStep, Present, IsDenied, IsUserRevoked, DenyUserBefore, Deny, Serve,
     LogoutFamily, LogoutAll, RevokeAllFails, history

\* A logout-all that begins while another one of the user is under way is noted.
LEMMA RequestOverlap ==
    ASSUME IInv, NEW r \in Requests, RequestStep(r)
    PROVE  Alone' /\ Latest'
<1>a. TypeOK /\ RequestInv /\ CutoffInv /\ Alone /\ Latest /\ clock \in Nat
  BY ClockFacts DEF IInv
<1>b. Keeps /\ clock' = clock /\ jwt' = jwt /\ \A q \in Requests \ {r} : Untouched(q)
  BY RequestKeeps
<1>c. \A q \in Requests \ {r} : pc'[q] = pc[q] /\ now'[q] = now[q] /\ User(q)' = User(q)
  BY <1>b DEF Untouched, User
<1>1. CASE LogoutAll(r)
  <2>1. /\ pc[r] = "accepted" /\ now'[r] = clock /\ User(r)' = User(r)
        /\ logoutAt' = logoutAt /\ crossed \subseteq crossed'
    BY <1>a, <1>b, <1>1 DEF LogoutAll, TypeOK, User, Keeps
  <2>2. \A q \in Requests \ {r} : pc[q] = "revokeAll" /\ User(q) = User(r) => User(r) \in crossed'
    BY <1>1 DEF LogoutAll
  <2>3. Alone'
    BY <1>a, <1>c, <2>1, <2>2 DEF Alone
  <2>4. User(r) \in Users
    BY <2>1, ActiveKnown DEF Active, Known
  <2>5. User(r) \notin crossed' /\ logoutAt[User(r)] # None => logoutAt[User(r)] <= clock
    BY <1>a, <2>1, <2>4 DEF CutoffInv
  <2>. QED
    BY <1>a, <1>c, <2>1, <2>3, <2>5 DEF Latest
<1>2. ASSUME NEW ok \in BOOLEAN, DenyUserBefore(r, ok)
      PROVE  Alone' /\ Latest'
  <2>1. pc[r] = "revokeAll" /\ pc'[r] = "deny" /\ crossed' = crossed
    BY <1>a, <1>2 DEF DenyUserBefore, TypeOK
  <2>2. Alone'
    BY <1>a, <1>c, <2>1 DEF Alone
  <2>3. ASSUME NEW q \in Requests, pc'[q] = "revokeAll", User(q)' \notin crossed',
               logoutAt'[User(q)'] # None
        PROVE  logoutAt'[User(q)'] <= now'[q]
    <3>1. q # r /\ pc[q] = "revokeAll" /\ User(q)' = User(q) /\ now'[q] = now[q]
      BY <1>c, <2>1, <2>3
    <3>2. User(q) # User(r)
      BY <1>a, <2>1, <2>3, <3>1 DEF Alone
    <3>3. User(q) \in Users
      BY <3>1, ActiveKnown DEF Active, Known
    <3>4. logoutAt'[User(q)] = logoutAt[User(q)]
      BY <1>a, <1>2, <3>2, <3>3 DEF DenyUserBefore, TypeOK
    <3>. QED
      BY <1>a, <2>1, <2>3, <3>1, <3>4 DEF Latest
  <2>4. Latest'
    BY <2>3 DEF Latest
  <2>. QED
    BY <2>2, <2>4
<1>3. CASE pc'[r] # "revokeAll" /\ logoutAt' = logoutAt /\ crossed' = crossed
  BY <1>a, <1>c, <1>3 DEF Alone, Latest
<1>. QED
  <2>1. ASSUME ~LogoutAll(r), \A ok \in BOOLEAN : ~DenyUserBefore(r, ok)
        PROVE  pc'[r] # "revokeAll" /\ logoutAt' = logoutAt /\ crossed' = crossed
    BY <1>a, <2>1 DEF RequestStep, Present, IsDenied, IsUserRevoked, Deny, Serve, LogoutFamily,
       RevokeAllFails, history, End, TypeOK
  <2>. QED
    BY <1>1, <1>2, <1>3, <2>1


LEMMA RequestPreserves ==
    ASSUME IInv, NEW r \in Requests, RequestStep(r)
    PROVE  IInv'
  BY RequestTypes, RequestDenies, RequestHeld, RequestCutoff, RequestOverlap DEF IInv

----------------------------------------------------------------------------
(* A new token, and time *)

LEMMA GeneratePreserves ==
    ASSUME IInv, NEW t \in Tokens, NEW u \in Users, GenerateToken(t, u)
    PROVE  IInv'
<1>a. /\ TypeOK /\ ClaimsInv /\ RequestInv /\ DenyInv /\ CutoffInv /\ Alone /\ Latest
      /\ clock \in Nat /\ clock <= MaxTime /\ clock \in 0 .. MaxTime
  BY ClockFacts DEF IInv, TypeOK
<1>b. /\ jwt[t] = None
      /\ UNCHANGED <<clock, denied, cutoff, pc, tok, now, logoutAt, denyDone, owed, crossed>>
  BY DEF GenerateToken, history
<1>1. PICK y \in Nat : y = clock + AccessTTL /\ y <= MaxTime + AccessTTL
  BY <1>a, ClockAssumption
<1>2. PICK j : /\ j = [user |-> u, iat |-> Second(clock), exp |-> Second(y), at |-> clock]
               /\ jwt' = [jwt EXCEPT ![t] = j]
  BY <1>1 DEF GenerateToken
<1>3. Second(clock) \in Seconds /\ Second(y) \in Seconds
  <2>1. clock <= MaxTime + AccessTTL
    BY <1>a, ClockAssumption
  <2>. QED
    BY <1>a, <1>1, <2>1, SecondFacts
<1>4. TypeOK'
  <2>1. j \in [user : Users, iat : Seconds, exp : Seconds, at : 0 .. MaxTime]
    BY <1>a, <1>2, <1>3
  <2>2. jwt' \in [Tokens -> [user : Users, iat : Seconds, exp : Seconds,
                             at : 0 .. MaxTime] \cup {None}]
    BY <1>a, <1>2, <2>1 DEF TypeOK
  <2>. QED
    BY <1>a, <1>b, <2>2 DEF TypeOK
<1>5. jwt'[t] = j /\ \A k \in Tokens \ {t} : jwt'[k] = jwt[k]
  BY <1>a, <1>2 DEF TypeOK
<1>6. ClaimsInv'
  <2>1. j.iat = Second(j.at) /\ j.exp = Second(j.at + AccessTTL)
    BY <1>1, <1>2
  <2>. QED
    BY <1>a, <1>5, <2>1 DEF ClaimsInv, Second
<1>7. Keeps
  BY <1>a, <1>b, <1>5, ClockFacts DEF Keeps
<1>8. RequestInv'
  BY <1>a, <1>b, <1>7, HeldStays DEF RequestInv
<1>9. DenyInv'
  <2>1. \A k \in denyDone : k \in Tokens /\ jwt[k] # None /\ jwt'[k] = jwt[k]
    BY <1>a, <1>7 DEF DenyInv, Keeps, TypeOK
  <2>. QED
    BY <1>a, <1>b, <2>1 DEF DenyInv, Expired
<1>10. CutoffInv'
  BY <1>a, <1>b DEF CutoffInv, Second
<1>11. Alone' /\ Latest'
  <2>1. \A q \in Requests : pc[q] = "revokeAll" => User(q)' = User(q)
    BY <1>a, <1>b, <1>7, UserStays DEF Active
  <2>. QED
    BY <1>a, <1>b, <2>1 DEF Alone, Latest
<1>. QED
  BY <1>4, <1>6, <1>8, <1>9, <1>10, <1>11 DEF IInv

\* A key that Redis drops has outlived what it was for.
LEMMA TickPreserves ==
    ASSUME IInv, Tick
    PROVE  IInv'
<1>a. /\ TypeOK /\ ClaimsInv /\ RequestInv /\ DenyInv /\ CutoffInv /\ Alone /\ Latest
      /\ clock \in Nat /\ AccessTTL \in Nat
  BY ClockFacts DEF IInv
<1>b. /\ clock < MaxTime /\ clock' = clock + 1
      /\ UNCHANGED <<jwt, pc, tok, now, logoutAt, denyDone, owed, crossed>>
  BY DEF Tick, history
<1>c. \A u \in Users : cutoff'[u] = IF cutoff[u] # None /\ cutoff[u].exp <= clock + 1
                                    THEN None ELSE cutoff[u]
  BY DEF Tick
<1>1. TypeOK'
  <2>1. clock' \in 0 .. MaxTime /\ denied' \subseteq Tokens
    BY <1>a, <1>b, ClockAssumption DEF TypeOK, Tick
  <2>2. cutoff' \in [Users -> Cutoffs \cup {None}]
    BY <1>a DEF TypeOK, Tick
  <2>. QED
    BY <1>a, <1>b, <2>1, <2>2 DEF TypeOK
<1>2. Keeps
  BY <1>a, <1>b, ClockFacts DEF Keeps
<1>3. ClaimsInv'
  BY <1>a, <1>b DEF ClaimsInv
<1>4. RequestInv'
  BY <1>a, <1>b, <1>2, HeldStays DEF RequestInv
<1>5. DenyInv'
  <2>. SUFFICES ASSUME NEW t \in denyDone'
                PROVE  jwt'[t] # None /\ (t \in denied' \/ Expired(t)')
    BY DEF DenyInv
  <2>1. t \in Tokens /\ jwt[t] # None /\ (t \in denied \/ Expired(t))
    BY <1>a, <1>b DEF DenyInv, TypeOK
  <2>2. CASE Expired(t)
    BY <1>a, <1>b, <1>2, <2>1, <2>2, ExpiryStays
  <2>3. CASE t \in denied
    <3>1. Instant(jwt[t].exp) \in Nat
      BY <1>a, <2>1, TokenFacts
    <3>2. t \in denied' \/ ~(Instant(jwt[t].exp) > clock + 1)
      BY <2>3 DEF Tick, DenyUntil
    <3>3. t \in denied' \/ clock' >= Instant(jwt[t].exp)
      BY <1>a, <1>b, <3>1, <3>2
    <3>. QED
      BY <1>b, <2>1, <3>3 DEF Expired
  <2>. QED
    BY <2>1, <2>2, <2>3
<1>6. CutoffInv'
  <2>. SUFFICES ASSUME NEW u \in Users \ crossed', logoutAt'[u] # None
                PROVE  /\ logoutAt'[u] <= clock'
                       /\ cutoff'[u] # None => /\ cutoff'[u].sec = Second(logoutAt'[u])
                                               /\ cutoff'[u].exp >= logoutAt'[u] + AccessTTL
                       /\ cutoff'[u] = None => clock' >= logoutAt'[u] + AccessTTL
    BY DEF CutoffInv, Second
  <2>1. /\ u \in Users \ crossed /\ logoutAt[u] # None /\ logoutAt'[u] = logoutAt[u]
        /\ logoutAt[u] \in Nat
    BY <1>a, <1>b, ClockFacts
  <2>2. /\ logoutAt[u] <= clock
        /\ cutoff[u] # None => /\ cutoff[u].sec = Second(logoutAt[u])
                               /\ cutoff[u].exp >= logoutAt[u] + AccessTTL
        /\ cutoff[u] = None => clock >= logoutAt[u] + AccessTTL
    BY <1>a, <2>1 DEF CutoffInv
  <2>3. cutoff[u] # None => cutoff[u].exp \in Nat
    BY <1>a, ClockFacts, ClockAssumption DEF Cutoffs
  <2>4. cutoff'[u] = cutoff[u] \/ (cutoff'[u] = None /\ cutoff[u] # None
                                    /\ cutoff[u].exp <= clock + 1)
    BY <1>c
  <2>. QED
    BY <1>a, <1>b, <2>1, <2>2, <2>3, <2>4
<1>7. Alone' /\ Latest'
  BY <1>a, <1>b DEF Alone, Latest, User
<1>. QED
  BY <1>1, <1>3, <1>4, <1>5, <1>6, <1>7 DEF IInv

----------------------------------------------------------------------------
(* Theorems *)

LEMMA InitInv == Init => IInv
<1>. SUFFICES ASSUME Init PROVE IInv
  OBVIOUS
<1>1. /\ \A t \in Tokens : jwt[t] = None
      /\ \A r \in Requests : pc[r] = "idle" /\ owed[r] = {} /\ now[r] = 0
      /\ \A u \in Users : logoutAt[u] = None
      /\ denyDone = {} /\ clock = 0
  BY DEF Init
<1>2. TypeOK
  BY ClockAssumption DEF Init, TypeOK
<1>3. RequestInv
  BY <1>1 DEF RequestInv, Held, Active
<1>. QED
  BY <1>1, <1>2, <1>3 DEF IInv, ClaimsInv, DenyInv, CutoffInv, Alone, Latest

LEMMA StepInv == IInv /\ [Next]_vars => IInv'
<1>. SUFFICES ASSUME IInv, [Next]_vars PROVE IInv'
  OBVIOUS
<1>1. CASE UNCHANGED vars
  <2>1. TypeOK' /\ ClaimsInv' /\ DenyInv'
    BY <1>1 DEF vars, IInv, TypeOK, ClaimsInv, DenyInv, Expired
  <2>2. RequestInv'
    BY <1>1 DEF vars, IInv, RequestInv, Held, Active, Expired, User
  <2>3. CutoffInv' /\ Alone' /\ Latest'
    BY <1>1 DEF vars, IInv, CutoffInv, Alone, Latest, User
  <2>. QED
    BY <2>1, <2>2, <2>3 DEF IInv
<1>. QED
  BY <1>1, TickPreserves, GeneratePreserves, RequestPreserves DEF Next, RequestStep

\* The inductive invariant: the keys in Redis outlive the tokens they are about.
THEOREM Invariance == Spec => []IInv
  BY InitInv, StepInv, PTL DEF Spec

\* The claims, the keys and the requests' locals keep their shape.
THEOREM TypeCorrect == Spec => []TypeOK
<1>1. IInv => TypeOK
  BY DEF IInv
<1>. QED
  BY <1>1, Invariance, PTL

\* Only IsUserRevoked lets a request through.
LEMMA Acceptance ==
    ASSUME IInv, Next, NEW r \in Requests, Accepts(r)
    PROVE  /\ pc[r] = "user"
           /\ "user" \in owed'[r] =>
                ~(cutoff[User(r)] # None /\ Covers(cutoff[User(r)].sec, jwt[tok[r]].iat))
           /\ owed'[r] \subseteq owed[r]
<1>a. TypeOK
  BY DEF IInv
<1>1. PICK q \in Requests, ok \in BOOLEAN : IsUserRevoked(q, ok) /\ q = r
  <2>1. PICK q \in Requests : RequestStep(q)
    BY DEF Next, RequestStep, Tick, GenerateToken, Accepts
  <2>2. q = r
    BY <2>1, RequestKeeps DEF Untouched, Accepts
  <2>. QED
    BY <1>a, <2>1, <2>2 DEF RequestStep, Present, IsDenied, DenyUserBefore, Deny, Serve,
       LogoutFamily, LogoutAll, RevokeAllFails, End, TypeOK, Accepts
<1>2. ~End(r)
  BY <1>a DEF End, Accepts, TypeOK
<1>3. ~(ok /\ cutoff[User(r)] # None /\ Covers(cutoff[User(r)].sec, jwt[tok[r]].iat))
  BY <1>1, <1>2 DEF IsUserRevoked
<1>4. pc[r] = "user" /\ owed'[r] = IF ok THEN owed[r] ELSE owed[r] \ {"user"}
  BY <1>a, <1>1, <1>3 DEF IsUserRevoked, TypeOK
<1>. QED
  BY <1>3, <1>4

\* A token denied by a logout is refused up to the instant it expires, whenever the
\* clock ticks between the steps of the request.
THEOREM DenialHolds == Spec => DeniedTokenRefused
<1>. DEFINE Refused == \A r \in Requests :
                          Accepts(r) /\ "jti" \in owed'[r] => Expired(tok[r])
<1>1. ASSUME IInv, Next PROVE Refused
  <2>. SUFFICES ASSUME NEW r \in Requests, Accepts(r), "jti" \in owed'[r]
                PROVE  Expired(tok[r])
    OBVIOUS
  <2>1. pc[r] = "user" /\ "jti" \in owed[r]
    BY <1>1, Acceptance
  <2>. QED
    BY <1>1, <2>1 DEF IInv, RequestInv, Held
<1>2. IInv /\ [Next]_vars => [Refused]_vars
  BY <1>1
<1>. QED
  BY <1>2, Invariance, PTL DEF Spec, DeniedTokenRefused

\* After a logout-all every token issued up to it is refused as long as it lives:
\* truncation to seconds errs on the side of the logout, and Redis drops the cutoff
\* only when the last token it covers has expired.
THEOREM LogoutHolds == Spec => LoggedOutUserRefused
<1>. DEFINE Refused == \A r \in Requests :
                          Accepts(r) /\ "user" \in owed'[r] /\ User(r) \notin crossed
                              => Expired(tok[r])
<1>1. ASSUME IInv, Next PROVE Refused
  <2>. SUFFICES ASSUME NEW r \in Requests, Accepts(r), "user" \in owed'[r],
                       User(r) \notin crossed
                PROVE  Expired(tok[r])
    OBVIOUS
  <2>1. /\ pc[r] = "user" /\ "user" \in owed[r]
        /\ ~(cutoff[User(r)] # None /\ Covers(cutoff[User(r)].sec, jwt[tok[r]].iat))
    BY <1>1, Acceptance
  <2>2. Known(r) /\ TypeOK /\ ClaimsInv /\ CutoffInv
    BY <1>1, <2>1, ActiveKnown DEF Active, IInv
  <2>3. PICK u \in Users, t \in Tokens : u = User(r) /\ t = tok[r] /\ jwt[t] # None
    BY <2>2 DEF Known
  <2>4. PICK x \in Nat : x = logoutAt[u] /\ logoutAt[u] # None /\ jwt[t].at <= x
    BY <2>1, <2>2, <2>3, ClockFacts DEF Known, Held
  <2>5. jwt[t].at \in Nat /\ jwt[t].iat = Second(jwt[t].at)
    BY <2>2, <2>3, TokenFacts DEF ClaimsInv
  <2>6. CASE cutoff[u] # None
    <3>1. cutoff[u].sec = Second(x)
      BY <2>2, <2>3, <2>4, <2>6 DEF CutoffInv
    <3>2. Second(x) \in Nat /\ jwt[t].iat \in Nat /\ Second(x) >= jwt[t].iat
      BY <2>4, <2>5, SecondFacts
    <3>. QED
      BY <2>1, <2>3, <2>6, <3>1, <3>2 DEF Covers
  <2>7. CASE cutoff[u] = None
    <3>1. clock >= x + AccessTTL
      BY <2>2, <2>3, <2>4, <2>7 DEF CutoffInv
    <3>. QED
      BY <2>2, <2>3, <2>4, <3>1, ExpiredByThen
  <2>. QED
    BY <2>6, <2>7
<1>2. IInv /\ [Next]_vars => [Refused]_vars
  BY <1>1
<1>. QED
  BY <1>2, Invariance, PTL DEF Spec, LoggedOutUserRefused

===========================================================================
