-------------------------- MODULE AccountsProofs --------------------------
(***************************************************************************)
(* Theorems about Accounts, for any number of users, passwords and         *)
(* requests, any timeout and any life of a token.                          *)
(***************************************************************************)
EXTENDS Accounts, SequenceTheorems, TLAPS

\* The user n is an admin, or was one at the time t or later.
AdminSince(n, t) == users[n].role = "admin" \/ ceased[n] >= t

\* Sessions, tokens and the requests that will make them belong to accounts that
\* exist.
RowInv ==
    /\ \A n \in sessions : users[n] # None
    /\ \A t \in tokens : users[t.name] # None
    /\ \A r \in Requests :
          /\ At(r, "user") \/ At(r, "mint") => users[req[r].name] # None
          /\ At(r, "store") => users[req[r].jwt.name] # None

\* Whoever holds the role of admin, in a token, in claims that are not returned yet
\* or in a row that was read, was an admin when the request that read it began or
\* later; claims expire a token's life after they were fixed.
AdminInv ==
    /\ \A n \in Names : ceased[n] <= clock
    /\ \A r \in Requests : req[r] # None => req[r].start <= clock
    /\ \A r \in Requests : At(r, "mint") /\ req[r].role = "admin" =>
          AdminSince(req[r].name, req[r].start)
    /\ \A r \in Requests : At(r, "store") =>
          /\ req[r].jwt.exp <= clock + AccessTTL
          /\ req[r].jwt.role = "admin" => AdminSince(req[r].jwt.name, req[r].start)
    /\ \A t \in tokens :
          /\ t.exp <= clock + AccessTTL
          /\ t.role = "admin" =>
                \/ users[t.name].role = "admin"
                \/ ceased[t.name] # -1 /\ t.exp <= ceased[t.name] + RequestTimeout + AccessTTL

IInv ==
    /\ TypeOK
    /\ RowInv
    /\ ConfirmedOnce
    /\ AdminInv

----------------------------------------------------------------------------
(* Each step preserves the invariant *)

\* The types of the locals, by the place the request is at.
LEMMA LocalTypes ==
    ASSUME TypeOK, NEW r \in Requests
    PROVE  /\ req[r] # None => req[r].start \in Starts
           /\ At(r, "insert") => req[r] \in [pc : {"insert"}, name : Names,
                                             password : Passwords, start : Starts]
           /\ At(r, "user") => req[r] \in [pc : {"user"}, name : Names, start : Starts]
           /\ At(r, "mint") => req[r] \in [pc : {"mint"}, name : Names, role : RoleTexts,
                                           start : Starts]
           /\ At(r, "store") => req[r] \in [pc : {"store"}, jwt : Claims, start : Starts]
BY DEF TypeOK, At, Locals

LEMMA TypeStep ==
    ASSUME IInv, [Next]_vars
    PROVE  TypeOK'
<1>a. TypeOK
  BY DEF IInv
<1>b. clock \in Nat /\ MaxTime \in Nat /\ AccessTTL \in Nat /\ clock \in Starts
  BY <1>a, AccountBoundsAssumption DEF TypeOK, Starts
<1>c. \A r \in Requests, v \in Locals \cup {None} : Set(r, v) =>
          req' \in [Requests -> Locals \cup {None}]
  BY <1>a DEF TypeOK, Set
<1>1. CASE Tick
  BY <1>a, <1>b, <1>1 DEF Tick, TypeOK, history, Starts
<1>2. ASSUME NEW n \in Names, SessionEnds(n)
      PROVE  TypeOK'
  BY <1>a, <1>b, <1>2 DEF SessionEnds, TypeOK, history
<1>3. ASSUME NEW n \in Names, NEW role \in RoleTexts, SetRole(n, role)
      PROVE  TypeOK'
  <2>1. users' \in [Names -> User \cup {None}]
    <3>1. users[n] \in User /\ users' = [users EXCEPT ![n] = [users[n] EXCEPT !.role = role]]
      BY <1>a, <1>3 DEF SetRole, TypeOK
    <3>2. [users[n] EXCEPT !.role = role] \in User
      BY <3>1 DEF User
    <3>. QED
      BY <1>a, <3>1, <3>2 DEF TypeOK
  <2>2. ceased' \in [Names -> -1 .. MaxTime] /\ changes' \in 0 .. MaxChanges
    <3>1. clock \in -1 .. MaxTime
      BY <1>b DEF Starts
    <3>. QED
      BY <1>a, <1>3, <3>1, AccountBoundsAssumption DEF SetRole, TypeOK
  <2>. QED
    BY <1>a, <1>3, <2>1, <2>2 DEF SetRole, TypeOK
<1>4. ASSUME NEW r \in Requests, NEW n \in Names, NEW p \in Passwords, Register(r, n, p)
      PROVE  TypeOK'
  <2>1. [pc |-> "insert", name |-> n, password |-> p, start |-> clock] \in Locals
    BY <1>b DEF Locals
  <2>. QED
    BY <1>a, <1>c, <1>4, <2>1 DEF Register, TypeOK, history
<1>5. ASSUME NEW r \in Requests, NEW n \in Names, NEW p \in Passwords, Login(r, n, p)
      PROVE  TypeOK'
  <2>1. [pc |-> "mint", name |-> n, role |-> users[n].role, start |-> clock] \in Locals
    BY <1>a, <1>b, <1>5 DEF Login, Locals, TypeOK, User
  <2>. QED
    BY <1>a, <1>c, <1>5, <2>1 DEF Login, Found, TypeOK, history
<1>6. ASSUME NEW r \in Requests, NEW n \in Names, Refresh(r, n)
      PROVE  TypeOK'
  <2>1. [pc |-> "user", name |-> n, start |-> clock] \in Locals
    BY <1>b DEF Locals
  <2>. QED
    BY <1>a, <1>c, <1>6, <2>1 DEF Refresh, TypeOK, history
<1>7. ASSUME NEW r \in Requests, NEW ack \in BOOLEAN, Insert(r, ack)
      PROVE  TypeOK'
  <2>1. req[r].name \in Names /\ req[r].password \in Passwords
    BY <1>a, <1>7, LocalTypes DEF Insert
  <2>2. users' \in [Names -> User \cup {None}]
    BY <1>a, <1>7, <2>1 DEF Insert, TypeOK, User, RoleTexts, Roles
  <2>3. confirmed' \in [Names -> Seq(Passwords)]
    <3>1. Append(confirmed[req[r].name], req[r].password) \in Seq(Passwords)
      BY <1>a, <2>1, AppendProperties DEF TypeOK
    <3>. QED
      BY <1>a, <1>7, <2>1, <3>1 DEF Insert, TypeOK
  <2>. QED
    BY <1>a, <1>c, <1>7, <2>2, <2>3 DEF Insert, TypeOK
<1>8. ASSUME NEW r \in Requests, FindByID(r)
      PROVE  TypeOK'
  <2>1. req[r].name \in Names /\ req[r].start \in Starts /\ users[req[r].name] # None
    BY <1>a, <1>8, LocalTypes DEF FindByID, IInv, RowInv
  <2>2. [pc |-> "mint", name |-> req[r].name, role |-> users[req[r].name].role,
         start |-> req[r].start] \in Locals
    BY <1>a, <2>1 DEF Locals, TypeOK, User
  <2>. QED
    BY <1>a, <1>c, <1>8, <2>2 DEF FindByID, Found, TypeOK, history
<1>9. ASSUME NEW r \in Requests, Mint(r)
      PROVE  TypeOK'
  <2>1. req[r].name \in Names /\ req[r].start \in Starts
    BY <1>a, <1>9, LocalTypes DEF Mint
  <2>2. EffectiveRole(req[r].role) \in Roles
    BY <1>9 DEF Mint, EffectiveRole, ValidRole, Roles
  <2>3. clock + AccessTTL \in Nat
    BY <1>b
  <2>4. [pc |-> "store", start |-> req[r].start,
         jwt |-> [name |-> req[r].name, role |-> EffectiveRole(req[r].role),
                  exp |-> clock + AccessTTL]] \in Locals
    BY <2>1, <2>2, <2>3 DEF Locals, Claims
  <2>. QED
    BY <1>a, <1>c, <1>9, <2>4 DEF Mint, TypeOK, history
<1>10. ASSUME NEW r \in Requests, Return(r)
      PROVE  TypeOK'
  <2>1. req[r].jwt \in Claims /\ req[r].jwt.name \in Names
    BY <1>a, <1>10, LocalTypes DEF Return, Claims
  <2>. QED
    BY <1>a, <1>c, <1>10, <2>1 DEF Return, TypeOK, history
<1>11. ASSUME NEW r \in Requests, Refuse(r)
      PROVE  TypeOK'
  BY <1>a, <1>b, <1>11 DEF Refuse, Set, TypeOK, history
<1>12. CASE UNCHANGED vars
  BY <1>a, <1>b, <1>12 DEF vars, TypeOK, history
<1>. QED
  BY <1>1, <1>2, <1>3, <1>4, <1>5, <1>6, <1>7, <1>8, <1>9, <1>10, <1>11, <1>12 DEF Next,
     Conflict, MintFails, Fail

\* Rows are never deleted, so what belongs to an account goes on doing so.
LEMMA RowsStay ==
    ASSUME TypeOK, RowInv,
           \A m \in Names : users[m] # None => users'[m] # None,
           sessions' \subseteq sessions, tokens' \subseteq tokens,
           \A r \in Requests : req'[r] = req[r] \/ req'[r] = None
    PROVE  RowInv'
<1>1. \A n \in sessions : n \in Names
  BY DEF TypeOK
<1>2. \A t \in tokens : t.name \in Names
  BY DEF TypeOK, Claims
<1>3. \A r \in Requests : /\ At(r, "user") \/ At(r, "mint") => req[r].name \in Names
                          /\ At(r, "store") => req[r].jwt.name \in Names
  BY LocalTypes DEF Claims
<1>4. ASSUME NEW r \in Requests
      PROVE  /\ At(r, "user")' \/ At(r, "mint")' => users'[req'[r].name] # None
             /\ At(r, "store")' => users'[req'[r].jwt.name] # None
  BY <1>3 DEF At, RowInv
<1>. QED
  BY <1>1, <1>2, <1>4 DEF RowInv

LEMMA RowStep ==
    ASSUME IInv, [Next]_vars
    PROVE  RowInv'
<1>a. TypeOK /\ RowInv
  BY DEF IInv
<1>1. CASE Tick
  BY <1>a, <1>1, RowsStay DEF Tick
<1>2. ASSUME NEW n \in Names, SessionEnds(n)
      PROVE  RowInv'
  BY <1>a, <1>2, RowsStay DEF SessionEnds
<1>3. ASSUME NEW n \in Names, NEW role \in RoleTexts, SetRole(n, role)
      PROVE  RowInv'
  <2>1. \A m \in Names : users[m] # None => users'[m] # None
    BY <1>a, <1>3, NoRowAssumption DEF SetRole, TypeOK, User
  <2>. QED
    BY <1>a, <1>3, <2>1, RowsStay DEF SetRole
<1>4. ASSUME NEW r \in Requests, NEW n \in Names, NEW p \in Passwords, Register(r, n, p)
      PROVE  RowInv'
  BY <1>a, <1>4 DEF Register, Set, RowInv, TypeOK, At, history
<1>5. ASSUME NEW r \in Requests, NEW n \in Names, NEW p \in Passwords, Login(r, n, p)
      PROVE  RowInv'
  BY <1>a, <1>5 DEF Login, Found, Set, RowInv, TypeOK, At, history
<1>6. ASSUME NEW r \in Requests, NEW n \in Names, Refresh(r, n)
      PROVE  RowInv'
  BY <1>a, <1>6 DEF Refresh, Set, RowInv, TypeOK, At, history
<1>7. ASSUME NEW r \in Requests, NEW ack \in BOOLEAN, Insert(r, ack)
      PROVE  RowInv'
  <2>1. \A m \in Names : users[m] # None => users'[m] # None
    BY <1>a, <1>7 DEF Insert, Taken, TypeOK
  <2>. QED
    BY <1>a, <1>7, <2>1, RowsStay DEF Insert, Set, TypeOK
<1>8. ASSUME NEW r \in Requests, FindByID(r)
      PROVE  RowInv'
  BY <1>a, <1>8 DEF FindByID, Found, Set, RowInv, TypeOK, At, history
<1>9. ASSUME NEW r \in Requests, Mint(r)
      PROVE  RowInv'
  BY <1>a, <1>9 DEF Mint, Set, RowInv, TypeOK, At, history
<1>10. ASSUME NEW r \in Requests, Return(r)
      PROVE  RowInv'
  BY <1>a, <1>10 DEF Return, Set, RowInv, TypeOK, At, history
<1>11. ASSUME NEW r \in Requests, Refuse(r)
      PROVE  RowInv'
  BY <1>a, <1>11, RowsStay DEF Refuse, Set, TypeOK
<1>12. CASE UNCHANGED vars
  BY <1>a, <1>12, RowsStay DEF vars
<1>. QED
  BY <1>1, <1>2, <1>3, <1>4, <1>5, <1>6, <1>7, <1>8, <1>9, <1>10, <1>11, <1>12 DEF Next,
     Conflict, MintFails, Fail


LEMMA ConfirmedStep ==
    ASSUME IInv, [Next]_vars
    PROVE  ConfirmedOnce'
<1>a. TypeOK /\ ConfirmedOnce
  BY DEF IInv
<1>1. CASE Tick
  BY <1>a, <1>1 DEF Tick, ConfirmedOnce, history
<1>2. ASSUME NEW n \in Names, SessionEnds(n)
      PROVE  ConfirmedOnce'
  BY <1>a, <1>2 DEF SessionEnds, ConfirmedOnce, history
<1>3. ASSUME NEW n \in Names, NEW role \in RoleTexts, SetRole(n, role)
      PROVE  ConfirmedOnce'
  <2>1. \A m \in Names : /\ users[m] # None => users'[m] # None
                         /\ users[m] # None => users'[m].password = users[m].password
    BY <1>a, <1>3, NoRowAssumption DEF SetRole, TypeOK, User
  <2>. QED
    BY <1>a, <1>3, <2>1 DEF SetRole, ConfirmedOnce
<1>4. ASSUME NEW r \in Requests, NEW n \in Names, NEW p \in Passwords, Register(r, n, p)
      PROVE  ConfirmedOnce'
  BY <1>a, <1>4 DEF Register, Set, ConfirmedOnce, history
<1>5. ASSUME NEW r \in Requests, NEW n \in Names, NEW p \in Passwords, Login(r, n, p)
      PROVE  ConfirmedOnce'
  BY <1>a, <1>5 DEF Login, Found, Set, ConfirmedOnce, history
<1>6. ASSUME NEW r \in Requests, NEW n \in Names, Refresh(r, n)
      PROVE  ConfirmedOnce'
  BY <1>a, <1>6 DEF Refresh, Set, ConfirmedOnce, history
<1>7. ASSUME NEW r \in Requests, NEW ack \in BOOLEAN, Insert(r, ack)
      PROVE  ConfirmedOnce'
  <2>a. PICK n \in Names, p \in Passwords : n = req[r].name /\ p = req[r].password
    BY <1>a, <1>7, LocalTypes DEF Insert
  <2>1. users[n] = None
    BY <1>7, <2>a DEF Insert, Taken
  <2>2. confirmed[n] \in Seq(Passwords) /\ Len(confirmed[n]) \in Nat
        /\ DOMAIN confirmed[n] = 1 .. Len(confirmed[n])
    BY <1>a, <2>1, LenProperties DEF TypeOK
  <2>3. Len(confirmed[n]) = 0
    BY <1>a, <2>1, <2>2 DEF ConfirmedOnce
  <2>4. /\ users'[n] = [password |-> p, role |-> "user"]
        /\ \A m \in Names \ {n} : users'[m] = users[m] /\ confirmed'[m] = confirmed[m]
        /\ confirmed'[n] = IF ack THEN Append(confirmed[n], p) ELSE confirmed[n]
    BY <1>a, <1>7, <2>a DEF Insert, TypeOK
  <2>5. users'[n] # None /\ users'[n].password = p
    <3>1. [password |-> p, role |-> "user"] \in User
      BY DEF User, RoleTexts, Roles
    <3>. QED
      BY <2>4, <3>1, NoRowAssumption
  <2>6. /\ Len(confirmed'[n]) <= 1
        /\ \A i \in DOMAIN confirmed'[n] : confirmed'[n][i] = p
    <3>1. CASE ~ack
      BY <2>2, <2>3, <2>4, <3>1
    <3>2. CASE ack
      <4>1. confirmed'[n] = Append(confirmed[n], p)
        BY <2>4, <3>2
      <4>2. Len(confirmed'[n]) = 1 /\ confirmed'[n][1] = p
            /\ confirmed'[n] \in Seq(Passwords)
        BY <2>1, <2>2, <2>3, <4>1, AppendProperties
      <4>3. DOMAIN confirmed'[n] = 1 .. 1
        BY <4>2, LenProperties
      <4>. QED
        BY <4>2, <4>3
    <3>. QED
      BY <3>1, <3>2
  <2>. SUFFICES ASSUME NEW m \in Names
       PROVE  /\ Len(confirmed'[m]) <= 1
              /\ \A i \in DOMAIN confirmed'[m] :
                    users'[m] # None /\ users'[m].password = confirmed'[m][i]
    BY DEF ConfirmedOnce
  <2>7. CASE m = n
    BY <2>5, <2>6, <2>7
  <2>8. CASE m # n
    BY <1>a, <2>4, <2>8 DEF ConfirmedOnce
  <2>. QED
    BY <2>7, <2>8
<1>8. ASSUME NEW r \in Requests, FindByID(r)
      PROVE  ConfirmedOnce'
  BY <1>a, <1>8 DEF FindByID, Found, Set, ConfirmedOnce, history
<1>9. ASSUME NEW r \in Requests, Mint(r)
      PROVE  ConfirmedOnce'
  BY <1>a, <1>9 DEF Mint, Set, ConfirmedOnce, history
<1>10. ASSUME NEW r \in Requests, Return(r)
      PROVE  ConfirmedOnce'
  BY <1>a, <1>10 DEF Return, Set, ConfirmedOnce, history
<1>11. ASSUME NEW r \in Requests, Refuse(r)
      PROVE  ConfirmedOnce'
  BY <1>a, <1>11 DEF Refuse, Set, ConfirmedOnce, history, TypeOK
<1>12. CASE UNCHANGED vars
  BY <1>a, <1>12 DEF vars, ConfirmedOnce, history
<1>. QED
  BY <1>1, <1>2, <1>3, <1>4, <1>5, <1>6, <1>7, <1>8, <1>9, <1>10, <1>11, <1>12 DEF Next,
     Conflict, MintFails, Fail

\* As long as whoever ceases to be an admin is noted, nothing that was held stops
\* being true when time passes or roles change.
LEMMA AdminStays ==
    ASSUME TypeOK, RowInv, AdminInv,
           clock <= clock', clock' \in Nat,
           \A m \in Names : ceased'[m] = ceased[m] \/ ceased'[m] = clock,
           \A m \in Names : users[m] # None /\ users[m].role = "admin" =>
               users'[m].role = "admin" \/ ceased'[m] = clock,
           tokens' \subseteq tokens,
           \A r \in Requests : req'[r] = req[r] \/ req'[r] = None
    PROVE  AdminInv'
<1>1. /\ clock \in Nat /\ AccessTTL \in Nat /\ RequestTimeout \in Nat
      /\ \A m \in Names : ceased[m] \in Int /\ ceased[m] <= clock
  BY AccountBoundsAssumption DEF TypeOK, Starts, AdminInv
<1>2. ASSUME NEW m \in Names, users[m] # None, NEW t \in Nat, t <= clock, AdminSince(m, t)
      PROVE  AdminSince(m, t)'
  BY <1>1, <1>2 DEF AdminSince
<1>3. ASSUME NEW r \in Requests, req'[r] # None
      PROVE  /\ req'[r] = req[r] /\ req[r].start \in Nat /\ req[r].start <= clock
             /\ req'[r].start <= clock'
  <2>1. req'[r] = req[r] /\ req[r].start \in Starts
    BY <1>3, LocalTypes
  <2>. QED
    BY <1>1, <1>3, <2>1 DEF AdminInv, Starts
<1>4. ASSUME NEW r \in Requests, At(r, "mint")', req'[r].role = "admin"
      PROVE  AdminSince(req[r].name, req[r].start)'
  <2>1. At(r, "mint") /\ req'[r] = req[r]
    BY <1>4 DEF At
  <2>2. PICK m \in Names, t \in Nat : m = req[r].name /\ t = req[r].start
    BY <1>3, <1>4, <2>1, LocalTypes DEF At
  <2>3. AdminSince(m, t) /\ users[m] # None /\ t <= clock
    BY <1>3, <1>4, <2>1, <2>2 DEF AdminInv, RowInv, At
  <2>4. AdminSince(m, t)'
    BY <1>2, <2>3
  <2>. QED
    BY <2>1, <2>2, <2>4 DEF AdminSince
<1>5. ASSUME NEW r \in Requests, At(r, "store")'
      PROVE  /\ req'[r].jwt.exp <= clock' + AccessTTL
             /\ req'[r].jwt.role = "admin" => AdminSince(req[r].jwt.name, req[r].start)'
  <2>1. At(r, "store") /\ req'[r] = req[r]
    BY <1>5 DEF At
  <2>2. PICK m \in Names, t \in Nat, e \in Nat :
           m = req[r].jwt.name /\ t = req[r].start /\ e = req[r].jwt.exp
    BY <1>3, <1>5, <2>1, LocalTypes DEF At, Claims
  <2>3. e <= clock' + AccessTTL
    BY <1>1, <2>1, <2>2 DEF AdminInv
  <2>4. req[r].jwt.role = "admin" => AdminSince(m, t)'
    BY <1>2, <1>3, <1>5, <2>1, <2>2 DEF AdminInv, RowInv, At
  <2>. QED
    BY <2>1, <2>2, <2>3, <2>4 DEF AdminSince
<1>6. ASSUME NEW t \in tokens'
      PROVE  /\ t.exp <= clock' + AccessTTL
             /\ t.role = "admin" =>
                   \/ users'[t.name].role = "admin"
                   \/ /\ ceased'[t.name] # -1
                      /\ t.exp <= ceased'[t.name] + RequestTimeout + AccessTTL
  <2>1. t \in tokens /\ t.name \in Names /\ t.exp \in Nat
    BY <1>6 DEF TypeOK, Claims
  <2>2. users[t.name] # None /\ t.exp <= clock + AccessTTL
    BY <2>1 DEF RowInv, AdminInv
  <2>. QED
    BY <1>1, <2>1, <2>2 DEF AdminInv
<1>7. \A m \in Names : ceased'[m] <= clock'
  BY <1>1
<1>. QED
  BY <1>3, <1>4, <1>5, <1>6, <1>7 DEF AdminInv

LEMMA AdminStep ==
    ASSUME IInv, [Next]_vars
    PROVE  AdminInv'
<1>a. TypeOK /\ RowInv /\ AdminInv
  BY DEF IInv
<1>b. /\ clock \in Nat /\ AccessTTL \in Nat /\ RequestTimeout \in Nat
      /\ \A m \in Names : ceased[m] \in Int /\ ceased[m] <= clock
  BY <1>a, AccountBoundsAssumption DEF TypeOK, Starts, AdminInv
<1>1. CASE Tick
  BY <1>a, <1>b, <1>1, AdminStays DEF Tick, history
<1>2. ASSUME NEW n \in Names, SessionEnds(n)
      PROVE  AdminInv'
  BY <1>a, <1>b, <1>2, AdminStays DEF SessionEnds, history
<1>3. ASSUME NEW n \in Names, NEW role \in RoleTexts, SetRole(n, role)
      PROVE  AdminInv'
  <2>1. \A m \in Names : users[m] # None /\ users[m].role = "admin" =>
            users'[m].role = "admin" \/ ceased'[m] = clock
    BY <1>a, <1>3 DEF SetRole, TypeOK
  <2>2. \A m \in Names : ceased'[m] = ceased[m] \/ ceased'[m] = clock
    BY <1>a, <1>3 DEF SetRole, TypeOK
  <2>. QED
    BY <1>a, <1>b, <1>3, <2>1, <2>2, AdminStays DEF SetRole
<1>4. ASSUME NEW r \in Requests, NEW n \in Names, NEW p \in Passwords, Register(r, n, p)
      PROVE  AdminInv'
  BY <1>a, <1>b, <1>4 DEF Register, Set, AdminInv, AdminSince, TypeOK, At, history
<1>5. ASSUME NEW r \in Requests, NEW n \in Names, NEW p \in Passwords, Login(r, n, p)
      PROVE  AdminInv'
  BY <1>a, <1>b, <1>5 DEF Login, Found, Set, AdminInv, AdminSince, TypeOK, At, history
<1>6. ASSUME NEW r \in Requests, NEW n \in Names, Refresh(r, n)
      PROVE  AdminInv'
  BY <1>a, <1>b, <1>6 DEF Refresh, Set, AdminInv, AdminSince, TypeOK, At, history
<1>7. ASSUME NEW r \in Requests, NEW ack \in BOOLEAN, Insert(r, ack)
      PROVE  AdminInv'
  <2>1. \A m \in Names : users[m] # None => users'[m] = users[m]
    BY <1>a, <1>7 DEF Insert, Taken, TypeOK
  <2>. QED
    BY <1>a, <1>b, <1>7, <2>1, AdminStays DEF Insert, Set, TypeOK
<1>8. ASSUME NEW r \in Requests, FindByID(r)
      PROVE  AdminInv'
  BY <1>a, <1>b, <1>8 DEF FindByID, Found, Set, AdminInv, AdminSince, TypeOK, At, history
<1>9. ASSUME NEW r \in Requests, Mint(r)
      PROVE  AdminInv'
  <2>1. req[r].role = "admin" <=> EffectiveRole(req[r].role) = "admin"
    BY <1>9 DEF Mint, EffectiveRole, ValidRole, Roles
  <2>2. At(r, "mint") /\ req[r].start <= clock
    BY <1>a, <1>9 DEF Mint, At, AdminInv
  <2>3. req'[r] = [pc |-> "store", start |-> req[r].start,
                   jwt |-> [name |-> req[r].name, role |-> EffectiveRole(req[r].role),
                            exp |-> clock + AccessTTL]]
        /\ \A q \in Requests \ {r} : req'[q] = req[q]
    BY <1>a, <1>9 DEF Mint, Set, TypeOK
  <2>4. users' = users /\ ceased' = ceased /\ clock' = clock /\ tokens' = tokens
    BY <1>9 DEF Mint, history
  <2>5. req'[r].jwt.role = "admin" => AdminSince(req'[r].jwt.name, req'[r].start)
    BY <1>a, <2>1, <2>2, <2>3 DEF AdminInv
  <2>. QED
    BY <1>a, <1>b, <2>2, <2>3, <2>4, <2>5 DEF AdminInv, AdminSince, At
<1>10. ASSUME NEW r \in Requests, Return(r)
      PROVE  AdminInv'
  <2>1. At(r, "store") /\ req[r].jwt \in Claims /\ req[r].start \in Starts
        /\ clock <= req[r].start + RequestTimeout
    BY <1>a, <1>10, LocalTypes DEF Return, InTime
  <2>. DEFINE t == req[r].jwt
  <2>2. /\ t.exp <= clock + AccessTTL /\ t.exp \in Nat /\ t.name \in Names
        /\ req[r].start \in Nat
        /\ t.role = "admin" => AdminSince(t.name, req[r].start)
    BY <1>a, <2>1 DEF AdminInv, Claims, Starts
  <2>3. t.role = "admin" =>
            \/ users[t.name].role = "admin"
            \/ ceased[t.name] # -1 /\ t.exp <= ceased[t.name] + RequestTimeout + AccessTTL
    BY <1>b, <2>1, <2>2 DEF AdminSince
  <2>4. /\ tokens' = tokens \cup {t} /\ \A q \in Requests : req'[q] = req[q] \/ req'[q] = None
        /\ users' = users /\ ceased' = ceased /\ clock' = clock
    BY <1>a, <1>10 DEF Return, Set, TypeOK, history
  <2>. QED
    BY <1>a, <2>2, <2>3, <2>4 DEF AdminInv, AdminSince, At
<1>11. ASSUME NEW r \in Requests, Refuse(r)
      PROVE  AdminInv'
  BY <1>a, <1>b, <1>11, AdminStays DEF Refuse, Set, TypeOK, history
<1>12. CASE UNCHANGED vars
  BY <1>a, <1>b, <1>12, AdminStays DEF vars
<1>. QED
  BY <1>1, <1>2, <1>3, <1>4, <1>5, <1>6, <1>7, <1>8, <1>9, <1>10, <1>11, <1>12 DEF Next,
     Conflict, MintFails, Fail

----------------------------------------------------------------------------
(* Theorems *)

LEMMA InitInv ==
    ASSUME Init
    PROVE  IInv
<1>1. TypeOK
  BY AccountBoundsAssumption, EmptySeq DEF Init, TypeOK, Starts
<1>2. RowInv /\ AdminInv
  BY AccountBoundsAssumption DEF Init, RowInv, AdminInv, At
<1>3. ConfirmedOnce
  <2>. SUFFICES ASSUME NEW n \in Names
       PROVE  /\ Len(confirmed[n]) <= 1
              /\ \A i \in DOMAIN confirmed[n] :
                    users[n] # None /\ users[n].password = confirmed[n][i]
    BY DEF ConfirmedOnce
  <2>1. confirmed[n] = <<>>
    BY DEF Init
  <2>2. Len(confirmed[n]) = 0 /\ DOMAIN confirmed[n] = {}
    BY <2>1
  <2>. QED
    BY <2>2
<1>. QED
  BY <1>1, <1>2, <1>3 DEF IInv

\* The inductive invariant holds of every interleaving of registrations, logins,
\* refreshes and changes of a role.
THEOREM Invariance == Spec => []IInv
<1>1. Init => IInv
  BY InitInv
<1>2. IInv /\ [Next]_vars => IInv'
  BY TypeStep, RowStep, ConfirmedStep, AdminStep DEF IInv
<1>. QED
  BY <1>1, <1>2, PTL DEF Spec

\* The users table, the claims and the locals keep their types; no JWT names a role
\* that ValidRole does not know.
THEOREM TypeCorrect == Spec => []TypeOK
<1>1. IInv => TypeOK
  BY DEF IInv
<1>. QED
  BY <1>1, Invariance, PTL

\* One registration of a username is ever answered 201, and its password counts.
THEOREM RegistrationsUnique == Spec => []ConfirmedOnce
<1>1. IInv => ConfirmedOnce
  BY DEF IInv
<1>. QED
  BY <1>1, Invariance, PTL

\* A stale role claim is believed on /admin for a request's time plus a token's life
\* after the role was taken away, and no longer.
THEOREM StaleRoleEnds == Spec => []AdminEnds
<1>1. ASSUME IInv
      PROVE  AdminEnds
  <2>. SUFFICES ASSUME NEW t \in tokens, AdminMe(t)
       PROVE  \/ users[t.name].role = "admin"
              \/ ceased[t.name] # -1 /\ clock < ceased[t.name] + RequestTimeout + AccessTTL
    BY DEF AdminEnds
  <2>1. t.role = "admin" /\ clock < t.exp
    BY DEF AdminMe, JWTAuth, RequireRole
  <2>2. t.exp \in Nat /\ t.name \in Names /\ clock \in Nat /\ ceased[t.name] \in Int
        /\ RequestTimeout \in Nat /\ AccessTTL \in Nat
    BY <1>1, AccountBoundsAssumption DEF IInv, TypeOK, Claims, Starts
  <2>. QED
    BY <1>1, <2>1, <2>2 DEF IInv, AdminInv
<1>. QED
  BY <1>1, Invariance, PTL

============================================================================
