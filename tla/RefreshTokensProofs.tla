------------------------ MODULE RefreshTokensProofs ------------------------
(***************************************************************************)
(* Theorems about RefreshTokens, for any number of users, tokens and       *)
(* concurrent requests.                                                    *)
(***************************************************************************)
EXTENDS RefreshTokens, TLAPS

\* What a handler's locals say of the table, label by label.
HandlerInv ==
    \A r \in Requests :
        /\ new[r] # None <=> pc[r] \in {"create", "consume", "commit"}
        /\ new[r] # None =>
              /\ new[r] \notin stored
              /\ meta[new[r]] # None
        /\ pc[r] \in {"check", "consume", "commit"} => tok[r] \in stored
        /\ pc[r] = "create" => meta[new[r]].family = new[r]
        /\ pc[r] \in {"consume", "commit"} =>
              /\ meta[new[r]].family = meta[tok[r]].family
              /\ meta[new[r]].user = meta[tok[r]].user
        /\ pc[r] = "commit" => Live(tok[r])
        /\ pc[r] = "check" /\ "consumed" \in seen[r] => tok[r] \in consumed
        /\ pc[r] # "revoking" => snap[r] = {}

\* Logouts act for their caller; refreshes have none and alarm for a reason.
CallerInv ==
    \A r \in Requests :
        /\ pc[r] \notin {"revoke", "revoking"} => caller[r] = None
        /\ caller[r] # None =>
              \/ scope[r] = caller[r]
              \/ scope[r] \in stored /\ meta[scope[r]].user = caller[r]

\* Two requests mint different tokens and do not rotate the same one at a time.
ExclusionInv ==
    \A q, r \in Requests :
        /\ new[q] = new[r] /\ new[r] # None => q = r
        /\ pc[q] = "commit" /\ pc[r] = "commit" /\ tok[q] = tok[r] => q = r

\* A family is named by its first row, which belongs to it, and has one user.
FamilyInv ==
    \A t \in stored :
        /\ meta[t] # None
        /\ meta[t].family \in stored
        /\ meta[meta[t].family].user = meta[t].user
        /\ meta[meta[t].family].family = meta[t].family

\* Only stored rows have a parent, and it is consumed.
ParentInv ==
    \A t \in Tokens :
        parent[t] # None => t \in stored /\ parent[t] \in consumed

\* The rows a revocation misses: any row of a family it visits is in its
\* snapshot or revoked, unless a rotation of that family overlaps it.
SnapshotInv ==
    \A r \in Requests :
        /\ snap[r] \subseteq stored
        /\ \A t \in snap[r] : InScope(t, scope[r])
        /\ \A s \in snap[r], t \in stored :
              meta[t].family = meta[s].family /\ meta[s].family \notin overlap[r]
                  => t \in snap[r] \cup revoked
        /\ \A s \in snap[r], q \in Requests :
              pc[q] = "commit" /\ meta[tok[q]].family = meta[s].family
                  => meta[s].family \in overlap[r]

\* Families revoked cleanly are families of the table.
CleanlyInv == cleanly \subseteq stored

IInv ==
    /\ TypeOK
    /\ HandlerInv
    /\ CallerInv
    /\ ExclusionInv
    /\ FamilyInv
    /\ OneLivePerFamily
    /\ ParentInv
    /\ RotationAtomic
    /\ SnapshotInv
    /\ CleanlyInv
    /\ RevokedStaysDead
    /\ NoFalseAlarm

----------------------------------------------------------------------------
(* Facts about the rows *)

\* A stored row has been built by Login or Refresh: its columns are set.
LEMMA StoredColumns ==
    ASSUME IInv
    PROVE  \A t \in stored :
              t \in Tokens /\ meta[t].family \in Tokens /\ meta[t].user \in Users
<1>1. \A t \in stored : t \in Tokens /\ meta[t] \in Meta
  BY DEF IInv, TypeOK, FamilyInv
<1>. QED
  BY <1>1 DEF Meta

----------------------------------------------------------------------------
(* Every step of every request preserves each conjunct of IInv *)

\* No handler step breaks the shape of the table or of its locals.
LEMMA TypeStep == IInv /\ [Next]_vars => TypeOK'
<1>. SUFFICES ASSUME IInv, [Next]_vars PROVE TypeOK'
  OBVIOUS
<1>m. \A t \in stored :
        t \in Tokens /\ meta[t].family \in Tokens /\ meta[t].user \in Users
  BY StoredColumns
<1>. USE DEF IInv, TypeOK, HandlerInv, SnapshotInv, Meta, Labels
<1>1. CASE Tick
  BY <1>m, TTLAssumption, <1>1 DEF Tick, table, locals, history
<1>2. ASSUME NEW r \in Requests, NEW u \in Users, NEW t \in Tokens, Login(r, u, t)
      PROVE TypeOK'
  BY <1>m, TTLAssumption, <1>2 DEF Login, Goto, table, history
<1>3. ASSUME NEW r \in Requests, NEW ack \in BOOLEAN, Create(r, ack) PROVE TypeOK'
  BY <1>m, TTLAssumption, <1>3 DEF Create, Goto, Finish, table, history
<1>4. ASSUME NEW r \in Requests, NEW t \in Tokens, RefreshFind(r, t) PROVE TypeOK'
  BY <1>m, TTLAssumption, <1>4 DEF RefreshFind, Goto, table, history
<1>5. ASSUME NEW r \in Requests, RefreshRefuse(r) PROVE TypeOK'
  BY <1>m, TTLAssumption, <1>5 DEF RefreshRefuse, Goto, Finish, table, history
<1>6. ASSUME NEW r \in Requests, RefreshReuse(r) PROVE TypeOK'
  BY <1>m, TTLAssumption, <1>6 DEF RefreshReuse, Goto, table, history
<1>7. ASSUME NEW r \in Requests, NEW t \in Tokens, RefreshMint(r, t) PROVE TypeOK'
  BY <1>m, TTLAssumption, <1>7 DEF RefreshMint, Goto, table, history
<1>8. ASSUME NEW r \in Requests, RotateConsume(r) PROVE TypeOK'
  BY <1>m, TTLAssumption, <1>8 DEF RotateConsume, Consumable, Goto, table, history
<1>9. ASSUME NEW r \in Requests, RotateLost(r) PROVE TypeOK'
  BY <1>m, TTLAssumption, <1>9 DEF RotateLost, Alarm, Consumable, Goto, table, history
<1>10. ASSUME NEW r \in Requests, NEW ack \in BOOLEAN, RotateCommit(r, ack)
      PROVE TypeOK'
  BY <1>m, TTLAssumption, <1>10 DEF RotateCommit, Goto, Finish, table, history
<1>11. ASSUME NEW r \in Requests, NEW u \in Users, NEW t \in Tokens,
             LogoutFamily(r, u, t)
      PROVE TypeOK'
  BY <1>m, TTLAssumption, <1>11 DEF LogoutFamily, OwnRow, Goto, table, history
<1>12. ASSUME NEW r \in Requests, NEW u \in Users, LogoutAll(r, u) PROVE TypeOK'
  BY <1>m, TTLAssumption, <1>12 DEF LogoutAll, Goto, table, history
<1>13. ASSUME NEW r \in Requests, RevokeSnapshot(r) PROVE TypeOK'
  BY <1>m, TTLAssumption, <1>13 DEF RevokeSnapshot, Goto, table, history, Families
<1>14. ASSUME NEW r \in Requests, RevokeApply(r) PROVE TypeOK'
  BY <1>m, TTLAssumption, <1>14
     DEF RevokeApply, Goto, Finish, table, history, Families
<1>15. ASSUME NEW r \in Requests, Fail(r) PROVE TypeOK'
  BY <1>m, TTLAssumption, <1>15 DEF Fail, Abort, Goto, Finish, table, history
<1>16. CASE UNCHANGED vars
  BY <1>16 DEF vars
<1>. QED
  BY <1>1, <1>2, <1>3, <1>4, <1>5, <1>6, <1>7, <1>8,
     <1>9, <1>10, <1>11, <1>12, <1>13, <1>14, <1>15, <1>16
     DEF Next, Receive, Step

\* A handler's locals stay in step with the table; the row it has locked stays live.
LEMMA HandlerStep == IInv /\ [Next]_vars => HandlerInv'
<1>. SUFFICES ASSUME IInv, [Next]_vars PROVE HandlerInv'
  OBVIOUS
<1>m. \A t \in stored :
        t \in Tokens /\ meta[t].family \in Tokens /\ meta[t].user \in Users
  BY StoredColumns
<1>. USE DEF IInv, TypeOK, HandlerInv, ExclusionInv, FamilyInv, Labels
<1>1. CASE Tick
  BY <1>m, NamesAssumption, MetaAssumption, <1>1
     DEF Tick, table, locals, history, Fresh, Live, Locked, Meta
<1>2. ASSUME NEW r \in Requests, NEW u \in Users, NEW t \in Tokens, Login(r, u, t)
      PROVE HandlerInv'
  <2>1. new[r] = None /\ t \notin stored /\ \A q \in Requests : new[q] # t
    BY <1>2 DEF Login, Fresh
  <2>2. meta'[t] \in Meta /\ \A s \in Tokens \ {t} : meta'[s] = meta[s]
    BY <1>m, <1>2, TTLAssumption DEF Login, Meta
  <2>3. /\ new' = [new EXCEPT ![r] = t]
        /\ pc' = [pc EXCEPT ![r] = "create"]
        /\ UNCHANGED <<stored, consumed, revoked, tok, seen, snap>>
    BY <1>2 DEF Login, Goto, table, history
  <2>4. ASSUME NEW q \in Requests, q # r PROVE HandlerInv!(q)'
    <3>1. pc'[q] = pc[q] /\ new'[q] = new[q] /\ tok'[q] = tok[q] /\ seen'[q] = seen[q]
          /\ snap'[q] = snap[q]
      BY <2>3, <2>4
    <3>2. \A s \in Tokens \ {t} : meta'[s] = meta[s]
      BY <2>2
    <3>3. new[q] # None => new[q] \in Tokens \ {t}
      BY <2>1
    <3>4. pc[q] \in {"check", "consume", "commit"} => tok[q] \in Tokens \ {t}
      BY <2>1, <1>m
    <3>5. stored' = stored /\ consumed' = consumed /\ revoked' = revoked
      BY <2>3
    <3>. QED
      BY <3>1, <3>2, <3>3, <3>4, <3>5 DEF Live
  <2>5. HandlerInv!(r)'
    BY <2>1, <2>2, <2>3, <1>m, <1>2, NamesAssumption, MetaAssumption DEF Login, Live
  <2>. QED
    BY <2>4, <2>5
<1>3. ASSUME NEW r \in Requests, NEW ack \in BOOLEAN, Create(r, ack)
      PROVE HandlerInv'
  BY <1>m, NamesAssumption, MetaAssumption, <1>3
     DEF Create, Goto, Finish, table, history, Fresh, Live, Locked, Meta
<1>4. ASSUME NEW r \in Requests, NEW t \in Tokens, RefreshFind(r, t)
      PROVE HandlerInv'
  BY <1>m, NamesAssumption, MetaAssumption, <1>4
     DEF RefreshFind, Goto, table, history, Fresh, Live, Locked, Meta
<1>5. ASSUME NEW r \in Requests, RefreshRefuse(r) PROVE HandlerInv'
  BY <1>m, NamesAssumption, MetaAssumption, <1>5
     DEF RefreshRefuse, Goto, Finish, table, history, Fresh, Live, Locked, Meta
<1>6. ASSUME NEW r \in Requests, RefreshReuse(r) PROVE HandlerInv'
  BY <1>m, NamesAssumption, MetaAssumption, <1>6
     DEF RefreshReuse, Goto, table, history, Fresh, Live, Locked, Meta
<1>7. ASSUME NEW r \in Requests, NEW t \in Tokens, RefreshMint(r, t)
      PROVE HandlerInv'
  <2>1. new[r] = None /\ t \notin stored /\ \A q \in Requests : new[q] # t
    BY <1>7 DEF RefreshMint, Fresh
  <2>2. meta'[t] \in Meta /\ \A s \in Tokens \ {t} : meta'[s] = meta[s]
    BY <1>m, <1>7, TTLAssumption DEF RefreshMint, Meta
  <2>3. /\ new' = [new EXCEPT ![r] = t]
        /\ pc' = [pc EXCEPT ![r] = "consume"]
        /\ UNCHANGED <<stored, consumed, revoked, tok, seen, snap>>
    BY <1>7 DEF RefreshMint, Goto, table, history
  <2>4. ASSUME NEW q \in Requests, q # r PROVE HandlerInv!(q)'
    <3>1. pc'[q] = pc[q] /\ new'[q] = new[q] /\ tok'[q] = tok[q] /\ seen'[q] = seen[q]
          /\ snap'[q] = snap[q]
      BY <2>3, <2>4
    <3>2. \A s \in Tokens \ {t} : meta'[s] = meta[s]
      BY <2>2
    <3>3. new[q] # None => new[q] \in Tokens \ {t}
      BY <2>1
    <3>4. pc[q] \in {"check", "consume", "commit"} => tok[q] \in Tokens \ {t}
      BY <2>1, <1>m
    <3>5. stored' = stored /\ consumed' = consumed /\ revoked' = revoked
      BY <2>3
    <3>. QED
      BY <3>1, <3>2, <3>3, <3>4, <3>5 DEF Live
  <2>5. HandlerInv!(r)'
    <3>1. pc'[r] = "consume" /\ new'[r] = t /\ tok'[r] = tok[r] /\ seen'[r] = seen[r]
          /\ snap'[r] = {} /\ stored' = stored /\ t # None
      BY <2>3, <1>7, NamesAssumption DEF RefreshMint
    <3>2. tok[r] \in stored /\ meta'[tok[r]] = meta[tok[r]]
      BY <2>1, <2>2, <1>m, <1>7 DEF RefreshMint
    <3>3. /\ meta'[t] # None
          /\ meta'[t].family = meta[tok[r]].family
          /\ meta'[t].user = meta[tok[r]].user
      BY <2>2, <1>7, MetaAssumption DEF RefreshMint
    <3>. QED
      BY <2>1, <3>1, <3>2, <3>3
  <2>. QED
    BY <2>4, <2>5
<1>8. ASSUME NEW r \in Requests, RotateConsume(r) PROVE HandlerInv'
  BY <1>m, NamesAssumption, MetaAssumption, <1>8
     DEF RotateConsume, Consumable, Goto, table, history, Fresh, Live, Locked, Meta
<1>9. ASSUME NEW r \in Requests, RotateLost(r) PROVE HandlerInv'
  BY <1>m, NamesAssumption, MetaAssumption, <1>9
     DEF RotateLost, Alarm, Consumable, Goto, table, history, Fresh, Live, Locked, Meta
<1>10. ASSUME NEW r \in Requests, NEW ack \in BOOLEAN, RotateCommit(r, ack)
      PROVE HandlerInv'
  BY <1>m, NamesAssumption, MetaAssumption, <1>10
     DEF RotateCommit, Goto, Finish, table, history, Fresh, Live, Locked, Meta
<1>11. ASSUME NEW r \in Requests, NEW u \in Users, NEW t \in Tokens,
             LogoutFamily(r, u, t)
      PROVE HandlerInv'
  BY <1>m, NamesAssumption, MetaAssumption, <1>11
     DEF LogoutFamily, OwnRow, Goto, table, history, Fresh, Live, Locked, Meta
<1>12. ASSUME NEW r \in Requests, NEW u \in Users, LogoutAll(r, u) PROVE HandlerInv'
  BY <1>m, NamesAssumption, MetaAssumption, <1>12
     DEF LogoutAll, Goto, table, history, Fresh, Live, Locked, Meta
<1>13. ASSUME NEW r \in Requests, RevokeSnapshot(r) PROVE HandlerInv'
  BY <1>m, NamesAssumption, MetaAssumption, <1>13
     DEF RevokeSnapshot, Goto, table, history, Fresh, Live, Locked, Meta
<1>14. ASSUME NEW r \in Requests, RevokeApply(r) PROVE HandlerInv'
  BY <1>m, NamesAssumption, MetaAssumption, <1>14
     DEF RevokeApply, Goto, Finish, table, history, Fresh, Live, Locked, Meta
<1>15. ASSUME NEW r \in Requests, Fail(r) PROVE HandlerInv'
  BY <1>m, NamesAssumption, MetaAssumption, <1>15
     DEF Fail, Abort, Goto, Finish, table, history, Fresh, Live, Locked, Meta
<1>16. CASE UNCHANGED vars
  BY <1>16 DEF vars, Fresh, Live, Locked, Meta
<1>. HIDE DEF IInv, TypeOK, HandlerInv, ExclusionInv, FamilyInv, Labels
<1>. QED
  BY <1>1, <1>2, <1>3, <1>4, <1>5, <1>6, <1>7, <1>8,
     <1>9, <1>10, <1>11, <1>12, <1>13, <1>14, <1>15, <1>16
     DEF Next, Receive, Step

\* A logout's scope stays its caller or one of the caller's families.
LEMMA CallerStep == IInv /\ [Next]_vars => CallerInv'
<1>. SUFFICES ASSUME IInv, [Next]_vars PROVE CallerInv'
  OBVIOUS
<1>m. \A t \in stored :
        t \in Tokens /\ meta[t].family \in Tokens /\ meta[t].user \in Users
  BY StoredColumns
<1>. USE DEF IInv, TypeOK, HandlerInv, CallerInv, FamilyInv, Labels
<1>1. CASE Tick
  BY <1>m, NamesAssumption, MetaAssumption, <1>1
     DEF Tick, table, locals, history, Fresh, Meta
<1>2. ASSUME NEW r \in Requests, NEW u \in Users, NEW t \in Tokens, Login(r, u, t)
      PROVE CallerInv'
  BY <1>m, NamesAssumption, MetaAssumption, <1>2
     DEF Login, Goto, table, history, Fresh, Meta
<1>3. ASSUME NEW r \in Requests, NEW ack \in BOOLEAN, Create(r, ack)
      PROVE CallerInv'
  BY <1>m, NamesAssumption, MetaAssumption, <1>3
     DEF Create, Goto, Finish, table, history, Fresh, Meta
<1>4. ASSUME NEW r \in Requests, NEW t \in Tokens, RefreshFind(r, t)
      PROVE CallerInv'
  BY <1>m, NamesAssumption, MetaAssumption, <1>4
     DEF RefreshFind, Goto, table, history, Fresh, Meta
<1>5. ASSUME NEW r \in Requests, RefreshRefuse(r) PROVE CallerInv'
  BY <1>m, NamesAssumption, MetaAssumption, <1>5
     DEF RefreshRefuse, Goto, Finish, table, history, Fresh, Meta
<1>6. ASSUME NEW r \in Requests, RefreshReuse(r) PROVE CallerInv'
  BY <1>m, NamesAssumption, MetaAssumption, <1>6
     DEF RefreshReuse, Goto, table, history, Fresh, Meta
<1>7. ASSUME NEW r \in Requests, NEW t \in Tokens, RefreshMint(r, t)
      PROVE CallerInv'
  BY <1>m, NamesAssumption, MetaAssumption, <1>7
     DEF RefreshMint, Goto, table, history, Fresh, Meta
<1>8. ASSUME NEW r \in Requests, RotateConsume(r) PROVE CallerInv'
  BY <1>m, NamesAssumption, MetaAssumption, <1>8
     DEF RotateConsume, Consumable, Goto, table, history, Fresh, Meta
<1>9. ASSUME NEW r \in Requests, RotateLost(r) PROVE CallerInv'
  BY <1>m, NamesAssumption, MetaAssumption, <1>9
     DEF RotateLost, Alarm, Consumable, Goto, table, history, Fresh, Meta
<1>10. ASSUME NEW r \in Requests, NEW ack \in BOOLEAN, RotateCommit(r, ack)
      PROVE CallerInv'
  BY <1>m, NamesAssumption, MetaAssumption, <1>10
     DEF RotateCommit, Goto, Finish, table, history, Fresh, Meta
<1>11. ASSUME NEW r \in Requests, NEW u \in Users, NEW t \in Tokens,
             LogoutFamily(r, u, t)
      PROVE CallerInv'
  BY <1>m, NamesAssumption, MetaAssumption, <1>11
     DEF LogoutFamily, OwnRow, Goto, table, history, Fresh, Meta
<1>12. ASSUME NEW r \in Requests, NEW u \in Users, LogoutAll(r, u) PROVE CallerInv'
  BY <1>m, NamesAssumption, MetaAssumption, <1>12
     DEF LogoutAll, Goto, table, history, Fresh, Meta
<1>13. ASSUME NEW r \in Requests, RevokeSnapshot(r) PROVE CallerInv'
  BY <1>m, NamesAssumption, MetaAssumption, <1>13
     DEF RevokeSnapshot, Goto, table, history, Fresh, Meta
<1>14. ASSUME NEW r \in Requests, RevokeApply(r) PROVE CallerInv'
  BY <1>m, NamesAssumption, MetaAssumption, <1>14
     DEF RevokeApply, Goto, Finish, table, history, Fresh, Meta
<1>15. ASSUME NEW r \in Requests, Fail(r) PROVE CallerInv'
  BY <1>m, NamesAssumption, MetaAssumption, <1>15
     DEF Fail, Abort, Goto, Finish, table, history, Fresh, Meta
<1>16. CASE UNCHANGED vars
  BY <1>16 DEF vars, Fresh, Meta
<1>. QED
  BY <1>1, <1>2, <1>3, <1>4, <1>5, <1>6, <1>7, <1>8,
     <1>9, <1>10, <1>11, <1>12, <1>13, <1>14, <1>15, <1>16
     DEF Next, Receive, Step

\* Consumed and revoked are final, so an alarm stays justified.
LEMMA AlarmStep == IInv /\ [Next]_vars => NoFalseAlarm'
<1>. SUFFICES ASSUME IInv, [Next]_vars PROVE NoFalseAlarm'
  OBVIOUS
<1>. USE DEF IInv, TypeOK, HandlerInv, CallerInv, NoFalseAlarm
<1>1. CASE Tick
  BY NamesAssumption, <1>1 DEF Tick, table, locals, history, Live, Labels
<1>2. ASSUME NEW r \in Requests, NEW u \in Users, NEW t \in Tokens, Login(r, u, t)
      PROVE NoFalseAlarm'
  BY NamesAssumption, <1>2 DEF Login, Goto, table, history, Live, Labels
<1>3. ASSUME NEW r \in Requests, NEW ack \in BOOLEAN, Create(r, ack)
      PROVE NoFalseAlarm'
  BY NamesAssumption, <1>3 DEF Create, Goto, Finish, table, history, Live, Labels
<1>4. ASSUME NEW r \in Requests, NEW t \in Tokens, RefreshFind(r, t)
      PROVE NoFalseAlarm'
  BY NamesAssumption, <1>4 DEF RefreshFind, Goto, table, history, Live, Labels
<1>5. ASSUME NEW r \in Requests, RefreshRefuse(r) PROVE NoFalseAlarm'
  BY NamesAssumption, <1>5
     DEF RefreshRefuse, Goto, Finish, table, history, Live, Labels
<1>6. ASSUME NEW r \in Requests, RefreshReuse(r) PROVE NoFalseAlarm'
  BY NamesAssumption, <1>6 DEF RefreshReuse, Goto, table, history, Live, Labels
<1>7. ASSUME NEW r \in Requests, NEW t \in Tokens, RefreshMint(r, t)
      PROVE NoFalseAlarm'
  BY NamesAssumption, <1>7 DEF RefreshMint, Goto, table, history, Live, Labels
<1>8. ASSUME NEW r \in Requests, RotateConsume(r) PROVE NoFalseAlarm'
  BY NamesAssumption, <1>8 DEF RotateConsume, Consumable, Goto, table, history, Live, Labels
<1>9. ASSUME NEW r \in Requests, RotateLost(r) PROVE NoFalseAlarm'
  BY NamesAssumption, <1>9 DEF RotateLost, Alarm, Consumable, Goto, table, history, Live, Labels
<1>10. ASSUME NEW r \in Requests, NEW ack \in BOOLEAN, RotateCommit(r, ack)
      PROVE NoFalseAlarm'
  BY NamesAssumption, <1>10
     DEF RotateCommit, Goto, Finish, table, history, Live, Labels
<1>11. ASSUME NEW r \in Requests, NEW u \in Users, NEW t \in Tokens,
             LogoutFamily(r, u, t)
      PROVE NoFalseAlarm'
  BY NamesAssumption, <1>11 DEF LogoutFamily, OwnRow, Goto, table, history, Live, Labels
<1>12. ASSUME NEW r \in Requests, NEW u \in Users, LogoutAll(r, u)
      PROVE NoFalseAlarm'
  BY NamesAssumption, <1>12 DEF LogoutAll, Goto, table, history, Live, Labels
<1>13. ASSUME NEW r \in Requests, RevokeSnapshot(r) PROVE NoFalseAlarm'
  BY NamesAssumption, <1>13 DEF RevokeSnapshot, Goto, table, history, Live, Labels
<1>14. ASSUME NEW r \in Requests, RevokeApply(r) PROVE NoFalseAlarm'
  BY NamesAssumption, <1>14
     DEF RevokeApply, Goto, Finish, table, history, Live, Labels
<1>15. ASSUME NEW r \in Requests, Fail(r) PROVE NoFalseAlarm'
  BY NamesAssumption, <1>15 DEF Fail, Abort, Goto, Finish, table, history, Live, Labels
<1>16. CASE UNCHANGED vars
  BY <1>16 DEF vars, Live, Labels
<1>. QED
  BY <1>1, <1>2, <1>3, <1>4, <1>5, <1>6, <1>7, <1>8,
     <1>9, <1>10, <1>11, <1>12, <1>13, <1>14, <1>15, <1>16
     DEF Next, Receive, Step

\* A minted token is fresh, and a row lock has one holder.
LEMMA ExclusionStep == IInv /\ [Next]_vars => ExclusionInv'
<1>. SUFFICES ASSUME IInv, [Next]_vars PROVE ExclusionInv'
  OBVIOUS
<1>. USE DEF IInv, TypeOK, HandlerInv, ExclusionInv, Labels
<1>1. CASE Tick
  BY NamesAssumption, <1>1 DEF Tick, table, locals, history, Fresh, Locked
<1>2. ASSUME NEW r \in Requests, NEW u \in Users, NEW t \in Tokens, Login(r, u, t)
      PROVE ExclusionInv'
  BY NamesAssumption, <1>2 DEF Login, Goto, table, history, Fresh, Locked
<1>3. ASSUME NEW r \in Requests, NEW ack \in BOOLEAN, Create(r, ack)
      PROVE ExclusionInv'
  BY NamesAssumption, <1>3 DEF Create, Goto, Finish, table, history, Fresh, Locked
<1>4. ASSUME NEW r \in Requests, NEW t \in Tokens, RefreshFind(r, t)
      PROVE ExclusionInv'
  BY NamesAssumption, <1>4 DEF RefreshFind, Goto, table, history, Fresh, Locked
<1>5. ASSUME NEW r \in Requests, RefreshRefuse(r) PROVE ExclusionInv'
  BY NamesAssumption, <1>5
     DEF RefreshRefuse, Goto, Finish, table, history, Fresh, Locked
<1>6. ASSUME NEW r \in Requests, RefreshReuse(r) PROVE ExclusionInv'
  BY NamesAssumption, <1>6 DEF RefreshReuse, Goto, table, history, Fresh, Locked
<1>7. ASSUME NEW r \in Requests, NEW t \in Tokens, RefreshMint(r, t)
      PROVE ExclusionInv'
  BY NamesAssumption, <1>7 DEF RefreshMint, Goto, table, history, Fresh, Locked
<1>8. ASSUME NEW r \in Requests, RotateConsume(r) PROVE ExclusionInv'
  BY NamesAssumption, <1>8 DEF RotateConsume, Consumable, Goto, table, history, Fresh, Locked
<1>9. ASSUME NEW r \in Requests, RotateLost(r) PROVE ExclusionInv'
  BY NamesAssumption, <1>9 DEF RotateLost, Alarm, Consumable, Goto, table, history, Fresh, Locked
<1>10. ASSUME NEW r \in Requests, NEW ack \in BOOLEAN, RotateCommit(r, ack)
      PROVE ExclusionInv'
  BY NamesAssumption, <1>10
     DEF RotateCommit, Goto, Finish, table, history, Fresh, Locked
<1>11. ASSUME NEW r \in Requests, NEW u \in Users, NEW t \in Tokens,
             LogoutFamily(r, u, t)
      PROVE ExclusionInv'
  BY NamesAssumption, <1>11 DEF LogoutFamily, OwnRow, Goto, table, history, Fresh, Locked
<1>12. ASSUME NEW r \in Requests, NEW u \in Users, LogoutAll(r, u)
      PROVE ExclusionInv'
  BY NamesAssumption, <1>12 DEF LogoutAll, Goto, table, history, Fresh, Locked
<1>13. ASSUME NEW r \in Requests, RevokeSnapshot(r) PROVE ExclusionInv'
  BY NamesAssumption, <1>13 DEF RevokeSnapshot, Goto, table, history, Fresh, Locked
<1>14. ASSUME NEW r \in Requests, RevokeApply(r) PROVE ExclusionInv'
  BY NamesAssumption, <1>14
     DEF RevokeApply, Goto, Finish, table, history, Fresh, Locked
<1>15. ASSUME NEW r \in Requests, Fail(r) PROVE ExclusionInv'
  BY NamesAssumption, <1>15 DEF Fail, Abort, Goto, Finish, table, history, Fresh, Locked
<1>16. CASE UNCHANGED vars
  BY <1>16 DEF vars, Fresh, Locked
<1>. QED
  BY <1>1, <1>2, <1>3, <1>4, <1>5, <1>6, <1>7, <1>8,
     <1>9, <1>10, <1>11, <1>12, <1>13, <1>14, <1>15, <1>16
     DEF Next, Receive, Step

\* Rotation keeps the family and its user; Login starts a family of its own.
LEMMA FamilyStep == IInv /\ [Next]_vars => FamilyInv'
<1>. SUFFICES ASSUME IInv, [Next]_vars PROVE FamilyInv'
  OBVIOUS
<1>m. \A t \in stored :
        t \in Tokens /\ meta[t].family \in Tokens /\ meta[t].user \in Users
  BY StoredColumns
<1>. USE DEF IInv, TypeOK, HandlerInv, ExclusionInv, FamilyInv, Labels
<1>1. CASE Tick
  BY <1>m, NamesAssumption, MetaAssumption, <1>1
     DEF Tick, table, locals, history, Fresh, Meta
<1>2. ASSUME NEW r \in Requests, NEW u \in Users, NEW t \in Tokens, Login(r, u, t)
      PROVE FamilyInv'
  BY <1>m, NamesAssumption, MetaAssumption, <1>2
     DEF Login, Goto, table, history, Fresh, Meta
<1>3. ASSUME NEW r \in Requests, NEW ack \in BOOLEAN, Create(r, ack)
      PROVE FamilyInv'
  BY <1>m, NamesAssumption, MetaAssumption, <1>3
     DEF Create, Goto, Finish, table, history, Fresh, Meta
<1>4. ASSUME NEW r \in Requests, NEW t \in Tokens, RefreshFind(r, t)
      PROVE FamilyInv'
  BY <1>m, NamesAssumption, MetaAssumption, <1>4
     DEF RefreshFind, Goto, table, history, Fresh, Meta
<1>5. ASSUME NEW r \in Requests, RefreshRefuse(r) PROVE FamilyInv'
  BY <1>m, NamesAssumption, MetaAssumption, <1>5
     DEF RefreshRefuse, Goto, Finish, table, history, Fresh, Meta
<1>6. ASSUME NEW r \in Requests, RefreshReuse(r) PROVE FamilyInv'
  BY <1>m, NamesAssumption, MetaAssumption, <1>6
     DEF RefreshReuse, Goto, table, history, Fresh, Meta
<1>7. ASSUME NEW r \in Requests, NEW t \in Tokens, RefreshMint(r, t)
      PROVE FamilyInv'
  BY <1>m, NamesAssumption, MetaAssumption, <1>7
     DEF RefreshMint, Goto, table, history, Fresh, Meta
<1>8. ASSUME NEW r \in Requests, RotateConsume(r) PROVE FamilyInv'
  BY <1>m, NamesAssumption, MetaAssumption, <1>8
     DEF RotateConsume, Consumable, Goto, table, history, Fresh, Meta
<1>9. ASSUME NEW r \in Requests, RotateLost(r) PROVE FamilyInv'
  BY <1>m, NamesAssumption, MetaAssumption, <1>9
     DEF RotateLost, Alarm, Consumable, Goto, table, history, Fresh, Meta
<1>10. ASSUME NEW r \in Requests, NEW ack \in BOOLEAN, RotateCommit(r, ack)
      PROVE FamilyInv'
  BY <1>m, NamesAssumption, MetaAssumption, <1>10
     DEF RotateCommit, Goto, Finish, table, history, Fresh, Meta
<1>11. ASSUME NEW r \in Requests, NEW u \in Users, NEW t \in Tokens,
             LogoutFamily(r, u, t)
      PROVE FamilyInv'
  BY <1>m, NamesAssumption, MetaAssumption, <1>11
     DEF LogoutFamily, OwnRow, Goto, table, history, Fresh, Meta
<1>12. ASSUME NEW r \in Requests, NEW u \in Users, LogoutAll(r, u) PROVE FamilyInv'
  BY <1>m, NamesAssumption, MetaAssumption, <1>12
     DEF LogoutAll, Goto, table, history, Fresh, Meta
<1>13. ASSUME NEW r \in Requests, RevokeSnapshot(r) PROVE FamilyInv'
  BY <1>m, NamesAssumption, MetaAssumption, <1>13
     DEF RevokeSnapshot, Goto, table, history, Fresh, Meta
<1>14. ASSUME NEW r \in Requests, RevokeApply(r) PROVE FamilyInv'
  BY <1>m, NamesAssumption, MetaAssumption, <1>14
     DEF RevokeApply, Goto, Finish, table, history, Fresh, Meta
<1>15. ASSUME NEW r \in Requests, Fail(r) PROVE FamilyInv'
  <2>1. stored' = stored /\ \A t \in stored : meta'[t] = meta[t]
    BY <1>m, <1>15, NamesAssumption DEF Fail, Abort
  <2>. QED
    BY <2>1
<1>16. CASE UNCHANGED vars
  BY <1>16 DEF vars, Fresh, Meta
<1>. QED
  BY <1>1, <1>2, <1>3, <1>4, <1>5, <1>6, <1>7, <1>8,
     <1>9, <1>10, <1>11, <1>12, <1>13, <1>14, <1>15, <1>16
     DEF Next, Receive, Step

\* The committed successor takes the place of the one live token of its family.
LEMMA OneLiveStep == IInv /\ [Next]_vars => OneLivePerFamily'
<1>. SUFFICES ASSUME IInv, [Next]_vars PROVE OneLivePerFamily'
  OBVIOUS
<1>m. \A t \in stored :
        t \in Tokens /\ meta[t].family \in Tokens /\ meta[t].user \in Users
  BY StoredColumns
<1>. USE DEF IInv, TypeOK, HandlerInv, ExclusionInv, FamilyInv, OneLivePerFamily
<1>1. CASE Tick
  BY <1>m, NamesAssumption, <1>1 DEF Tick, table, locals, history, Fresh, Meta, Live
<1>2. ASSUME NEW r \in Requests, NEW u \in Users, NEW t \in Tokens, Login(r, u, t)
      PROVE OneLivePerFamily'
  BY <1>m, NamesAssumption, <1>2 DEF Login, Goto, table, history, Fresh, Meta, Live
<1>3. ASSUME NEW r \in Requests, NEW ack \in BOOLEAN, Create(r, ack)
      PROVE OneLivePerFamily'
  BY <1>m, NamesAssumption, <1>3
     DEF Create, Goto, Finish, table, history, Fresh, Meta, Live
<1>4. ASSUME NEW r \in Requests, NEW t \in Tokens, RefreshFind(r, t)
      PROVE OneLivePerFamily'
  BY <1>m, NamesAssumption, <1>4
     DEF RefreshFind, Goto, table, history, Fresh, Meta, Live
<1>5. ASSUME NEW r \in Requests, RefreshRefuse(r) PROVE OneLivePerFamily'
  BY <1>m, NamesAssumption, <1>5
     DEF RefreshRefuse, Goto, Finish, table, history, Fresh, Meta, Live
<1>6. ASSUME NEW r \in Requests, RefreshReuse(r) PROVE OneLivePerFamily'
  BY <1>m, NamesAssumption, <1>6
     DEF RefreshReuse, Goto, table, history, Fresh, Meta, Live
<1>7. ASSUME NEW r \in Requests, NEW t \in Tokens, RefreshMint(r, t)
      PROVE OneLivePerFamily'
  BY <1>m, NamesAssumption, <1>7
     DEF RefreshMint, Goto, table, history, Fresh, Meta, Live
<1>8. ASSUME NEW r \in Requests, RotateConsume(r) PROVE OneLivePerFamily'
  BY <1>m, NamesAssumption, <1>8
     DEF RotateConsume, Consumable, Goto, table, history, Fresh, Meta, Live
<1>9. ASSUME NEW r \in Requests, RotateLost(r) PROVE OneLivePerFamily'
  BY <1>m, NamesAssumption, <1>9
     DEF RotateLost, Alarm, Consumable, Goto, table, history, Fresh, Meta, Live
<1>10. ASSUME NEW r \in Requests, NEW ack \in BOOLEAN, RotateCommit(r, ack)
      PROVE OneLivePerFamily'
  BY <1>m, NamesAssumption, <1>10
     DEF RotateCommit, Goto, Finish, table, history, Fresh, Meta, Live
<1>11. ASSUME NEW r \in Requests, NEW u \in Users, NEW t \in Tokens,
             LogoutFamily(r, u, t)
      PROVE OneLivePerFamily'
  BY <1>m, NamesAssumption, <1>11
     DEF LogoutFamily, OwnRow, Goto, table, history, Fresh, Meta, Live
<1>12. ASSUME NEW r \in Requests, NEW u \in Users, LogoutAll(r, u)
      PROVE OneLivePerFamily'
  BY <1>m, NamesAssumption, <1>12
     DEF LogoutAll, Goto, table, history, Fresh, Meta, Live
<1>13. ASSUME NEW r \in Requests, RevokeSnapshot(r) PROVE OneLivePerFamily'
  BY <1>m, NamesAssumption, <1>13
     DEF RevokeSnapshot, Goto, table, history, Fresh, Meta, Live
<1>14. ASSUME NEW r \in Requests, RevokeApply(r) PROVE OneLivePerFamily'
  BY <1>m, NamesAssumption, <1>14
     DEF RevokeApply, Goto, Finish, table, history, Fresh, Meta, Live
<1>15. ASSUME NEW r \in Requests, Fail(r) PROVE OneLivePerFamily'
  BY <1>m, NamesAssumption, <1>15
     DEF Fail, Abort, Goto, Finish, table, history, Fresh, Meta, Live
<1>16. CASE UNCHANGED vars
  BY <1>16 DEF vars, Fresh, Meta, Live
<1>. QED
  BY <1>1, <1>2, <1>3, <1>4, <1>5, <1>6, <1>7, <1>8,
     <1>9, <1>10, <1>11, <1>12, <1>13, <1>14, <1>15, <1>16
     DEF Next, Receive, Step

\* Only RotateCommit records a parent, together with its consumption.
LEMMA ParentStep == IInv /\ [Next]_vars => ParentInv'
<1>. SUFFICES ASSUME IInv, [Next]_vars PROVE ParentInv'
  OBVIOUS
<1>. USE DEF IInv, TypeOK, HandlerInv, ParentInv
<1>1. CASE Tick
  BY NamesAssumption, <1>1 DEF Tick, table, locals, history
<1>2. ASSUME NEW r \in Requests, NEW u \in Users, NEW t \in Tokens, Login(r, u, t)
      PROVE ParentInv'
  BY NamesAssumption, <1>2 DEF Login, Goto, table, history
<1>3. ASSUME NEW r \in Requests, NEW ack \in BOOLEAN, Create(r, ack)
      PROVE ParentInv'
  BY NamesAssumption, <1>3 DEF Create, Goto, Finish, table, history
<1>4. ASSUME NEW r \in Requests, NEW t \in Tokens, RefreshFind(r, t)
      PROVE ParentInv'
  BY NamesAssumption, <1>4 DEF RefreshFind, Goto, table, history
<1>5. ASSUME NEW r \in Requests, RefreshRefuse(r) PROVE ParentInv'
  BY NamesAssumption, <1>5 DEF RefreshRefuse, Goto, Finish, table, history
<1>6. ASSUME NEW r \in Requests, RefreshReuse(r) PROVE ParentInv'
  BY NamesAssumption, <1>6 DEF RefreshReuse, Goto, table, history
<1>7. ASSUME NEW r \in Requests, NEW t \in Tokens, RefreshMint(r, t)
      PROVE ParentInv'
  BY NamesAssumption, <1>7 DEF RefreshMint, Goto, table, history
<1>8. ASSUME NEW r \in Requests, RotateConsume(r) PROVE ParentInv'
  BY NamesAssumption, <1>8 DEF RotateConsume, Consumable, Goto, table, history
<1>9. ASSUME NEW r \in Requests, RotateLost(r) PROVE ParentInv'
  BY NamesAssumption, <1>9 DEF RotateLost, Alarm, Consumable, Goto, table, history
<1>10. ASSUME NEW r \in Requests, NEW ack \in BOOLEAN, RotateCommit(r, ack)
      PROVE ParentInv'
  BY NamesAssumption, <1>10 DEF RotateCommit, Goto, Finish, table, history
<1>11. ASSUME NEW r \in Requests, NEW u \in Users, NEW t \in Tokens,
             LogoutFamily(r, u, t)
      PROVE ParentInv'
  BY NamesAssumption, <1>11 DEF LogoutFamily, OwnRow, Goto, table, history
<1>12. ASSUME NEW r \in Requests, NEW u \in Users, LogoutAll(r, u) PROVE ParentInv'
  BY NamesAssumption, <1>12 DEF LogoutAll, Goto, table, history
<1>13. ASSUME NEW r \in Requests, RevokeSnapshot(r) PROVE ParentInv'
  BY NamesAssumption, <1>13 DEF RevokeSnapshot, Goto, table, history
<1>14. ASSUME NEW r \in Requests, RevokeApply(r) PROVE ParentInv'
  BY NamesAssumption, <1>14 DEF RevokeApply, Goto, Finish, table, history
<1>15. ASSUME NEW r \in Requests, Fail(r) PROVE ParentInv'
  BY NamesAssumption, <1>15 DEF Fail, Abort, Goto, Finish, table, history
<1>16. CASE UNCHANGED vars
  BY <1>16 DEF vars
<1>. QED
  BY <1>1, <1>2, <1>3, <1>4, <1>5, <1>6, <1>7, <1>8,
     <1>9, <1>10, <1>11, <1>12, <1>13, <1>14, <1>15, <1>16
     DEF Next, Receive, Step

\* Consumption and successor appear in the same step, for a token not consumed before.
LEMMA AtomicStep == IInv /\ [Next]_vars => RotationAtomic'
<1>. SUFFICES ASSUME IInv, [Next]_vars PROVE RotationAtomic'
  OBVIOUS
<1>m. \A t \in stored :
        t \in Tokens /\ meta[t].family \in Tokens /\ meta[t].user \in Users
  BY StoredColumns
<1>. USE DEF IInv, TypeOK, HandlerInv, ParentInv, RotationAtomic
<1>1. CASE Tick
  BY <1>m, NamesAssumption, <1>1 DEF Tick, table, locals, history, Live, Fresh, Meta
<1>2. ASSUME NEW r \in Requests, NEW u \in Users, NEW t \in Tokens, Login(r, u, t)
      PROVE RotationAtomic'
  BY <1>m, NamesAssumption, <1>2 DEF Login, Goto, table, history, Live, Fresh, Meta
<1>3. ASSUME NEW r \in Requests, NEW ack \in BOOLEAN, Create(r, ack)
      PROVE RotationAtomic'
  BY <1>m, NamesAssumption, <1>3
     DEF Create, Goto, Finish, table, history, Live, Fresh, Meta
<1>4. ASSUME NEW r \in Requests, NEW t \in Tokens, RefreshFind(r, t)
      PROVE RotationAtomic'
  BY <1>m, NamesAssumption, <1>4
     DEF RefreshFind, Goto, table, history, Live, Fresh, Meta
<1>5. ASSUME NEW r \in Requests, RefreshRefuse(r) PROVE RotationAtomic'
  BY <1>m, NamesAssumption, <1>5
     DEF RefreshRefuse, Goto, Finish, table, history, Live, Fresh, Meta
<1>6. ASSUME NEW r \in Requests, RefreshReuse(r) PROVE RotationAtomic'
  BY <1>m, NamesAssumption, <1>6
     DEF RefreshReuse, Goto, table, history, Live, Fresh, Meta
<1>7. ASSUME NEW r \in Requests, NEW t \in Tokens, RefreshMint(r, t)
      PROVE RotationAtomic'
  BY <1>m, NamesAssumption, <1>7
     DEF RefreshMint, Goto, table, history, Live, Fresh, Meta
<1>8. ASSUME NEW r \in Requests, RotateConsume(r) PROVE RotationAtomic'
  BY <1>m, NamesAssumption, <1>8
     DEF RotateConsume, Consumable, Goto, table, history, Live, Fresh, Meta
<1>9. ASSUME NEW r \in Requests, RotateLost(r) PROVE RotationAtomic'
  BY <1>m, NamesAssumption, <1>9
     DEF RotateLost, Alarm, Consumable, Goto, table, history, Live, Fresh, Meta
<1>10. ASSUME NEW r \in Requests, NEW ack \in BOOLEAN, RotateCommit(r, ack)
      PROVE RotationAtomic'
  BY <1>m, NamesAssumption, <1>10
     DEF RotateCommit, Goto, Finish, table, history, Live, Fresh, Meta
<1>11. ASSUME NEW r \in Requests, NEW u \in Users, NEW t \in Tokens,
             LogoutFamily(r, u, t)
      PROVE RotationAtomic'
  BY <1>m, NamesAssumption, <1>11
     DEF LogoutFamily, OwnRow, Goto, table, history, Live, Fresh, Meta
<1>12. ASSUME NEW r \in Requests, NEW u \in Users, LogoutAll(r, u)
      PROVE RotationAtomic'
  BY <1>m, NamesAssumption, <1>12
     DEF LogoutAll, Goto, table, history, Live, Fresh, Meta
<1>13. ASSUME NEW r \in Requests, RevokeSnapshot(r) PROVE RotationAtomic'
  BY <1>m, NamesAssumption, <1>13
     DEF RevokeSnapshot, Goto, table, history, Live, Fresh, Meta
<1>14. ASSUME NEW r \in Requests, RevokeApply(r) PROVE RotationAtomic'
  BY <1>m, NamesAssumption, <1>14
     DEF RevokeApply, Goto, Finish, table, history, Live, Fresh, Meta
<1>15. ASSUME NEW r \in Requests, Fail(r) PROVE RotationAtomic'
  BY <1>m, NamesAssumption, <1>15
     DEF Fail, Abort, Goto, Finish, table, history, Live, Fresh, Meta
<1>16. CASE UNCHANGED vars
  BY <1>16 DEF vars, Live, Fresh, Meta
<1>. QED
  BY <1>1, <1>2, <1>3, <1>4, <1>5, <1>6, <1>7, <1>8,
     <1>9, <1>10, <1>11, <1>12, <1>13, <1>14, <1>15, <1>16
     DEF Next, Receive, Step

\* A row a running revocation has not seen was committed by an overlapping rotation.
LEMMA SnapshotStep == IInv /\ [Next]_vars => SnapshotInv'
<1>. SUFFICES ASSUME IInv, [Next]_vars PROVE SnapshotInv'
  OBVIOUS
<1>m. \A t \in stored :
        t \in Tokens /\ meta[t].family \in Tokens /\ meta[t].user \in Users
  BY StoredColumns
<1>. USE DEF IInv, TypeOK, HandlerInv, ExclusionInv, FamilyInv, SnapshotInv
<1>1. CASE Tick
  BY <1>m, NamesAssumption, <1>1
     DEF Tick, table, locals, history, Live, Fresh, Meta, InScope, Families, Locked
<1>2. ASSUME NEW r \in Requests, NEW u \in Users, NEW t \in Tokens, Login(r, u, t)
      PROVE SnapshotInv'
  BY <1>m, NamesAssumption, <1>2
     DEF Login, Goto, table, history, Live, Fresh, Meta, InScope, Families, Locked
<1>3. ASSUME NEW r \in Requests, NEW ack \in BOOLEAN, Create(r, ack)
      PROVE SnapshotInv'
  BY <1>m, NamesAssumption, <1>3
     DEF Create, Goto, Finish, table, history, Live, Fresh, Meta, InScope,
         Families, Locked
<1>4. ASSUME NEW r \in Requests, NEW t \in Tokens, RefreshFind(r, t)
      PROVE SnapshotInv'
  BY <1>m, NamesAssumption, <1>4
     DEF RefreshFind, Goto, table, history, Live, Fresh, Meta, InScope, Families, Locked
<1>5. ASSUME NEW r \in Requests, RefreshRefuse(r) PROVE SnapshotInv'
  BY <1>m, NamesAssumption, <1>5
     DEF RefreshRefuse, Goto, Finish, table, history, Live, Fresh, Meta, InScope, Families, Locked
<1>6. ASSUME NEW r \in Requests, RefreshReuse(r) PROVE SnapshotInv'
  <2>1. snap[r] = {} /\ snap' = snap
    BY <1>6 DEF RefreshReuse
  <2>2. /\ UNCHANGED <<stored, revoked, tok, overlap>>
        /\ pc' = [pc EXCEPT ![r] = "revoke"]
        /\ \A q \in Requests \ {r} : scope'[q] = scope[q]
    BY <1>6 DEF RefreshReuse, Goto, table, history
  <2>3. \A t \in stored : meta'[t] = meta[t]
    BY <1>6 DEF RefreshReuse
  <2>4. \A q \in Requests : pc[q] = "commit" => tok[q] \in stored
    OBVIOUS
  <2>. QED
    BY <2>1, <2>2, <2>3, <2>4 DEF InScope
<1>7. ASSUME NEW r \in Requests, NEW t \in Tokens, RefreshMint(r, t)
      PROVE SnapshotInv'
  BY <1>m, NamesAssumption, <1>7
     DEF RefreshMint, Goto, table, history, Live, Fresh, Meta, InScope, Families, Locked
<1>8. ASSUME NEW r \in Requests, RotateConsume(r) PROVE SnapshotInv'
  BY <1>m, NamesAssumption, <1>8
     DEF RotateConsume, Consumable, Goto, table, history, Live, Fresh, Meta, InScope, Families, Locked
<1>9. ASSUME NEW r \in Requests, RotateLost(r) PROVE SnapshotInv'
  <2>1. snap[r] = {} /\ snap' = snap
    BY <1>9 DEF RotateLost, Alarm
  <2>2. /\ UNCHANGED <<stored, revoked, tok, overlap>>
        /\ pc' = [pc EXCEPT ![r] = "revoke"]
        /\ \A q \in Requests \ {r} : scope'[q] = scope[q]
    BY <1>9 DEF RotateLost, Alarm, Consumable, Goto, table, history
  <2>3. \A t \in stored : meta'[t] = meta[t]
    BY <1>9 DEF RotateLost, Alarm
  <2>4. \A q \in Requests : pc[q] = "commit" => tok[q] \in stored
    OBVIOUS
  <2>. QED
    BY <2>1, <2>2, <2>3, <2>4 DEF InScope
<1>10. ASSUME NEW r \in Requests, NEW ack \in BOOLEAN, RotateCommit(r, ack)
      PROVE SnapshotInv'
  BY <1>m, NamesAssumption, <1>10
     DEF RotateCommit, Goto, Finish, table, history, Live, Fresh, Meta, InScope, Families, Locked
<1>11. ASSUME NEW r \in Requests, NEW u \in Users, NEW t \in Tokens,
             LogoutFamily(r, u, t)
      PROVE SnapshotInv'
  <2>1. snap[r] = {} /\ snap' = snap
    BY <1>11 DEF LogoutFamily
  <2>2. /\ UNCHANGED <<stored, revoked, tok, overlap>>
        /\ pc' = [pc EXCEPT ![r] = "revoke"]
        /\ \A q \in Requests \ {r} : scope'[q] = scope[q]
    BY <1>11 DEF LogoutFamily, OwnRow, Goto, table, history
  <2>3. \A s \in stored : meta'[s] = meta[s]
    BY <1>11 DEF LogoutFamily
  <2>4. \A q \in Requests : pc[q] = "commit" => tok[q] \in stored
    OBVIOUS
  <2>. QED
    BY <2>1, <2>2, <2>3, <2>4 DEF InScope
<1>12. ASSUME NEW r \in Requests, NEW u \in Users, LogoutAll(r, u)
      PROVE SnapshotInv'
  BY <1>m, NamesAssumption, <1>12
     DEF LogoutAll, Goto, table, history, Live, Fresh, Meta, InScope, Families, Locked
<1>13. ASSUME NEW r \in Requests, RevokeSnapshot(r) PROVE SnapshotInv'
  BY <1>m, NamesAssumption, <1>13
     DEF RevokeSnapshot, Goto, table, history, Live, Fresh, Meta, InScope, Families, Locked
<1>14. ASSUME NEW r \in Requests, RevokeApply(r) PROVE SnapshotInv'
  BY <1>m, NamesAssumption, <1>14
     DEF RevokeApply, Goto, Finish, table, history, Live, Fresh, Meta, InScope, Families, Locked
<1>15. ASSUME NEW r \in Requests, Fail(r) PROVE SnapshotInv'
  BY <1>m, NamesAssumption, <1>15
     DEF Fail, Abort, Goto, Finish, table, history, Live, Fresh, Meta, InScope, Families, Locked
<1>16. CASE UNCHANGED vars
  BY <1>16 DEF vars, Live, Fresh, Meta, InScope, Families, Locked
<1>. QED
  BY <1>1, <1>2, <1>3, <1>4, <1>5, <1>6, <1>7, <1>8,
     <1>9, <1>10, <1>11, <1>12, <1>13, <1>14, <1>15, <1>16
     DEF Next, Receive, Step

\* Revoked families stay in the table: rows are never deleted.
LEMMA CleanlyStep == IInv /\ [Next]_vars => CleanlyInv'
<1>. SUFFICES ASSUME IInv, [Next]_vars PROVE CleanlyInv'
  OBVIOUS
<1>. USE DEF IInv, TypeOK, FamilyInv, SnapshotInv, CleanlyInv
<1>1. CASE Tick
  BY NamesAssumption, <1>1 DEF Tick, table, locals, history, Families
<1>2. ASSUME NEW r \in Requests, NEW u \in Users, NEW t \in Tokens, Login(r, u, t)
      PROVE CleanlyInv'
  BY NamesAssumption, <1>2 DEF Login, Goto, table, history, Families
<1>3. ASSUME NEW r \in Requests, NEW ack \in BOOLEAN, Create(r, ack)
      PROVE CleanlyInv'
  BY NamesAssumption, <1>3 DEF Create, Goto, Finish, table, history, Families
<1>4. ASSUME NEW r \in Requests, NEW t \in Tokens, RefreshFind(r, t)
      PROVE CleanlyInv'
  BY NamesAssumption, <1>4 DEF RefreshFind, Goto, table, history, Families
<1>5. ASSUME NEW r \in Requests, RefreshRefuse(r) PROVE CleanlyInv'
  BY NamesAssumption, <1>5 DEF RefreshRefuse, Goto, Finish, table, history, Families
<1>6. ASSUME NEW r \in Requests, RefreshReuse(r) PROVE CleanlyInv'
  BY NamesAssumption, <1>6 DEF RefreshReuse, Goto, table, history, Families
<1>7. ASSUME NEW r \in Requests, NEW t \in Tokens, RefreshMint(r, t)
      PROVE CleanlyInv'
  BY NamesAssumption, <1>7 DEF RefreshMint, Goto, table, history, Families
<1>8. ASSUME NEW r \in Requests, RotateConsume(r) PROVE CleanlyInv'
  BY NamesAssumption, <1>8 DEF RotateConsume, Consumable, Goto, table, history, Families
<1>9. ASSUME NEW r \in Requests, RotateLost(r) PROVE CleanlyInv'
  BY NamesAssumption, <1>9 DEF RotateLost, Alarm, Consumable, Goto, table, history, Families
<1>10. ASSUME NEW r \in Requests, NEW ack \in BOOLEAN, RotateCommit(r, ack)
      PROVE CleanlyInv'
  BY NamesAssumption, <1>10 DEF RotateCommit, Goto, Finish, table, history, Families
<1>11. ASSUME NEW r \in Requests, NEW u \in Users, NEW t \in Tokens,
             LogoutFamily(r, u, t)
      PROVE CleanlyInv'
  BY NamesAssumption, <1>11 DEF LogoutFamily, OwnRow, Goto, table, history, Families
<1>12. ASSUME NEW r \in Requests, NEW u \in Users, LogoutAll(r, u) PROVE CleanlyInv'
  BY NamesAssumption, <1>12 DEF LogoutAll, Goto, table, history, Families
<1>13. ASSUME NEW r \in Requests, RevokeSnapshot(r) PROVE CleanlyInv'
  BY NamesAssumption, <1>13 DEF RevokeSnapshot, Goto, table, history, Families
<1>14. ASSUME NEW r \in Requests, RevokeApply(r) PROVE CleanlyInv'
  BY NamesAssumption, <1>14 DEF RevokeApply, Goto, Finish, table, history, Families
<1>15. ASSUME NEW r \in Requests, Fail(r) PROVE CleanlyInv'
  BY NamesAssumption, <1>15 DEF Fail, Abort, Goto, Finish, table, history, Families
<1>16. CASE UNCHANGED vars
  BY <1>16 DEF vars, Families
<1>. QED
  BY <1>1, <1>2, <1>3, <1>4, <1>5, <1>6, <1>7, <1>8,
     <1>9, <1>10, <1>11, <1>12, <1>13, <1>14, <1>15, <1>16
     DEF Next, Receive, Step

\* A dead family cannot be rotated, and a clean revocation leaves it dead.
LEMMA DeadStep == IInv /\ [Next]_vars => RevokedStaysDead'
<1>. SUFFICES ASSUME IInv, [Next]_vars PROVE RevokedStaysDead'
  OBVIOUS
<1>m. \A t \in stored :
        t \in Tokens /\ meta[t].family \in Tokens /\ meta[t].user \in Users
  BY StoredColumns
<1>. USE
     DEF IInv, TypeOK, HandlerInv, FamilyInv, SnapshotInv, CleanlyInv, RevokedStaysDead
<1>1. CASE Tick
  BY <1>m, NamesAssumption, <1>1
     DEF Tick, table, locals, history, Families, Live, Fresh, Meta
<1>2. ASSUME NEW r \in Requests, NEW u \in Users, NEW t \in Tokens, Login(r, u, t)
      PROVE RevokedStaysDead'
  BY <1>m, NamesAssumption, <1>2
     DEF Login, Goto, table, history, Families, Live, Fresh, Meta
<1>3. ASSUME NEW r \in Requests, NEW ack \in BOOLEAN, Create(r, ack)
      PROVE RevokedStaysDead'
  BY <1>m, NamesAssumption, <1>3
     DEF Create, Goto, Finish, table, history, Families, Live, Fresh, Meta
<1>4. ASSUME NEW r \in Requests, NEW t \in Tokens, RefreshFind(r, t)
      PROVE RevokedStaysDead'
  BY <1>m, NamesAssumption, <1>4
     DEF RefreshFind, Goto, table, history, Families, Live, Fresh, Meta
<1>5. ASSUME NEW r \in Requests, RefreshRefuse(r) PROVE RevokedStaysDead'
  BY <1>m, NamesAssumption, <1>5
     DEF RefreshRefuse, Goto, Finish, table, history, Families, Live, Fresh, Meta
<1>6. ASSUME NEW r \in Requests, RefreshReuse(r) PROVE RevokedStaysDead'
  BY <1>m, NamesAssumption, <1>6
     DEF RefreshReuse, Goto, table, history, Families, Live, Fresh, Meta
<1>7. ASSUME NEW r \in Requests, NEW t \in Tokens, RefreshMint(r, t)
      PROVE RevokedStaysDead'
  BY <1>m, NamesAssumption, <1>7
     DEF RefreshMint, Goto, table, history, Families, Live, Fresh, Meta
<1>8. ASSUME NEW r \in Requests, RotateConsume(r) PROVE RevokedStaysDead'
  BY <1>m, NamesAssumption, <1>8
     DEF RotateConsume, Consumable, Goto, table, history, Families, Live, Fresh, Meta
<1>9. ASSUME NEW r \in Requests, RotateLost(r) PROVE RevokedStaysDead'
  BY <1>m, NamesAssumption, <1>9
     DEF RotateLost, Alarm, Consumable, Goto, table, history, Families, Live, Fresh, Meta
<1>10. ASSUME NEW r \in Requests, NEW ack \in BOOLEAN, RotateCommit(r, ack)
      PROVE RevokedStaysDead'
  BY <1>m, NamesAssumption, <1>10
     DEF RotateCommit, Goto, Finish, table, history, Families, Live, Fresh, Meta
<1>11. ASSUME NEW r \in Requests, NEW u \in Users, NEW t \in Tokens,
             LogoutFamily(r, u, t)
      PROVE RevokedStaysDead'
  BY <1>m, NamesAssumption, <1>11
     DEF LogoutFamily, OwnRow, Goto, table, history, Families, Live, Fresh, Meta
<1>12. ASSUME NEW r \in Requests, NEW u \in Users, LogoutAll(r, u)
      PROVE RevokedStaysDead'
  BY <1>m, NamesAssumption, <1>12
     DEF LogoutAll, Goto, table, history, Families, Live, Fresh, Meta
<1>13. ASSUME NEW r \in Requests, RevokeSnapshot(r) PROVE RevokedStaysDead'
  BY <1>m, NamesAssumption, <1>13
     DEF RevokeSnapshot, Goto, table, history, Families, Live, Fresh, Meta
<1>14. ASSUME NEW r \in Requests, RevokeApply(r) PROVE RevokedStaysDead'
  BY <1>m, NamesAssumption, <1>14
     DEF RevokeApply, Goto, Finish, table, history, Families, Live, Fresh, Meta
<1>15. ASSUME NEW r \in Requests, Fail(r) PROVE RevokedStaysDead'
  BY <1>m, NamesAssumption, <1>15
     DEF Fail, Abort, Goto, Finish, table, history, Families, Live, Fresh, Meta
<1>16. CASE UNCHANGED vars
  BY <1>16 DEF vars, Families, Live, Fresh, Meta
<1>. QED
  BY <1>1, <1>2, <1>3, <1>4, <1>5, <1>6, <1>7, <1>8,
     <1>9, <1>10, <1>11, <1>12, <1>13, <1>14, <1>15, <1>16
     DEF Next, Receive, Step

----------------------------------------------------------------------------
(* The theorems *)

\* The strengthened invariant holds in every reachable state.
THEOREM Invariance == Spec => []IInv
<1>1. Init => IInv
  BY NamesAssumption
     DEF Init, IInv, TypeOK, HandlerInv, CallerInv, ExclusionInv, FamilyInv,
         OneLivePerFamily, ParentInv, RotationAtomic, SnapshotInv, CleanlyInv,
         RevokedStaysDead, NoFalseAlarm, Meta, Labels, Live, InScope
<1>2. IInv /\ [Next]_vars => IInv'
  BY TypeStep, HandlerStep, CallerStep, AlarmStep, ExclusionStep, FamilyStep,
     OneLiveStep, ParentStep, AtomicStep, SnapshotStep, CleanlyStep, DeadStep
     DEF IInv
<1>. QED
  BY <1>1, <1>2, PTL DEF Spec

\* The type invariant holds for every number of users, tokens and requests.
THEOREM TypeCorrect == Spec => []TypeOK
<1>1. IInv => TypeOK
  BY DEF IInv
<1>. QED
  BY Invariance, <1>1, PTL

\* However many refreshes of a family race, it never has two usable tokens.
THEOREM OneLiveToken == Spec => []OneLivePerFamily
<1>1. IInv => OneLivePerFamily
  BY DEF IInv
<1>. QED
  BY Invariance, <1>1, PTL

\* A token is consumed exactly when one successor replaced it, whatever fails.
THEOREM RotationIsAtomic == Spec => []RotationAtomic
<1>1. IInv => RotationAtomic
  BY DEF IInv
<1>. QED
  BY Invariance, <1>1, PTL

\* A family revoked with no overlapping rotation never has a usable token again.
THEOREM CleanRevocationIsFinal == Spec => []RevokedStaysDead
<1>1. IInv => RevokedStaysDead
  BY DEF IInv
<1>. QED
  BY Invariance, <1>1, PTL

\* Refresh revokes a family only for a token the table says is used or revoked.
THEOREM AlarmsAreJustified == Spec => []NoFalseAlarm
<1>1. IInv => NoFalseAlarm
  BY DEF IInv
<1>. QED
  BY Invariance, <1>1, PTL

\* A logout's UPDATE visits rows of the caller only.
THEOREM LogoutTouchesOwnRows == Spec => []LogoutOwnRowsOnly
<1>1. ASSUME IInv PROVE LogoutOwnRowsOnly
  <2>. SUFFICES ASSUME NEW r \in Requests, caller[r] # None, NEW t \in snap[r]
                PROVE  meta[t].user = caller[r]
    BY DEF LogoutOwnRowsOnly
  <2>1. t \in stored /\ InScope(t, scope[r])
    BY <1>1 DEF IInv, SnapshotInv
  <2>2. meta[t].user \in Users /\ meta[meta[t].family].user = meta[t].user
    BY <1>1, <2>1, StoredColumns DEF IInv, FamilyInv
  <2>3. CASE scope[r] = caller[r]
    BY <1>1, <2>1, <2>2, <2>3, NamesAssumption, StoredColumns
       DEF IInv, TypeOK, InScope
  <2>4. CASE scope[r] \in stored /\ meta[scope[r]].user = caller[r]
    BY <1>1, <2>1, <2>2, <2>4, NamesAssumption DEF IInv, TypeOK, InScope
  <2>. QED
    BY <1>1, <2>3, <2>4 DEF IInv, CallerInv
<1>. QED
  BY Invariance, <1>1, PTL

----------------------------------------------------------------------------
(* RefreshTokens implements Sessions *)

\* A step that leaves the rows and their columns alone changes no session: reads,
\* checks, minting, locks, snapshots and rollbacks.
LEMMA QuietStep ==
    ASSUME UNCHANGED table, \A t \in stored : meta'[t] = meta[t]
    PROVE  UNCHANGED Session!sessionVars
<1>1. \A t \in stored : Live(t)' <=> Live(t)
  BY DEF table, Live
<1>2. UNCHANGED [f \in Tokens |-> IF f \in stored /\ meta[f].family = f
                                  THEN meta[f].user ELSE None]
  BY DEF table
<1>3. UNCHANGED [f \in Tokens |-> {t \in stored : Live(t) /\ meta[t].family = f}]
  BY <1>1 DEF table
<1>. QED
  BY <1>2, <1>3 DEF table, Session!sessionVars

\* The first row of a family, committed by a login, opens a session.
LEMMA CreateOpens ==
    ASSUME IInv, NEW r \in Requests, NEW ack \in BOOLEAN, Create(r, ack)
    PROVE  Session!Next
<1>0. PICK n \in Tokens : n = new[r]
  BY NamesAssumption DEF Create, IInv, TypeOK, HandlerInv
<1>1. /\ n \notin stored /\ meta[n].family = n /\ meta[n] \in Meta
      /\ stored' = stored \cup {n} /\ UNCHANGED <<consumed, revoked, meta>>
  BY <1>0, NamesAssumption DEF Create, IInv, TypeOK, HandlerInv
<1>2. PICK u \in Users : u = meta[n].user
  BY <1>1 DEF Meta
<1>3. \A t \in stored : meta[t].family # n
  BY <1>1 DEF IInv, FamilyInv
<1>4. (\A t \in stored : Live(t)' <=> Live(t)) /\ Live(n)'
  BY <1>1 DEF Live, IInv, TypeOK
<1>5. [f \in Tokens |-> IF f \in stored /\ meta[f].family = f
                        THEN meta[f].user ELSE None]'
      = [[f \in Tokens |-> IF f \in stored /\ meta[f].family = f
                           THEN meta[f].user ELSE None] EXCEPT ![n] = u]
  BY <1>1, <1>2
<1>6. [f \in Tokens |-> {t \in stored : Live(t) /\ meta[t].family = f}]'
      = [[f \in Tokens |-> {t \in stored : Live(t) /\ meta[t].family = f}]
            EXCEPT ![n] = {n}]
  <2>1. \A f \in Tokens :
          {t \in stored : Live(t) /\ meta[t].family = f}'
          = IF f = n THEN {n} ELSE {t \in stored : Live(t) /\ meta[t].family = f}
    BY <1>1, <1>3, <1>4
  <2>. QED
    BY <1>1, <2>1
<1>7. Session!Open(u, n)
  BY <1>1, <1>5, <1>6 DEF Session!Open
<1>. QED
  BY <1>1, <1>2, <1>7 DEF Session!Next

\* A committed rotation renews the session of the token it consumed.
LEMMA CommitRenews ==
    ASSUME IInv, NEW r \in Requests, NEW ack \in BOOLEAN, RotateCommit(r, ack)
    PROVE  Session!Next
<1>a. PICK n \in Tokens, old \in Tokens : n = new[r] /\ old = tok[r] /\ old \in stored
  BY NamesAssumption DEF RotateCommit, IInv, TypeOK, HandlerInv
<1>b. PICK f \in Tokens : f = meta[old].family
  BY <1>a, StoredColumns
<1>1. /\ n \notin stored /\ meta[n].family = f
      /\ old \in stored /\ Live(old)
      /\ stored' = stored \cup {n} /\ consumed' = consumed \cup {old}
      /\ UNCHANGED <<revoked, meta>>
  BY <1>a, <1>b, NamesAssumption DEF RotateCommit, IInv, TypeOK, HandlerInv
<1>2. f \in stored
  BY <1>b, <1>1 DEF IInv, FamilyInv
<1>3. (\A t \in stored : Live(t)' <=> Live(t) /\ t # old) /\ Live(n)'
  BY <1>1 DEF Live, IInv, TypeOK
<1>4. \A t \in stored : Live(t) /\ meta[t].family = f <=> t = old
  BY <1>b, <1>1 DEF IInv, OneLivePerFamily
<1>5. n # f
  BY <1>1, <1>2
<1>6. \A t \in stored : meta[t].family # n
  BY <1>1 DEF IInv, FamilyInv
<1>7. UNCHANGED [g \in Tokens |-> IF g \in stored /\ meta[g].family = g
                                  THEN meta[g].user ELSE None]
  BY <1>1, <1>2, <1>5
<1>8. [g \in Tokens |-> {t \in stored : Live(t) /\ meta[t].family = g}]'
      = [[g \in Tokens |-> {t \in stored : Live(t) /\ meta[t].family = g}]
            EXCEPT ![f] = {n}]
  <2>1. \A g \in Tokens :
          {t \in stored : Live(t) /\ meta[t].family = g}'
          = IF g = f THEN {n} ELSE {t \in stored : Live(t) /\ meta[t].family = g}
    BY <1>1, <1>3, <1>4
  <2>. QED
    BY <1>2, <2>1
<1>9. [g \in Tokens |-> {t \in stored : Live(t) /\ meta[t].family = g}][f] = {old}
  BY <1>1, <1>2, <1>4
<1>10. Session!Renew(f, n)
  BY <1>1, <1>7, <1>8, <1>9 DEF Session!Renew
<1>. QED
  BY <1>1, <1>2, <1>10 DEF Session!Next

\* The rows a revoking UPDATE visits belong to one user.
LEMMA SnapshotOneUser ==
    ASSUME IInv, NEW r \in Requests, NEW s \in snap[r], NEW t \in snap[r]
    PROVE  meta[s].user = meta[t].user
<1>1. /\ s \in stored /\ InScope(s, scope[r])
      /\ t \in stored /\ InScope(t, scope[r])
  BY DEF IInv, SnapshotInv
<1>. QED
  BY <1>1, StoredColumns, NamesAssumption DEF IInv, FamilyInv, InScope

\* A revoking UPDATE ends the sessions whose usable token it visits, all of them
\* of one user, and no other.
LEMMA RevokeEnds ==
    ASSUME IInv, NEW r \in Requests, RevokeApply(r)
    PROVE  Session!Next \/ UNCHANGED Session!sessionVars
<1>. DEFINE hit == {t \in snap[r] : Live(t)}
            S   == {f \in Tokens : \E t \in hit : meta[t].family = f}
<1>1. /\ revoked' = revoked \cup snap[r]
      /\ UNCHANGED <<stored, consumed, meta>>
      /\ snap[r] \subseteq stored
  BY DEF RevokeApply, IInv, SnapshotInv
<1>2. \A t \in stored : Live(t)' <=> Live(t) /\ t \notin hit
  BY <1>1 DEF Live
<1>3. UNCHANGED [f \in Tokens |-> IF f \in stored /\ meta[f].family = f
                                  THEN meta[f].user ELSE None]
  BY <1>1
<1>4. CASE hit = {}
  <2>1. UNCHANGED [f \in Tokens |-> {t \in stored : Live(t) /\ meta[t].family = f}]
    BY <1>1, <1>2, <1>4
  <2>. QED
    BY <1>1, <1>3, <2>1 DEF Session!sessionVars
<1>5. CASE hit # {}
  <2>1. PICK h \in hit : TRUE
    BY <1>5
  <2>2. PICK u \in Users : u = meta[h].user
    BY <1>1, <2>1, StoredColumns
  <2>3. \A f \in S : f \in stored /\ meta[f].family = f /\ meta[f].user = u
    BY <1>1, <2>1, <2>2, SnapshotOneUser DEF IInv, FamilyInv
  <2>4. \A f \in Tokens :
          {t \in stored : Live(t) /\ meta[t].family = f}'
          = IF f \in S THEN {} ELSE {t \in stored : Live(t) /\ meta[t].family = f}
    BY <1>1, <1>2 DEF IInv, OneLivePerFamily
  <2>5. PICK T \in SUBSET Tokens : T = S
    OBVIOUS
  <2>6. [f \in Tokens |-> {t \in stored : Live(t) /\ meta[t].family = f}]'
        = [f \in Tokens |->
             IF f \in T THEN {}
             ELSE [g \in Tokens |-> {t \in stored : Live(t) /\ meta[t].family = g}][f]]
    BY <2>4, <2>5
  <2>7. \A f \in T : [g \in Tokens |-> IF g \in stored /\ meta[g].family = g
                                       THEN meta[g].user ELSE None][f] = u
    BY <2>3, <2>5
  <2>8. Session!End(u, T)
    BY <1>1, <1>3, <2>6, <2>7 DEF Session!End
  <2>. QED
    BY <2>8 DEF Session!Next
<1>. QED
  BY <1>4, <1>5

\* The table with its racing, failing handlers implements sessions: every step of
\* every request opens, renews or ends sessions of one user, or changes none.
THEOREM Refinement == Spec => ImplementsSessions
<1>1. Init => Session!Init
  BY DEF Init, Session!Init, Live
<1>2. ASSUME IInv, [Next]_vars
      PROVE  [Session!Next]_(Session!sessionVars)
  <2>. USE DEF IInv, TypeOK, HandlerInv, Goto, Finish, table, history
  <2>1. CASE Tick
    BY <2>1, QuietStep DEF Tick
  <2>2. ASSUME NEW r \in Requests, NEW u \in Users, NEW t \in Tokens, Login(r, u, t)
        PROVE  UNCHANGED Session!sessionVars
    BY <1>2, <2>2, QuietStep DEF Login, Fresh
  <2>3. ASSUME NEW r \in Requests, NEW t \in Tokens, RefreshFind(r, t)
        PROVE  UNCHANGED Session!sessionVars
    BY <2>3, QuietStep DEF RefreshFind
  <2>4. ASSUME NEW r \in Requests, RefreshRefuse(r) \/ RefreshReuse(r)
        PROVE  UNCHANGED Session!sessionVars
    BY <2>4, QuietStep DEF RefreshRefuse, RefreshReuse
  <2>5. ASSUME NEW r \in Requests, NEW t \in Tokens, RefreshMint(r, t)
        PROVE  UNCHANGED Session!sessionVars
    BY <1>2, <2>5, QuietStep DEF RefreshMint, Fresh
  <2>6. ASSUME NEW r \in Requests, RotateConsume(r)
        PROVE  UNCHANGED Session!sessionVars
    BY <2>6, QuietStep DEF RotateConsume
  <2>7. ASSUME NEW r \in Requests, RotateLost(r)
        PROVE  UNCHANGED Session!sessionVars
    BY <1>2, <2>7, QuietStep DEF RotateLost, Alarm
  <2>8. ASSUME NEW r \in Requests, NEW u \in Users, NEW t \in Tokens,
               LogoutFamily(r, u, t) \/ LogoutAll(r, u)
        PROVE  UNCHANGED Session!sessionVars
    BY <2>8, QuietStep DEF LogoutFamily, LogoutAll
  <2>9. ASSUME NEW r \in Requests, NEW u \in Users, LogoutAll(r, u)
        PROVE  UNCHANGED Session!sessionVars
    BY <2>9, QuietStep DEF LogoutAll
  <2>10. ASSUME NEW r \in Requests, RevokeSnapshot(r)
        PROVE  UNCHANGED Session!sessionVars
    BY <2>10, QuietStep DEF RevokeSnapshot
  <2>11. ASSUME NEW r \in Requests, Fail(r)
        PROVE  UNCHANGED Session!sessionVars
    BY <1>2, <2>11, QuietStep, NamesAssumption DEF Fail, Abort
  <2>12. CASE UNCHANGED vars
    BY <2>12, QuietStep DEF vars
  <2>. QED
    BY <1>2, <2>1, <2>2, <2>3, <2>4, <2>5, <2>6, <2>7, <2>8, <2>9, <2>10, <2>11, <2>12,
       CreateOpens, CommitRenews, RevokeEnds
       DEF Next, Receive, Step
<1>. QED
  BY Invariance, <1>1, <1>2, PTL DEF Spec, Session!Spec, ImplementsSessions

============================================================================
