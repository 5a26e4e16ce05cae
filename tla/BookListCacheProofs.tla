------------------------ MODULE BookListCacheProofs ------------------------
(***************************************************************************)
(* Theorems about BookListCache, for any number of readers, writers,       *)
(* instances and faults and any expiry and timeout, and, in the second     *)
(* half, about BookPaging, which says what the page under a key of that    *)
(* cache holds: for any books, collation, letters, queries and limits.     *)
(***************************************************************************)
EXTENDS BookListCache, BookPaging, FiniteSetTheorems, SequenceTheorems, TLAPS

\* The mutations that have committed and not bumped the generation yet.
Bumping == {w \in Writers : wpc[w] = "bump"}

\* A generation is made by the bump of a committed mutation: one each, and one
\* more for each INCR that was sent again.
BumpInv ==
    /\ IsFiniteSet(Bumping)
    /\ gen + Cardinality(Bumping) <= version + resends
    /\ bumped <= version
    /\ \A w \in Writers : wrote[w] <= version
    /\ \A r \in Readers : floor[r] <= version

\* A list to be filed has been loaded, on the instance the request runs on.
LoadedInv ==
    \A r \in Readers :
        /\ pc[r] # "idle" => home[r] \in Instances
        /\ pc[r] = "set" => val[r] \in Versions

\* singleflight: on one instance a key is loaded and filed by one request at a time.
OneLoadAtATime ==
    \A q, r \in Readers :
        /\ pc[q] \in {"load", "set"} /\ pc[r] \in {"load", "set"}
        /\ home[q] = home[r] /\ g[q] = g[r]
        => q = r

\* What is filed was in the table, and a list about to be filed is no older than
\* the page of its own instance that it replaces.
NewestInv ==
    /\ \A n \in Generations : page[n] # None => page[n].ver <= version
    /\ \A r \in Readers : pc[r] = "set" =>
          /\ val[r] <= version
          /\ page[g[r]] # None /\ page[g[r]].by = home[r] => page[g[r]].ver <= val[r]

\* As long as Redis keeps its data, a generation determines the mutations bumped
\* when it began, and whatever is filed or about to be filed under it shows them.
GenInv ==
    restarts = 0 =>
        /\ gen = 0 => bumped = 0
        /\ \A n \in Generations : n > gen => page[n] = None
        /\ page[gen] # None => page[gen].ver >= bumped
        /\ \A r \in Readers : pc[r] # "idle" =>
              /\ g[r] <= gen
              /\ g[r] = gen => floor[r] = bumped
              /\ g[r] = 0 => floor[r] = 0
              /\ page[g[r]] # None => page[g[r]].ver >= floor[r]
              /\ pc[r] = "set" => val[r] >= floor[r]
        /\ \A q, r \in Readers :
              pc[q] # "idle" /\ pc[r] # "idle" /\ g[q] = g[r] => floor[q] = floor[r]

\* A page in Redis has not expired, and it was filed within a request's time of
\* the load that made it; a list that is no longer the newest was overtaken after
\* its request began.
AgeInv ==
    /\ \A n \in Generations : page[n] # None =>
          /\ clock < page[n].exp /\ page[n].exp <= clock + PageTTL
          /\ page[n].ver < version =>
                page[n].exp <= birth[page[n].ver + 1] + PageTTL + RequestTimeout
    /\ \A r \in Readers : pc[r] # "idle" => since[r] <= clock
    /\ \A r \in Readers :
          pc[r] = "set" /\ val[r] < version => since[r] <= birth[val[r] + 1]

IInv ==
    /\ TypeOK
    /\ BumpInv
    /\ LoadedInv
    /\ GenInv
    /\ AgeInv
    /\ OneLoadAtATime
    /\ FollowersHaveALeader
    /\ NewestInv

----------------------------------------------------------------------------
(* Each step preserves the invariant *)

\* The locals of those who are answered.
LocalsOK ==
    /\ pc \in [Readers -> {"idle", "page", "do", "load", "set", "wait"}]
    /\ g \in [Readers -> Generations]
    /\ since \in [Readers -> Times]
    /\ val \in [Readers -> Versions \cup {None}]
    /\ home \in [Readers -> Instances \cup {None}]
    /\ floor \in [Readers -> Versions]

LEMMA AnswerTypes ==
    ASSUME NEW Q, NEW v \in Versions \cup {None}, TypeOK, Answer(Q, v)
    PROVE  LocalsOK'
<1>1. 0 \in Generations /\ 0 \in Times /\ 0 \in Versions
  BY BoundsAssumption DEF Generations, Times, Versions
<1>2. pc' \in [Readers -> {"idle", "page", "do", "load", "set", "wait"}]
  BY DEF Answer, TypeOK
<1>3. g' \in [Readers -> Generations]
  BY <1>1 DEF Answer, TypeOK
<1>4. since' \in [Readers -> Times]
  BY <1>1 DEF Answer, TypeOK
<1>5. val' \in [Readers -> Versions \cup {None}]
  BY DEF Answer, TypeOK
<1>6. home' \in [Readers -> Instances \cup {None}]
  BY DEF Answer, TypeOK
<1>7. floor' \in [Readers -> Versions]
  BY <1>1 DEF Answer, TypeOK
<1>. QED
  BY <1>2, <1>3, <1>4, <1>5, <1>6, <1>7 DEF LocalsOK

LEMMA TypeStep ==
    ASSUME IInv, [Next]_vars
    PROVE  TypeOK'
<1>a. TypeOK /\ BumpInv /\ LoadedInv
  BY DEF IInv
<1>b. gen \in Nat /\ version \in Nat /\ MaxVersion \in Nat /\ version <= MaxVersion
      /\ clock \in Nat /\ MaxTime \in Nat /\ PageTTL \in Nat
      /\ resends \in Nat /\ restarts \in Nat /\ MaxFaults \in Nat
      /\ resends + restarts <= MaxFaults
  BY <1>a, BoundsAssumption DEF TypeOK, Versions, Generations, Times
<1>1. CASE Tick
  BY <1>a, <1>1, <1>b DEF Tick, TypeOK, redis, readers, writers, faults, Times, Page
<1>2. CASE RedisRestart
  BY <1>a, <1>2, <1>b, BoundsAssumption DEF RedisRestart, TypeOK, redis, readers, writers,
     faults,
     Generations
<1>3. ASSUME NEW r \in Readers, NEW i \in Instances, NEW ok \in BOOLEAN, List(r, i, ok)
      PROVE  TypeOK'
  BY <1>a, <1>3, <1>b DEF List, TypeOK, redis, readers, writers, faults, Generations,
     Versions
<1>4. ASSUME NEW r \in Readers, Hit(r)
      PROVE  TypeOK'
  <2>1. page[g[r]].ver \in Versions
    BY <1>a, <1>4 DEF Hit, TypeOK, Page
  <2>2. LocalsOK'
    BY <1>a, <1>4, <2>1, AnswerTypes DEF Hit
  <2>. QED
    BY <1>a, <1>4, <2>2 DEF Hit, TypeOK, LocalsOK, redis, writers, faults
<1>5. ASSUME NEW r \in Readers, NEW ok \in BOOLEAN, Miss(r, ok)
      PROVE  TypeOK'
  BY <1>a, <1>5 DEF Miss, TypeOK, redis, readers, writers, faults
<1>6. ASSUME NEW r \in Readers, Do(r)
      PROVE  TypeOK'
  BY <1>a, <1>6 DEF Do, TypeOK, redis, readers, writers, faults
<1>7. ASSUME NEW r \in Readers, Load(r)
      PROVE  TypeOK'
  BY <1>a, <1>7 DEF Load, TypeOK, redis, readers, writers, faults
<1>8. ASSUME NEW r \in Readers, SetPage(r)
      PROVE  TypeOK'
  <2>1. [ver |-> val[r], exp |-> clock + PageTTL, by |-> home[r]] \in Page
    BY <1>a, <1>b, <1>8 DEF SetPage, MayFile, TypeOK, LoadedInv, Page, Times
  <2>2. page' \in [Generations -> Page \cup {None}]
    BY <1>a, <1>8, <2>1 DEF SetPage, MayFile, Filed, PageKey, PageExpiry, TypeOK
  <2>3. LocalsOK'
    BY <1>a, <1>8, AnswerTypes DEF SetPage, MayFile, LoadedInv
  <2>. QED
    BY <1>a, <1>8, <2>2, <2>3 DEF SetPage, TypeOK, LocalsOK, writers, faults
<1>9. ASSUME NEW r \in Readers, NEW applied \in BOOLEAN, CallFails(r, applied)
      PROVE  TypeOK'
  <2>1. page' \in [Generations -> Page \cup {None}]
    <3>1. CASE ~applied
      BY <1>a, <1>9, <3>1 DEF CallFails, TypeOK
    <3>2. CASE applied
      <4>1. [ver |-> val[r], exp |-> clock + PageTTL, by |-> home[r]] \in Page
        BY <1>a, <1>b, <1>9, <3>2 DEF CallFails, MayFile, TypeOK, LoadedInv, Page, Times
      <4>. QED
        BY <1>a, <1>9, <3>2, <4>1 DEF CallFails, MayFile, Filed, PageKey, PageExpiry, TypeOK
    <3>. QED
      BY <3>1, <3>2
  <2>2. LocalsOK'
    BY <1>a, <1>9, AnswerTypes DEF CallFails
  <2>. QED
    BY <1>a, <1>9, <2>1, <2>2 DEF CallFails, TypeOK, LocalsOK, writers, faults
<1>10. ASSUME NEW w \in Writers, NEW ack \in BOOLEAN, Mutate(w, ack)
      PROVE  TypeOK'
  BY <1>a, <1>10, <1>b DEF Mutate, TypeOK, redis, readers, writers, faults, Versions
<1>11. ASSUME NEW w \in Writers, NEW applied \in BOOLEAN, NEW again \in BOOLEAN,
             Bump(w, applied, again)
      PROVE  TypeOK'
  <2>1. w \in Bumping /\ IsFiniteSet(Bumping) /\ gen + Cardinality(Bumping) <= version + resends
    BY <1>a, <1>11 DEF Bumping, BumpInv, Bump
  <2>2. Cardinality(Bumping) \in Nat /\ Cardinality(Bumping) # 0
    BY <2>1, FS_CardinalityType, FS_EmptySet
  <2>3. gen + 1 \in Generations /\ 0 \in Versions
    BY <1>b, <2>1, <2>2 DEF Generations, Versions
  <2>4. resends' \in Nat /\ resends' + restarts <= MaxFaults
    BY <1>b, <1>11 DEF Bump, Resend
  <2>. QED
    BY <1>a, <1>11, <2>3, <2>4 DEF Bump, TypeOK, readers
<1>14. ASSUME NEW r \in Readers, SetAgain(r)
      PROVE  TypeOK'
  <2>1. [ver |-> val[r], exp |-> clock + PageTTL, by |-> home[r]] \in Page
    BY <1>a, <1>b, <1>14 DEF SetAgain, MayFile, TypeOK, LoadedInv, Page, Times
  <2>2. page' \in [Generations -> Page \cup {None}]
    BY <1>a, <1>14, <2>1 DEF SetAgain, Filed, PageKey, PageExpiry, TypeOK
  <2>. QED
    BY <1>a, <1>b, <1>14, <2>2 DEF SetAgain, Resend, TypeOK, readers, writers
<1>13. CASE UNCHANGED vars
  BY <1>a, <1>13 DEF vars, TypeOK, redis, readers, writers, faults
<1>. QED
  BY <1>1, <1>2, <1>3, <1>4, <1>5, <1>6, <1>7, <1>8, <1>9, <1>10, <1>11, <1>13, <1>14 DEF
     Next, ReaderStep

LEMMA BumpStep ==
    ASSUME IInv, [Next]_vars
    PROVE  BumpInv'
<1>a. TypeOK /\ BumpInv
  BY DEF IInv
<1>b. gen \in Nat /\ version \in Nat /\ bumped \in Nat /\ resends \in Nat
  BY <1>a DEF TypeOK, Versions, Generations
<1>c. IsFiniteSet(Bumping) /\ Cardinality(Bumping) \in Nat
      /\ gen + Cardinality(Bumping) <= version + resends
  BY <1>a, FS_CardinalityType DEF BumpInv
<1>1. CASE Tick
  BY <1>a, <1>1 DEF Tick, BumpInv, Bumping, redis, readers, writers, faults
<1>2. CASE RedisRestart
  BY <1>b, <1>c, <1>2, <1>a DEF RedisRestart, BumpInv, Bumping, readers, writers, faults
<1>3. ASSUME NEW r \in Readers, NEW i \in Instances, NEW ok \in BOOLEAN, List(r, i, ok)
      PROVE  BumpInv'
  BY <1>a, <1>b, <1>3 DEF List, BumpInv, Bumping, TypeOK, redis, writers, faults
<1>4. ASSUME NEW r \in Readers, Hit(r)
      PROVE  BumpInv'
  BY <1>a, <1>b, <1>4 DEF Hit, Answer, BumpInv, Bumping, redis, readers, writers, faults
<1>5. ASSUME NEW r \in Readers, NEW ok \in BOOLEAN, Miss(r, ok)
      PROVE  BumpInv'
  BY <1>a, <1>5 DEF Miss, BumpInv, Bumping, redis, readers, writers, faults
<1>6. ASSUME NEW r \in Readers, Do(r)
      PROVE  BumpInv'
  BY <1>a, <1>6 DEF Do, BumpInv, Bumping, redis, readers, writers, faults
<1>7. ASSUME NEW r \in Readers, Load(r)
      PROVE  BumpInv'
  BY <1>a, <1>7 DEF Load, BumpInv, Bumping, redis, readers, writers, faults
<1>8. ASSUME NEW r \in Readers, SetPage(r)
      PROVE  BumpInv'
  BY <1>a, <1>b, <1>8 DEF SetPage, Answer, BumpInv, Bumping, writers, faults
<1>9. ASSUME NEW r \in Readers, NEW applied \in BOOLEAN, CallFails(r, applied)
      PROVE  BumpInv'
  BY <1>a, <1>b, <1>9 DEF CallFails, Answer, BumpInv, Bumping, writers, faults
<1>10. ASSUME NEW w \in Writers, NEW ack \in BOOLEAN, Mutate(w, ack)
      PROVE  BumpInv'
  <2>1. Bumping' = IF ack THEN Bumping \cup {w} ELSE Bumping
    BY <1>a, <1>10 DEF Mutate, Bumping, TypeOK
  <2>2. IsFiniteSet(Bumping') /\ gen' + Cardinality(Bumping') <= version' + resends'
    <3>1. w \notin Bumping
      BY <1>10 DEF Mutate, Bumping
    <3>2. IsFiniteSet(Bumping \cup {w}) /\ Cardinality(Bumping \cup {w}) = Cardinality(Bumping) + 1
      BY <1>c, <3>1, FS_AddElement
    <3>. QED
      BY <1>b, <1>c, <2>1, <3>2, <1>10 DEF Mutate, redis, faults
  <2>3. \A x \in Writers : wrote'[x] <= version'
    BY <1>a, <1>b, <1>10 DEF Mutate, BumpInv, TypeOK, Versions
  <2>4. bumped' <= version' /\ \A r \in Readers : floor'[r] <= version'
    BY <1>a, <1>b, <1>10 DEF Mutate, BumpInv, TypeOK, Versions, readers
  <2>. QED
    BY <2>2, <2>3, <2>4 DEF BumpInv
<1>11. ASSUME NEW w \in Writers, NEW applied \in BOOLEAN, NEW again \in BOOLEAN,
             Bump(w, applied, again)
      PROVE  BumpInv'
  <2>1. Bumping' = (IF again THEN Bumping ELSE Bumping \ {w}) /\ w \in Bumping
    BY <1>a, <1>11 DEF Bump, Bumping, TypeOK
  <2>2. IsFiniteSet(Bumping') /\ gen' + Cardinality(Bumping') <= version' + resends'
    <3>1. IsFiniteSet(Bumping \ {w}) /\ Cardinality(Bumping \ {w}) = Cardinality(Bumping) - 1
      BY <1>c, <2>1, FS_RemoveElement
    <3>2. /\ gen' = gen \/ gen' = gen + 1
          /\ version' = version
          /\ resends' = IF again THEN resends + 1 ELSE resends
      BY <1>11 DEF Bump, Resend
    <3>. QED
      BY <1>b, <1>c, <2>1, <3>1, <3>2
  <2>3. /\ \A x \in Writers : wrote'[x] <= version'
        /\ bumped' <= version' /\ \A r \in Readers : floor'[r] <= version'
    BY <1>a, <1>b, <1>11 DEF Bump, BumpInv, TypeOK, readers
  <2>. QED
    BY <2>2, <2>3 DEF BumpInv
<1>14. ASSUME NEW r \in Readers, SetAgain(r)
      PROVE  BumpInv'
  <2>1. resends' = resends + 1 /\ gen' = gen /\ version' = version /\ wpc' = wpc
        /\ wrote' = wrote /\ bumped' = bumped /\ floor' = floor
    BY <1>14 DEF SetAgain, Resend, readers, writers
  <2>2. Bumping' = Bumping
    BY <2>1 DEF Bumping
  <2>. QED
    BY <1>a, <1>b, <1>c, <2>1, <2>2 DEF BumpInv
<1>13. CASE UNCHANGED vars
  BY <1>a, <1>13 DEF vars, BumpInv, Bumping, redis, readers, writers, faults
<1>. QED
  BY <1>1, <1>2, <1>3, <1>4, <1>5, <1>6, <1>7, <1>8, <1>9, <1>10, <1>11, <1>13, <1>14 DEF
     Next, ReaderStep

LEMMA LoadedStep ==
    ASSUME IInv, [Next]_vars
    PROVE  LoadedInv'
<1>a. TypeOK /\ LoadedInv
  BY DEF IInv
<1>1. CASE Tick
  BY <1>a, <1>1 DEF Tick, LoadedInv, TypeOK, redis, readers, writers, faults
<1>2. CASE RedisRestart
  BY <1>a, <1>2 DEF RedisRestart, LoadedInv, TypeOK, redis, readers, writers, faults
<1>3. ASSUME NEW r \in Readers, NEW i \in Instances, NEW ok \in BOOLEAN, List(r, i, ok)
      PROVE  LoadedInv'
  BY <1>a, <1>3 DEF List, LoadedInv, TypeOK, redis, readers, writers, faults
<1>4. ASSUME NEW r \in Readers, Hit(r)
      PROVE  LoadedInv'
  BY <1>a, <1>4 DEF Hit, Answer, LoadedInv, TypeOK, redis, readers, writers, faults
<1>5. ASSUME NEW r \in Readers, NEW ok \in BOOLEAN, Miss(r, ok)
      PROVE  LoadedInv'
  BY <1>a, <1>5 DEF Miss, LoadedInv, TypeOK, redis, readers, writers, faults
<1>6. ASSUME NEW r \in Readers, Do(r)
      PROVE  LoadedInv'
  BY <1>a, <1>6 DEF Do, LoadedInv, TypeOK, redis, readers, writers, faults
<1>7. ASSUME NEW r \in Readers, Load(r)
      PROVE  LoadedInv'
  BY <1>a, <1>7 DEF Load, LoadedInv, TypeOK, redis, readers, writers, faults
<1>8. ASSUME NEW r \in Readers, SetPage(r)
      PROVE  LoadedInv'
  BY <1>a, <1>8 DEF SetPage, Answer, MayFile, Filed, PageKey, PageExpiry, LoadedInv,
     TypeOK, redis, readers,
     writers, faults
<1>9. ASSUME NEW r \in Readers, NEW applied \in BOOLEAN, CallFails(r, applied)
      PROVE  LoadedInv'
  BY <1>a, <1>9 DEF CallFails, Answer, MayFile, Filed, PageKey, PageExpiry, LoadedInv,
     TypeOK, redis,
     readers, writers, faults
<1>10. ASSUME NEW w \in Writers, NEW ack \in BOOLEAN, Mutate(w, ack)
      PROVE  LoadedInv'
  BY <1>a, <1>10 DEF Mutate, LoadedInv, TypeOK, redis, readers, writers, faults
<1>11. ASSUME NEW w \in Writers, NEW applied \in BOOLEAN, NEW again \in BOOLEAN,
             Bump(w, applied, again)
      PROVE  LoadedInv'
  BY <1>a, <1>11 DEF Bump, Resend, LoadedInv, TypeOK, redis, readers, writers, faults
<1>14. ASSUME NEW r \in Readers, SetAgain(r)
      PROVE  LoadedInv'
  BY <1>a, <1>14 DEF SetAgain, Resend, MayFile, Filed, PageKey, PageExpiry, LoadedInv,
     TypeOK,
     readers, writers
<1>13. CASE UNCHANGED vars
  BY <1>a, <1>13 DEF vars, LoadedInv, TypeOK, redis, readers, writers, faults
<1>. QED
  BY <1>1, <1>2, <1>3, <1>4, <1>5, <1>6, <1>7, <1>8, <1>9, <1>10, <1>11, <1>13, <1>14 DEF
     Next, ReaderStep

LEMMA LoadsStep ==
    ASSUME IInv, [Next]_vars
    PROVE  OneLoadAtATime'
<1>a. TypeOK /\ OneLoadAtATime
  BY DEF IInv
<1>1. CASE Tick
  BY <1>a, <1>1 DEF Tick, OneLoadAtATime, TypeOK, redis, readers, writers, faults
<1>2. CASE RedisRestart
  BY <1>a, <1>2 DEF RedisRestart, OneLoadAtATime, TypeOK, redis, readers, writers, faults
<1>3. ASSUME NEW r \in Readers, NEW i \in Instances, NEW ok \in BOOLEAN, List(r, i, ok)
      PROVE  OneLoadAtATime'
  BY <1>a, <1>3 DEF List, OneLoadAtATime, TypeOK, redis, readers, writers, faults
<1>4. ASSUME NEW r \in Readers, Hit(r)
      PROVE  OneLoadAtATime'
  BY <1>a, <1>4 DEF Hit, Answer, OneLoadAtATime, TypeOK, redis, readers, writers, faults
<1>5. ASSUME NEW r \in Readers, NEW ok \in BOOLEAN, Miss(r, ok)
      PROVE  OneLoadAtATime'
  BY <1>a, <1>5 DEF Miss, OneLoadAtATime, TypeOK, redis, readers, writers, faults
<1>6. ASSUME NEW r \in Readers, Do(r)
      PROVE  OneLoadAtATime'
  BY <1>a, <1>6 DEF Do, OneLoadAtATime, TypeOK, redis, readers, writers, faults, InFlight,
     SameCall
<1>7. ASSUME NEW r \in Readers, Load(r)
      PROVE  OneLoadAtATime'
  BY <1>a, <1>7 DEF Load, OneLoadAtATime, TypeOK, redis, readers, writers, faults
<1>8. ASSUME NEW r \in Readers, SetPage(r)
      PROVE  OneLoadAtATime'
  BY <1>a, <1>8 DEF SetPage, Answer, MayFile, Filed, PageKey, PageExpiry, OneLoadAtATime,
     TypeOK, redis,
     readers, writers, faults
<1>9. ASSUME NEW r \in Readers, NEW applied \in BOOLEAN, CallFails(r, applied)
      PROVE  OneLoadAtATime'
  BY <1>a, <1>9 DEF CallFails, Answer, MayFile, Filed, PageKey, PageExpiry,
     OneLoadAtATime, TypeOK, redis,
     readers, writers, faults
<1>10. ASSUME NEW w \in Writers, NEW ack \in BOOLEAN, Mutate(w, ack)
      PROVE  OneLoadAtATime'
  BY <1>a, <1>10 DEF Mutate, OneLoadAtATime, TypeOK, redis, readers, writers, faults
<1>11. ASSUME NEW w \in Writers, NEW applied \in BOOLEAN, NEW again \in BOOLEAN,
             Bump(w, applied, again)
      PROVE  OneLoadAtATime'
  BY <1>a, <1>11 DEF Bump, Resend, OneLoadAtATime, TypeOK, redis, readers, writers, faults
<1>14. ASSUME NEW r \in Readers, SetAgain(r)
      PROVE  OneLoadAtATime'
  BY <1>a, <1>14 DEF SetAgain, Resend, MayFile, Filed, PageKey, PageExpiry,
     OneLoadAtATime, TypeOK,
     readers, writers
<1>13. CASE UNCHANGED vars
  BY <1>a, <1>13 DEF vars, OneLoadAtATime, TypeOK, redis, readers, writers, faults
<1>. QED
  BY <1>1, <1>2, <1>3, <1>4, <1>5, <1>6, <1>7, <1>8, <1>9, <1>10, <1>11, <1>13, <1>14 DEF
     Next, ReaderStep

LEMMA FollowersStep ==
    ASSUME IInv, [Next]_vars
    PROVE  FollowersHaveALeader'
<1>a. TypeOK /\ FollowersHaveALeader
  BY DEF IInv
<1>1. CASE Tick
  BY <1>a, <1>1 DEF Tick, FollowersHaveALeader, TypeOK, redis, readers, writers, faults
<1>2. CASE RedisRestart
  BY <1>a, <1>2 DEF RedisRestart, FollowersHaveALeader, TypeOK, redis, readers, writers,
     faults
<1>3. ASSUME NEW r \in Readers, NEW i \in Instances, NEW ok \in BOOLEAN, List(r, i, ok)
      PROVE  FollowersHaveALeader'
  BY <1>a, <1>3 DEF List, FollowersHaveALeader, TypeOK, redis, readers, writers, faults
<1>4. ASSUME NEW r \in Readers, Hit(r)
      PROVE  FollowersHaveALeader'
  BY <1>a, <1>4 DEF Hit, Answer, FollowersHaveALeader, TypeOK, redis, readers, writers,
     faults
<1>5. ASSUME NEW r \in Readers, NEW ok \in BOOLEAN, Miss(r, ok)
      PROVE  FollowersHaveALeader'
  BY <1>a, <1>5 DEF Miss, FollowersHaveALeader, TypeOK, redis, readers, writers, faults
<1>6. ASSUME NEW r \in Readers, Do(r)
      PROVE  FollowersHaveALeader'
  BY <1>a, <1>6 DEF Do, FollowersHaveALeader, TypeOK, redis, readers, writers, faults,
     InFlight,
     SameCall
<1>7. ASSUME NEW r \in Readers, Load(r)
      PROVE  FollowersHaveALeader'
  BY <1>a, <1>7 DEF Load, FollowersHaveALeader, TypeOK, redis, readers, writers, faults
<1>8. ASSUME NEW r \in Readers, SetPage(r)
      PROVE  FollowersHaveALeader'
  BY <1>a, <1>8 DEF SetPage, Answer, MayFile, Filed, PageKey, PageExpiry,
     FollowersHaveALeader, TypeOK,
     redis, readers, writers, faults, Followers, SameCall
<1>9. ASSUME NEW r \in Readers, NEW applied \in BOOLEAN, CallFails(r, applied)
      PROVE  FollowersHaveALeader'
  BY <1>a, <1>9 DEF CallFails, Answer, MayFile, Filed, PageKey, PageExpiry,
     FollowersHaveALeader, TypeOK,
     redis, readers, writers, faults, Followers, SameCall
<1>10. ASSUME NEW w \in Writers, NEW ack \in BOOLEAN, Mutate(w, ack)
      PROVE  FollowersHaveALeader'
  BY <1>a, <1>10 DEF Mutate, FollowersHaveALeader, TypeOK, redis, readers, writers, faults
<1>11. ASSUME NEW w \in Writers, NEW applied \in BOOLEAN, NEW again \in BOOLEAN,
             Bump(w, applied, again)
      PROVE  FollowersHaveALeader'
  BY <1>a, <1>11 DEF Bump, Resend, FollowersHaveALeader, TypeOK, redis, readers, writers,
     faults
<1>14. ASSUME NEW r \in Readers, SetAgain(r)
      PROVE  FollowersHaveALeader'
  BY <1>a, <1>14 DEF SetAgain, Resend, MayFile, Filed, PageKey, PageExpiry,
     FollowersHaveALeader, TypeOK,
     readers, writers
<1>13. CASE UNCHANGED vars
  BY <1>a, <1>13 DEF vars, FollowersHaveALeader, TypeOK, redis, readers, writers, faults
<1>. QED
  BY <1>1, <1>2, <1>3, <1>4, <1>5, <1>6, <1>7, <1>8, <1>9, <1>10, <1>11, <1>13, <1>14 DEF
     Next, ReaderStep

\* The numbers behind the locals and the pages.
LEMMA Numbers ==
    ASSUME TypeOK
    PROVE  /\ gen \in Nat /\ version \in Nat /\ bumped \in Nat /\ clock \in Nat
           /\ restarts \in Nat /\ gen \in Generations
           /\ \A r \in Readers : /\ g[r] \in Generations /\ g[r] \in Nat /\ floor[r] \in Nat
                                 /\ since[r] \in Nat
           /\ \A n \in Generations : n \in Nat
           /\ \A n \in Generations : page[n] # None => page[n].ver \in Nat /\ page[n].exp \in Nat
           /\ \A v \in Versions : v \in Nat /\ birth[v] \in Nat
<1>1. /\ gen \in Nat /\ version \in Nat /\ bumped \in Nat /\ clock \in Nat
      /\ restarts \in Nat /\ gen \in Generations
  BY BoundsAssumption DEF TypeOK, Generations, Versions, Times
<1>2. ASSUME NEW r \in Readers
      PROVE  g[r] \in Generations /\ g[r] \in Nat /\ floor[r] \in Nat /\ since[r] \in Nat
  BY BoundsAssumption DEF TypeOK, Generations, Versions, Times
<1>3. ASSUME NEW n \in Generations
      PROVE  n \in Nat /\ (page[n] # None => page[n].ver \in Nat /\ page[n].exp \in Nat)
  <2>1. page[n] # None => page[n] \in Page
    BY DEF TypeOK
  <2>2. n \in Nat
    BY BoundsAssumption DEF Generations
  <2>. QED
    BY <2>1, <2>2, BoundsAssumption DEF Page, Versions
<1>4. ASSUME NEW v \in Versions PROVE v \in Nat /\ birth[v] \in Nat
  BY BoundsAssumption DEF TypeOK, Versions, Times
<1>. QED
  BY <1>1, <1>2, <1>3, <1>4

\* Redis that has its data has never lost it.
LEMMA RestartsCount ==
    ASSUME restarts \in Nat, [Next]_vars, restarts' = 0
    PROVE  restarts = 0
<1>1. \A r \in Readers : ReaderStep(r) => restarts' = restarts
  BY DEF ReaderStep, Hit, Miss, Do, Load, SetPage, SetAgain, CallFails, faults
<1>2. \A r \in Readers, i \in Instances, ok \in BOOLEAN : List(r, i, ok) => restarts' = restarts
  BY DEF List, faults
<1>3. \A w \in Writers : (\/ \E ack \in BOOLEAN : Mutate(w, ack)
                          \/ \E applied, again \in BOOLEAN : Bump(w, applied, again))
                         => restarts' = restarts
  BY DEF Mutate, Bump, faults
<1>4. Tick \/ UNCHANGED vars => restarts' = restarts
  BY DEF Tick, vars, faults
<1>5. ~RedisRestart
  BY DEF RedisRestart
<1>. QED
  BY <1>1, <1>2, <1>3, <1>4, <1>5 DEF Next

\* GenInv while Redis has kept its data.
GenBody ==
    /\ gen = 0 => bumped = 0
    /\ \A n \in Generations : n > gen => page[n] = None
    /\ page[gen] # None => page[gen].ver >= bumped
    /\ \A r \in Readers : pc[r] # "idle" =>
          /\ g[r] <= gen
          /\ g[r] = gen => floor[r] = bumped
          /\ g[r] = 0 => floor[r] = 0
          /\ page[g[r]] # None => page[g[r]].ver >= floor[r]
          /\ pc[r] = "set" => val[r] >= floor[r]
    /\ \A q, r \in Readers :
          pc[q] # "idle" /\ pc[r] # "idle" /\ g[q] = g[r] => floor[q] = floor[r]

LEMMA GenStep ==
    ASSUME IInv, [Next]_vars
    PROVE  GenInv'
<1>. SUFFICES ASSUME restarts' = 0
     PROVE  GenBody'
  BY DEF GenInv, GenBody
<1>a. TypeOK /\ BumpInv /\ LoadedInv
  BY DEF IInv
<1>b. /\ gen \in Nat /\ version \in Nat /\ bumped \in Nat /\ clock \in Nat
      /\ restarts \in Nat /\ gen \in Generations
      /\ \A r \in Readers : g[r] \in Generations /\ g[r] \in Nat /\ floor[r] \in Nat
      /\ \A n \in Generations : n \in Nat
      /\ \A n \in Generations : page[n] # None => page[n].ver \in Nat
      /\ \A v \in Versions : v \in Nat
  BY <1>a, Numbers
<1>c. gen' \in Generations
  BY TypeStep DEF TypeOK
<1>d. restarts = 0
  BY <1>b, RestartsCount
<1>e. GenBody
  BY <1>d DEF IInv, GenInv, GenBody
<1>1. CASE Tick
  BY <1>a, <1>b, <1>e, <1>1 DEF Tick, GenBody, TypeOK, redis, readers, writers, faults
<1>2. CASE RedisRestart
  BY <1>b, <1>d, <1>2 DEF RedisRestart
<1>3. ASSUME NEW r \in Readers, NEW i \in Instances, NEW ok \in BOOLEAN, List(r, i, ok)
      PROVE  GenBody'
  <2>1. /\ pc'[r] = "page" /\ \A q \in Readers \ {r} : pc'[q] = pc[q]
        /\ g'[r] = (IF ok THEN gen ELSE 0) /\ \A q \in Readers \ {r} : g'[q] = g[q]
        /\ floor'[r] = (IF ok THEN bumped ELSE 0)
        /\ \A q \in Readers \ {r} : floor'[q] = floor[q] /\ val'[q] = val[q]
        /\ gen' = gen /\ page' = page /\ bumped' = bumped
    BY <1>a, <1>3 DEF List, TypeOK, redis, writers, faults
  <2>2. /\ g'[r] <= gen
        /\ g'[r] = gen => floor'[r] = bumped
        /\ g'[r] = 0 => floor'[r] = 0
        /\ page[g'[r]] # None => page[g'[r]].ver >= floor'[r]
    <3>1. CASE ok
      BY <1>b, <1>e, <2>1, <3>1 DEF GenBody
    <3>2. CASE ~ok
      <4>1. 0 \in Generations
        BY BoundsAssumption DEF Generations
      <4>. QED
        BY <1>b, <1>e, <2>1, <3>2, <4>1 DEF GenBody
    <3>. QED
      BY <3>1, <3>2
  <2>3. \A q \in Readers \ {r} : pc[q] # "idle" /\ g[q] = g'[r] => floor[q] = floor'[r]
    BY <1>b, <1>e, <2>1 DEF GenBody
  <2>. QED
    BY <1>b, <1>e, <2>1, <2>2, <2>3 DEF GenBody
<1>4. ASSUME NEW r \in Readers, Hit(r)
      PROVE  GenBody'
  BY <1>a, <1>b, <1>e, <1>4 DEF Hit, Answer, GenBody, TypeOK, redis, readers, writers,
     faults
<1>5. ASSUME NEW r \in Readers, NEW ok \in BOOLEAN, Miss(r, ok)
      PROVE  GenBody'
  BY <1>a, <1>b, <1>e, <1>5 DEF Miss, GenBody, TypeOK, redis, readers, writers, faults
<1>6. ASSUME NEW r \in Readers, Do(r)
      PROVE  GenBody'
  BY <1>a, <1>b, <1>e, <1>6 DEF Do, GenBody, TypeOK, redis, readers, writers, faults
<1>7. ASSUME NEW r \in Readers, Load(r)
      PROVE  GenBody'
  BY <1>a, <1>b, <1>e, <1>7 DEF Load, GenBody, TypeOK, BumpInv, redis, writers, faults
<1>8. ASSUME NEW r \in Readers, SetPage(r)
      PROVE  GenBody'
  BY <1>a, <1>b, <1>e, <1>8, SMTT(30) DEF SetPage, Answer, MayFile, Filed, PageKey, PageExpiry,
     GenBody, TypeOK, redis, readers, writers, faults, LoadedInv
<1>9. ASSUME NEW r \in Readers, NEW applied \in BOOLEAN, CallFails(r, applied)
      PROVE  GenBody'
  <2>1. CASE applied
    BY <1>a, <1>b, <1>e, <1>9, <2>1 DEF CallFails, Answer, MayFile, Filed, PageKey,
       PageExpiry, GenBody, TypeOK, writers, LoadedInv
  <2>2. CASE ~applied
    BY <1>a, <1>b, <1>e, <1>9, <2>2 DEF CallFails, Answer, GenBody, TypeOK, writers
  <2>. QED
    BY <2>1, <2>2
<1>10. ASSUME NEW w \in Writers, NEW ack \in BOOLEAN, Mutate(w, ack)
      PROVE  GenBody'
  BY <1>a, <1>b, <1>e, <1>10 DEF Mutate, GenBody, TypeOK, redis, readers, writers, faults
<1>11. ASSUME NEW w \in Writers, NEW applied \in BOOLEAN, NEW again \in BOOLEAN,
             Bump(w, applied, again)
      PROVE  GenBody'
  <2>1. /\ page' = page /\ pc' = pc /\ g' = g /\ floor' = floor /\ val' = val
        /\ version' = version
    BY <1>11 DEF Bump, readers
  <2>2. CASE applied
    <3>1. /\ gen' = gen + 1 /\ bumped' >= bumped /\ bumped' \in Nat /\ page[gen + 1] = None
          /\ gen + 1 \in Generations
      BY <1>a, <1>b, <1>c, <1>e, <1>11, <2>2 DEF Bump, GenBody, TypeOK, Versions
    <3>2. \A n \in Generations : n > gen + 1 => n > gen
      BY <1>b
    <3>3. \A r \in Readers : pc[r] # "idle" => g[r] <= gen /\ g[r] <= gen + 1 /\ g[r] # gen + 1
      BY <1>b, <1>e DEF GenBody
    <3>. QED
      BY <1>b, <1>e, <2>1, <3>1, <3>2, <3>3 DEF GenBody
  <2>3. CASE ~applied
    BY <1>e, <1>11, <2>1, <2>3 DEF Bump, GenBody
  <2>. QED
    BY <2>2, <2>3
<1>14. ASSUME NEW r \in Readers, SetAgain(r)
      PROVE  GenBody'
  BY <1>a, <1>b, <1>e, <1>14 DEF SetAgain, MayFile, Filed, PageKey, PageExpiry, GenBody,
     TypeOK, readers, writers, LoadedInv
<1>13. CASE UNCHANGED vars
  BY <1>a, <1>b, <1>e, <1>13 DEF vars, GenBody, TypeOK, redis, readers, writers, faults
<1>. QED
  BY <1>1, <1>2, <1>3, <1>4, <1>5, <1>6, <1>7, <1>8, <1>9, <1>10, <1>11, <1>13, <1>14 DEF
     Next, ReaderStep

\* The part of AgeInv about Redis.
PagesInv ==
    \A n \in Generations : page[n] # None =>
        /\ clock < page[n].exp /\ page[n].exp <= clock + PageTTL
        /\ page[n].ver < version =>
              page[n].exp <= birth[page[n].ver + 1] + PageTTL + RequestTimeout

\* A page that is filed in time is young enough.
LEMMA FiledPage ==
    ASSUME TypeOK, LoadedInv, AgeInv, NEW r \in Readers,
           page' = [page EXCEPT ![g[r]] = [ver |-> val[r], exp |-> clock + PageTTL, by |-> home[r]]],
           pc[r] = "set", clock <= since[r] + RequestTimeout,
           clock' = clock, version' = version, birth' = birth
    PROVE  PagesInv'
<1>1. /\ version \in Nat /\ clock \in Nat /\ PageTTL \in Nat \ {0} /\ RequestTimeout \in Nat
      /\ g[r] \in Generations /\ since[r] \in Nat /\ val[r] \in Versions /\ val[r] \in Nat
  BY Numbers, BoundsAssumption DEF LoadedInv
<1>2. val[r] < version => val[r] + 1 \in Versions
  BY <1>1, BoundsAssumption DEF TypeOK, Versions
<1>3. val[r] < version => since[r] <= birth[val[r] + 1] /\ birth[val[r] + 1] \in Nat
  BY <1>2, Numbers DEF AgeInv
<1>4. val[r] < version => clock + PageTTL <= birth[val[r] + 1] + PageTTL + RequestTimeout
  BY <1>1, <1>3
<1>5. page'[g[r]] = [ver |-> val[r], exp |-> clock + PageTTL, by |-> home[r]]
      /\ \A n \in Generations : n # g[r] => page'[n] = page[n]
  BY DEF TypeOK
<1>. SUFFICES ASSUME NEW n \in Generations, page'[n] # None
     PROVE  /\ clock < page'[n].exp /\ page'[n].exp <= clock + PageTTL
            /\ page'[n].ver < version =>
                  page'[n].exp <= birth[page'[n].ver + 1] + PageTTL + RequestTimeout
  BY DEF PagesInv
<1>6. CASE n = g[r]
  BY <1>1, <1>4, <1>5, <1>6
<1>7. CASE n # g[r]
  BY <1>5, <1>7 DEF AgeInv
<1>. QED
  BY <1>6, <1>7

LEMMA AgeStep ==
    ASSUME IInv, [Next]_vars
    PROVE  AgeInv'
<1>a. TypeOK /\ LoadedInv /\ AgeInv
  BY DEF IInv
<1>b. /\ version \in Nat /\ clock \in Nat
      /\ PageTTL \in Nat \ {0} /\ RequestTimeout \in Nat
      /\ \A r \in Readers : g[r] \in Generations /\ since[r] \in Nat
      /\ \A n \in Generations : page[n] # None => page[n].ver \in Nat /\ page[n].exp \in Nat
      /\ \A v \in Versions : v \in Nat /\ birth[v] \in Nat
  BY <1>a, Numbers, BoundsAssumption
<1>c. PagesInv
  BY <1>a DEF AgeInv, PagesInv
<1>1. CASE Tick
  BY <1>a, <1>b, <1>1 DEF Tick, AgeInv, TypeOK, redis, readers, writers, faults
<1>2. CASE RedisRestart
  BY <1>a, <1>b, <1>2 DEF RedisRestart, AgeInv, TypeOK, redis, readers, writers, faults
<1>3. ASSUME NEW r \in Readers, NEW i \in Instances, NEW ok \in BOOLEAN, List(r, i, ok)
      PROVE  AgeInv'
  BY <1>a, <1>b, <1>3 DEF List, AgeInv, TypeOK, redis, readers, writers, faults
<1>4. ASSUME NEW r \in Readers, Hit(r)
      PROVE  AgeInv'
  BY <1>a, <1>b, <1>4 DEF Hit, Answer, AgeInv, TypeOK, redis, readers, writers, faults
<1>5. ASSUME NEW r \in Readers, NEW ok \in BOOLEAN, Miss(r, ok)
      PROVE  AgeInv'
  BY <1>a, <1>b, <1>5 DEF Miss, AgeInv, TypeOK, redis, readers, writers, faults
<1>6. ASSUME NEW r \in Readers, Do(r)
      PROVE  AgeInv'
  BY <1>a, <1>b, <1>6 DEF Do, AgeInv, TypeOK, redis, readers, writers, faults
<1>7. ASSUME NEW r \in Readers, Load(r)
      PROVE  AgeInv'
  BY <1>a, <1>b, <1>7 DEF Load, AgeInv, TypeOK, redis, readers, writers, faults
<1>8. ASSUME NEW r \in Readers, SetPage(r)
      PROVE  AgeInv'
  <2>1. /\ page' = [page EXCEPT ![g[r]] = [ver |-> val[r], exp |-> clock + PageTTL, by |-> home[r]]]
        /\ pc[r] = "set" /\ clock <= since[r] + RequestTimeout
        /\ clock' = clock /\ version' = version /\ birth' = birth
    BY <1>8 DEF SetPage, MayFile, Filed, PageKey, PageExpiry, InTime, writers, faults
  <2>2. \A q \in Readers : \/ pc'[q] = "idle"
                           \/ pc'[q] = pc[q] /\ since'[q] = since[q] /\ val'[q] = val[q]
    BY <1>8 DEF SetPage, Answer
  <2>3. PagesInv'
    BY <1>a, <1>c, <2>1, FiledPage
  <2>. QED
    BY <1>a, <2>1, <2>2, <2>3 DEF AgeInv, PagesInv
<1>9. ASSUME NEW r \in Readers, NEW applied \in BOOLEAN, CallFails(r, applied)
      PROVE  AgeInv'
  <2>1. clock' = clock /\ version' = version /\ birth' = birth
    BY <1>9 DEF CallFails, writers, faults
  <2>2. \A q \in Readers : \/ pc'[q] = "idle"
                           \/ pc'[q] = pc[q] /\ since'[q] = since[q] /\ val'[q] = val[q]
    BY <1>9 DEF CallFails, Answer
  <2>3. PagesInv'
    <3>1. CASE applied
      <4>1. /\ page' = [page EXCEPT ![g[r]] = [ver |-> val[r], exp |-> clock + PageTTL, by |-> home[r]]]
            /\ pc[r] = "set" /\ clock <= since[r] + RequestTimeout
        BY <1>9, <3>1 DEF CallFails, MayFile, Filed, PageKey, PageExpiry, InTime
      <4>. QED
        BY <1>a, <1>c, <2>1, <4>1, FiledPage
    <3>2. CASE ~applied
      <4>1. page' = page
        BY <1>9, <3>2 DEF CallFails
      <4>. QED
        BY <1>c, <2>1, <4>1 DEF PagesInv
    <3>. QED
      BY <3>1, <3>2
  <2>. QED
    BY <1>a, <2>1, <2>2, <2>3 DEF AgeInv, PagesInv
<1>10. ASSUME NEW w \in Writers, NEW ack \in BOOLEAN, Mutate(w, ack)
      PROVE  AgeInv'
  <2>1. /\ version' = version + 1 /\ version + 1 \in Versions
        /\ clock' = clock /\ page' = page /\ pc' = pc /\ since' = since /\ val' = val
    BY <1>a, <1>b, <1>10, BoundsAssumption DEF Mutate, redis, readers, Versions, TypeOK
  <2>2. birth'[version + 1] = clock /\ \A v \in Versions : v # version + 1 => birth'[v] = birth[v]
    BY <1>a, <1>10, <2>1 DEF Mutate, TypeOK
  <2>3. \A v \in Versions : v < version + 1 =>
            v + 1 \in Versions /\ (v = version \/ (v < version /\ v + 1 # version + 1))
    BY <1>b, <2>1, BoundsAssumption DEF Versions
  <2>4. \A n \in Generations : page[n] # None => page[n].ver \in Versions
    BY <1>a DEF TypeOK, Page
  <2>5. ASSUME NEW n \in Generations, page[n] # None, page[n].ver < version + 1
        PROVE  page[n].exp <= birth'[page[n].ver + 1] + PageTTL + RequestTimeout
    <3>1. CASE page[n].ver = version
      BY <1>a, <1>b, <2>2, <2>5, <3>1 DEF AgeInv
    <3>2. CASE page[n].ver # version
      BY <1>a, <1>b, <2>2, <2>3, <2>4, <2>5, <3>2 DEF AgeInv
    <3>. QED
      BY <3>1, <3>2
  <2>6. ASSUME NEW r \in Readers, pc[r] = "set", val[r] < version + 1
        PROVE  since[r] <= birth'[val[r] + 1]
    <3>1. CASE val[r] = version
      BY <1>a, <1>b, <2>2, <2>6, <3>1 DEF AgeInv
    <3>2. CASE val[r] # version
      BY <1>a, <1>b, <2>2, <2>3, <2>6, <3>2 DEF AgeInv, LoadedInv
    <3>. QED
      BY <3>1, <3>2
  <2>. QED
    BY <1>a, <2>1, <2>5, <2>6 DEF AgeInv
<1>11. ASSUME NEW w \in Writers, NEW applied \in BOOLEAN, NEW again \in BOOLEAN,
             Bump(w, applied, again)
      PROVE  AgeInv'
  BY <1>a, <1>b, <1>11 DEF Bump, Resend, AgeInv, TypeOK, redis, readers, writers, faults
<1>14. ASSUME NEW r \in Readers, SetAgain(r)
      PROVE  AgeInv'
  <2>1. /\ page' = [page EXCEPT ![g[r]] =
                       [ver |-> val[r], exp |-> clock + PageTTL, by |-> home[r]]]
        /\ pc[r] = "set" /\ clock <= since[r] + RequestTimeout
        /\ clock' = clock /\ version' = version /\ birth' = birth
        /\ pc' = pc /\ since' = since /\ val' = val
    BY <1>14 DEF SetAgain, MayFile, Filed, PageKey, PageExpiry, InTime, readers, writers
  <2>2. PagesInv'
    BY <1>a, <1>c, <2>1, FiledPage
  <2>. QED
    BY <1>a, <2>1, <2>2 DEF AgeInv, PagesInv
<1>13. CASE UNCHANGED vars
  BY <1>a, <1>b, <1>13 DEF vars, AgeInv, TypeOK, redis, readers, writers, faults
<1>. QED
  BY <1>1, <1>2, <1>3, <1>4, <1>5, <1>6, <1>7, <1>8, <1>9, <1>10, <1>11, <1>13, <1>14 DEF
     Next, ReaderStep

\* The parts of NewestInv.
PagesKnown == \A n \in Generations : page[n] # None => page[n].ver <= version
ListsNewer ==
    \A r \in Readers : pc[r] = "set" =>
        /\ val[r] <= version
        /\ page[g[r]] # None /\ page[g[r]].by = home[r] => page[g[r]].ver <= val[r]

\* Filing a list on an instance that has no other one for the key in hand.
LEMMA FiledNewest ==
    ASSUME TypeOK, LoadedInv, OneLoadAtATime, NewestInv, NEW r \in Readers,
           MayFile(r), page' = Filed(r), version' = version,
           \A q \in Readers : \/ pc'[q] = "idle"
                              \/ /\ pc'[q] = pc[q] /\ val'[q] = val[q]
                                 /\ g'[q] = g[q] /\ home'[q] = home[q]
    PROVE  NewestInv'
<1>1. pc[r] = "set" /\ val[r] <= version /\ val[r] \in Nat /\ g[r] \in Generations
  BY Numbers DEF MayFile, LoadedInv, NewestInv
<1>2. /\ page'[g[r]].ver = val[r] /\ page'[g[r]].by = home[r]
      /\ \A n \in Generations : n # g[r] => page'[n] = page[n]
  BY DEF Filed, PageKey, TypeOK
<1>3. PagesKnown'
  <2>. SUFFICES ASSUME NEW n \in Generations, page'[n] # None
       PROVE  page'[n].ver <= version
    BY DEF PagesKnown
  <2>1. CASE n = g[r]
    BY <1>1, <1>2, <2>1
  <2>2. CASE n # g[r]
    BY <1>2, <2>2 DEF NewestInv
  <2>. QED
    BY <2>1, <2>2
<1>4. ListsNewer'
  <2>. SUFFICES ASSUME NEW q \in Readers, pc'[q] = "set"
       PROVE  /\ val'[q] <= version
              /\ page'[g'[q]] # None /\ page'[g'[q]].by = home'[q]
                    => page'[g'[q]].ver <= val'[q]
    BY DEF ListsNewer
  <2>1. pc[q] = "set" /\ val'[q] = val[q] /\ g'[q] = g[q] /\ home'[q] = home[q]
        /\ g[q] \in Generations
    BY Numbers
  <2>2. val[q] <= version
    BY <2>1 DEF NewestInv
  <2>3. CASE g[q] # g[r]
    BY <1>2, <2>1, <2>2, <2>3 DEF NewestInv
  <2>4. CASE g[q] = g[r] /\ home[q] # home[r]
    BY <1>2, <2>1, <2>2, <2>4
  <2>5. CASE g[q] = g[r] /\ home[q] = home[r]
    <3>1. q = r
      BY <1>1, <2>1, <2>5 DEF OneLoadAtATime
    <3>. QED
      BY <1>1, <1>2, <2>1, <2>2, <3>1
  <2>. QED
    BY <2>3, <2>4, <2>5
<1>. QED
  BY <1>3, <1>4 DEF NewestInv, PagesKnown, ListsNewer

LEMMA NewestStep ==
    ASSUME IInv, [Next]_vars
    PROVE  NewestInv'
<1>a. TypeOK /\ LoadedInv /\ OneLoadAtATime /\ NewestInv
  BY DEF IInv
<1>b. /\ version \in Nat
      /\ \A r \in Readers : g[r] \in Generations
      /\ \A n \in Generations : page[n] # None => page[n].ver \in Nat
      /\ \A v \in Versions : v \in Nat
  BY <1>a, Numbers
<1>1. CASE Tick
  BY <1>a, <1>b, <1>1 DEF Tick, NewestInv, TypeOK, readers
<1>2. CASE RedisRestart
  BY <1>a, <1>b, <1>2 DEF RedisRestart, NewestInv, readers
<1>3. ASSUME NEW r \in Readers, NEW i \in Instances, NEW ok \in BOOLEAN, List(r, i, ok)
      PROVE  NewestInv'
  BY <1>a, <1>b, <1>3 DEF List, NewestInv, TypeOK, redis
<1>4. ASSUME NEW r \in Readers, Hit(r)
      PROVE  NewestInv'
  BY <1>a, <1>b, <1>4 DEF Hit, Answer, NewestInv, TypeOK, redis
<1>5. ASSUME NEW r \in Readers, NEW ok \in BOOLEAN, Miss(r, ok)
      PROVE  NewestInv'
  BY <1>a, <1>b, <1>5 DEF Miss, NewestInv, TypeOK, redis
<1>6. ASSUME NEW r \in Readers, Do(r)
      PROVE  NewestInv'
  BY <1>a, <1>b, <1>6 DEF Do, NewestInv, TypeOK, redis
<1>7. ASSUME NEW r \in Readers, Load(r)
      PROVE  NewestInv'
  BY <1>a, <1>b, <1>7 DEF Load, NewestInv, TypeOK, redis
<1>8. ASSUME NEW r \in Readers, SetPage(r)
      PROVE  NewestInv'
  BY <1>a, <1>8, FiledNewest DEF SetPage, Answer
<1>9. ASSUME NEW r \in Readers, NEW applied \in BOOLEAN, CallFails(r, applied)
      PROVE  NewestInv'
  <2>1. CASE applied
    BY <1>a, <1>9, <2>1, FiledNewest DEF CallFails, Answer
  <2>2. CASE ~applied
    BY <1>a, <1>b, <1>9, <2>2 DEF CallFails, Answer, NewestInv, TypeOK
  <2>. QED
    BY <2>1, <2>2
<1>10. ASSUME NEW w \in Writers, NEW ack \in BOOLEAN, Mutate(w, ack)
      PROVE  NewestInv'
  <2>1. /\ version' = version + 1 /\ page' = page /\ pc' = pc /\ g' = g /\ val' = val
        /\ home' = home
    BY <1>10 DEF Mutate, redis, readers
  <2>2. \A r \in Readers : pc[r] = "set" => val[r] \in Nat
    BY <1>a, <1>b DEF LoadedInv
  <2>. QED
    BY <1>a, <1>b, <2>1, <2>2 DEF NewestInv
<1>11. ASSUME NEW w \in Writers, NEW applied \in BOOLEAN, NEW again \in BOOLEAN,
             Bump(w, applied, again)
      PROVE  NewestInv'
  BY <1>a, <1>11 DEF Bump, NewestInv, readers
<1>14. ASSUME NEW r \in Readers, SetAgain(r)
      PROVE  NewestInv'
  BY <1>a, <1>14, FiledNewest DEF SetAgain, readers
<1>13. CASE UNCHANGED vars
  BY <1>a, <1>13 DEF vars, NewestInv
<1>. QED
  BY <1>1, <1>2, <1>3, <1>4, <1>5, <1>6, <1>7, <1>8, <1>9, <1>10, <1>11, <1>13, <1>14 DEF
     Next, ReaderStep

----------------------------------------------------------------------------
(* Theorems *)

LEMMA InitInv ==
    ASSUME Init
    PROVE  IInv
<1>1. TypeOK
  BY BoundsAssumption DEF Init, TypeOK, Versions, Generations, Times
<1>2. BumpInv
  <2>1. Bumping = {}
    BY DEF Init, Bumping
  <2>. QED
    BY <2>1, FS_EmptySet, BoundsAssumption DEF Init, BumpInv, Versions
<1>3. LoadedInv /\ OneLoadAtATime /\ FollowersHaveALeader /\ NewestInv
  BY DEF Init, LoadedInv, OneLoadAtATime, FollowersHaveALeader, NewestInv
<1>4. GenInv
  BY BoundsAssumption DEF Init, GenInv, Generations
<1>5. AgeInv
  BY DEF Init, AgeInv
<1>. QED
  BY <1>1, <1>2, <1>3, <1>4, <1>5 DEF IInv

\* The inductive invariant of the list cache holds of every interleaving of list
\* requests, mutations, failures and restarts of Redis.
THEOREM Invariance == Spec => []IInv
<1>1. Init => IInv
  BY InitInv
<1>2. IInv /\ [Next]_vars => IInv'
  BY TypeStep, BumpStep, LoadedStep, GenStep, AgeStep, LoadsStep, FollowersStep, NewestStep
     DEF IInv
<1>. QED
  BY <1>1, <1>2, PTL DEF Spec

\* Redis, the table and the locals of ListBooks keep their types; above all, a
\* generation takes a committed mutation or an INCR that was sent again, however
\* bumps, lost replies and restarts of Redis interleave, and a page holds a list.
THEOREM TypeCorrect == Spec => []TypeOK
<1>1. IInv => TypeOK
  BY DEF IInv
<1>. QED
  BY <1>1, Invariance, PTL

\* A list asked for after Redis applied a mutation's bump shows the mutation.
THEOREM BumpedMutationsSeen == Spec => ListSeesBumpedMutations
<1>. DEFINE Act ==
        \A r \in Readers :
          pc[r] # "idle" /\ pc'[r] = "idle" /\ val'[r] # None /\ restarts = 0
              => val'[r] >= floor[r]
<1>1. ASSUME IInv, [Next]_vars
      PROVE  [Act]_vars
  <2>. SUFFICES ASSUME Next, NEW q \in Readers, restarts = 0,
                       pc[q] # "idle", pc'[q] = "idle", val'[q] # None
       PROVE  val'[q] >= floor[q]
    BY <1>1
  <2>a. TypeOK /\ GenBody
    BY <1>1 DEF IInv, GenInv, GenBody
  <2>1. CASE \E r \in Readers : Hit(r)
    <3>1. PICK r \in Readers : Hit(r)
      BY <2>1
    <3>2. q = r /\ page[g[r]] # None /\ val'[q] = page[g[r]].ver
      BY <3>1 DEF Hit, Answer
    <3>. QED
      BY <2>a, <3>2 DEF GenBody
  <2>2. CASE \E r \in Readers : SetPage(r)
    <3>1. PICK r \in Readers : SetPage(r)
      BY <2>2
    <3>2. pc[r] = "set" /\ val'[q] = val[r] /\ g[q] = g[r]
      BY <3>1 DEF SetPage, MayFile, Answer, Followers, SameCall
    <3>3. floor[q] = floor[r] /\ val[r] >= floor[r]
      BY <2>a, <3>2 DEF GenBody
    <3>. QED
      BY <3>2, <3>3
  <2>3. CASE \E r \in Readers : \E applied \in BOOLEAN : CallFails(r, applied)
    BY <2>3 DEF CallFails, Answer
  <2>4. CASE \E r \in Readers : \/ \E i \in Instances, ok \in BOOLEAN : List(r, i, ok)
                                \/ \E ok \in BOOLEAN : Miss(r, ok)
                                \/ Do(r) \/ Load(r) \/ SetAgain(r)
    BY <2>a, <2>4 DEF List, Miss, Do, Load, SetAgain, readers, TypeOK
  <2>5. CASE pc' = pc
    BY <2>5
  <2>6. \/ pc' = pc
        \/ \E r \in Readers : (\E i \in Instances, ok \in BOOLEAN : List(r, i, ok)) \/ ReaderStep(r)
    BY DEF Next, Tick, RedisRestart, Mutate, Bump, readers
  <2>. QED
    BY <2>1, <2>2, <2>3, <2>4, <2>5, <2>6 DEF ReaderStep
<1>. QED
  BY <1>1, Invariance, PTL DEF Spec, ListSeesBumpedMutations

\* A request that joined a flight has the flight's leader to answer it.
THEOREM NobodyLeftWaiting == Spec => []FollowersHaveALeader
<1>1. IInv => FollowersHaveALeader
  BY DEF IInv
<1>. QED
  BY <1>1, Invariance, PTL

\* Whatever is lost, ListBooks answers nothing older than the page's expiry plus a
\* request's time.
THEOREM AgeBounded == Spec => AnswerAgeBounded
<1>. DEFINE Act ==
        \A r \in Readers :
          pc[r] # "idle" /\ pc'[r] = "idle" /\ val'[r] # None /\ val'[r] < version =>
              clock <= birth[val'[r] + 1] + PageTTL + RequestTimeout
<1>1. ASSUME IInv, [Next]_vars
      PROVE  [Act]_vars
  <2>. SUFFICES ASSUME Next, NEW q \in Readers,
                       pc[q] # "idle", pc'[q] = "idle", val'[q] # None, val'[q] < version
       PROVE  clock <= birth[val'[q] + 1] + PageTTL + RequestTimeout
    BY <1>1
  <2>a. TypeOK /\ LoadedInv /\ AgeInv
    BY <1>1 DEF IInv
  <2>b. /\ version \in Nat /\ clock \in Nat
        /\ PageTTL \in Nat /\ RequestTimeout \in Nat
        /\ \A r \in Readers : g[r] \in Generations /\ since[r] \in Nat
        /\ \A n \in Generations : page[n] # None => page[n].ver \in Versions /\ page[n].exp \in Nat
        /\ \A v \in Versions : v \in Nat /\ birth[v] \in Nat
        /\ \A v \in Versions : v < version => v + 1 \in Versions
    <3>1. \A n \in Generations : page[n] # None => page[n].ver \in Versions
      BY <2>a DEF TypeOK, Page
    <3>2. \A v \in Versions : v < version => v + 1 \in Versions
      BY <2>a, BoundsAssumption DEF TypeOK, Versions
    <3>3. PageTTL \in Nat /\ RequestTimeout \in Nat
      BY BoundsAssumption
    <3>. QED
      BY <2>a, Numbers, <3>1, <3>2, <3>3
  <2>1. CASE \E r \in Readers : Hit(r)
    <3>1. PICK r \in Readers : Hit(r)
      BY <2>1
    <3>2. page[g[r]] # None /\ val'[q] = page[g[r]].ver
      BY <3>1 DEF Hit, Answer
    <3>3. clock < page[g[r]].exp
          /\ page[g[r]].exp <= birth[page[g[r]].ver + 1] + PageTTL + RequestTimeout
      BY <2>a, <2>b, <3>2 DEF AgeInv
    <3>. QED
      BY <2>b, <3>2, <3>3
  <2>2. CASE \E r \in Readers : SetPage(r)
    <3>1. PICK r \in Readers : SetPage(r)
      BY <2>2
    <3>2. pc[r] = "set" /\ clock <= since[r] + RequestTimeout /\ val'[q] = val[r]
      BY <3>1 DEF SetPage, MayFile, Answer, InTime
    <3>3. val[r] \in Versions /\ since[r] <= birth[val[r] + 1]
      BY <2>a, <3>2 DEF LoadedInv, AgeInv
    <3>. QED
      BY <2>b, <3>2, <3>3
  <2>3. CASE \E r \in Readers : \E applied \in BOOLEAN : CallFails(r, applied)
    BY <2>3 DEF CallFails, Answer
  <2>4. CASE \E r \in Readers : \/ \E i \in Instances, ok \in BOOLEAN : List(r, i, ok)
                                \/ \E ok \in BOOLEAN : Miss(r, ok)
                                \/ Do(r) \/ Load(r) \/ SetAgain(r)
    BY <2>a, <2>4 DEF List, Miss, Do, Load, SetAgain, readers, TypeOK
  <2>5. CASE pc' = pc
    BY <2>5
  <2>6. \/ pc' = pc
        \/ \E r \in Readers : (\E i \in Instances, ok \in BOOLEAN : List(r, i, ok)) \/ ReaderStep(r)
    BY DEF Next, Tick, RedisRestart, Mutate, Bump, readers
  <2>. QED
    BY <2>1, <2>2, <2>3, <2>4, <2>5, <2>6 DEF ReaderStep
<1>. QED
  BY <1>1, Invariance, PTL DEF Spec, AnswerAgeBounded

\* On one instance, neither a repeated load nor a re-sent Set sets a page back.
THEOREM RepeatedLoadsAdvance == Spec => PagesAdvance
<1>. DEFINE Act ==
        \A n \in Generations :
          page[n] # None /\ page'[n] # None /\ page'[n].by = page[n].by
              => page'[n].ver >= page[n].ver
<1>1. ASSUME IInv, [Next]_vars
      PROVE  [Act]_vars
  <2>. SUFFICES ASSUME Next, NEW n \in Generations,
                       page[n] # None, page'[n] # None, page'[n].by = page[n].by
       PROVE  page'[n].ver >= page[n].ver
    BY <1>1
  <2>a. TypeOK /\ LoadedInv /\ NewestInv
    BY <1>1 DEF IInv
  <2>b. page[n].ver \in Nat
    BY <2>a, Numbers
  <2>1. CASE page'[n] = page[n]
    BY <2>b, <2>1
  <2>2. CASE \E r \in Readers : MayFile(r) /\ page' = Filed(r)
    <3>1. PICK r \in Readers : MayFile(r) /\ page' = Filed(r)
      BY <2>2
    <3>2. pc[r] = "set" /\ val[r] \in Versions /\ val[r] \in Nat
      BY <2>a, <3>1, Numbers DEF MayFile, LoadedInv
    <3>3. CASE n = g[r]
      <4>1. page'[n].ver = val[r] /\ page'[n].by = home[r]
        BY <2>a, <3>1, <3>3 DEF Filed, PageKey, TypeOK
      <4>2. page[n].ver <= val[r]
        BY <2>a, <3>2, <3>3, <4>1 DEF NewestInv
      <4>. QED
        BY <2>b, <3>2, <4>1, <4>2
    <3>4. CASE n # g[r]
      BY <2>a, <2>b, <3>1, <3>4 DEF Filed, PageKey, TypeOK
    <3>. QED
      BY <3>3, <3>4
  <2>3. page'[n] = page[n] \/ \E r \in Readers : MayFile(r) /\ page' = Filed(r)
    <3>1. ASSUME NEW r \in Readers, ReaderStep(r)
          PROVE  page' = page \/ (MayFile(r) /\ page' = Filed(r))
      BY <3>1 DEF ReaderStep, Hit, Miss, Do, Load, SetPage, SetAgain, CallFails, redis
    <3>2. ASSUME NEW r \in Readers, \E i \in Instances, ok \in BOOLEAN : List(r, i, ok)
          PROVE  page' = page
      BY <3>2 DEF List, redis
    <3>3. CASE Tick
      BY <3>3 DEF Tick
    <3>4. CASE RedisRestart
      BY <3>4 DEF RedisRestart
    <3>5. ASSUME NEW w \in Writers, \/ \E ack \in BOOLEAN : Mutate(w, ack)
                                    \/ \E applied, again \in BOOLEAN : Bump(w, applied, again)
          PROVE  page' = page
      BY <3>5 DEF Mutate, Bump, redis
    <3>. QED
      BY <3>1, <3>2, <3>3, <3>4, <3>5 DEF Next
  <2>. QED
    BY <2>1, <2>2, <2>3
<1>. QED
  BY <1>1, Invariance, PTL DEF Spec, PagesAdvance

----------------------------------------------------------------------------
(* BookPaging.  Lists of a set in a given order. *)

\* A set of numbers that is not empty has a least element: the smallest of the
\* initial segments that end in the set.
LEMMA LeastElement ==
    ASSUME NEW T, T \subseteq Nat, T # {}
    PROVE  \E m \in T : \A n \in T : m <= n
<1>. DEFINE Seg == {0 .. n : n \in T}
<1>1. Seg \subseteq FiniteSubsetsOf(Nat) /\ Seg # {}
  <2>1. \A n \in T : 0 .. n \in FiniteSubsetsOf(Nat)
    BY FS_Interval DEF FiniteSubsetsOf
  <2>. QED
    BY <2>1
<1>2. PICK x \in Seg : \A y \in Seg : ~(<<y, x>> \in StrictSubsetOrdering(Nat))
  BY <1>1, WFMin, FS_StrictSubsetOrderingWellFounded
<1>3. PICK m \in T : x = 0 .. m
  OBVIOUS
<1>4. ASSUME NEW n \in T, n < m PROVE FALSE
  <2>1. 0 .. n \subseteq 0 .. m /\ 0 .. n # 0 .. m
    BY <1>4
  <2>2. 0 .. n \in Seg /\ 0 .. n \in SUBSET Nat /\ 0 .. m \in SUBSET Nat
    OBVIOUS
  <2>. HIDE DEF Seg
  <2>. QED
    BY <1>2, <1>3, <2>1, <2>2 DEF StrictSubsetOrdering
<1>. QED
  BY <1>3, <1>4

\* Places that are one apart each count up.
LEMMA Consecutive ==
    ASSUME NEW n \in Nat, NEW f, \A k \in 1 .. n + 1 : f[k] \in Int,
           \A k \in 1 .. n : f[k + 1] = f[k] + 1
    PROVE  \A k \in 1 .. n + 1 : f[k] = f[1] + k - 1
<1>. DEFINE T == {k \in 1 .. n + 1 : f[k] # f[1] + k - 1}
<1>1. SUFFICES ASSUME T # {} PROVE FALSE
  OBVIOUS
<1>2. PICK m \in T : \A k \in T : m <= k
  <2>1. T \subseteq Nat
    OBVIOUS
  <2>. HIDE DEF T
  <2>. QED
    BY <1>1, <2>1, LeastElement
<1>3. m \in 2 .. n + 1 /\ m - 1 \notin T
  BY <1>2
<1>. QED
  BY <1>2, <1>3

\* s lists the members of S once each, every one before the ones R puts after it.
Lists(s, S, R) ==
    /\ s \in [1 .. Cardinality(S) -> S]
    /\ \A i, j \in 1 .. Cardinality(S) : i < j => <<s[i], s[j]>> \in R

\* R does not put two members of S both ways round.
OneWay(S, R) == \A x, y \in S : <<x, y>> \in R => <<y, x>> \notin R

\* A list repeats nothing and leaves nothing out.
LEMMA ListsAll ==
    ASSUME NEW S, IsFiniteSet(S), NEW R, OneWay(S, R), NEW s, Lists(s, S, R)
    PROVE  /\ Cardinality(S) \in Nat
           /\ \A i, j \in 1 .. Cardinality(S) : s[i] = s[j] => i = j
           /\ \A x \in S : \E i \in 1 .. Cardinality(S) : s[i] = x
<1>. DEFINE c == Cardinality(S)
<1>1. c \in Nat
  BY FS_CardinalityType
<1>2. \A i, j \in 1 .. c : i < j => s[i] # s[j]
  BY <1>1 DEF Lists, OneWay
<1>3. \A i, j \in 1 .. c : s[i] = s[j] => i = j
  BY <1>1, <1>2
<1>4. s \in Injection(1 .. c, S)
  BY <1>3 DEF Lists, Injection, IsInjective
<1>5. Cardinality(1 .. c) = c
  BY <1>1, FS_Interval
<1>6. s \in Surjection(1 .. c, S)
  BY <1>4, <1>5, FS_Injection
<1>. QED
  BY <1>1, <1>3, <1>6 DEF Surjection

\* The place of a row is the number of rows before it.
LEMMA Place ==
    ASSUME NEW S, IsFiniteSet(S), NEW R, OneWay(S, R), NEW s, Lists(s, S, R),
           NEW i \in 1 .. Cardinality(S)
    PROVE  Cardinality({x \in S : <<x, s[i]>> \in R}) = i - 1
<1>. DEFINE B == {x \in S : <<x, s[i]>> \in R}
            f == [j \in 1 .. i - 1 |-> s[j]]
<1>1. /\ Cardinality(S) \in Nat
      /\ \A k, j \in 1 .. Cardinality(S) : s[k] = s[j] => k = j
      /\ \A x \in S : \E k \in 1 .. Cardinality(S) : s[k] = x
  BY ListsAll
<1>2. i \in Nat /\ i - 1 \in Nat /\ \A j \in 1 .. i - 1 : j \in 1 .. Cardinality(S) /\ j < i
  BY <1>1
<1>3. \A j \in 1 .. i - 1 : s[j] \in B
  BY <1>2 DEF Lists
<1>4. ASSUME NEW x \in B PROVE \E j \in 1 .. i - 1 : s[j] = x
  <2>1. PICK k \in 1 .. Cardinality(S) : s[k] = x
    BY <1>1
  <2>2. ~(i < k) /\ i # k
    <3>1. s[i] \in S /\ s[k] \in S /\ <<s[k], s[i]>> \in R
      BY <2>1 DEF Lists
    <3>. QED
      BY <3>1 DEF Lists, OneWay
  <2>. QED
    BY <1>1, <1>2, <2>1, <2>2
<1>5. f \in Injection(1 .. i - 1, B)
  BY <1>1, <1>2, <1>3 DEF Injection, IsInjective
<1>6. f \in Surjection(1 .. i - 1, B)
  BY <1>3, <1>4 DEF Surjection
<1>7. f \in Bijection(1 .. i - 1, B)
  BY <1>5, <1>6 DEF Bijection
<1>. QED
  BY <1>2, <1>7, FS_CountingElements DEF ExistsBijection

\* Rows that are told apart are listed in one order.
LEMMA ListedOneWay ==
    ASSUME NEW S, IsFiniteSet(S), NEW R, OneWay(S, R),
           NEW s, Lists(s, S, R), NEW t, Lists(t, S, R)
    PROVE  s = t
<1>1. ASSUME NEW i \in 1 .. Cardinality(S) PROVE s[i] = t[i]
  <2>1. s[i] \in S
    BY DEF Lists
  <2>2. PICK k \in 1 .. Cardinality(S) : t[k] = s[i]
    BY <2>1, ListsAll
  <2>3. i - 1 = k - 1
    <3>1. Cardinality({x \in S : <<x, s[i]>> \in R}) = i - 1
      BY Place
    <3>2. Cardinality({x \in S : <<x, t[k]>> \in R}) = k - 1
      BY Place
    <3>. QED
      BY <2>2, <3>1, <3>2
  <2>4. i \in Int /\ k \in Int
    BY ListsAll
  <2>. QED
    BY <2>2, <2>3, <2>4
<1>2. s = [i \in 1 .. Cardinality(S) |-> s[i]] /\ t = [i \in 1 .. Cardinality(S) |-> t[i]]
  BY DEF Lists
<1>. QED
  BY <1>1, <1>2

\* The first b elements of s after the first a.
Piece(s, a, b) == SubSeq(s, a + 1, IF b < Len(s) THEN b ELSE Len(s))

\* How many there are.
PieceLen(s, a, b) ==
    LET e == IF b < Len(s) THEN b ELSE Len(s) IN IF a < e THEN e - a ELSE 0

\* The elements of a piece.
LEMMA Pieces ==
    ASSUME NEW A, NEW s \in Seq(A), NEW a \in Nat, NEW b \in Nat
    PROVE  /\ Piece(s, a, b) \in Seq(A)
           /\ Len(Piece(s, a, b)) = PieceLen(s, a, b)
           /\ \A i \in 1 .. Len(Piece(s, a, b)) : Piece(s, a, b)[i] = s[a + i]
<1>. DEFINE e == IF b < Len(s) THEN b ELSE Len(s)
<1>1. e \in Nat /\ e <= Len(s)
  OBVIOUS
<1>. HIDE DEF e
<1>2. CASE a < e
  <2>1. SubSeq(s, a + 1, e) \in Seq(A) /\ Len(SubSeq(s, a + 1, e)) = e - a
    BY <1>1, <1>2
  <2>2. \A i \in 1 .. e - a : SubSeq(s, a + 1, e)[i] = s[a + i]
    BY <1>1, <1>2
  <2>. QED
    BY <1>2, <2>1, <2>2 DEF Piece, PieceLen, e
<1>3. CASE ~(a < e)
  <2>1. SubSeq(s, a + 1, e) = << >>
    BY <1>1, <1>3
  <2>. QED
    BY <1>3, <2>1 DEF Piece, PieceLen, e
<1>. QED
  BY <1>2, <1>3

\* A piece and the one after it are one piece, unless the first was cut short.
LEMMA NextPiece ==
    ASSUME NEW A, NEW s \in Seq(A), NEW a \in Nat, NEW b \in Nat, NEW l \in Nat, a <= b,
           a # b => b <= Len(s)
    PROVE  Piece(s, a, b) \o Piece(s, b, b + l) = Piece(s, a, b + l)
<1>. DEFINE p == Piece(s, a, b)  q == Piece(s, b, b + l)  r == Piece(s, a, b + l)
<1>1. /\ p \in Seq(A) /\ q \in Seq(A) /\ r \in Seq(A) /\ Len(s) \in Nat
      /\ Len(p) = b - a
      /\ Len(q) = IF b + l < Len(s) THEN l ELSE IF b < Len(s) THEN Len(s) - b ELSE 0
      /\ Len(r) = Len(p) + Len(q)
      /\ \A i \in 1 .. Len(p) : p[i] = s[a + i]
      /\ \A i \in 1 .. Len(q) : q[i] = s[b + i]
      /\ \A i \in 1 .. Len(r) : r[i] = s[a + i]
  <2>1. Len(s) \in Nat /\ b + l \in Nat
    BY LenProperties
  <2>2. /\ p \in Seq(A)
        /\ Len(p) = PieceLen(s, a, b)
        /\ \A i \in 1 .. Len(p) : p[i] = s[a + i]
    BY Pieces, ZenonT(60)
  <2>3. /\ q \in Seq(A)
        /\ Len(q) = PieceLen(s, b, b + l)
        /\ \A i \in 1 .. Len(q) : q[i] = s[b + i]
    BY <2>1, Pieces, ZenonT(60)
  <2>4. /\ r \in Seq(A)
        /\ Len(r) = PieceLen(s, a, b + l)
        /\ \A i \in 1 .. Len(r) : r[i] = s[a + i]
    BY <2>1, Pieces, ZenonT(60)
  <2>. HIDE DEF p, q, r
  <2>5. Len(p) = b - a
    BY <2>1, <2>2 DEF PieceLen
  <2>6. Len(q) = IF b + l < Len(s) THEN l ELSE IF b < Len(s) THEN Len(s) - b ELSE 0
    BY <2>1, <2>3 DEF PieceLen
  <2>7. Len(r) = Len(p) + Len(q)
    BY <2>1, <2>4, <2>5, <2>6 DEF PieceLen
  <2>. QED
    BY <2>1, <2>2, <2>3, <2>4, <2>5, <2>6, <2>7
<1>. HIDE DEF p, q, r
<1>2. /\ p \o q \in Seq(A) /\ Len(p \o q) = Len(p) + Len(q)
      /\ \A i \in 1 .. Len(p) + Len(q) :
            (p \o q)[i] = IF i <= Len(p) THEN p[i] ELSE q[i - Len(p)]
  BY <1>1, ConcatProperties
<1>3. ASSUME NEW i \in 1 .. Len(r) PROVE (p \o q)[i] = r[i]
  <2>1. CASE i <= Len(p)
    <3>1. i \in 1 .. Len(p) /\ i \in 1 .. Len(p) + Len(q)
      BY <1>1, <2>1
    <3>2. (p \o q)[i] = p[i]
      BY <1>2, <2>1, <3>1
    <3>3. p[i] = s[a + i] /\ r[i] = s[a + i]
      BY <1>1, <3>1
    <3>. QED
      BY <3>2, <3>3
  <2>2. CASE i > Len(p)
    <3>1. i - Len(p) \in 1 .. Len(q) /\ b + (i - Len(p)) = a + i
          /\ i \in 1 .. Len(p) + Len(q) /\ ~(i <= Len(p))
      BY <1>1, <2>2
    <3>2. (p \o q)[i] = q[i - Len(p)]
      BY <1>2, <3>1
    <3>3. q[i - Len(p)] = s[a + i] /\ r[i] = s[a + i]
      BY <1>1, <3>1
    <3>. QED
      BY <3>2, <3>3
  <2>3. i <= Len(p) \/ i > Len(p)
    BY <1>1
  <2>. QED
    BY <2>1, <2>2, <2>3
<1>4. Len(p \o q) = Len(r)
  BY <1>1, <1>2
<1>. QED
  BY <1>1, <1>2, <1>3, <1>4, SeqEqual DEF p, q, r

----------------------------------------------------------------------------
(* Parsed queries *)

\* The queries the handler makes of query strings it does not refuse.
Parsed == {Parse(raw) : raw \in {r \in RawQueries : Valid(r)}}

\* parseOffsetLimit and parseBookListQuery let nothing else through.
LEMMA ParsedTypes ==
    ASSUME NEW q \in Parsed
    PROVE  /\ q.offset \in Nat /\ q.limit \in Nat \ {0}
           /\ q.title \in Seq(STRING) /\ q.author \in Seq(STRING)
           /\ q.owner \in Nat \cup {Nil}
           /\ q.sort \in SortFields
           /\ q.order \in {"asc", "desc"}
           /\ q = [offset |-> q.offset, limit |-> q.limit, title |-> q.title,
                   author |-> q.author, owner |-> q.owner, sort |-> q.sort, order |-> q.order]
<1>1. PICK raw \in RawQueries : Valid(raw) /\ q = Parse(raw)
  BY DEF Parsed
<1>2. Offset(raw) \in Nat
  BY <1>1, QueriesAssumption DEF Valid, Offset
<1>3. Limit(raw) \in Nat \ {0}
  BY <1>1, QueriesAssumption, PagingAssumption DEF Valid, Limit, Cap
<1>4. raw.owner \in Nat \cup {Nil}
  BY <1>1, QueriesAssumption DEF Valid
<1>5. raw.title \in Seq(STRING) /\ raw.author \in Seq(STRING)
  BY QueriesAssumption
<1>6. raw.sort \in SortFields \cup {Nil} /\ raw.order \in {"asc", "desc", Nil}
  BY <1>1 DEF Valid
<1>. QED
  BY <1>1, <1>2, <1>3, <1>4, <1>5, <1>6 DEF Parse, SortFields

----------------------------------------------------------------------------
(* Filters *)

\* A function on the places of a text is as long as the text.
LEMMA TextLength ==
    ASSUME NEW text \in Seq(STRING), NEW f, f = [i \in DOMAIN text |-> f[i]]
    PROVE  Len(f) = Len(text) /\ DOMAIN f = 1 .. Len(text)
<1>. DEFINE A == {f[i] : i \in 1 .. Len(text)}
<1>1. Len(text) \in Nat /\ DOMAIN text = 1 .. Len(text)
  BY LenProperties
<1>2. DOMAIN f = 1 .. Len(text) /\ f = [i \in 1 .. Len(text) |-> f[i]]
  BY <1>1
<1>3. f \in [1 .. Len(text) -> A]
  BY <1>2
<1>4. f \in Seq(A)
  BY <1>1, <1>3, SeqDef
<1>5. Len(f) = Len(text)
  BY <1>1, <1>2, <1>4, LenProperties
<1>. QED
  BY <1>2, <1>5

\* Lowering a text, by Go or by PostgreSQL, keeps its length.
LEMMA LowerText ==
    ASSUME NEW text \in Seq(STRING)
    PROVE  /\ Len(LowerFilter(text)) = Len(text) /\ Len(LowerColumn(text)) = Len(text)
           /\ DOMAIN LowerFilter(text) = 1 .. Len(text)
           /\ DOMAIN LowerColumn(text) = 1 .. Len(text)
           /\ \A i \in 1 .. Len(text) : /\ LowerFilter(text)[i] = ToLower(text[i])
                                       /\ LowerColumn(text)[i] = LOWER(text[i])
<1>1. DOMAIN text = 1 .. Len(text)
  BY LenProperties
<1>2. LowerFilter(text) = [i \in DOMAIN text |-> LowerFilter(text)[i]]
  BY DEF LowerFilter
<1>3. LowerColumn(text) = [i \in DOMAIN text |-> LowerColumn(text)[i]]
  BY DEF LowerColumn
<1>4. Len(LowerFilter(text)) = Len(text) /\ DOMAIN LowerFilter(text) = 1 .. Len(text)
  BY <1>2, TextLength
<1>5. Len(LowerColumn(text)) = Len(text) /\ DOMAIN LowerColumn(text) = 1 .. Len(text)
  BY <1>3, TextLength
<1>6. \A i \in 1 .. Len(text) : LowerFilter(text)[i] = ToLower(text[i])
  BY <1>1 DEF LowerFilter
<1>7. \A i \in 1 .. Len(text) : LowerColumn(text)[i] = LOWER(text[i])
  BY <1>1 DEF LowerColumn
<1>. QED
  BY <1>4, <1>5, <1>6, <1>7

\* Two characters the statement takes for one are one letter.
LEMMA SameIsLowered ==
    ASSUME NEW c, NEW d
    PROVE  SameLetter(c, d) <=> LOWER(c) = ToLower(d)
<1>1. CASE {c, d} \subseteq Ascii
  <2>1. ToLower(c) = LOWER(c)
    BY <1>1, LettersAssumption
  <2>. QED
    BY <1>1, <2>1 DEF SameLetter
<1>2. CASE ~({c, d} \subseteq Ascii)
  BY <1>2 DEF SameLetter
<1>. QED
  BY <1>1, <1>2

\* escapeLikePattern leaves no wildcard: a character takes itself.
LEMMA Literal ==
    ASSUME NEW c, NEW text, NEW i, NEW j
    PROVE  Takes(Pattern(c), text, i, j) <=> j = i + 1 /\ text[i] = c
<1>1. DOMAIN [lit |-> c] = {"lit"}
  OBVIOUS
<1>. QED
  BY <1>1 DEF Takes, Pattern

\* The pattern of a filter finds what contains the filter.
LEMMA LikeIsPart ==
    ASSUME NEW text \in Seq(STRING), NEW part \in Seq(STRING)
    PROVE  Like(LowerColumn(text), LowerFilter(part)) <=> HasPart(text, part)
<1>. DEFINE t == LowerColumn(text)  p == LowerFilter(part)  n == Len(part)
<1>1. /\ Len(t) = Len(text) /\ Len(text) \in Nat
      /\ Len(p) = n /\ n \in Nat /\ DOMAIN p = 1 .. n /\ DOMAIN part = 1 .. n
  BY LowerText, LenProperties
<1>2. HasPart(text, part) <=>
        \E i \in 0 .. Len(text) - n : \A k \in 1 .. n : t[i + k] = p[k]
  <2>1. HasPart(text, part) <=>
          \E i \in 0 .. Len(text) - n : \A k \in 1 .. n : SameLetter(text[i + k], part[k])
    BY <1>1 DEF HasPart
  <2>2. ASSUME NEW i \in 0 .. Len(text) - n, NEW k \in 1 .. n
        PROVE  SameLetter(text[i + k], part[k]) <=> t[i + k] = p[k]
    <3>1. i + k \in 1 .. Len(text)
      BY <1>1
    <3>2. t[i + k] = LOWER(text[i + k]) /\ p[k] = ToLower(part[k])
      BY <3>1, LowerText
    <3>. QED
      BY <3>2, SameIsLowered
  <2>. HIDE DEF t, p, n
  <2>. QED
    BY <2>1, <2>2
<1>3. Like(t, p) <=>
        \E cut \in [1 .. n + 1 -> 1 .. Len(text) + 1] :
            \A k \in 1 .. n : /\ cut[k] <= cut[k + 1] /\ cut[k + 1] <= Len(text) + 1
                              /\ cut[k + 1] = cut[k] + 1 /\ t[cut[k]] = p[k]
  <2>1. ASSUME NEW cut, NEW k
        PROVE  Takes(Pattern(p[k]), t, cut[k], cut[k + 1])
                  <=> cut[k + 1] = cut[k] + 1 /\ t[cut[k]] = p[k]
    BY Literal
  <2>. HIDE DEF t, p, n
  <2>2. Like(t, p) <=>
          \E cut \in [1 .. n + 1 -> 1 .. Len(text) + 1] :
              \A k \in 1 .. n : /\ cut[k] <= cut[k + 1] /\ cut[k + 1] <= Len(text) + 1
                                /\ Takes(Pattern(p[k]), t, cut[k], cut[k + 1])
    BY <1>1 DEF Like
  <2>3. ASSUME NEW cut
        PROVE  (\A k \in 1 .. n : /\ cut[k] <= cut[k + 1] /\ cut[k + 1] <= Len(text) + 1
                                  /\ Takes(Pattern(p[k]), t, cut[k], cut[k + 1]))
           <=> (\A k \in 1 .. n : /\ cut[k] <= cut[k + 1] /\ cut[k + 1] <= Len(text) + 1
                                  /\ cut[k + 1] = cut[k] + 1 /\ t[cut[k]] = p[k])
    BY <2>1
  <2>. QED
    BY <2>2, <2>3
<1>. HIDE DEF t, p, n
<1>4. ASSUME Like(t, p) PROVE HasPart(text, part)
  <2>1. PICK cut \in [1 .. n + 1 -> 1 .. Len(text) + 1] :
            \A k \in 1 .. n : cut[k + 1] = cut[k] + 1 /\ t[cut[k]] = p[k]
    BY <1>3, <1>4
  <2>2. \A k \in 1 .. n + 1 : cut[k] \in Int /\ cut[k] \in 1 .. Len(text) + 1
    BY <1>1, <2>1
  <2>3. \A k \in 1 .. n + 1 : cut[k] = cut[1] + k - 1
    BY <1>1, <2>1, <2>2, Consecutive, ZenonT(60)
  <2>4. 1 \in 1 .. n + 1 /\ n + 1 \in 1 .. n + 1
    BY <1>1
  <2>5. cut[1] - 1 \in 0 .. Len(text) - n
    BY <1>1, <2>2, <2>3, <2>4
  <2>6. \A k \in 1 .. n : t[(cut[1] - 1) + k] = p[k]
    <3>1. \A k \in 1 .. n : k \in 1 .. n + 1 /\ (cut[1] - 1) + k = cut[k]
      BY <1>1, <2>2, <2>3, <2>4
    <3>. QED
      BY <2>1, <3>1
  <2>. QED
    BY <1>2, <2>5, <2>6
<1>5. ASSUME HasPart(text, part) PROVE Like(t, p)
  <2>1. PICK i \in 0 .. Len(text) - n : \A k \in 1 .. n : t[i + k] = p[k]
    BY <1>2, <1>5
  <2>. DEFINE cut == [k \in 1 .. n + 1 |-> i + k]
  <2>2. cut \in [1 .. n + 1 -> 1 .. Len(text) + 1]
    BY <1>1, <2>1
  <2>3. \A k \in 1 .. n : /\ cut[k] <= cut[k + 1] /\ cut[k + 1] <= Len(text) + 1
                          /\ cut[k + 1] = cut[k] + 1 /\ t[cut[k]] = p[k]
    BY <1>1, <2>1
  <2>. HIDE DEF cut
  <2>. QED
    BY <1>3, <2>2, <2>3
<1>. QED
  BY <1>4, <1>5 DEF t, p

\* A filter left out excludes nothing.
LEMMA NoFilter ==
    ASSUME NEW text \in Seq(STRING)
    PROVE  HasPart(text, << >>)
<1>1. Len(text) \in Nat /\ Len(<< >>) = 0 /\ DOMAIN << >> = {}
  BY LenProperties
<1>2. 0 \in 0 .. Len(text) - Len(<< >>)
  BY <1>1
<1>. QED
  BY <1>1, <1>2 DEF HasPart

\* The WHERE clause selects the rows the query asks for: an owner beyond
\* math.MaxInt64 becomes that number, which is nobody's id.
LEMMA WhereIsWanted ==
    ASSUME NEW q \in Parsed, NEW b \in Books
    PROVE  Where(q, b) <=> /\ HasPart(b.title, q.title)
                                  /\ HasPart(b.author, q.author)
                                  /\ q.owner \in {Nil, b.owner}
<1>1. b.title \in Seq(STRING) /\ b.author \in Seq(STRING) /\ b.owner \in 0 .. MaxInt - 1
      /\ MaxInt \in Nat
  BY BooksAssumption, PagingAssumption
<1>2. q.title \in Seq(STRING) /\ q.author \in Seq(STRING) /\ q.owner \in Nat \cup {Nil}
  BY ParsedTypes
<1>3. (q.title # << >> => Like(LowerColumn(b.title), LowerFilter(q.title)))
         <=> HasPart(b.title, q.title)
  BY <1>1, <1>2, LikeIsPart, NoFilter
<1>4. (q.author # << >> => Like(LowerColumn(b.author), LowerFilter(q.author)))
         <=> HasPart(b.author, q.author)
  BY <1>1, <1>2, LikeIsPart, NoFilter
<1>5. (q.owner # Nil => b.owner = ToInt64(q.owner)) <=> q.owner \in {Nil, b.owner}
  BY <1>1, <1>2 DEF ToInt64
<1>. QED
  BY <1>3, <1>4, <1>5 DEF Where

----------------------------------------------------------------------------
(* Orders *)

\* The rows the listing puts ahead of others.
Ahead(q, table) ==
    {p \in (1 .. MaxId) \X (1 .. MaxId) :
        IF Column(q, table, p[1]) = Column(q, table, p[2]) THEN p[1] < p[2]
        ELSE (Column(q, table, p[1]) < Column(q, table, p[2])) = (q.order = "asc")}

\* Sets of rows are finite.
LEMMA WantedFinite ==
    ASSUME NEW q, NEW table
    PROVE  /\ Wanted(q, table) \subseteq 1 .. MaxId
           /\ IsFiniteSet(Wanted(q, table))
<1>1. Wanted(q, table) \subseteq 1 .. MaxId
  BY DEF Wanted, Ids
<1>2. IsFiniteSet(1 .. MaxId)
  BY FS_Interval, PagingAssumption
<1>. QED
  BY <1>1, <1>2, FS_Subset

\* Rows are sorted by values that can be compared.
LEMMA KeysAreNumbers ==
    ASSUME NEW q \in Parsed, NEW table \in Table, NEW n \in 1 .. MaxId, table[n] # Nil
    PROVE  Column(q, table, n) \in Int
<1>1. table[n] \in Books
  BY DEF Table, Ids
<1>2. /\ Rank(table[n].title) \in Int /\ Rank(table[n].author) \in Int
      /\ table[n].owner \in Int /\ table[n].created \in Int /\ table[n].updated \in Int
      /\ n \in Int
  BY <1>1, BooksAssumption, PagingAssumption
<1>3. q.sort \in SortFields
  BY ParsedTypes
<1>. QED
  BY <1>2, <1>3 DEF Column, SortFields

\* The tie-break by id tells any two rows apart.
LEMMA AheadOneWay ==
    ASSUME NEW q \in Parsed, NEW table \in Table
    PROVE  OneWay(Wanted(q, table), Ahead(q, table))
<1>. SUFFICES ASSUME NEW m \in Wanted(q, table), NEW n \in Wanted(q, table),
                     <<m, n>> \in Ahead(q, table), <<n, m>> \in Ahead(q, table)
              PROVE  FALSE
  BY DEF OneWay
<1>1. m \in 1 .. MaxId /\ n \in 1 .. MaxId /\ table[m] # Nil /\ table[n] # Nil
  BY DEF Wanted, Ids
<1>2. Column(q, table, m) \in Int /\ Column(q, table, n) \in Int
  BY <1>1, KeysAreNumbers
<1>3. m \in Int /\ n \in Int
  BY <1>1
<1>4. IF Column(q, table, m) = Column(q, table, n) THEN m < n
      ELSE (Column(q, table, m) < Column(q, table, n)) = (q.order = "asc")
  BY DEF Ahead
<1>5. IF Column(q, table, n) = Column(q, table, m) THEN n < m
      ELSE (Column(q, table, n) < Column(q, table, m)) = (q.order = "asc")
  BY DEF Ahead
<1>. QED
  BY <1>2, <1>3, <1>4, <1>5

\* What SetToSeqs contains.
LEMMA Enumerations ==
    ASSUME NEW S
    PROVE  SetToSeqs(S) =
             {f \in [1 .. Cardinality(S) -> S] :
                 \A i, j \in 1 .. Cardinality(S) : i # j => f[i] # f[j]}
BY DEF SetToSeqs

\* What PostgreSQL may return is a list of the wanted rows in the listing's order.
LEMMA OrdersAreLists ==
    ASSUME NEW q \in Parsed, NEW table \in Table, NEW s
    PROVE  s \in Orders(q, table) <=> Lists(s, Wanted(q, table), Ahead(q, table))
<1>. DEFINE W == Wanted(q, table)
<1>1. {n \in Ids : table[n] # Nil /\ Where(q, table[n])} = W
  <2>1. ASSUME NEW n \in 1 .. MaxId, table[n] # Nil
        PROVE  Where(q, table[n]) <=> n \in W
    <3>1. table[n] \in Books
      BY <2>1 DEF Table, Ids
    <3>. QED
      BY <2>1, <3>1, WhereIsWanted DEF Wanted, Ids
  <2>. QED
    BY <2>1 DEF Ids, Wanted
<1>2. W \subseteq 1 .. MaxId /\ IsFiniteSet(W) /\ OneWay(W, Ahead(q, table))
  BY WantedFinite, AheadOneWay
<1>3. ASSUME NEW m \in W, NEW n \in W
      PROVE  OrderBy(q, table, m, n) <=> <<m, n>> \in Ahead(q, table)
  <2>1. m \in 1 .. MaxId /\ n \in 1 .. MaxId /\ table[m] # Nil /\ table[n] # Nil
    BY DEF Wanted, Ids
  <2>2. Column(q, table, m) \in Int /\ Column(q, table, n) \in Int
    BY <2>1, KeysAreNumbers
  <2>4. q.order \in {"asc", "desc"}
    BY ParsedTypes
  <2>5. <<m, n>> \in Ahead(q, table) <=>
          IF Column(q, table, m) = Column(q, table, n) THEN m < n
          ELSE (Column(q, table, m) < Column(q, table, n)) = (q.order = "asc")
    BY <2>1 DEF Ahead
  <2>. QED
    BY <2>1, <2>2, <2>4, <2>5 DEF OrderBy
<1>4. s \in Orders(q, table) <=>
        s \in SetToSeqs(W) /\ \A i, j \in DOMAIN s : i < j => OrderBy(q, table, s[i], s[j])
  BY <1>1 DEF Orders
<1>. HIDE DEF W
<1>5. ASSUME s \in Orders(q, table) PROVE Lists(s, W, Ahead(q, table))
  <2>1. s \in [1 .. Cardinality(W) -> W] /\ DOMAIN s = 1 .. Cardinality(W)
    BY <1>4, <1>5, Enumerations
  <2>. QED
    BY <1>3, <1>4, <1>5, <2>1 DEF Lists
<1>6. ASSUME Lists(s, W, Ahead(q, table)) PROVE s \in Orders(q, table)
  <2>1. s \in [1 .. Cardinality(W) -> W] /\ DOMAIN s = 1 .. Cardinality(W)
    BY <1>6 DEF Lists
  <2>2. \A i, j \in 1 .. Cardinality(W) : s[i] = s[j] => i = j
    BY <1>2, <1>6, ListsAll
  <2>3. \A i, j \in DOMAIN s : i < j => OrderBy(q, table, s[i], s[j])
    BY <1>3, <1>6, <2>1 DEF Lists
  <2>. QED
    BY <1>4, <2>1, <2>2, <2>3, Enumerations
<1>. QED
  BY <1>5, <1>6 DEF W

\* The listing the property names is that list.
LEMMA ListingIs ==
    ASSUME NEW q \in Parsed, NEW table \in Table,
           NEW s, Lists(s, Wanted(q, table), Ahead(q, table))
    PROVE  Listing(q, table) = s
<1>. DEFINE W == Wanted(q, table)
            c(n) == Column(q, table, n)
            before(m, n) == IF c(m) = c(n) THEN m < n ELSE (c(m) < c(n)) = (q.order = "asc")
            Sorted(t) == \A i, j \in DOMAIN t : i < j => before(t[i], t[j])
<1>1. W \subseteq 1 .. MaxId /\ IsFiniteSet(W) /\ OneWay(W, Ahead(q, table))
  BY WantedFinite, AheadOneWay
<1>2. Listing(q, table) = CHOOSE t \in SetToSeqs(W) : Sorted(t)
  BY DEF Listing
<1>3. \A m, n \in 1 .. MaxId : before(m, n) <=> <<m, n>> \in Ahead(q, table)
  BY ZenonT(60) DEF Ahead
<1>. HIDE DEF before, W
<1>4. s \in SetToSeqs(W) /\ Sorted(s)
  <2>1. s \in [1 .. Cardinality(W) -> W] /\ DOMAIN s = 1 .. Cardinality(W)
    BY DEF Lists, W
  <2>2. \A i, j \in 1 .. Cardinality(W) : s[i] = s[j] => i = j
    BY <1>1, ListsAll DEF W
  <2>3. s \in SetToSeqs(W)
    BY <2>1, <2>2, Enumerations
  <2>4. \A i, j \in DOMAIN s : i < j => <<s[i], s[j]>> \in Ahead(q, table)
    BY <2>1 DEF Lists, W
  <2>. QED
    BY <1>1, <1>3, <2>1, <2>3, <2>4
<1>5. PICK t : t = Listing(q, table)
  OBVIOUS
<1>6. t \in SetToSeqs(W) /\ Sorted(t)
  BY <1>2, <1>4, <1>5
<1>7. t \in [1 .. Cardinality(W) -> W] /\ DOMAIN t = 1 .. Cardinality(W)
  BY <1>6, Enumerations
<1>8. Lists(t, W, Ahead(q, table))
  BY <1>1, <1>3, <1>6, <1>7 DEF Lists
<1>. QED
  BY <1>1, <1>5, <1>8, ListedOneWay DEF W

----------------------------------------------------------------------------
(* Keys *)

\* What a key is made of.
Parts ==
    {"offset", "limit", "word", "hex", "owner", "sort", "order"} \X
        (Nat \cup STRING \cup {Nil, "_title_", "_author_", "asc", "desc"} \cup SortFields)

\* A filter becomes as many parts as it has characters.
LEMMA HexText ==
    ASSUME NEW text \in Seq(STRING)
    PROVE  /\ Hex(text) \in Seq(Parts) /\ Len(Hex(text)) = Len(text)
           /\ \A i \in 1 .. Len(text) : Hex(text)[i] = <<"hex", text[i]>>
<1>1. Len(text) \in Nat /\ DOMAIN text = 1 .. Len(text) /\ \A i \in 1 .. Len(text) : text[i] \in STRING
  BY LenProperties, ElementOfSeq
<1>2. Hex(text) = [i \in 1 .. Len(text) |-> <<"hex", text[i]>>]
  BY <1>1 DEF Hex
<1>3. \A i \in 1 .. Len(text) : <<"hex", text[i]>> \in Parts
  BY <1>1 DEF Parts
<1>4. Hex(text) \in [1 .. Len(text) -> Parts]
  BY <1>2, <1>3
<1>5. Hex(text) \in Seq(Parts)
  BY <1>1, <1>4, SeqDef
<1>6. Len(Hex(text)) = Len(text)
  BY <1>1, <1>4, <1>5, LenProperties
<1>. QED
  BY <1>2, <1>5, <1>6

\* The elements of two sequences put together.
LEMMA Joined ==
    ASSUME NEW S, NEW s \in Seq(S), NEW t \in Seq(S)
    PROVE  /\ s \o t \in Seq(S) /\ Len(s \o t) = Len(s) + Len(t)
           /\ \A i \in 1 .. Len(s) : (s \o t)[i] = s[i]
           /\ \A i \in 1 .. Len(t) : (s \o t)[Len(s) + i] = t[i]
<1>. DEFINE u == s \o t  m == Len(s)  n == Len(t)
<1>1. m \in Nat /\ n \in Nat
  BY LenProperties
<1>2. /\ s \o t \in Seq(S) /\ Len(s \o t) = Len(s) + Len(t)
      /\ \A i \in 1 .. Len(s) + Len(t) : (s \o t)[i] = IF i <= Len(s) THEN s[i] ELSE t[i - Len(s)]
  BY ConcatProperties
<1>3. /\ u \in Seq(S) /\ Len(u) = m + n
      /\ \A i \in 1 .. m + n : u[i] = IF i <= m THEN s[i] ELSE t[i - m]
  BY <1>2
<1>. HIDE DEF u, m, n
<1>4. \A i \in 1 .. m : u[i] = s[i]
  <2>1. \A i \in 1 .. m : i \in 1 .. m + n /\ i <= m
    BY <1>1
  <2>. QED
    BY <1>3, <2>1
<1>5. ASSUME NEW i \in 1 .. n PROVE u[m + i] = t[i]
  <2>1. m + i \in 1 .. m + n /\ ~(m + i <= m) /\ (m + i) - m = i
    BY <1>1
  <2>. QED
    BY <1>3, <2>1
<1>. QED
  BY <1>3, <1>4, <1>5 DEF u, m, n

\* Where the parts of a key are.
LEMMA KeyParts ==
    ASSUME NEW q \in Parsed
    PROVE  LET k  == BooksListDataCacheKey(q)
               nt == Len(q.title)
               na == Len(q.author)
           IN  /\ nt \in Nat /\ na \in Nat
               /\ Len(k) = 7 + nt + na
               /\ k[1] = <<"offset", q.offset>> /\ k[2] = <<"limit", q.limit>>
               /\ \A i \in 1 .. nt : k[3 + i] = <<"hex", q.title[i]>>
               /\ k[4 + nt] = <<"word", "_author_">>
               /\ \A i \in 1 .. na : k[4 + nt + i] = <<"hex", q.author[i]>>
               /\ k[5 + nt + na] = <<"owner", q.owner>>
               /\ k[6 + nt + na] = <<"sort", q.sort>>
               /\ k[7 + nt + na] = <<"order", q.order>>
<1>. DEFINE nt == Len(q.title)
            na == Len(q.author)
            k1 == << <<"offset", q.offset>>, <<"limit", q.limit>> >>
            w1 == << <<"word", "_title_">> >>
            t1 == Hex(q.title)
            w2 == << <<"word", "_author_">> >>
            t2 == Hex(q.author)
            k2 == << <<"owner", q.owner>>, <<"sort", q.sort>>, <<"order", q.order>> >>
            a == k1 \o w1
            b == a \o t1
            c == b \o w2
            d == c \o t2
            k == d \o k2
<1>1. /\ q.offset \in Nat /\ q.limit \in Nat
      /\ q.title \in Seq(STRING) /\ q.author \in Seq(STRING)
      /\ q.owner \in Nat \cup {Nil}
      /\ q.sort \in SortFields
      /\ q.order \in {"asc", "desc"}
  BY ParsedTypes
<1>2. nt \in Nat /\ na \in Nat
  BY <1>1, LenProperties
<1>3. k1 \in Seq(Parts) /\ Len(k1) = 2 /\ k1[1] = <<"offset", q.offset>> /\ k1[2] = <<"limit", q.limit>>
  <2>1. <<"offset", q.offset>> \in Parts /\ <<"limit", q.limit>> \in Parts
    BY <1>1 DEF Parts
  <2>. QED
    BY <2>1
<1>4. w1 \in Seq(Parts) /\ Len(w1) = 1 /\ w2 \in Seq(Parts) /\ Len(w2) = 1
      /\ w2[1] = <<"word", "_author_">>
  <2>1. <<"word", "_title_">> \in Parts /\ <<"word", "_author_">> \in Parts
    BY DEF Parts
  <2>. QED
    BY <2>1
<1>5. k2 \in Seq(Parts) /\ Len(k2) = 3 /\ k2[1] = <<"owner", q.owner>>
      /\ k2[2] = <<"sort", q.sort>> /\ k2[3] = <<"order", q.order>>
  <2>1. <<"owner", q.owner>> \in Parts /\ <<"sort", q.sort>> \in Parts /\ <<"order", q.order>> \in Parts
    BY <1>1 DEF Parts
  <2>. QED
    BY <2>1
<1>6. /\ t1 \in Seq(Parts) /\ Len(t1) = nt /\ \A i \in 1 .. nt : t1[i] = <<"hex", q.title[i]>>
      /\ t2 \in Seq(Parts) /\ Len(t2) = na /\ \A i \in 1 .. na : t2[i] = <<"hex", q.author[i]>>
  BY <1>1, HexText
<1>7. BooksListDataCacheKey(q) = k
  BY DEF BooksListDataCacheKey, Word
<1>. HIDE DEF nt, na, k1, w1, t1, w2, t2, k2
<1>8. /\ a \in Seq(Parts) /\ Len(a) = 2 + 1
      /\ \A i \in 1 .. 2 : a[i] = k1[i]
  <2>1. a = k1 \o w1
    OBVIOUS
  <2>. HIDE DEF a
  <2>2. QED
    <3>1. k1 \in Seq(Parts) /\ w1 \in Seq(Parts)
      BY <1>3, <1>4
    <3>2. /\ k1 \o w1 \in Seq(Parts) /\ Len(k1 \o w1) = Len(k1) + Len(w1)
          /\ \A i \in 1 .. Len(k1) : (k1 \o w1)[i] = k1[i]
          /\ \A i \in 1 .. Len(w1) : (k1 \o w1)[Len(k1) + i] = w1[i]
      BY <3>1, Joined
    <3>. QED
      BY <2>1, <3>2, <1>3, <1>4
<1>9. /\ b \in Seq(Parts) /\ Len(b) = 3 + nt
      /\ \A i \in 1 .. 3 : b[i] = a[i]
      /\ \A i \in 1 .. nt : b[3 + i] = t1[i]
  <2>1. b = a \o t1
    OBVIOUS
  <2>. HIDE DEF a, b
  <2>2. a \in Seq(Parts) /\ Len(a) = 3
    BY <1>8
  <2>3. QED
    <3>1. a \in Seq(Parts) /\ t1 \in Seq(Parts)
      BY <1>6, <2>2
    <3>2. /\ a \o t1 \in Seq(Parts) /\ Len(a \o t1) = Len(a) + Len(t1)
          /\ \A i \in 1 .. Len(a) : (a \o t1)[i] = a[i]
          /\ \A i \in 1 .. Len(t1) : (a \o t1)[Len(a) + i] = t1[i]
      BY <3>1, Joined
    <3>. QED
      BY <2>1, <3>2, <1>6, <2>2
<1>10. /\ c \in Seq(Parts) /\ Len(c) = 4 + nt
       /\ \A i \in 1 .. 3 + nt : c[i] = b[i]
       /\ c[4 + nt] = <<"word", "_author_">>
  <2>1. c = b \o w2
    OBVIOUS
  <2>. HIDE DEF b, c
  <2>2. /\ c \in Seq(Parts) /\ Len(c) = (3 + nt) + 1
        /\ \A i \in 1 .. 3 + nt : c[i] = b[i]
        /\ \A i \in 1 .. 1 : c[(3 + nt) + i] = w2[i]
    <3>1. b \in Seq(Parts) /\ w2 \in Seq(Parts)
      BY <1>4, <1>9
    <3>2. /\ b \o w2 \in Seq(Parts) /\ Len(b \o w2) = Len(b) + Len(w2)
          /\ \A i \in 1 .. Len(b) : (b \o w2)[i] = b[i]
          /\ \A i \in 1 .. Len(w2) : (b \o w2)[Len(b) + i] = w2[i]
      BY <3>1, Joined
    <3>. QED
      BY <2>1, <3>2, <1>4, <1>9
  <2>3. (3 + nt) + 1 = 4 + nt /\ 1 \in 1 .. 1
    BY <1>2
  <2>4. c[(3 + nt) + 1] = w2[1]
    BY <2>2, <2>3
  <2>. QED
    BY <1>4, <2>2, <2>3, <2>4
<1>11. /\ d \in Seq(Parts) /\ Len(d) = 4 + nt + na
       /\ \A i \in 1 .. 4 + nt : d[i] = c[i]
       /\ \A i \in 1 .. na : d[4 + nt + i] = t2[i]
  <2>1. d = c \o t2
    OBVIOUS
  <2>. HIDE DEF c, d
  <2>3. QED
    <3>1. c \in Seq(Parts) /\ t2 \in Seq(Parts)
      BY <1>6, <1>10
    <3>2. /\ c \o t2 \in Seq(Parts) /\ Len(c \o t2) = Len(c) + Len(t2)
          /\ \A i \in 1 .. Len(c) : (c \o t2)[i] = c[i]
          /\ \A i \in 1 .. Len(t2) : (c \o t2)[Len(c) + i] = t2[i]
      BY <3>1, Joined
    <3>. QED
      BY <2>1, <3>2, <1>6, <1>10
<1>12. /\ k \in Seq(Parts) /\ Len(k) = 7 + nt + na
       /\ \A i \in 1 .. 4 + nt + na : k[i] = d[i]
       /\ \A i \in 1 .. 3 : k[4 + nt + na + i] = k2[i]
  <2>1. k = d \o k2
    OBVIOUS
  <2>. HIDE DEF d, k
  <2>2. /\ k \in Seq(Parts) /\ Len(k) = (4 + nt + na) + 3
        /\ \A i \in 1 .. 4 + nt + na : k[i] = d[i]
        /\ \A i \in 1 .. 3 : k[(4 + nt + na) + i] = k2[i]
    <3>1. d \in Seq(Parts) /\ k2 \in Seq(Parts)
      BY <1>5, <1>11
    <3>2. /\ d \o k2 \in Seq(Parts) /\ Len(d \o k2) = Len(d) + Len(k2)
          /\ \A i \in 1 .. Len(d) : (d \o k2)[i] = d[i]
          /\ \A i \in 1 .. Len(k2) : (d \o k2)[Len(d) + i] = k2[i]
      BY <3>1, Joined
    <3>. QED
      BY <2>1, <3>2, <1>5, <1>11
  <2>3. (4 + nt + na) + 3 = 7 + nt + na
    BY <1>2
  <2>. QED
    BY <2>2, <2>3
<1>. HIDE DEF a, b, c, d, k
<1>13. \A i \in 1 .. 4 + nt : k[i] = c[i]
  <2>1. \A i \in 1 .. 4 + nt : i \in 1 .. 4 + nt + na
    BY <1>2
  <2>. QED
    BY <1>11, <1>12, <2>1
<1>14. \A i \in 1 .. 3 + nt : k[i] = b[i]
  <2>1. \A i \in 1 .. 3 + nt : i \in 1 .. 4 + nt
    BY <1>2
  <2>. QED
    BY <1>10, <1>13, <2>1
<1>18. k[1] = <<"offset", q.offset>> /\ k[2] = <<"limit", q.limit>>
  <2>1. 1 \in 1 .. 3 + nt /\ 2 \in 1 .. 3 + nt /\ 1 \in 1 .. 3 /\ 2 \in 1 .. 3
        /\ 1 \in 1 .. 2 /\ 2 \in 1 .. 2
    BY <1>2
  <2>. QED
    BY <1>3, <1>8, <1>9, <1>14, <2>1
<1>19. \A i \in 1 .. nt : k[3 + i] = <<"hex", q.title[i]>>
  <2>1. \A i \in 1 .. nt : 3 + i \in 1 .. 3 + nt
    BY <1>2
  <2>. QED
    BY <1>6, <1>9, <1>14, <2>1
<1>15. k[4 + nt] = <<"word", "_author_">>
  <2>1. 4 + nt \in 1 .. 4 + nt
    BY <1>2
  <2>. QED
    BY <1>10, <1>13, <2>1
<1>16. \A i \in 1 .. na : k[4 + nt + i] = <<"hex", q.author[i]>>
  <2>1. \A i \in 1 .. na : 4 + nt + i \in 1 .. 4 + nt + na
    BY <1>2
  <2>. QED
    BY <1>6, <1>11, <1>12, <2>1, ZenonT(60)
<1>17. /\ k[5 + nt + na] = <<"owner", q.owner>> /\ k[6 + nt + na] = <<"sort", q.sort>>
       /\ k[7 + nt + na] = <<"order", q.order>>
  <2>1. /\ k[4 + nt + na + 1] = k2[1] /\ k[4 + nt + na + 2] = k2[2]
        /\ k[4 + nt + na + 3] = k2[3]
    BY <1>12
  <2>2. /\ 4 + nt + na + 1 = 5 + nt + na /\ 4 + nt + na + 2 = 6 + nt + na
        /\ 4 + nt + na + 3 = 7 + nt + na
    BY <1>2
  <2>. QED
    BY <1>5, <2>1, <2>2
<1>. QED
  BY <1>2, <1>7, <1>12, <1>15, <1>16, <1>17, <1>18, <1>19 DEF nt, na

\* Different queries have different keys: hex digits are no word, so the filters end
\* where the key says they do.
LEMMA KeyIsInjective ==
    ASSUME NEW q \in Parsed, NEW r \in Parsed,
           BooksListDataCacheKey(q) = BooksListDataCacheKey(r)
    PROVE  q = r
<1>. DEFINE k == BooksListDataCacheKey(q)
            qt == Len(q.title)
            qa == Len(q.author)
            rt == Len(r.title)
            ra == Len(r.author)
<1>1. /\ qt \in Nat /\ qa \in Nat /\ Len(k) = 7 + qt + qa
      /\ k[1] = <<"offset", q.offset>> /\ k[2] = <<"limit", q.limit>>
      /\ \A i \in 1 .. qt : k[3 + i] = <<"hex", q.title[i]>>
      /\ k[4 + qt] = <<"word", "_author_">>
      /\ \A i \in 1 .. qa : k[4 + qt + i] = <<"hex", q.author[i]>>
      /\ k[5 + qt + qa] = <<"owner", q.owner>>
      /\ k[6 + qt + qa] = <<"sort", q.sort>>
      /\ k[7 + qt + qa] = <<"order", q.order>>
  BY KeyParts, ZenonT(60)
<1>2. /\ rt \in Nat /\ ra \in Nat /\ Len(k) = 7 + rt + ra
      /\ k[1] = <<"offset", r.offset>> /\ k[2] = <<"limit", r.limit>>
      /\ \A i \in 1 .. rt : k[3 + i] = <<"hex", r.title[i]>>
      /\ k[4 + rt] = <<"word", "_author_">>
      /\ \A i \in 1 .. ra : k[4 + rt + i] = <<"hex", r.author[i]>>
      /\ k[5 + rt + ra] = <<"owner", r.owner>>
      /\ k[6 + rt + ra] = <<"sort", r.sort>>
      /\ k[7 + rt + ra] = <<"order", r.order>>
  BY KeyParts, ZenonT(60)
<1>. HIDE DEF k, qt, qa, rt, ra
<1>3. ~(qt < rt)
  <2>1. SUFFICES ASSUME qt < rt PROVE FALSE
    OBVIOUS
  <2>2. qt + 1 \in 1 .. rt /\ 3 + (qt + 1) = 4 + qt
    BY <1>1, <1>2, <2>1
  <2>3. k[4 + qt] = <<"hex", r.title[qt + 1]>> /\ k[4 + qt] = <<"word", "_author_">>
    BY <1>1, <1>2, <2>2
  <2>4. <<"hex", r.title[qt + 1]>> = <<"word", "_author_">>
    BY <2>3
  <2>. QED
    BY <2>4
<1>4. ~(rt < qt)
  <2>1. SUFFICES ASSUME rt < qt PROVE FALSE
    OBVIOUS
  <2>2. rt + 1 \in 1 .. qt /\ 3 + (rt + 1) = 4 + rt
    BY <1>1, <1>2, <2>1
  <2>3. k[4 + rt] = <<"hex", q.title[rt + 1]>> /\ k[4 + rt] = <<"word", "_author_">>
    BY <1>1, <1>2, <2>2
  <2>4. <<"hex", q.title[rt + 1]>> = <<"word", "_author_">>
    BY <2>3
  <2>. QED
    BY <2>4
<1>5. qt = rt /\ qa = ra
  BY <1>1, <1>2, <1>3, <1>4
<1>6. q.offset = r.offset /\ q.limit = r.limit /\ q.owner = r.owner /\ q.sort = r.sort
      /\ q.order = r.order
  BY <1>1, <1>2, <1>5
<1>7. (\A i \in 1 .. qt : q.title[i] = r.title[i]) /\ \A i \in 1 .. qa : q.author[i] = r.author[i]
  BY <1>1, <1>2, <1>5
<1>8. q.title = r.title
  <2>1. q.title \in Seq(STRING) /\ r.title \in Seq(STRING)
    BY ParsedTypes
  <2>. QED
    BY <1>5, <1>7, <2>1, SeqEqual DEF qt, rt
<1>9. q.author = r.author
  <2>1. q.author \in Seq(STRING) /\ r.author \in Seq(STRING)
    BY ParsedTypes
  <2>. QED
    BY <1>5, <1>7, <2>1, SeqEqual DEF qa, ra
<1>10. /\ q = [offset |-> q.offset, limit |-> q.limit, title |-> q.title,
               author |-> q.author, owner |-> q.owner, sort |-> q.sort, order |-> q.order]
       /\ r = [offset |-> r.offset, limit |-> r.limit, title |-> r.title,
               author |-> r.author, owner |-> r.owner, sort |-> r.sort, order |-> r.order]
  BY ParsedTypes
<1>. QED
  BY <1>6, <1>8, <1>9, <1>10

----------------------------------------------------------------------------
(* Pages *)

\* A list of a set is a sequence as long as the set is large.
LEMMA ListIsSeq ==
    ASSUME NEW S, IsFiniteSet(S), NEW R, NEW s, Lists(s, S, R)
    PROVE  s \in Seq(S) /\ Len(s) = Cardinality(S) /\ Cardinality(S) \in Nat
<1>1. Cardinality(S) \in Nat
  BY FS_CardinalityType
<1>2. s \in [1 .. Cardinality(S) -> S]
  BY DEF Lists
<1>3. s \in Seq(S)
  BY <1>1, <1>2, SeqDef
<1>4. Len(s) = Cardinality(S)
  BY <1>1, <1>2, <1>3, LenProperties
<1>. QED
  BY <1>1, <1>3, <1>4

\* A page is short exactly when it gets beyond the end of the list.
LEMMA ShortPage ==
    ASSUME NEW A, NEW s \in Seq(A), NEW a \in Nat, NEW l \in Nat \ {0}
    PROVE  /\ PageRows(s, a, l) = Piece(s, a, a + l)
           /\ Len(PageRows(s, a, l)) < l <=> a + l > Len(s)
<1>1. PageRows(s, a, l) = Piece(s, a, a + l)
  BY DEF PageRows, Piece
<1>2. Len(s) \in Nat
  BY LenProperties
<1>3. Len(Piece(s, a, a + l)) = PieceLen(s, a, a + l)
  <2>1. a + l \in Nat
    OBVIOUS
  <2>. QED
    BY <2>1, Pieces, ZenonT(60)
<1>4. Len(Piece(s, a, a + l)) < l <=> a + l > Len(s)
  BY <1>2, <1>3 DEF PieceLen
<1>. QED
  BY <1>1, <1>4

----------------------------------------------------------------------------
(* Places in the list *)

\* The number of rows ahead of a row.
Place0(q, table, x) == Cardinality({y \in Wanted(q, table) : <<y, x>> \in Ahead(q, table)})

\* A row that appears, wherever it sorts, puts no other row closer to the start.
LEMMA PlaceGrows ==
    ASSUME NEW q, NEW table, NEW later, NEW x \in Wanted(q, table),
           \A n \in 1 .. MaxId : table[n] # Nil => later[n] = table[n]
    PROVE  x \in Wanted(q, later) /\ Place0(q, table, x) <= Place0(q, later, x)
<1>. DEFINE A == {y \in Wanted(q, table) : <<y, x>> \in Ahead(q, table)}
            B == {y \in Wanted(q, later) : <<y, x>> \in Ahead(q, later)}
<1>1. ASSUME NEW y \in Wanted(q, table)
      PROVE  y \in Wanted(q, later) /\ Column(q, later, y) = Column(q, table, y)
  <2>1. y \in 1 .. MaxId /\ table[y] # Nil
    BY DEF Wanted, Ids
  <2>2. later[y] = table[y]
    BY <2>1
  <2>. QED
    BY <2>1, <2>2 DEF Wanted, Ids, Column
<1>2. A \subseteq B
  BY <1>1 DEF Ahead
<1>3. IsFiniteSet(B)
  BY WantedFinite, FS_Subset
<1>4. Cardinality(A) <= Cardinality(B)
  BY <1>2, <1>3, FS_Subset
<1>. QED
  BY <1>1, <1>4 DEF Place0

\* A row with at least a rows ahead of it is on the page that begins after a rows, or
\* the page is full and the row is behind it.
LEMMA PageHas ==
    ASSUME NEW q \in Parsed, NEW table \in Table, NEW s,
           Lists(s, Wanted(q, table), Ahead(q, table)),
           NEW x \in Wanted(q, table), NEW a \in Nat, NEW l \in Nat \ {0},
           Place0(q, table, x) >= a
    PROVE  \/ x \in Range(PageRows(s, a, l))
           \/ a + l <= Len(s) /\ Place0(q, table, x) >= a + l
<1>. DEFINE W == Wanted(q, table)
            p == PageRows(s, a, l)
<1>1. IsFiniteSet(W) /\ OneWay(W, Ahead(q, table))
  BY WantedFinite, AheadOneWay
<1>. HIDE DEF W
<1>2. s \in Seq(W) /\ Len(s) = Cardinality(W) /\ Len(s) \in Nat
  BY <1>1, ListIsSeq DEF W
<1>3. PICK i \in 1 .. Len(s) : s[i] = x
  BY <1>1, <1>2, ListsAll DEF W
<1>4. Place0(q, table, x) = i - 1
  <2>1. Cardinality({y \in W : <<y, s[i]>> \in Ahead(q, table)}) = i - 1
    BY <1>1, <1>2, <1>3, Place DEF W
  <2>. QED
    BY <1>3, <2>1 DEF Place0, W
<1>5. p = Piece(s, a, a + l)
  BY <1>2, ShortPage
<1>6. /\ Piece(s, a, a + l) \in Seq(W)
      /\ Len(Piece(s, a, a + l)) = PieceLen(s, a, a + l)
      /\ \A k \in 1 .. Len(Piece(s, a, a + l)) : Piece(s, a, a + l)[k] = s[a + k]
  <2>1. a + l \in Nat
    OBVIOUS
  <2>2. s \in Seq(W)
    BY <1>2
  <2>. QED
    BY <2>1, <2>2, Pieces
<1>. HIDE DEF p
<1>7. CASE i <= a + l
  <2>1. i - a \in 1 .. Len(p) /\ a + (i - a) = i
    BY <1>2, <1>3, <1>4, <1>5, <1>6, <1>7 DEF PieceLen
  <2>2. p[i - a] = x
    BY <1>3, <1>5, <1>6, <2>1
  <2>3. DOMAIN p = 1 .. Len(p)
    BY <1>5, <1>6, LenProperties
  <2>. QED
    BY <2>1, <2>2, <2>3 DEF Range, p
<1>8. CASE ~(i <= a + l)
  BY <1>2, <1>3, <1>4, <1>8
<1>. QED
  BY <1>7, <1>8

\* What was received stays received.
LEMMA RangeOfJoined ==
    ASSUME NEW A, NEW s \in Seq(A), NEW t \in Seq(A)
    PROVE  Range(s \o t) = Range(s) \cup Range(t)
<1>1. /\ Len(s) \in Nat /\ Len(t) \in Nat /\ DOMAIN s = 1 .. Len(s) /\ DOMAIN t = 1 .. Len(t)
  BY LenProperties
<1>2. /\ s \o t \in Seq(A) /\ Len(s \o t) = Len(s) + Len(t)
      /\ \A i \in 1 .. Len(s) + Len(t) :
            (s \o t)[i] = IF i <= Len(s) THEN s[i] ELSE t[i - Len(s)]
  BY ConcatProperties
<1>. DEFINE u == s \o t
<1>3. DOMAIN u = 1 .. Len(s) + Len(t)
  BY <1>1, <1>2, LenProperties
<1>. HIDE DEF u
<1>4. ASSUME NEW x \in Range(u) PROVE x \in Range(s) \cup Range(t)
  <2>1. PICK i \in 1 .. Len(s) + Len(t) : u[i] = x
    BY <1>3 DEF Range
  <2>2. u[i] = IF i <= Len(s) THEN s[i] ELSE t[i - Len(s)]
    BY <1>2 DEF u
  <2>3. IF i <= Len(s) THEN i \in DOMAIN s ELSE i - Len(s) \in DOMAIN t
    BY <1>1
  <2>. QED
    BY <2>1, <2>2, <2>3 DEF Range
<1>5. ASSUME NEW x \in Range(s) PROVE x \in Range(u)
  <2>1. PICK i \in 1 .. Len(s) : s[i] = x
    BY <1>1 DEF Range
  <2>2. i \in 1 .. Len(s) + Len(t) /\ i <= Len(s)
    BY <1>1
  <2>3. u[i] = x
    BY <1>2, <2>1, <2>2 DEF u
  <2>. QED
    BY <1>3, <2>2, <2>3 DEF Range
<1>6. ASSUME NEW x \in Range(t) PROVE x \in Range(u)
  <2>1. PICK i \in 1 .. Len(t) : t[i] = x
    BY <1>1 DEF Range
  <2>2. /\ Len(s) + i \in 1 .. Len(s) + Len(t) /\ ~(Len(s) + i <= Len(s))
        /\ (Len(s) + i) - Len(s) = i
    BY <1>1
  <2>3. u[Len(s) + i] = x
    BY <1>2, <2>1, <2>2 DEF u
  <2>. QED
    BY <1>3, <2>2, <2>3 DEF Range
<1>. QED
  BY <1>4, <1>5, <1>6 DEF u

----------------------------------------------------------------------------
(* The walk *)

\* Rows stay as they are from one state of the table to the next, and an id that was
\* drawn has no row.
InsertsInv ==
    /\ tables \in Seq(Table) /\ Len(tables) \in Nat \ {0}
    /\ lastId \in 0 .. MaxId /\ drawn \subseteq 1 .. lastId
    /\ \A n \in 1 .. MaxId : tables[Len(tables)][n] # Nil => n <= lastId /\ n \notin drawn
    /\ \A v, w \in 1 .. Len(tables) : v <= w =>
          \A n \in 1 .. MaxId : tables[v][n] # Nil => tables[w][n] = tables[v][n]

\* The pages so far show one state: what the client has is its list from the first
\* offset up to the page it is at, and it is done when that is beyond the end.
OneState ==
    \E s : /\ Lists(s, Wanted(query, tables[at]), Ahead(query, tables[at]))
           /\ got = Piece(s, query.offset, upto)
           /\ done <=> upto > Len(s)

\* A row of the first page's state was received, or the walk has not come to it yet.
NoneMissed ==
    \A x \in Wanted(query, tables[from]) :
        Place0(query, tables[from], x) >= query.offset =>
            x \in Range(got) \/ (~done /\ Place0(query, tables[at], x) >= upto)

\* The first page came from a list of the rows asked for.
FirstListed == \E s : Lists(s, Wanted(query, tables[from]), Ahead(query, tables[from]))

PagingInv ==
    /\ InsertsInv
    /\ done \in BOOLEAN /\ back \in BOOLEAN /\ got \in Seq(1 .. MaxId)
    /\ query = Nil => got = << >> /\ from = 0 /\ at = 0
    /\ query # Nil =>
          /\ query \in Parsed /\ upto \in Nat /\ query.offset <= upto
          /\ from = 0 => upto = query.offset /\ got = << >> /\ ~done /\ at = 0
          /\ from # 0 =>
                /\ from \in 1 .. Len(tables) /\ at \in 1 .. Len(tables)
                /\ FirstListed
                /\ ~back => from <= at /\ NoneMissed /\ (from = at => OneState)

\* Every table a walk may begin with satisfies the invariant.
LEMMA PagingStarts ==
    ASSUME WalkInit
    PROVE  PagingInv
<1>1. PICK table \in Table : tables = <<table>>
  BY DEF WalkInit
<1>2. tables \in Seq(Table) /\ Len(tables) = 1 /\ tables[1] = table
  BY <1>1
<1>3. lastId \in 0 .. MaxId /\ \A n \in 1 .. MaxId : table[n] # Nil => n <= lastId
  BY <1>2 DEF WalkInit, Now, Ids
<1>4. drawn = {} /\ query = Nil /\ got = << >> /\ done = FALSE /\ from = 0 /\ at = 0
      /\ back = FALSE
  BY DEF WalkInit
<1>5. InsertsInv
  BY <1>2, <1>3, <1>4 DEF InsertsInv
<1>6. got \in Seq(1 .. MaxId)
  BY <1>4
<1>. QED
  BY <1>4, <1>5, <1>6 DEF PagingInv

\* A query, refused or not, keeps it.
LEMMA AskKeeps ==
    ASSUME PagingInv, NEW raw \in RawQueries, Ask(raw)
    PROVE  PagingInv'
<1>1. /\ query = Nil /\ got = << >> /\ from = 0 /\ at = 0
      /\ UNCHANGED <<tables, lastId, drawn, got, from, at, back>>
      /\ InsertsInv /\ back \in BOOLEAN /\ got \in Seq(1 .. MaxId)
  BY DEF PagingInv, Ask, inserts
<1>2. InsertsInv'
  BY <1>1 DEF InsertsInv
<1>3. CASE ~Valid(raw)
  <2>1. query' = Nil /\ done' = TRUE
    BY <1>3 DEF Ask
  <2>. QED
    BY <1>1, <1>2, <2>1 DEF PagingInv
<1>4. CASE Valid(raw)
  <2>1. query' = Parse(raw) /\ upto' = Offset(raw) /\ done' = FALSE
    BY <1>4 DEF Ask
  <2>2. query' \in Parsed
    BY <1>4, <2>1 DEF Parsed
  <2>3. query'.offset = upto'
    BY <2>1 DEF Parse
  <2>4. query'.offset \in Nat
    BY <2>2, ParsedTypes
  <2>5. upto' \in Nat /\ query'.offset <= upto'
    BY <2>3, <2>4
  <2>. QED
    BY <1>1, <1>2, <2>1, <2>2, <2>3, <2>5 DEF PagingInv
<1>. QED
  BY <1>3, <1>4

\* A page of the state the pages before it showed continues the list the client has:
\* the statement sorts as the one before it did, because rows are told apart.
LEMMA OneStateGoesOn ==
    ASSUME PagingInv, query # Nil, ~done, NEW v \in 1 .. Len(tables),
           NEW s, Lists(s, Wanted(query, tables[v]), Ahead(query, tables[v])),
           from = 0 \/ (at = v /\ OneState)
    PROVE  got \o PageRows(s, upto, query.limit) = Piece(s, query.offset, upto + query.limit)
<1>. DEFINE W == Wanted(query, tables[v])
            R == Ahead(query, tables[v])
            l == query.limit
<1>1. /\ tables[v] \in Table /\ query \in Parsed /\ upto \in Nat /\ query.offset <= upto
      /\ from = 0 => got = << >> /\ upto = query.offset
  BY ElementOfSeq DEF PagingInv, InsertsInv
<1>2. query.offset \in Nat /\ l \in Nat \ {0}
  BY <1>1, ParsedTypes
<1>4. IsFiniteSet(W) /\ OneWay(W, R)
  BY <1>1, WantedFinite, AheadOneWay
<1>5. s \in Seq(W) /\ Len(s) \in Nat
  BY <1>4, ListIsSeq
<1>6. PageRows(s, upto, l) = Piece(s, upto, upto + l)
  <2>. HIDE DEF W, l
  <2>. QED
    BY <1>1, <1>2, <1>5, ShortPage
<1>7. CASE from = 0
  <2>1. Piece(s, upto, upto) = << >>
    <3>1. Piece(s, upto, upto) \in Seq(W) /\ Len(Piece(s, upto, upto)) = 0
      <4>1. /\ Piece(s, upto, upto) \in Seq(W)
            /\ Len(Piece(s, upto, upto)) = PieceLen(s, upto, upto)
        BY <1>1, <1>5, Pieces
      <4>. QED
        BY <1>1, <1>5, <4>1 DEF PieceLen
    <3>. QED
      BY <3>1, EmptySeq
  <2>2. Piece(s, upto, upto) \o Piece(s, upto, upto + l) = Piece(s, upto, upto + l)
    <3>1. l \in Nat /\ upto <= upto
      BY <1>1, <1>2
    <3>. HIDE DEF W, l
    <3>. QED
      BY <1>1, <1>5, <3>1, NextPiece
  <2>. QED
    BY <1>1, <1>6, <1>7, <2>1, <2>2
<1>8. CASE at = v /\ OneState
  <2>1. PICK t : Lists(t, W, R) /\ got = Piece(t, query.offset, upto) /\ (done <=> upto > Len(t))
    BY <1>8 DEF OneState
  <2>2. t = s
    BY <1>4, <2>1, ListedOneWay
  <2>3. upto <= Len(s)
    BY <1>1, <1>5, <2>1, <2>2
  <2>4. Piece(s, query.offset, upto) \o Piece(s, upto, upto + l)
          = Piece(s, query.offset, upto + l)
    BY <1>1, <1>2, <1>5, <2>3, NextPiece, ZenonT(60)
  <2>. QED
    BY <1>6, <2>1, <2>2, <2>4
<1>. QED
  BY <1>7, <1>8

\* A page keeps it.
LEMMA TurnKeeps ==
    ASSUME PagingInv, query # Nil, ~done, NEW v \in DOMAIN tables,
           NEW s \in Orders(query, tables[v]), Turn(v, s)
    PROVE  PagingInv'
<1>. DEFINE W == Wanted(query, tables[v])
            R == Ahead(query, tables[v])
            l == query.limit
            p == PageRows(s, upto, l)
<1>0. InsertsInv /\ back \in BOOLEAN /\ got \in Seq(1 .. MaxId)
  BY DEF PagingInv
<1>1. /\ v \in 1 .. Len(tables) /\ tables[v] \in Table
      /\ query \in Parsed /\ upto \in Nat /\ query.offset <= upto
  <2>1. v \in 1 .. Len(tables)
    BY <1>0, LenProperties DEF InsertsInv
  <2>. QED
    BY <1>0, <2>1, ElementOfSeq DEF PagingInv, InsertsInv
<1>2. query.offset \in Nat /\ l \in Nat \ {0}
  BY <1>1, ParsedTypes
<1>3. Lists(s, W, R)
  BY <1>1, OrdersAreLists
<1>4. W \subseteq 1 .. MaxId /\ IsFiniteSet(W) /\ OneWay(W, R)
  BY <1>1, WantedFinite, AheadOneWay
<1>5. s \in Seq(W) /\ Len(s) \in Nat
  BY <1>3, <1>4, ListIsSeq
<1>6. /\ p = Piece(s, upto, upto + l)
      /\ Len(p) < l <=> upto + l > Len(s)
  <2>. HIDE DEF W, l
  <2>. QED
    BY <1>1, <1>2, <1>5, ShortPage
<1>7. /\ got' = got \o p /\ upto' = upto + l /\ done' = (Len(p) < l)
      /\ from' = (IF from = 0 THEN v ELSE from) /\ at' = v /\ back' = (back \/ v < at)
      /\ UNCHANGED <<tables, lastId, drawn, query>>
  BY DEF Turn, inserts
<1>8. done' \in BOOLEAN /\ (done' <=> upto' > Len(s))
  <2>. DEFINE short == Len(p) < l
  <2>1. short \in BOOLEAN /\ (short <=> upto + l > Len(s))
    BY <1>6
  <2>2. done' = short /\ upto' = upto + l
    BY <1>7
  <2>. HIDE DEF short
  <2>. QED
    BY <2>1, <2>2
<1>9. upto' \in Nat /\ query'.offset <= upto'
  BY <1>1, <1>2, <1>7
<1>10. p \in Seq(1 .. MaxId)
  <2>1. upto + l \in Nat
    BY <1>1, <1>2
  <2>2. Piece(s, upto, upto + l) \in Seq(W)
    BY <1>1, <1>5, <2>1, Pieces, ZenonT(60)
  <2>. HIDE DEF W, p
  <2>. QED
    BY <1>4, <1>6, <2>2, SeqMonotonic
<1>11. got' \in Seq(1 .. MaxId) /\ Range(got') = Range(got) \cup Range(p)
  <2>. HIDE DEF p
  <2>. QED
    BY <1>0, <1>7, <1>10, ConcatProperties, RangeOfJoined
<1>12. InsertsInv' /\ back' \in BOOLEAN
  BY <1>0, <1>7 DEF InsertsInv
<1>13. ASSUME NEW x \in W, Place0(query, tables[v], x) >= upto
       PROVE  x \in Range(got') \/ (~done' /\ Place0(query, tables[v], x) >= upto')
  <2>1. \/ x \in Range(p)
        \/ upto + l <= Len(s) /\ Place0(query, tables[v], x) >= upto + l
    <3>. HIDE DEF l
    <3>. QED
      BY <1>1, <1>2, <1>3, <1>13, PageHas
  <2>2. upto + l <= Len(s) => ~done'
    BY <1>1, <1>2, <1>5, <1>7, <1>8
  <2>. HIDE DEF p, l
  <2>. QED
    BY <1>7, <1>11, <2>1, <2>2
<1>14. CASE from = 0
  <2>1. from' = v /\ at' = v /\ from' \in 1 .. Len(tables') /\ from' # 0
    BY <1>0, <1>1, <1>7, <1>14 DEF InsertsInv
  <2>2. upto = query.offset /\ at = 0
    BY <1>14 DEF PagingInv
  <2>3. /\ Wanted(query, tables[from])' = W /\ Ahead(query, tables[from])' = R
        /\ Wanted(query, tables[at])' = W /\ Ahead(query, tables[at])' = R
    BY <1>7, <2>1 DEF Wanted, Ahead, Column
  <2>4. FirstListed'
    BY <1>3, <2>3 DEF FirstListed
  <2>5. \A x : /\ Place0(query, tables[from], x)' = Place0(query, tables[v], x)
               /\ Place0(query, tables[at], x)' = Place0(query, tables[v], x)
    BY <2>3 DEF Place0
  <2>6. NoneMissed'
    BY <1>7, <1>13, <2>2, <2>3, <2>5 DEF NoneMissed
  <2>7. OneState'
    <3>1. got' = Piece(s, query.offset, upto + l)
      BY <1>1, <1>3, <1>7, <1>14, OneStateGoesOn
    <3>. QED
      BY <1>3, <1>7, <1>8, <2>3, <3>1 DEF OneState
  <2>. QED
    BY <1>1, <1>7, <1>8, <1>9, <1>11, <1>12, <2>1, <2>4, <2>6, <2>7 DEF PagingInv
<1>15. CASE from # 0
  <2>1. /\ from' = from /\ at' = v /\ from \in 1 .. Len(tables) /\ at \in 1 .. Len(tables)
        /\ FirstListed
        /\ ~back => from <= at /\ NoneMissed /\ (from = at => OneState)
    BY <1>7, <1>15 DEF PagingInv
  <2>2. /\ Wanted(query, tables[from])' = Wanted(query, tables[from])
        /\ Ahead(query, tables[from])' = Ahead(query, tables[from])
        /\ Wanted(query, tables[at])' = W /\ Ahead(query, tables[at])' = R
    BY <1>7, <2>1 DEF Wanted, Ahead, Column
  <2>3. FirstListed'
    BY <2>1, <2>2 DEF FirstListed
  <2>4. \A x : /\ Place0(query, tables[from], x)' = Place0(query, tables[from], x)
               /\ Place0(query, tables[at], x)' = Place0(query, tables[v], x)
    BY <2>2 DEF Place0
  <2>5. ASSUME ~back' PROVE from' <= at' /\ NoneMissed' /\ (from' = at' => OneState')
    <3>1. ~back /\ at <= v /\ from <= at /\ NoneMissed /\ (from = at => OneState)
      <4>. DEFINE older == v < at
      <4>1. back' = (back \/ older)
        BY <1>7
      <4>. HIDE DEF older
      <4>2. ~back /\ ~older
        BY <2>5, <4>1
      <4>3. at <= v
        BY <1>1, <2>1, <4>2 DEF older
      <4>. QED
        BY <2>1, <4>2, <4>3
    <3>2. from <= v
      BY <1>1, <2>1, <3>1
    <3>3. ASSUME NEW x \in Wanted(query, tables[from]),
                 Place0(query, tables[from], x) >= query.offset
          PROVE  x \in Range(got') \/ (~done' /\ Place0(query, tables[v], x) >= upto')
      <4>1. x \in Range(got) \/ Place0(query, tables[at], x) >= upto
        BY <3>1, <3>3 DEF NoneMissed
      <4>2. x \in Wanted(query, tables[at])
        <5>1. \A n \in 1 .. MaxId : tables[from][n] # Nil => tables[at][n] = tables[from][n]
          BY <1>0, <2>1, <3>1 DEF InsertsInv
        <5>. QED
          BY <3>3, <5>1, PlaceGrows
      <4>3. x \in W /\ Place0(query, tables[at], x) <= Place0(query, tables[v], x)
        <5>1. \A n \in 1 .. MaxId : tables[at][n] # Nil => tables[v][n] = tables[at][n]
          BY <1>0, <1>1, <2>1, <3>1 DEF InsertsInv
        <5>. QED
          BY <4>2, <5>1, PlaceGrows
      <4>4. Place0(query, tables[at], x) \in Nat /\ Place0(query, tables[v], x) \in Nat
        <5>1. /\ IsFiniteSet({y \in Wanted(query, tables[at]) :
                               <<y, x>> \in Ahead(query, tables[at])})
              /\ IsFiniteSet({y \in W : <<y, x>> \in R})
          BY WantedFinite, FS_Subset
        <5>. QED
          BY <5>1, FS_CardinalityType DEF Place0
      <4>5. CASE x \in Range(got)
        BY <1>11, <4>5
      <4>6. CASE Place0(query, tables[at], x) >= upto
        <5>1. Place0(query, tables[v], x) >= upto
          BY <1>1, <4>3, <4>4, <4>6
        <5>. QED
          BY <1>13, <4>3, <5>1
      <4>. QED
        BY <4>1, <4>5, <4>6
    <3>4. NoneMissed'
      BY <1>7, <2>2, <2>4, <3>3 DEF NoneMissed
    <3>5. ASSUME from' = at' PROVE OneState'
      <4>1. from = at /\ at = v
        BY <1>1, <2>1, <3>1, <3>5
      <4>2. got' = Piece(s, query.offset, upto + l)
        BY <1>1, <1>3, <1>7, <3>1, <4>1, OneStateGoesOn
      <4>. QED
        BY <1>3, <1>7, <1>8, <2>2, <4>2 DEF OneState
    <3>. QED
      BY <2>1, <3>2, <3>4, <3>5
  <2>. QED
    BY <1>1, <1>7, <1>8, <1>9, <1>11, <1>12, <2>1, <2>3, <2>5 DEF PagingInv
<1>. QED
  BY <1>14, <1>15

\* What was read of the states so far does not change when another is added.
LEMMA InsertKeeps ==
    ASSUME PagingInv, InsertsInv', UNCHANGED walk, Len(tables) <= Len(tables'),
           \A v \in 1 .. Len(tables) : tables'[v] = tables[v]
    PROVE  PagingInv'
<1>1. UNCHANGED <<query, upto, got, done, from, at, back>>
  BY DEF walk
<1>2. Len(tables) \in Nat /\ Len(tables') \in Nat
  BY DEF PagingInv, InsertsInv
<1>3. ASSUME query # Nil, from # 0
      PROVE  /\ from' \in 1 .. Len(tables') /\ at' \in 1 .. Len(tables')
             /\ FirstListed' <=> FirstListed
             /\ NoneMissed' <=> NoneMissed
             /\ OneState' <=> OneState
  <2>1. from \in 1 .. Len(tables) /\ at \in 1 .. Len(tables)
    BY <1>3 DEF PagingInv
  <2>2. tables'[from'] = tables[from] /\ tables'[at'] = tables[at]
    BY <1>1, <2>1
  <2>3. /\ Wanted(query, tables[from])' = Wanted(query, tables[from])
        /\ Ahead(query, tables[from])' = Ahead(query, tables[from])
        /\ Wanted(query, tables[at])' = Wanted(query, tables[at])
        /\ Ahead(query, tables[at])' = Ahead(query, tables[at])
    BY <1>1, <2>2 DEF Wanted, Ahead, Column
  <2>4. \A x : /\ Place0(query, tables[from], x)' = Place0(query, tables[from], x)
               /\ Place0(query, tables[at], x)' = Place0(query, tables[at], x)
    BY <2>3 DEF Place0
  <2>5. from' \in 1 .. Len(tables') /\ at' \in 1 .. Len(tables')
    BY <1>1, <1>2, <2>1
  <2>6. FirstListed' <=> FirstListed
    BY <2>3 DEF FirstListed
  <2>7. NoneMissed' <=> NoneMissed
    BY <1>1, <2>3, <2>4 DEF NoneMissed
  <2>8. OneState' <=> OneState
    BY <1>1, <2>3 DEF OneState
  <2>. QED
    BY <2>5, <2>6, <2>7, <2>8
<1>. QED
  BY <1>1, <1>3 DEF PagingInv

\* Drawing an id and giving it up leave the table alone; a row that appears has an id
\* no row had.
LEMMA InsertStep ==
    ASSUME PagingInv,
           Draw \/ \E n \in drawn : CreateFails(n) \/ \E b \in Books : Create(n, b)
    PROVE  PagingInv'
<1>1. InsertsInv /\ MaxId \in Nat
  BY PagingAssumption DEF PagingInv
<1>2. CASE Draw
  <2>1. /\ lastId < MaxId /\ lastId' = lastId + 1 /\ drawn' = drawn \cup {lastId + 1}
        /\ tables' = tables /\ UNCHANGED walk
    BY <1>2 DEF Draw
  <2>2. InsertsInv'
    BY <1>1, <2>1 DEF InsertsInv
  <2>. QED
    BY <1>1, <2>1, <2>2, InsertKeeps DEF InsertsInv
<1>3. ASSUME NEW n \in drawn, CreateFails(n) PROVE PagingInv'
  <2>1. drawn' = drawn \ {n} /\ lastId' = lastId /\ tables' = tables /\ UNCHANGED walk
    BY <1>3 DEF CreateFails
  <2>2. InsertsInv'
    BY <1>1, <2>1 DEF InsertsInv
  <2>. QED
    BY <1>1, <2>1, <2>2, InsertKeeps DEF InsertsInv
<1>4. ASSUME NEW n \in drawn, NEW b \in Books, Create(n, b) PROVE PagingInv'
  <2>. DEFINE k == Len(tables)
              new == [tables[k] EXCEPT ![n] = b]
  <2>1. /\ tables' = Append(tables, new) /\ drawn' = drawn \ {n} /\ lastId' = lastId
        /\ UNCHANGED walk
    BY <1>4 DEF Create, Now
  <2>2. k \in Nat \ {0} /\ tables \in Seq(Table) /\ k \in 1 .. Len(tables)
    BY <1>1 DEF InsertsInv
  <2>3. tables[k] \in Table /\ n \in 1 .. MaxId /\ tables[k][n] = Nil
    <3>1. tables[k] \in Table
      BY <2>2, ElementOfSeq
    <3>2. n \in 1 .. MaxId
      BY <1>1 DEF InsertsInv
    <3>. QED
      BY <1>1, <3>1, <3>2 DEF InsertsInv
  <2>4. new \in Table /\ new[n] = b /\ \A m \in 1 .. MaxId : m # n => new[m] = tables[k][m]
    BY <2>3 DEF Table, Ids
  <2>. HIDE DEF new
  <2>5. /\ tables' \in Seq(Table) /\ Len(tables') = k + 1 /\ tables'[k + 1] = new
        /\ \A v \in 1 .. k : tables'[v] = tables[v]
    BY <2>1, <2>2, <2>4, AppendProperties
  <2>. HIDE DEF k
  <2>6. \A m \in 1 .. MaxId : tables[k][m] # Nil => new[m] = tables[k][m]
    BY <2>3, <2>4
  <2>7. ASSUME NEW v \in 1 .. k + 1, NEW w \in 1 .. k + 1, v <= w,
               NEW m \in 1 .. MaxId, tables'[v][m] # Nil
        PROVE  tables'[w][m] = tables'[v][m]
    <3>1. CASE w \in 1 .. k
      <4>1. v \in 1 .. k
        BY <2>2, <2>7, <3>1
      <4>2. tables'[v] = tables[v] /\ tables'[w] = tables[w]
        BY <2>5, <3>1, <4>1
      <4>. QED
        BY <1>1, <2>7, <3>1, <4>1, <4>2 DEF InsertsInv, k
    <3>2. CASE w = k + 1 /\ v \in 1 .. k
      <4>1. tables'[v] = tables[v] /\ tables'[w] = new
        BY <2>5, <3>2
      <4>2. tables[k][m] = tables[v][m]
        BY <1>1, <2>2, <2>7, <3>2, <4>1 DEF InsertsInv, k
      <4>. QED
        BY <2>6, <2>7, <4>1, <4>2
    <3>3. CASE w = k + 1 /\ v = k + 1
      BY <3>3
    <3>4. w \in 1 .. k \/ (w = k + 1 /\ v \in 1 .. k) \/ (w = k + 1 /\ v = k + 1)
      BY <2>2, <2>7
    <3>. QED
      BY <3>1, <3>2, <3>3, <3>4
  <2>8. ASSUME NEW m \in 1 .. MaxId, new[m] # Nil PROVE m <= lastId' /\ m \notin drawn'
    <3>1. CASE m = n
      BY <1>1, <2>1, <3>1 DEF InsertsInv
    <3>2. CASE m # n
      BY <1>1, <2>1, <2>4, <2>8, <3>2 DEF InsertsInv, k
    <3>. QED
      BY <3>1, <3>2
  <2>9. InsertsInv'
    <3>1. lastId' \in 0 .. MaxId /\ drawn' \subseteq 1 .. lastId'
      BY <1>1, <2>1 DEF InsertsInv
    <3>2. Len(tables') \in Nat \ {0} /\ tables'[Len(tables')] = new
      BY <2>2, <2>5
    <3>. QED
      BY <2>5, <2>7, <2>8, <3>1, <3>2 DEF InsertsInv
  <2>10. Len(tables) <= Len(tables')
    BY <2>2, <2>5 DEF k
  <2>. QED
    BY <2>1, <2>5, <2>9, <2>10, InsertKeeps DEF k
<1>. QED
  BY <1>2, <1>3, <1>4

\* The inductive invariant of the walk: PagingInv holds at the start and every
\* query, page and step of an INSERT keeps it.
THEOREM PagingInvariant == WalkSpec => []PagingInv
<1>1. WalkInit => PagingInv
  BY PagingStarts
<1>2. PagingInv /\ [WalkNext]_walkVars => PagingInv'
  <2>. SUFFICES ASSUME PagingInv, [WalkNext]_walkVars PROVE PagingInv'
    OBVIOUS
  <2>1. CASE \E raw \in RawQueries : Ask(raw)
    BY <2>1, AskKeeps
  <2>2. CASE query # Nil /\ ~done
             /\ \E v \in DOMAIN tables : \E s \in Orders(query, tables[v]) : Turn(v, s)
    BY <2>2, TurnKeeps
  <2>3. CASE Draw \/ \E n \in drawn : CreateFails(n) \/ \E b \in Books : Create(n, b)
    BY <2>3, InsertStep
  <2>4. CASE UNCHANGED walkVars
    <3>1. UNCHANGED <<tables, lastId, drawn>> /\ UNCHANGED walk
      BY <2>4 DEF walkVars, inserts
    <3>2. InsertsInv' /\ Len(tables) \in Nat
      BY <3>1 DEF PagingInv, InsertsInv
    <3>. QED
      BY <3>1, <3>2, InsertKeeps
  <2>. QED
    BY <2>1, <2>2, <2>3, <2>4 DEF WalkNext
<1>. QED
  BY <1>1, <1>2, PTL DEF WalkSpec

\* What is left of a list after its first a elements.
LEMMA Rest ==
    ASSUME NEW A, NEW s \in Seq(A), NEW a \in Nat
    PROVE  /\ SubSeq(s, a + 1, Len(s)) \in Seq(A)
           /\ Len(SubSeq(s, a + 1, Len(s))) = IF a < Len(s) THEN Len(s) - a ELSE 0
           /\ \A i \in 1 .. Len(s) - a : SubSeq(s, a + 1, Len(s))[i] = s[a + i]
<1>1. Len(s) \in Nat
  BY LenProperties
<1>2. a + 1 \in Int /\ Len(s) \in Int /\ \A i \in a + 1 .. Len(s) : s[i] \in A
  <2>1. \A i \in a + 1 .. Len(s) : i \in 1 .. Len(s)
    BY <1>1
  <2>. QED
    BY <1>1, <2>1, ElementOfSeq
<1>. DEFINE u == SubSeq(s, a + 1, Len(s))
<1>3. /\ u \in Seq(A) /\ Len(u) = IF a + 1 <= Len(s) THEN Len(s) - (a + 1) + 1 ELSE 0
      /\ \A i \in 1 .. Len(s) - (a + 1) + 1 : u[i] = s[(a + 1) + i - 1]
  BY <1>2, SubSeqProperties
<1>. HIDE DEF u
<1>4. ASSUME NEW i \in 1 .. Len(s) - a PROVE u[i] = s[a + i]
  <2>1. i \in 1 .. Len(s) - (a + 1) + 1 /\ (a + 1) + i - 1 = a + i
    BY <1>1
  <2>. QED
    BY <1>3, <2>1
<1>5. Len(u) = IF a < Len(s) THEN Len(s) - a ELSE 0
  BY <1>1, <1>3
<1>. QED
  BY <1>3, <1>4, <1>5 DEF u

\* At its end the walk has what the property asks for.
LEMMA WalkDone ==
    ASSUME PagingInv
    PROVE  WalkIsExact
<1>. DEFINE listing == Listing(query, tables[from])
            rest    == SubSeq(listing, query.offset + 1, Len(listing))
            W == Wanted(query, tables[from])
            R == Ahead(query, tables[from])
<1>. SUFFICES ASSUME done, query # Nil, ~back
              PROVE  (from = at => got = rest) /\ Range(rest) \subseteq Range(got)
  BY DEF WalkIsExact
<1>1. /\ query \in Parsed /\ upto \in Nat /\ from \in 1 .. Len(tables) /\ InsertsInv
      /\ FirstListed /\ NoneMissed /\ (from = at => OneState)
  BY DEF PagingInv
<1>2. query.offset \in Nat /\ tables[from] \in Table
  BY <1>1, ParsedTypes, ElementOfSeq DEF InsertsInv
<1>3. IsFiniteSet(W) /\ OneWay(W, R)
  BY <1>1, <1>2, WantedFinite, AheadOneWay
<1>4. PICK s : Lists(s, W, R)
  BY <1>1 DEF FirstListed
<1>5. listing = s
  BY <1>1, <1>2, <1>4, ListingIs
<1>6. s \in Seq(W) /\ Len(s) = Cardinality(W) /\ Len(s) \in Nat
  BY <1>3, <1>4, ListIsSeq
<1>7. ASSUME from = at PROVE got = rest
  <2>1. PICK t : Lists(t, W, R) /\ got = Piece(t, query.offset, upto) /\ (done <=> upto > Len(t))
    BY <1>1, <1>7 DEF OneState
  <2>2. t = s
    BY <1>3, <1>4, <2>1, ListedOneWay
  <2>3. ~(upto < Len(s))
    BY <1>1, <1>6, <2>1, <2>2
  <2>4. got = SubSeq(s, query.offset + 1, Len(s))
    BY <2>1, <2>2, <2>3 DEF Piece
  <2>. QED
    BY <1>5, <2>4
<1>8. ASSUME NEW x \in Range(rest) PROVE x \in Range(got)
  <2>. DEFINE u == SubSeq(s, query.offset + 1, Len(s))
  <2>1. /\ u \in Seq(W) /\ Len(u) = IF query.offset < Len(s) THEN Len(s) - query.offset ELSE 0
        /\ \A i \in 1 .. Len(s) - query.offset : u[i] = s[query.offset + i]
    <3>. HIDE DEF W
    <3>. QED
      BY <1>2, <1>6, Rest
  <2>2. x \in Range(u)
    BY <1>5
  <2>. HIDE DEF u, W, R
  <2>3. PICK i \in 1 .. Len(u) : u[i] = x
    BY <2>1, <2>2, LenProperties DEF Range
  <2>4. /\ i \in 1 .. Len(s) - query.offset /\ query.offset + i \in 1 .. Len(s)
        /\ query.offset + i - 1 >= query.offset
    <3>. DEFINE o == query.offset
    <3>1. o \in Nat /\ Len(s) \in Nat
      BY <1>2, <1>6
    <3>2. Len(u) = IF o < Len(s) THEN Len(s) - o ELSE 0
      BY <2>1
    <3>. HIDE DEF o
    <3>3. i \in 1 .. Len(s) - o
      BY <3>1, <3>2
    <3>4. o + i \in 1 .. Len(s) /\ o + i - 1 >= o
      BY <3>1, <3>3
    <3>. QED
      BY <3>3, <3>4 DEF o
  <2>5. s[query.offset + i] = x
    BY <2>1, <2>3, <2>4
  <2>6. x \in W
    BY <1>6, <2>4, <2>5, ElementOfSeq
  <2>7. Place0(query, tables[from], x) >= query.offset
    <3>1. query.offset + i \in 1 .. Cardinality(W)
      BY <1>6, <2>4
    <3>2. Cardinality({y \in W : <<y, s[query.offset + i]>> \in R}) = (query.offset + i) - 1
      BY <1>3, <1>4, <3>1, Place
    <3>3. Place0(query, tables[from], x) = (query.offset + i) - 1
      BY <2>5, <3>2 DEF Place0, W, R
    <3>4. (query.offset + i) - 1 >= query.offset
      BY <1>2, <1>6, <2>4
    <3>. QED
      BY <3>3, <3>4, ZenonT(60)
  <2>. QED
    BY <1>1, <2>6, <2>7 DEF NoneMissed, W
<1>. QED
  BY <1>7, <1>8

\* A walk whose pages show one state of the table yields each row it asks for once and
\* in order, from its offset on, and one whose pages never go back to an earlier state
\* misses no row of the first page's state, wherever rows appear meanwhile: the
\* tie-break by id of SQLCBookStore.List leaves each statement one order to return, and
\* a row that appears can only move others towards pages still to come.
THEOREM WalksAreExact == WalkSpec => []WalkIsExact
<1>1. PagingInv => WalkIsExact
  BY WalkDone
<1>. QED
  BY <1>1, PagingInvariant, PTL

\* A query with the key of the client's query is that query.
LEMMA SameKeySamePage ==
    ASSUME PagingInv
    PROVE  KeyDeterminesPage
<1>. DEFINE same == {k.query : k \in {e \in Keyed :
                                 e.key = BooksListDataCacheKey(query)}}
<1>. SUFFICES ASSUME query # Nil, NEW q \in same
              PROVE  PageRows(Listing(q, Now), q.offset, q.limit)
                       = PageRows(Listing(query, Now), query.offset, query.limit)
  BY DEF KeyDeterminesPage
<1>1. PICK e \in Keyed : q = e.query /\ e.key = BooksListDataCacheKey(query)
  OBVIOUS
<1>2. PICK raw \in RawQueries :
        /\ Valid(raw)
        /\ e = [query |-> Parse(raw), key |-> BooksListDataCacheKey(Parse(raw))]
  BY DEF Keyed
<1>3. q \in Parsed /\ BooksListDataCacheKey(q) = BooksListDataCacheKey(query)
  BY <1>1, <1>2 DEF Parsed
<1>4. query \in Parsed
  BY DEF PagingInv
<1>5. q = query
  BY <1>3, <1>4, KeyIsInjective
<1>. QED
  BY <1>5

\* Queries that share the key booksListDataCacheKey makes, and with it a page in
\* Redis and a singleflight call, ask for the same page: filters are hex digits in
\* the key, so no text of one can pass for the words between the parts.
THEOREM KeysDeterminePages == WalkSpec => []KeyDeterminesPage
<1>1. PagingInv => KeyDeterminesPage
  BY SameKeySamePage
<1>. QED
  BY <1>1, PagingInvariant, PTL

============================================================================
