--------------------------- MODULE BookListCache ---------------------------
(***************************************************************************)
(* The cache of book list pages: BookService.ListBooks and the generation  *)
(* bump after each mutation (pkg/service/book_service.go), over PostgreSQL *)
(* and Redis shared by several instances of the application, each with its *)
(* own singleflight group.                                                 *)
(*                                                                         *)
(* The content of the books table is a version number, the count of        *)
(* committed mutations; a page is the version it was read from.  The query *)
(* is fixed: its fields are part of the key, hex-encoded, so pages of      *)
(* different queries never meet.  Each Redis command and each SQL          *)
(* statement is one step, and each of them may fail.  The Redis client     *)
(* (cache.go leaves MaxRetries at its default) sends a command again when  *)
(* its reply is lost, so an INCR or a SET may be applied several times.    *)
(***************************************************************************)
EXTENDS Naturals

CONSTANTS
    Readers,        \* concurrent GET /books
    Writers,        \* concurrent POST, PUT, PATCH and DELETE of books
    Instances,      \* application processes, one singleflight.Group each
    PageTTL,        \* expiry of a page in Redis (one minute), in clock ticks
    RequestTimeout, \* REQUEST_CONTEXT_TIMEOUT and the socket timeout of a last
                    \* command, in clock ticks: when a request has no effect any more
    MaxVersion,     \* bound of the model: mutations
    MaxTime,        \* bound of the model: clock ticks
    MaxFaults,      \* bound of the model: commands sent again, losses of Redis's data
    None            \* no page, no answer, no instance

ASSUME BoundsAssumption ==
    /\ PageTTL \in Nat \ {0} /\ RequestTimeout \in Nat
    /\ MaxVersion \in Nat /\ MaxTime \in Nat /\ MaxFaults \in Nat

ASSUME NoneAssumption == None \notin Nat /\ None \notin Instances

VARIABLES
    version,    \* the books table
    gen,        \* Redis: BooksListCacheGenKey (0 when unset)
    page,       \* Redis: the page cached under each generation, with its expiry
    clock,
    \* the locals of each GET /books
    pc, home, since,    \* since: when its context's deadline started
    g,                  \* the generation it read
    val,                \* the list it loaded or will answer
    \* the locals of each mutation
    wpc, wrote,         \* wrote: the version its commit made
    \* history, read by the properties only
    birth,      \* when each version was committed
    bumped,     \* newest version an INCR of which Redis has applied
    floor,      \* bumped when a reader read the generation (0 if it could not)
    resends,    \* commands sent again
    restarts    \* times Redis lost its data

redis   == <<gen, page>>
readers == <<pc, home, since, g, val, floor>>
writers == <<wpc, wrote, birth, bumped>>
faults  == <<resends, restarts>>
vars    == <<version, gen, page, clock, pc, home, since, g, val, wpc, wrote,
             birth, bumped, floor, resends, restarts>>

Versions    == 0 .. MaxVersion
Generations == 0 .. MaxVersion + MaxFaults
Times       == 0 .. MaxTime
\* by is history: the instance that filed the page.
Page        == [ver : Versions, exp : 0 .. MaxTime + PageTTL, by : Instances]

InTime(r) == clock <= since[r] + RequestTimeout

\* singleflight: the calls of Do with r's key on r's instance, r included.
SameCall(r) == {q \in Readers : home[q] = home[r] /\ g[q] = g[r]}
Followers_Forgotten(r) == {}
Followers(r) == {q \in SameCall(r) : pc[q] = "wait"}

InFlight_Never(r) == FALSE
InFlight(r) == \E q \in SameCall(r) : pc[q] \in {"load", "set"}

\* The key a page is filed under, and when Redis drops it.
PageKey_Now(r) == gen
PageKey(r) == g[r]
PageExpiry_Never == MaxTime + PageTTL
PageExpiry == clock + PageTTL

\* Redis with the list of r filed, and when r gets to send it there.
Filed(r) == [page EXCEPT ![PageKey(r)] =
                [ver |-> val[r], exp |-> PageExpiry, by |-> home[r]]]
MayFile_Unchecked(r) == pc[r] \in {"load", "set"} /\ InTime(r)
MayFile(r) == pc[r] = "set" /\ InTime(r)

----------------------------------------------------------------------------
\* Nothing is under way and Redis is empty; any part of the bounds may be spent.
Init ==
    /\ version \in Versions /\ gen = 0
    /\ page = [n \in Generations |-> None]
    /\ clock \in Times
    /\ pc = [r \in Readers |-> "idle"]
    /\ home = [r \in Readers |-> None]
    /\ since = [r \in Readers |-> 0]
    /\ g = [r \in Readers |-> 0]
    /\ val = [r \in Readers |-> None]
    /\ wpc = [w \in Writers |-> "idle"]
    /\ wrote = [w \in Writers |-> 0]
    /\ birth = [v \in Versions |-> 0]
    /\ bumped = 0
    /\ floor = [r \in Readers |-> 0]
    /\ resends \in 0 .. MaxFaults /\ restarts = 0

----------------------------------------------------------------------------
(* GET /books *)

\* A request reaches an instance and reads the generation; an error reads as 0.
List(r, i, ok) ==
    /\ pc[r] = "idle"
    /\ pc' = [pc EXCEPT ![r] = "page"]
    /\ home' = [home EXCEPT ![r] = i]
    /\ since' = [since EXCEPT ![r] = clock]
    /\ g' = [g EXCEPT ![r] = IF ok THEN gen ELSE 0]
    /\ val' = [val EXCEPT ![r] = None]
    /\ floor' = [floor EXCEPT ![r] = IF ok THEN bumped ELSE 0]
    /\ UNCHANGED <<version, redis, clock, writers, faults>>

\* The Redis client had no reply, and sends its command again.
Resend ==
    /\ resends + restarts < MaxFaults
    /\ resends' = resends + 1

\* The members of Q return with the answer v (None for an error).
Answer(Q, v) ==
    /\ pc' = [q \in Readers |-> IF q \in Q THEN "idle" ELSE pc[q]]
    /\ val' = [q \in Readers |-> IF q \in Q THEN v ELSE val[q]]
    /\ since' = [q \in Readers |-> IF q \in Q THEN 0 ELSE since[q]]
    /\ g' = [q \in Readers |-> IF q \in Q THEN 0 ELSE g[q]]
    /\ home' = [q \in Readers |-> IF q \in Q THEN None ELSE home[q]]
    /\ floor' = [q \in Readers |-> IF q \in Q THEN 0 ELSE floor[q]]

\* The page is in Redis: it is the answer.
Hit(r) ==
    /\ pc[r] = "page"
    /\ InTime(r)
    /\ page[g[r]] # None
    /\ Answer({r}, page[g[r]].ver)
    /\ UNCHANGED <<version, redis, clock, writers, faults>>

\* It is not, or the GET fails, which is the same to the code.
Miss(r, ok) ==
    /\ pc[r] = "page"
    /\ ok => page[g[r]] = None
    /\ pc' = [pc EXCEPT ![r] = "do"]
    /\ UNCHANGED <<version, redis, clock, home, since, g, val, floor, writers, faults>>

\* listSF.Do: join the call in flight for the key on this instance, or lead one.
Do(r) ==
    /\ pc[r] = "do"
    /\ pc' = [pc EXCEPT ![r] = IF InFlight(r) THEN "wait" ELSE "load"]
    /\ UNCHANGED <<version, redis, clock, home, since, g, val, floor, writers, faults>>

\* store.List
Load(r) ==
    /\ pc[r] = "load"
    /\ InTime(r)
    /\ val' = [val EXCEPT ![r] = version]
    /\ pc' = [pc EXCEPT ![r] = "set"]
    /\ UNCHANGED <<version, redis, clock, home, since, g, floor, writers, faults>>

\* redis.Set with the page's expiry; the leader and its followers get the list.
SetPage(r) ==
    /\ MayFile(r)
    /\ page' = Filed(r)
    /\ Answer({r} \cup Followers(r), val[r])
    /\ UNCHANGED <<version, gen, clock, writers, faults>>

\* The Set is applied but its reply is lost: the client sends it again.
SetAgain(r) ==
    /\ MayFile(r)
    /\ Resend
    /\ page' = Filed(r)
    /\ UNCHANGED <<version, gen, clock, readers, writers, restarts>>

\* The load, the encoding or the Set fails, or the leader's context ends: an
\* error for everyone.  The Set may have reached Redis all the same.
CallFails(r, applied) ==
    /\ pc[r] \in {"load", "set"}
    /\ applied => MayFile(r)
    /\ page' = IF applied THEN Filed(r) ELSE page
    /\ Answer({r} \cup Followers(r), None)
    /\ UNCHANGED <<version, gen, clock, writers, faults>>

----------------------------------------------------------------------------
(* Mutations of books *)

\* The SQL statement commits.  If its answer is lost (ack = FALSE), the handler
\* returns an error and never gets to the bump.
Mutate(w, ack) ==
    /\ wpc[w] = "idle"
    /\ version < MaxVersion
    /\ version' = version + 1
    /\ birth' = [birth EXCEPT ![version + 1] = clock]
    /\ wrote' = [wrote EXCEPT ![w] = IF ack THEN version + 1 ELSE 0]
    /\ wpc' = [wpc EXCEPT ![w] = IF ack THEN "bump" ELSE "idle"]
    /\ UNCHANGED <<redis, clock, readers, bumped, faults>>

\* bumpListCacheGeneration sends an INCR, which Redis applies or not; then
\* either its reply is lost and the client sends it again, or the call is over:
\* answered, out of retries or at its deadline, which is all one to the code.
Bump(w, applied, again) ==
    /\ wpc[w] = "bump"
    /\ IF again THEN Resend ELSE UNCHANGED resends
    /\ gen' = IF applied THEN gen + 1 ELSE gen
    /\ bumped' = IF applied /\ wrote[w] > bumped THEN wrote[w] ELSE bumped
    /\ wpc' = [wpc EXCEPT ![w] = IF again THEN "bump" ELSE "idle"]
    /\ wrote' = [wrote EXCEPT ![w] = IF again THEN wrote[w] ELSE 0]
    /\ UNCHANGED <<version, page, clock, readers, birth, restarts>>

----------------------------------------------------------------------------
(* Environment *)

\* Redis restarts without its data.
RedisRestart ==
    /\ resends + restarts < MaxFaults
    /\ restarts' = restarts + 1
    /\ gen' = 0
    /\ page' = [n \in Generations |-> None]
    /\ UNCHANGED <<version, clock, readers, writers, resends>>

\* Time passes; Redis drops the pages that reach their expiry.
Tick ==
    /\ clock < MaxTime
    /\ clock' = clock + 1
    /\ page' = [n \in Generations |->
                   IF page[n] # None /\ page[n].exp <= clock + 1 THEN None ELSE page[n]]
    /\ UNCHANGED <<version, gen, readers, writers, faults>>

ReaderStep(r) ==
    \/ Hit(r)
    \/ \E ok \in BOOLEAN : Miss(r, ok)
    \/ Do(r)
    \/ Load(r)
    \/ SetPage(r)
    \/ SetAgain(r)
    \/ \E applied \in BOOLEAN : CallFails(r, applied)

Next ==
    \/ Tick
    \/ RedisRestart
    \/ \E r \in Readers :
          (\E i \in Instances, ok \in BOOLEAN : List(r, i, ok)) \/ ReaderStep(r)
    \/ \E w \in Writers :
          \/ \E ack \in BOOLEAN : Mutate(w, ack)
          \/ \E applied, again \in BOOLEAN : Bump(w, applied, again)

Spec == Init /\ [][Next]_vars

----------------------------------------------------------------------------
(* Properties *)

\* Type invariant: the shape of the tables, of Redis and of the handlers' locals.
TypeOK ==
    /\ version \in Versions
    /\ gen \in Generations
    /\ page \in [Generations -> Page \cup {None}]
    /\ clock \in Times
    /\ pc \in [Readers -> {"idle", "page", "do", "load", "set", "wait"}]
    /\ home \in [Readers -> Instances \cup {None}]
    /\ since \in [Readers -> Times]
    /\ g \in [Readers -> Generations]
    /\ val \in [Readers -> Versions \cup {None}]
    /\ wpc \in [Writers -> {"idle", "bump"}]
    /\ wrote \in [Writers -> Versions]
    /\ birth \in [Versions -> Times]
    /\ bumped \in Versions
    /\ floor \in [Readers -> Versions]
    /\ resends \in Nat /\ restarts \in Nat /\ resends + restarts <= MaxFaults

\* A list requested after Redis has applied the bump of a mutation shows that
\* mutation, on any instance, whether or not the writer got a reply, and whichever
\* loads, bumps, repeated INCRs and Redis errors race with it, as long as its own
\* read of the generation succeeds and Redis keeps its data: a page filed under a
\* generation was read after that generation began.
ListSeesBumpedMutations ==
    [][\A r \in Readers :
          pc[r] # "idle" /\ pc'[r] = "idle" /\ val'[r] # None /\ restarts = 0
              => val'[r] >= floor[r]]_vars

\* Whatever is lost (bumps, generation reads, Redis itself), an answer is never
\* older than a page's expiry plus the time a request may take to file it.
AnswerAgeBounded ==
    [][\A r \in Readers :
          pc[r] # "idle" /\ pc'[r] = "idle" /\ val'[r] # None /\ val'[r] < version =>
              clock <= birth[val'[r] + 1] + PageTTL + RequestTimeout]_vars

\* A key is loaded again when a request whose GET missed calls Do after the flight
\* that filed the page has ended, and a late or re-sent Set may meet a newer page.
\* On one instance none of it sets the list back: a page gives way to one of the
\* same instance only if that was loaded no earlier.  (Another instance may file an
\* older list: the singleflight group is per process.)
PagesAdvance ==
    [][\A n \in Generations :
          page[n] # None /\ page'[n] # None /\ page'[n].by = page[n].by
              => page'[n].ver >= page[n].ver]_vars

\* Nobody waits for a call that is over: a follower has its leader loading or
\* filing the page until it gets the leader's list or, if the leader fails or its
\* context ends, the leader's error.  A leader waits for nobody, so every list
\* request whose calls return is answered.
FollowersHaveALeader ==
    \A r \in Readers : pc[r] = "wait" =>
        \E q \in Readers :
            home[q] = home[r] /\ g[q] = g[r] /\ pc[q] \in {"load", "set"}

============================================================================
