-------------------------- MODULE ServerLifecycle --------------------------
(***************************************************************************)
(* One process from start to exit: main (cmd/server/main.go) and the setup *)
(* steps it calls, the connection attempts of NewDatabase                  *)
(* (pkg/database/db.go), the requests that pass the middleware chain       *)
(* (pkg/api/router.go), the readiness probes, the request metrics and the  *)
(* access-log queue.                                                       *)
(*                                                                         *)
(* Every setup step ends in log.Fatal on an error, and log.Fatal runs no   *)
(* deferred call.  A request is a mutation of a book: it takes a           *)
(* connection, runs its statement and publishes.  pgxpool's Close refuses  *)
(* new connections at once and waits for those in use.                     *)
(***************************************************************************)
EXTENDS Naturals, Sequences, FiniteSets

CONSTANTS
    Handlers,       \* concurrent requests and probes
    MaxConns,       \* POSTGRES_MAX_OPEN_CONNS, made positive
    QueueSize,      \* mongoAccessLogQueueSize
    Attempts,       \* connection attempts of NewDatabase
    MaxRequests     \* bound of the model: requests accepted

ASSUME LifecycleAssumption ==
    /\ MaxConns \in Nat \ {0}
    /\ QueueSize \in Nat
    /\ Attempts \in Nat \ {0}
    /\ MaxRequests \in Nat

VARIABLES
    phase,      \* where main is: a setup step, "serving", "draining", "unwind", an end
    attempt,    \* NewDatabase: the attempt being made
    pools,      \* pools opened and not closed
    closing,    \* pool.Close has begun
    open,       \* the other clients opened and not closed
    defers,     \* main's deferred calls, in the order they were registered
    pc,         \* where each handler is
    inFlight,   \* the gauge http_requests_in_flight
    requests,   \* the counter http_requests_total
    queue,      \* access-log entries in the channel
    inserting,  \* the worker is in InsertOne
    dropped,    \* q.dropped
    \* history, read by the properties only
    accepted,   \* requests the metrics measure, from the gauge's Inc on
    skipped,    \* access-log entries of requests the metrics skip
    tooLarge,   \* measured requests answered 413 by their Content-Length
    panicked,   \* measured requests whose handler panicked
    written,    \* entries InsertOne has returned for, with or without an error
    late,       \* the grace period ended before the handlers did
    hurt        \* some request found the pool or the publisher closed

main    == <<phase, attempt, pools, closing, open, defers, late>>
log     == <<queue, inserting, dropped, written>>
metrics == <<inFlight, requests, accepted, skipped, tooLarge, panicked>>
traffic == <<pc, metrics, hurt>>
vars    == <<main, log, traffic>>

Running == phase \notin {"exit", "fatal", "killed"}

----------------------------------------------------------------------------
(* Setup *)

\* The order of main.  The database comes last of the steps that can be fatal.
Steps_DatabaseFirst ==
    <<"config", "connect", "schema", "jwtKey", "apiKey", "tracing", "redis", "mongo",
      "events", "logger", "router", "serving">>
Steps ==
    <<"jwtKey", "apiKey", "tracing", "redis", "mongo", "events", "logger",
      "config", "connect", "schema", "router", "serving">>

After(step) == Steps[1 + CHOOSE i \in DOMAIN Steps : Steps[i] = step]

Init ==
    /\ phase = Steps[1] /\ attempt = 1 /\ pools = 0 /\ closing = FALSE
    /\ open = {} /\ defers = <<>>
    /\ pc = [r \in Handlers |-> "idle"]
    /\ inFlight = 0 /\ requests = 0
    /\ queue = 0 /\ inserting = FALSE /\ dropped = 0
    /\ accepted = 0 /\ skipped = 0 /\ tooLarge = 0 /\ panicked = 0 /\ written = 0
    /\ late = FALSE /\ hurt = FALSE

\* A step that opens clients and defers their close.
Completes(step, opened, deferred) ==
    /\ phase = step
    /\ phase' = After(step)
    /\ open' = open \cup opened
    /\ defers' = defers \o deferred
    /\ UNCHANGED <<attempt, pools, closing, late, log, traffic>>

\* A secret of less than 32 bytes is fatal; so is, below, any setting that does
\* not parse and a MongoDB that does not answer.
SetJWTSigningKey == Completes("jwtKey", {}, <<>>)
SetAPISecretKey  == Completes("apiKey", {}, <<>>)

\* A tracer, or a no-op if tracing is off; its Shutdown is deferred all the same.
TracingInit ==
    \E opened \in {{}, {"tracer"}} : Completes("tracing", opened, <<"tracer">>)

\* The clients of Redis and MongoDB are never closed.
NewRedisClient == Completes("redis", {"redis"}, <<>>)
SetupMongoDB   == Completes("mongo", {"mongo"}, <<>>)

\* EVENTS_DRIVER: none, or kafka with brokers and a positive timeout.
Deferred_Forgotten == <<>>
Deferred == <<"publisher">>
NopPublisher  == Completes("events", {}, Deferred)
KafkaProducer == Completes("events", {"publisher"}, Deferred)

NewLogger == Completes("logger", {"logger"}, <<"logger">>)

\* The pool's URL parses, and its limits are positive: MaxConns.
ApplyPoolConfig == Completes("config", {}, <<>>)

SetUp ==
    \/ SetJWTSigningKey \/ SetAPISecretKey \/ TracingInit \/ NewRedisClient
    \/ SetupMongoDB \/ NopPublisher \/ KafkaProducer \/ NewLogger \/ ApplyPoolConfig

\* log.Fatal.  A MongoDB client that does not answer was disconnected before.
SetupFails ==
    /\ phase \in {"jwtKey", "apiKey", "tracing", "redis", "mongo", "events",
                  "logger", "config"}
    /\ phase' = "fatal"
    /\ UNCHANGED <<attempt, pools, closing, open, defers, late, log, traffic>>

(* NewDatabase *)

Retry_Forever == attempt' = (attempt % Attempts) + 1 /\ UNCHANGED phase
Retry ==
    IF attempt < Attempts
    THEN attempt' = attempt + 1 /\ UNCHANGED phase
    ELSE phase' = "fatal" /\ UNCHANGED attempt

\* A pool whose Ping fails is closed before the next attempt.
Unpinged_Kept == 1
Unpinged == 0

\* An attempt fails: no pool, or (opened) a pool that does not answer.
ConnectFails(opened) ==
    /\ phase = "connect"
    /\ pools' = pools + IF opened THEN Unpinged ELSE 0
    /\ Retry
    /\ UNCHANGED <<closing, open, defers, late, log, traffic>>

\* The loop's counter ends with the loop.
Connect ==
    /\ phase = "connect"
    /\ pools' = pools + 1
    /\ phase' = After(phase)
    /\ attempt' = 1
    /\ UNCHANGED <<closing, open, defers, late, log, traffic>>

\* ApplySchema; on an error the pool is closed and main gives up.
ApplySchema(ok) ==
    /\ phase = "schema"
    /\ phase' = IF ok THEN After(phase) ELSE "fatal"
    /\ pools' = IF ok THEN pools ELSE pools - 1
    /\ defers' = IF ok THEN Append(defers, "pool") ELSE defers
    /\ UNCHANGED <<attempt, closing, open, late, log, traffic>>

\* NewRouter panics on a bad proxy list or body limit; the deferred calls do run.
NewRouter(ok) ==
    /\ phase = "router"
    /\ phase' = IF ok THEN After(phase) ELSE "unwind"
    /\ UNCHANGED <<attempt, pools, closing, open, defers, late, log, traffic>>

----------------------------------------------------------------------------
(* The end *)

\* ListenAndServe returns an error of its own: log.Fatalf.
ListenFails ==
    /\ phase = "serving"
    /\ phase' = "fatal"
    /\ UNCHANGED <<attempt, pools, closing, open, defers, late, log, traffic>>

\* A signal before NotifyContext, or SIGKILL at any time.
Killed ==
    /\ Running
    /\ phase' = "killed"
    /\ UNCHANGED <<attempt, pools, closing, open, defers, late, log, traffic>>

\* SIGINT or SIGTERM: srv.Shutdown closes the listener.
Signal ==
    /\ phase = "serving"
    /\ phase' = "draining"
    /\ UNCHANGED <<attempt, pools, closing, open, defers, late, log, traffic>>

\* Shutdown returns once no request is active ...
Quiet_Now == TRUE
Quiet == \A r \in Handlers : pc[r] = "idle"
Drained ==
    /\ phase = "draining"
    /\ Quiet
    /\ phase' = "unwind"
    /\ UNCHANGED <<attempt, pools, closing, open, defers, late, log, traffic>>

\* ... or when the grace period is over; the error is logged and main goes on.
GraceEnds ==
    /\ phase = "draining"
    /\ ~Quiet
    /\ phase' = "unwind"
    /\ late' = TRUE
    /\ UNCHANGED <<attempt, pools, closing, open, defers, log, traffic>>

\* Deferred calls run last in, first out.
Pop_First == [call |-> Head(defers), rest |-> Tail(defers)]
Pop == [call |-> defers[Len(defers)], rest |-> SubSeq(defers, 1, Len(defers) - 1)]
NextDeferred == Pop.call
Unregister == defers' = Pop.rest

\* db.Close() begins, and returns when no connection is in use.
BeginCloseDB ==
    /\ phase = "unwind" /\ defers # <<>> /\ NextDeferred = "pool" /\ ~closing
    /\ closing' = TRUE
    /\ UNCHANGED <<phase, attempt, pools, open, defers, late, log, traffic>>

Returned == \A r \in Handlers : pc[r] \notin {"query", "ping"}
EndCloseDB ==
    /\ phase = "unwind" /\ closing /\ pools = 1
    /\ Returned
    /\ pools' = 0
    /\ Unregister
    /\ UNCHANGED <<phase, attempt, closing, open, late, log, traffic>>

\* logger.Sync(), publisher.Close(), tracerProvider.Shutdown(), errors only logged.
CloseClient ==
    /\ phase = "unwind" /\ defers # <<>> /\ NextDeferred # "pool"
    /\ open' = open \ {NextDeferred}
    /\ Unregister
    /\ UNCHANGED <<phase, attempt, pools, closing, late, log, traffic>>

\* main returns, and with it every goroutine ends.
Return ==
    /\ phase = "unwind" /\ defers = <<>>
    /\ phase' = "exit"
    /\ UNCHANGED <<attempt, pools, closing, open, defers, late, log, traffic>>

----------------------------------------------------------------------------
(* Requests: Recovery, Metrics, MaxRequestBody, Logger, the rest, the handler *)

At(r, stage) == Running /\ pc[r] = stage
Goto(r, stage) == pc' = [pc EXCEPT ![r] = stage]

\* Metrics are on (the default).  A request they measure ...
Accept(r) ==
    /\ phase = "serving" /\ pc[r] = "idle"
    /\ accepted + skipped < MaxRequests
    /\ Goto(r, "enter")
    /\ inFlight' = inFlight + 1
    /\ accepted' = accepted + 1
    /\ UNCHANGED <<main, log, requests, skipped, tooLarge, panicked, hurt>>

\* ... and one they skip: the Swagger UI, or the scrape path by another method than
\* GET.  The rest of the chain, Logger included, handles it as any other.
AcceptSkipped(r) ==
    /\ phase = "serving" /\ pc[r] = "idle"
    /\ accepted + skipped < MaxRequests
    /\ Goto(r, "skipped")
    /\ UNCHANGED <<main, log, metrics, hurt>>

Measured(r) == IF pc[r] = "skipped" THEN 0 ELSE 1

\* MaxRequestBody aborts outside Logger: no entry.
RejectBody(r) ==
    /\ At(r, "enter") \/ At(r, "skipped")
    /\ Goto(r, IF pc[r] = "skipped" THEN "idle" ELSE "count")
    /\ tooLarge' = tooLarge + Measured(r)
    /\ UNCHANGED <<main, log, inFlight, requests, accepted, skipped, panicked, hurt>>

\* The rate limiter, the API key, the token or the input refuses ...
Refuse(r) ==
    /\ At(r, "enter")
    /\ Goto(r, "log")
    /\ UNCHANGED <<main, log, metrics, hurt>>

\* ... or the service is called.
Admit(r) ==
    /\ At(r, "enter")
    /\ Goto(r, "acquire")
    /\ UNCHANGED <<main, log, metrics, hurt>>

PoolOpen == pools > 0 /\ ~closing
InUse == Cardinality({r \in Handlers : pc[r] \in {"query", "ping"}})

\* A connection from the pool: waits while all are in use ...
Acquire(r) ==
    /\ At(r, "acquire") \/ At(r, "wait")
    /\ PoolOpen /\ InUse < MaxConns
    /\ Goto(r, IF pc[r] = "wait" THEN "ping" ELSE "query")
    /\ UNCHANGED <<main, log, metrics, hurt>>

\* ... and fails if Close has begun or the deadline passes.
AcquireFails(r) ==
    /\ At(r, "acquire") \/ At(r, "wait")
    /\ Goto(r, IF pc[r] = "wait" THEN "idle" ELSE "log")
    /\ hurt' = (hurt \/ (pc[r] = "acquire" /\ ~PoolOpen))
    /\ UNCHANGED <<main, log, metrics>>

\* The statement commits, or fails (its context's deadline included).
Query(r, ok) ==
    /\ At(r, "query")
    /\ Goto(r, IF ok THEN "publish" ELSE "log")
    /\ UNCHANGED <<main, log, metrics, hurt>>

Closed(client) == \A i \in DOMAIN defers : defers[i] # client

\* publishBookEvent: an error, a closed writer's too, is ignored.
Publish(r) ==
    /\ At(r, "publish")
    /\ Goto(r, "log")
    /\ hurt' = (hurt \/ Closed("publisher"))
    /\ UNCHANGED <<main, log, metrics>>

\* enqueue never waits: a full queue drops the entry and counts it.
Full_Uncounted == queue' = queue /\ dropped' = dropped
Full == queue' = queue /\ dropped' = dropped + 1
Enqueue(r) ==
    /\ At(r, "log") \/ At(r, "skipped")
    /\ Goto(r, IF pc[r] = "skipped" THEN "idle" ELSE "count")
    /\ IF queue < QueueSize THEN queue' = queue + 1 /\ UNCHANGED dropped ELSE Full
    /\ skipped' = skipped + 1 - Measured(r)
    /\ UNCHANGED <<main, inserting, written, inFlight, requests, accepted,
                   tooLarge, panicked, hurt>>

\* The end of the metrics middleware: the counter ...
Count(r) ==
    /\ At(r, "count")
    /\ Goto(r, "dec")
    /\ requests' = requests + 1
    /\ UNCHANGED <<main, log, inFlight, accepted, skipped, tooLarge, panicked, hurt>>

\* ... and then the deferred Dec of the gauge; a scrape may come in between.
Dec(r) ==
    /\ At(r, "dec")
    /\ Goto(r, "idle")
    /\ inFlight' = inFlight - 1
    /\ UNCHANGED <<main, log, requests, accepted, skipped, tooLarge, panicked, hurt>>

\* A panic unwinds to Recovery: what follows c.Next is skipped, what is deferred
\* runs.
Unwound_NotDeferred(r) == inFlight
Unwound(r) == inFlight - Measured(r)
Panic(r) ==
    /\ At(r, "enter") \/ At(r, "skipped") \/ At(r, "acquire") \/ At(r, "publish")
    /\ Goto(r, "idle")
    /\ inFlight' = Unwound(r)
    /\ panicked' = panicked + Measured(r)
    /\ UNCHANGED <<main, log, requests, accepted, skipped, tooLarge, hurt>>

(* Probes: /readyz, registered before the middleware *)

AcceptProbe(r) ==
    /\ phase = "serving" /\ pc[r] = "idle"
    /\ Goto(r, "wait")
    /\ UNCHANGED <<main, log, metrics, hurt>>

\* PostgreSQL answers, and Redis and MongoDB are asked, or 503.
Ping(r) ==
    /\ At(r, "ping")
    /\ \E stage \in {"others", "idle"} : Goto(r, stage)
    /\ UNCHANGED <<main, log, metrics, hurt>>

PingOthers(r) ==
    /\ At(r, "others")
    /\ Goto(r, "idle")
    /\ UNCHANGED <<main, log, metrics, hurt>>

(* The access-log worker: takes an entry, and InsertOne returns within its timeout *)

Take ==
    /\ Running /\ ~inserting /\ queue > 0
    /\ queue' = queue - 1
    /\ inserting' = TRUE
    /\ UNCHANGED <<main, traffic, dropped, written>>

Insert ==
    /\ Running /\ inserting
    /\ inserting' = FALSE
    /\ written' = written + 1
    /\ UNCHANGED <<main, traffic, queue, dropped>>

----------------------------------------------------------------------------
Attempt  == Connect \/ \E opened \in BOOLEAN : ConnectFails(opened)
Shutdown == Drained \/ GraceEnds \/ BeginCloseDB \/ EndCloseDB \/ CloseClient \/ Return

Handle(r) ==
    \/ RejectBody(r) \/ Refuse(r) \/ Admit(r) \/ Acquire(r) \/ AcquireFails(r)
    \/ \E ok \in BOOLEAN : Query(r, ok)
    \/ Publish(r) \/ Enqueue(r) \/ Count(r) \/ Dec(r)
    \/ Ping(r) \/ PingOthers(r)

Next ==
    \/ SetUp \/ SetupFails
    \/ Attempt
    \/ \E ok \in BOOLEAN : ApplySchema(ok) \/ NewRouter(ok)
    \/ ListenFails \/ Killed \/ Signal \/ Shutdown
    \/ \E r \in Handlers :
         Accept(r) \/ AcceptSkipped(r) \/ AcceptProbe(r) \/ Handle(r) \/ Panic(r)
    \/ Take \/ Insert

Spec == Init /\ [][Next]_vars

\* A connection attempt ends with its timeout, a statement of a handler with its
\* request's deadline.  Nothing is owed by clients, signals, MongoDB, or the
\* schema, which is applied without a deadline.
FairSpec ==
    /\ Spec
    /\ WF_vars(Attempt) /\ WF_vars(Shutdown)
    /\ \A r \in Handlers : WF_vars(Handle(r))

----------------------------------------------------------------------------
(* Properties *)

\* Requests between the gauge's Inc and the counter, and between that and the Dec.
Uncounted == {r \in Handlers : pc[r] \in {"enter", "acquire", "query", "publish",
                                          "log", "count"}}
Counted   == {r \in Handlers : pc[r] = "dec"}

\* Type invariant: the shape of the process; at most one pool is ever open.
TypeOK ==
    /\ phase \in {Steps[i] : i \in DOMAIN Steps}
                 \cup {"draining", "unwind", "exit", "fatal", "killed"}
    /\ attempt \in 1 .. Attempts
    /\ pools \in 0 .. 1 /\ closing \in BOOLEAN
    /\ open \subseteq {"tracer", "redis", "mongo", "publisher", "logger"}
    /\ defers \in Seq({"tracer", "publisher", "logger", "pool"})
    /\ pc \in [Handlers -> {"enter", "acquire", "query", "publish", "log", "count",
                           "dec", "skipped", "idle", "wait", "ping", "others"}]
    /\ queue \in 0 .. QueueSize /\ inserting \in BOOLEAN
    /\ {inFlight, requests, accepted, skipped, tooLarge, panicked} \subseteq Nat
    /\ {dropped, written} \subseteq Nat
    /\ late \in BOOLEAN /\ hurt \in BOOLEAN

\* Nothing is left open that main closes at all (it never closes the clients of Redis
\* and MongoDB, and the formula exempts them).  An orderly end (a signal, or a
\* router that panics) has closed the pool, flushed the logger and the tracer and
\* closed the publisher, whatever handlers still run; and a fatal error of the setup
\* leaves no pool behind, although log.Fatal runs no deferred call: main opens the
\* pool after everything else that can fail.
EndsLeaveNothingOpen ==
    [][/\ phase' = "exit" => pools' = 0 /\ open' \subseteq {"redis", "mongo"}
       /\ phase' = "fatal" => phase = "serving" \/ pools' = 0]_vars

\* A shutdown within the grace period harms nobody: a request that was accepted
\* finds the pool and the publisher closed only if it outlived the grace period.
GraceProtects == hurt => late

\* The shutdown cuts no statement off and none is run for nothing: as long as a
\* connection is in use the publisher, the logger and the tracer are there, and main
\* has not returned, even if the grace period is over.  (A SIGKILL or the log.Fatalf of
\* ListenAndServe does cut statements off; it closes nothing before.)
ClientsOutliveStatements ==
    InUse > 0 => \A c \in {"tracer", "publisher", "logger", "pool"} : ~Closed(c)

\* Metrics and access log agree while the process runs (what is still in the queue, or
\* being inserted, when it ends is lost): the gauge http_requests_in_flight is the
\* number of requests under way at every scrape, also after handlers panicked and
\* between a request's counting and its Dec; each measured request is under way,
\* counted or lost in a panic; and the entries waiting, being inserted, inserted or
\* counted as dropped are those of the counted requests not refused for their size, of
\* the ones about to be counted, and of the requests the metrics skip.
EntriesAccounted ==
    Running =>
      /\ inFlight = Cardinality(Uncounted) + Cardinality(Counted)
      /\ accepted = requests + panicked + Cardinality(Uncounted)
      /\ requests + Cardinality({r \in Handlers : pc[r] = "count"}) + skipped
           = tooLarge + queue + (IF inserting THEN 1 ELSE 0) + written + dropped

\* Connecting does not retry for ever, and shutdown does not wait for ever, even
\* if handlers outlive the grace period or MongoDB never answers.
StartsAndStops ==
    /\ phase = "connect" ~> phase \in {"schema", "fatal", "killed"}
    /\ phase = "draining" ~> phase \in {"exit", "killed"}

============================================================================
