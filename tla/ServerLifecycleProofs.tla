----------------------- MODULE ServerLifecycleProofs -----------------------
(***************************************************************************)
(* Theorems about ServerLifecycle, for any number of handlers, connections,*)
(* connection attempts and requests, and any size of the access-log queue. *)
(***************************************************************************)
EXTENDS ServerLifecycle, FiniteSetTheorems, SequenceTheorems, TLAPS

Order == <<"tracer", "publisher", "logger", "pool">>

Idle == \A r \in Handlers : pc[r] = "idle"
Serving == phase \in {"serving", "draining"}

\* main has registered a prefix of the deferred calls, and how long it is follows from
\* where main is.
DefersInv ==
    /\ Len(defers) <= 4
    /\ \A i \in 1 .. Len(defers) : defers[i] = Order[i]
    /\ phase \in {"jwtKey", "apiKey", "tracing"} => Len(defers) = 0
    /\ phase \in {"redis", "mongo", "events"} => Len(defers) = 1
    /\ phase = "logger" => Len(defers) = 2
    /\ phase \in {"config", "connect", "schema"} => Len(defers) = 3
    /\ Serving \/ phase = "router" => Len(defers) = 4

\* A pool is open from the connection to the end of db.Close(), the first deferred
\* call to run.
PoolInv ==
    /\ phase \in {"schema", "router"} \/ Serving => pools = 1 /\ ~closing
    /\ phase = "unwind" => (pools = 1 <=> Len(defers) = 4)
    /\ phase = "unwind" /\ Len(defers) < 4 => closing
    /\ phase \in {"jwtKey", "apiKey", "tracing", "redis", "mongo", "events", "logger",
                  "config", "connect"} => pools = 0 /\ ~closing

\* What is open and is not left open on purpose has its close registered.
OpenInv ==
    Running => open \subseteq {"redis", "mongo"} \cup {Order[i] : i \in 1 .. Len(defers)}

\* Handlers run while main serves, or after the grace period.
HandlersInv == Running => Serving \/ (phase = "unwind" /\ late) \/ Idle

\* A connection is in use only while every deferred call is still to come.
ConnInv == \A r \in Handlers : pc[r] \in {"query", "ping"} => Len(defers) = 4

\* The requests under way can be counted.
FinInv == IsFiniteSet(Uncounted) /\ IsFiniteSet(Counted)

\* The accounts of the metrics and of the log: they also hold of a process that ended,
\* if the entries it lost are counted as waiting.
Ledger ==
    /\ inFlight = Cardinality(Uncounted) + Cardinality(Counted)
    /\ accepted = requests + panicked + Cardinality(Uncounted)
    /\ requests + Cardinality({r \in Handlers : pc[r] = "count"}) + skipped
         = tooLarge + queue + (IF inserting THEN 1 ELSE 0) + written + dropped

IInv ==
    /\ TypeOK
    /\ DefersInv
    /\ PoolInv
    /\ OpenInv
    /\ HandlersInv
    /\ ConnInv
    /\ FinInv
    /\ GraceProtects
    /\ Ledger

----------------------------------------------------------------------------
(* The order of the setup, and the stack of deferred calls *)

Clients == {"tracer", "publisher", "logger", "pool"}
Phases ==
    {"jwtKey", "apiKey", "tracing", "redis", "mongo", "events", "logger", "config",
     "connect", "schema", "router", "serving", "draining", "unwind", "exit", "fatal",
     "killed"}

LEMMA SetupOrder ==
    /\ After("jwtKey") = "apiKey" /\ After("apiKey") = "tracing"
    /\ After("tracing") = "redis" /\ After("redis") = "mongo"
    /\ After("mongo") = "events" /\ After("events") = "logger"
    /\ After("logger") = "config" /\ After("config") = "connect"
    /\ After("connect") = "schema" /\ After("schema") = "router"
    /\ After("router") = "serving"
<1>1. DOMAIN Steps = 1 .. 12
  BY DEF Steps
<1>2. /\ Steps[1] = "jwtKey" /\ Steps[2] = "apiKey" /\ Steps[3] = "tracing"
      /\ Steps[4] = "redis" /\ Steps[5] = "mongo" /\ Steps[6] = "events"
      /\ Steps[7] = "logger" /\ Steps[8] = "config" /\ Steps[9] = "connect"
      /\ Steps[10] = "schema" /\ Steps[11] = "router" /\ Steps[12] = "serving"
  BY DEF Steps
<1>3. \A i, j \in 1 .. 12 : Steps[i] = Steps[j] => i = j
  BY <1>2
<1>4. ASSUME NEW k \in 1 .. 12
      PROVE  After(Steps[k]) = Steps[1 + k]
  <2>1. (CHOOSE i \in DOMAIN Steps : Steps[i] = Steps[k]) = k
    BY <1>1, <1>3
  <2>. QED
    BY <2>1 DEF After
<1>. QED
  BY <1>2, <1>4

LEMMA PhaseNames ==
    {Steps[i] : i \in DOMAIN Steps} \cup {"draining", "unwind", "exit", "fatal", "killed"}
      = Phases
<1>1. DOMAIN Steps = 1 .. 12
  BY DEF Steps
<1>2. /\ Steps[1] = "jwtKey" /\ Steps[2] = "apiKey" /\ Steps[3] = "tracing"
      /\ Steps[4] = "redis" /\ Steps[5] = "mongo" /\ Steps[6] = "events"
      /\ Steps[7] = "logger" /\ Steps[8] = "config" /\ Steps[9] = "connect"
      /\ Steps[10] = "schema" /\ Steps[11] = "router" /\ Steps[12] = "serving"
  BY DEF Steps
<1>. QED
  BY <1>1, <1>2 DEF Phases

LEMMA DeferOrder ==
    /\ Order[1] = "tracer" /\ Order[2] = "publisher"
    /\ Order[3] = "logger" /\ Order[4] = "pool"
  BY DEF Order

\* The shape of main's state, with the names spelt out.
LEMMA MainTypes ==
    ASSUME TypeOK
    PROVE  /\ phase \in Phases /\ attempt \in 1 .. Attempts /\ pools \in 0 .. 1
           /\ closing \in BOOLEAN /\ late \in BOOLEAN
           /\ open \subseteq {"tracer", "redis", "mongo", "publisher", "logger"}
           /\ defers \in Seq(Clients) /\ Len(defers) \in Nat
           /\ DOMAIN defers = 1 .. Len(defers)
<1>1. defers \in Seq(Clients)
  BY DEF TypeOK, Clients
<1>2. Len(defers) \in Nat /\ DOMAIN defers = 1 .. Len(defers)
  BY <1>1, LenProperties
<1>. QED
  BY <1>1, <1>2, PhaseNames DEF TypeOK

\* Registering the next deferred call.
LEMMA Registers ==
    ASSUME TypeOK, DefersInv, Len(defers) < 4, NEW c, c = Order[Len(defers) + 1],
           defers' = Append(defers, c)
    PROVE  /\ defers' \in Seq(Clients)
           /\ Len(defers') = Len(defers) + 1
           /\ \A i \in 1 .. Len(defers') : defers'[i] = Order[i]
<1>1. defers \in Seq(Clients) /\ Len(defers) \in Nat
  BY MainTypes
<1>2. c \in Clients
  BY <1>1, DeferOrder DEF Clients
<1>3. /\ defers' \in Seq(Clients) /\ Len(defers') = Len(defers) + 1
      /\ defers'[Len(defers) + 1] = c
      /\ \A i \in 1 .. Len(defers) : defers'[i] = defers[i]
  BY <1>1, <1>2, AppendProperties
<1>. QED
  BY <1>1, <1>3 DEF DefersInv

\* A deferred call that returned is the last one registered.
LEMMA Pops ==
    ASSUME TypeOK, DefersInv, Len(defers) > 0, Unregister
    PROVE  /\ NextDeferred = Order[Len(defers)]
           /\ defers' \in Seq(Clients)
           /\ Len(defers') = Len(defers) - 1
           /\ \A i \in 1 .. Len(defers') : defers'[i] = Order[i]
<1>1. defers \in Seq(Clients) /\ Len(defers) \in Nat
  BY MainTypes
<1>2. defers' = SubSeq(defers, 1, Len(defers) - 1)
  BY DEF Unregister, Pop
<1>3. /\ defers' \in Seq(Clients)
      /\ Len(defers') = Len(defers) - 1
      /\ \A i \in 1 .. Len(defers) - 1 : defers'[i] = defers[i]
  <2>1. \A i \in 1 .. Len(defers) - 1 : defers[i] \in Clients
    BY <1>1, ElementOfSeq
  <2>2. PICK n \in Int : n = Len(defers) - 1 /\ n >= 0
    BY <1>1
  <2>3. \A i \in 1 .. n : defers[i] \in Clients
    BY <2>1, <2>2
  <2>4. /\ SubSeq(defers, 1, n) \in Seq(Clients)
        /\ Len(SubSeq(defers, 1, n)) = IF 1 <= n THEN n - 1 + 1 ELSE 0
        /\ \A i \in 1 .. n - 1 + 1 : SubSeq(defers, 1, n)[i] = defers[1 + i - 1]
    BY <2>3, SubSeqProperties
  <2>5. defers' = SubSeq(defers, 1, n)
    BY <1>2, <2>2
  <2>6. defers' \in Seq(Clients) /\ Len(defers') = n
    BY <2>2, <2>4, <2>5
  <2>7. \A i \in 1 .. n : defers'[i] = defers[i]
    BY <2>2, <2>4, <2>5
  <2>. QED
    BY <2>2, <2>6, <2>7
<1>4. NextDeferred = defers[Len(defers)]
  BY DEF NextDeferred, Pop
<1>. QED
  BY <1>1, <1>3, <1>4 DEF DefersInv

LEMMA Setup ==
    ASSUME TypeOK, NEW step, NEW opened, NEW deferred, Completes(step, opened, deferred)
    PROVE  /\ phase = step /\ phase' = After(step) /\ open' = open \cup opened
           /\ UNCHANGED <<attempt, pools, closing, late, log, traffic>>
           /\ deferred = <<>> => defers' = defers
           /\ \A c \in Clients : deferred = <<c>> => defers' = Append(defers, c)
<1>1. defers \in Seq(Clients)
  BY MainTypes
<1>2. defers \o <<>> = defers
  BY <1>1, ConcatEmptySeq
<1>3. ASSUME NEW c \in Clients
      PROVE  defers \o <<c>> = Append(defers, c)
  BY <1>1, AppendIsConcat
<1>. QED
  BY <1>2, <1>3 DEF Completes

----------------------------------------------------------------------------
(* The steps of main *)

MainTypeOK ==
    /\ phase \in Phases /\ attempt \in 1 .. Attempts /\ pools \in 0 .. 1
    /\ closing \in BOOLEAN /\ late \in BOOLEAN
    /\ open \subseteq {"tracer", "redis", "mongo", "publisher", "logger"}
    /\ defers \in Seq(Clients)

MainInv == MainTypeOK /\ DefersInv /\ PoolInv /\ OpenInv /\ HandlersInv

MainStep ==
    \/ SetUp \/ SetupFails \/ Attempt
    \/ \E ok \in BOOLEAN : ApplySchema(ok) \/ NewRouter(ok)
    \/ ListenFails \/ Killed \/ Signal \/ Shutdown

\* Where the setup registers nothing, and where it registers the next call.
LEMMA SetUpStep ==
    ASSUME IInv, SetUp
    PROVE  MainInv'
<1>a. TypeOK /\ DefersInv /\ PoolInv /\ OpenInv /\ HandlersInv
  BY DEF IInv
<1>b. /\ MainTypeOK /\ Len(defers) \in Nat
      /\ {"tracer", "publisher", "logger"} \subseteq Clients
  BY <1>a, MainTypes DEF MainTypeOK, Clients
<1>1. CASE SetJWTSigningKey
  <2>1. Completes("jwtKey", {}, <<>>)
    BY <1>1 DEF SetJWTSigningKey
  <2>2. /\ phase = "jwtKey" /\ phase' = After("jwtKey") /\ open' = open \cup {}
        /\ UNCHANGED <<attempt, pools, closing, late, log, traffic>> /\ defers' = defers
    BY <1>a, <2>1, Setup
  <2>. QED
    BY <1>a, <1>b, SetupOrder, DeferOrder, <2>2 DEF MainInv, MainTypeOK, Phases, DefersInv,
       PoolInv, OpenInv, HandlersInv, Running, Serving, Idle, traffic
<1>2. CASE SetAPISecretKey
  <2>1. Completes("apiKey", {}, <<>>)
    BY <1>2 DEF SetAPISecretKey
  <2>2. /\ phase = "apiKey" /\ phase' = After("apiKey") /\ open' = open \cup {}
        /\ UNCHANGED <<attempt, pools, closing, late, log, traffic>> /\ defers' = defers
    BY <1>a, <2>1, Setup
  <2>. QED
    BY <1>a, <1>b, SetupOrder, DeferOrder, <2>2 DEF MainInv, MainTypeOK, Phases, DefersInv,
       PoolInv, OpenInv, HandlersInv, Running, Serving, Idle, traffic
<1>3. CASE TracingInit
  <2>1. PICK opened \in {{}, {"tracer"}} : Completes("tracing", opened, <<"tracer">>)
    BY <1>3 DEF TracingInit
  <2>2. /\ phase = "tracing" /\ phase' = After("tracing") /\ open' \subseteq open \cup {"tracer"}
        /\ UNCHANGED <<attempt, pools, closing, late, log, traffic>>
    BY <1>a, <2>1, Setup
  <2>3. defers' = Append(defers, "tracer")
    BY <1>a, <1>b, <2>1, Setup
  <2>4. Len(defers) = 0
    BY <1>a, <2>2 DEF DefersInv
  <2>5. Len(defers) < 4 /\ "tracer" = Order[Len(defers) + 1]
    <3>1. Len(defers) + 1 = 1
      BY <2>4
    <3>. QED
      BY <2>4, <3>1, DeferOrder
  <2>6. /\ defers' \in Seq(Clients) /\ Len(defers') = 1
        /\ \A i \in 1 .. Len(defers') : defers'[i] = Order[i]
    BY <1>a, <2>3, <2>4, <2>5, Registers
  <2>7. OpenInv'
    <3>1. "tracer" \in {Order[i] : i \in 1 .. Len(defers')}
      BY <2>6, DeferOrder
    <3>2. {Order[i] : i \in 1 .. Len(defers)} \subseteq {Order[i] : i \in 1 .. Len(defers')}
      BY <2>4, <2>6
    <3>. QED
      BY <1>a, <2>2, <3>1, <3>2 DEF OpenInv, Running
  <2>. QED
    BY <1>a, <1>b, SetupOrder, DeferOrder, <2>2, <2>6, <2>7 DEF MainInv, MainTypeOK, Phases,
       DefersInv, PoolInv, HandlersInv, Running, Serving, Idle, traffic
<1>4. CASE NewRedisClient
  <2>1. Completes("redis", {"redis"}, <<>>)
    BY <1>4 DEF NewRedisClient
  <2>2. /\ phase = "redis" /\ phase' = After("redis") /\ open' = open \cup {"redis"}
        /\ UNCHANGED <<attempt, pools, closing, late, log, traffic>> /\ defers' = defers
    BY <1>a, <2>1, Setup
  <2>. QED
    BY <1>a, <1>b, SetupOrder, DeferOrder, <2>2 DEF MainInv, MainTypeOK, Phases, DefersInv,
       PoolInv, OpenInv, HandlersInv, Running, Serving, Idle, traffic
<1>5. CASE SetupMongoDB
  <2>1. Completes("mongo", {"mongo"}, <<>>)
    BY <1>5 DEF SetupMongoDB
  <2>2. /\ phase = "mongo" /\ phase' = After("mongo") /\ open' = open \cup {"mongo"}
        /\ UNCHANGED <<attempt, pools, closing, late, log, traffic>> /\ defers' = defers
    BY <1>a, <2>1, Setup
  <2>. QED
    BY <1>a, <1>b, SetupOrder, DeferOrder, <2>2 DEF MainInv, MainTypeOK, Phases, DefersInv,
       PoolInv, OpenInv, HandlersInv, Running, Serving, Idle, traffic
<1>6. CASE NopPublisher
  <2>1. Completes("events", {}, <<"publisher">>)
    BY <1>6 DEF NopPublisher, Deferred
  <2>2. /\ phase = "events" /\ phase' = After("events") /\ open' = open \cup {}
        /\ UNCHANGED <<attempt, pools, closing, late, log, traffic>>
    BY <1>a, <2>1, Setup
  <2>3. defers' = Append(defers, "publisher")
    BY <1>a, <1>b, <2>1, Setup
  <2>4. Len(defers) = 1
    BY <1>a, <2>2 DEF DefersInv
  <2>5. Len(defers) < 4 /\ "publisher" = Order[Len(defers) + 1]
    <3>1. Len(defers) + 1 = 2
      BY <2>4
    <3>. QED
      BY <2>4, <3>1, DeferOrder
  <2>6. /\ defers' \in Seq(Clients) /\ Len(defers') = 2
        /\ \A i \in 1 .. Len(defers') : defers'[i] = Order[i]
    BY <1>a, <2>3, <2>4, <2>5, Registers
  <2>7. OpenInv'
    <3>1. "publisher" \in {Order[i] : i \in 1 .. Len(defers')}
      BY <2>6, DeferOrder
    <3>2. {Order[i] : i \in 1 .. Len(defers)} \subseteq {Order[i] : i \in 1 .. Len(defers')}
      BY <2>4, <2>6
    <3>. QED
      BY <1>a, <2>2, <3>1, <3>2 DEF OpenInv, Running
  <2>. QED
    BY <1>a, <1>b, SetupOrder, DeferOrder, <2>2, <2>6, <2>7 DEF MainInv, MainTypeOK, Phases,
       DefersInv, PoolInv, HandlersInv, Running, Serving, Idle, traffic
<1>7. CASE KafkaProducer
  <2>1. Completes("events", {"publisher"}, <<"publisher">>)
    BY <1>7 DEF KafkaProducer, Deferred
  <2>2. /\ phase = "events" /\ phase' = After("events") /\ open' = open \cup {"publisher"}
        /\ UNCHANGED <<attempt, pools, closing, late, log, traffic>>
    BY <1>a, <2>1, Setup
  <2>3. defers' = Append(defers, "publisher")
    BY <1>a, <1>b, <2>1, Setup
  <2>4. Len(defers) = 1
    BY <1>a, <2>2 DEF DefersInv
  <2>5. Len(defers) < 4 /\ "publisher" = Order[Len(defers) + 1]
    <3>1. Len(defers) + 1 = 2
      BY <2>4
    <3>. QED
      BY <2>4, <3>1, DeferOrder
  <2>6. /\ defers' \in Seq(Clients) /\ Len(defers') = 2
        /\ \A i \in 1 .. Len(defers') : defers'[i] = Order[i]
    BY <1>a, <2>3, <2>4, <2>5, Registers
  <2>7. OpenInv'
    <3>1. "publisher" \in {Order[i] : i \in 1 .. Len(defers')}
      BY <2>6, DeferOrder
    <3>2. {Order[i] : i \in 1 .. Len(defers)} \subseteq {Order[i] : i \in 1 .. Len(defers')}
      BY <2>4, <2>6
    <3>. QED
      BY <1>a, <2>2, <3>1, <3>2 DEF OpenInv, Running
  <2>. QED
    BY <1>a, <1>b, SetupOrder, DeferOrder, <2>2, <2>6, <2>7 DEF MainInv, MainTypeOK, Phases,
       DefersInv, PoolInv, HandlersInv, Running, Serving, Idle, traffic
<1>8. CASE NewLogger
  <2>1. Completes("logger", {"logger"}, <<"logger">>)
    BY <1>8 DEF NewLogger
  <2>2. /\ phase = "logger" /\ phase' = After("logger") /\ open' = open \cup {"logger"}
        /\ UNCHANGED <<attempt, pools, closing, late, log, traffic>>
    BY <1>a, <2>1, Setup
  <2>3. defers' = Append(defers, "logger")
    BY <1>a, <1>b, <2>1, Setup
  <2>4. Len(defers) = 2
    BY <1>a, <2>2 DEF DefersInv
  <2>5. Len(defers) < 4 /\ "logger" = Order[Len(defers) + 1]
    <3>1. Len(defers) + 1 = 3
      BY <2>4
    <3>. QED
      BY <2>4, <3>1, DeferOrder
  <2>6. /\ defers' \in Seq(Clients) /\ Len(defers') = 3
        /\ \A i \in 1 .. Len(defers') : defers'[i] = Order[i]
    BY <1>a, <2>3, <2>4, <2>5, Registers
  <2>7. OpenInv'
    <3>1. "logger" \in {Order[i] : i \in 1 .. Len(defers')}
      BY <2>6, DeferOrder
    <3>2. {Order[i] : i \in 1 .. Len(defers)} \subseteq {Order[i] : i \in 1 .. Len(defers')}
      BY <2>4, <2>6
    <3>. QED
      BY <1>a, <2>2, <3>1, <3>2 DEF OpenInv, Running
  <2>. QED
    BY <1>a, <1>b, SetupOrder, DeferOrder, <2>2, <2>6, <2>7 DEF MainInv, MainTypeOK, Phases,
       DefersInv, PoolInv, HandlersInv, Running, Serving, Idle, traffic
<1>9. CASE ApplyPoolConfig
  <2>1. Completes("config", {}, <<>>)
    BY <1>9 DEF ApplyPoolConfig
  <2>2. /\ phase = "config" /\ phase' = After("config") /\ open' = open \cup {}
        /\ UNCHANGED <<attempt, pools, closing, late, log, traffic>> /\ defers' = defers
    BY <1>a, <2>1, Setup
  <2>. QED
    BY <1>a, <1>b, SetupOrder, DeferOrder, <2>2 DEF MainInv, MainTypeOK, Phases, DefersInv,
       PoolInv, OpenInv, HandlersInv, Running, Serving, Idle, traffic
<1>. QED
  BY <1>1, <1>2, <1>3, <1>4, <1>5, <1>6, <1>7, <1>8, <1>9 DEF SetUp


\* A step that leaves the deferred calls and the clients alone.
LEMMA QuietMainStep ==
    ASSUME IInv,
           \/ SetupFails \/ Attempt \/ (\E ok \in BOOLEAN : NewRouter(ok))
           \/ ListenFails \/ Killed \/ Signal \/ Drained \/ GraceEnds \/ BeginCloseDB \/ Return
    PROVE  MainInv'
<1>a. TypeOK /\ DefersInv /\ PoolInv /\ OpenInv /\ HandlersInv
  BY DEF IInv
<1>b. MainTypeOK /\ Len(defers) \in Nat
  BY <1>a, MainTypes DEF MainTypeOK
<1>1. CASE SetupFails
  BY <1>a, <1>b, <1>1, SetupOrder, LifecycleAssumption DEF SetupFails, MainInv, MainTypeOK,
     Phases, DefersInv, PoolInv, OpenInv, HandlersInv, Running, Serving, Idle, traffic
<1>2. CASE Connect
  BY <1>a, <1>b, <1>2, SetupOrder, LifecycleAssumption DEF Connect, MainInv, MainTypeOK,
     Phases, DefersInv, PoolInv, OpenInv, HandlersInv, Running, Serving, Idle, traffic
<1>3. ASSUME NEW opened \in BOOLEAN, ConnectFails(opened)
      PROVE  MainInv'
  BY <1>a, <1>b, <1>3, SetupOrder, LifecycleAssumption DEF ConnectFails, Retry, Unpinged,
     MainInv, MainTypeOK, Phases, DefersInv, PoolInv, OpenInv, HandlersInv, Running,
     Serving, Idle, traffic
<1>4. ASSUME NEW ok \in BOOLEAN, NewRouter(ok)
      PROVE  MainInv'
  <2>1. /\ phase = "router" /\ phase' \in {"serving", "unwind"}
        /\ UNCHANGED <<attempt, pools, closing, open, defers, late, traffic>>
    BY <1>4, SetupOrder DEF NewRouter
  <2>2. Len(defers) = 4 /\ pools = 1 /\ ~closing /\ Idle
    BY <1>a, <2>1 DEF DefersInv, PoolInv, HandlersInv, Running, Serving
  <2>3. MainTypeOK' /\ DefersInv' /\ PoolInv'
    BY <1>a, <1>b, <2>1, <2>2 DEF MainTypeOK, Phases, DefersInv, PoolInv, Serving
  <2>4. OpenInv' /\ HandlersInv'
    BY <1>a, <2>1, <2>2 DEF OpenInv, HandlersInv, Running, Idle, traffic
  <2>. QED
    BY <2>3, <2>4 DEF MainInv
<1>5. CASE ListenFails
  BY <1>a, <1>b, <1>5, SetupOrder, LifecycleAssumption DEF ListenFails, MainInv, MainTypeOK,
     Phases, DefersInv, PoolInv, OpenInv, HandlersInv, Running, Serving, Idle, traffic
<1>6. CASE Killed
  BY <1>a, <1>b, <1>6, SetupOrder, LifecycleAssumption DEF Killed, MainInv, MainTypeOK,
     Phases, DefersInv, PoolInv, OpenInv, HandlersInv, Running, Serving, Idle, traffic
<1>7. CASE Signal
  BY <1>a, <1>b, <1>7, SetupOrder, LifecycleAssumption DEF Signal, MainInv, MainTypeOK,
     Phases, DefersInv, PoolInv, OpenInv, HandlersInv, Running, Serving, Idle, traffic
<1>8. CASE Drained
  <2>1. Idle' /\ phase = "draining" /\ phase' = "unwind"
        /\ UNCHANGED <<attempt, pools, closing, open, defers, late, log, traffic>>
    BY <1>8 DEF Drained, Quiet, Idle, traffic
  <2>2. HandlersInv'
    BY <2>1 DEF HandlersInv
  <2>3. MainTypeOK'
    BY <1>a, <1>b, <2>1 DEF MainInv, MainTypeOK, Phases
  <2>4. DefersInv'
    BY <1>a, <2>1 DEF DefersInv, Serving
  <2>5. PoolInv'
    <3>1. Len(defers) = 4 /\ pools = 1 /\ ~closing
      BY <1>a, <2>1 DEF DefersInv, PoolInv, Serving
    <3>. QED
      BY <2>1, <3>1 DEF PoolInv, Serving
  <2>6. OpenInv'
    BY <1>a, <2>1 DEF OpenInv, Running
  <2>. QED
    BY <2>2, <2>3, <2>4, <2>5, <2>6 DEF MainInv
<1>9. CASE GraceEnds
  BY <1>a, <1>b, <1>9, SetupOrder, LifecycleAssumption DEF GraceEnds, MainInv, MainTypeOK,
     Phases, DefersInv, PoolInv, OpenInv, HandlersInv, Running, Serving, Idle, traffic
<1>10. CASE BeginCloseDB
  <2>1. /\ phase = "unwind" /\ closing' = TRUE
        /\ UNCHANGED <<phase, attempt, pools, open, defers, late, log, traffic>>
    BY <1>10 DEF BeginCloseDB
  <2>. QED
    BY <1>a, <1>b, <2>1 DEF MainInv, MainTypeOK, Phases, DefersInv, PoolInv, OpenInv,
       HandlersInv, Running, Serving, Idle, traffic
<1>11. CASE Return
  <2>1. /\ phase' = "exit"
        /\ UNCHANGED <<attempt, pools, closing, open, defers, late, log, traffic>>
    BY <1>11 DEF Return
  <2>. QED
    BY <1>a, <1>b, <2>1 DEF MainInv, MainTypeOK, Phases, DefersInv, PoolInv, OpenInv,
       HandlersInv, Running, Serving, Idle, traffic
<1>. QED
  BY <1>1, <1>2, <1>3, <1>4, <1>5, <1>6, <1>7, <1>8, <1>9, <1>10, <1>11 DEF Attempt

\* The schema registers db.Close(); a close that returned is unregistered.
LEMMA StackStep ==
    ASSUME IInv, (\E ok \in BOOLEAN : ApplySchema(ok)) \/ EndCloseDB \/ CloseClient
    PROVE  MainInv'
<1>a. TypeOK /\ DefersInv /\ PoolInv /\ OpenInv /\ HandlersInv
  BY DEF IInv
<1>b. MainTypeOK /\ Len(defers) \in Nat
  BY <1>a, MainTypes DEF MainTypeOK
<1>1. CASE ApplySchema(TRUE)
  <2>1. /\ phase = "schema" /\ phase' = "router" /\ pools' = pools
        /\ UNCHANGED <<attempt, closing, open, late, log, traffic>>
    BY <1>1, SetupOrder DEF ApplySchema
  <2>2. defers' = Append(defers, "pool")
    BY <1>1 DEF ApplySchema
  <2>3. Len(defers) = 3
    BY <1>a, <2>1 DEF DefersInv
  <2>4. Len(defers) < 4 /\ "pool" = Order[Len(defers) + 1]
    <3>1. Len(defers) + 1 = 4
      BY <2>3
    <3>. QED
      BY <2>3, <3>1, DeferOrder
  <2>5. /\ defers' \in Seq(Clients) /\ Len(defers') = 4
        /\ \A i \in 1 .. Len(defers') : defers'[i] = Order[i]
    BY <1>a, <2>2, <2>3, <2>4, Registers
  <2>6. OpenInv'
    <3>1. {Order[i] : i \in 1 .. Len(defers)} \subseteq {Order[i] : i \in 1 .. Len(defers')}
      BY <2>3, <2>5
    <3>. QED
      BY <1>a, <2>1, <3>1 DEF OpenInv, Running
  <2>. QED
    BY <1>a, <1>b, <2>1, <2>5, <2>6 DEF MainInv, MainTypeOK, Phases, DefersInv, PoolInv,
       HandlersInv, Running, Serving, Idle, traffic
<1>2. CASE ApplySchema(FALSE)
  <2>1. /\ phase = "schema" /\ phase' = "fatal" /\ pools' = pools - 1 /\ defers' = defers
        /\ UNCHANGED <<attempt, closing, open, late, log, traffic>>
    BY <1>2 DEF ApplySchema
  <2>. QED
    BY <1>a, <1>b, <2>1 DEF MainInv, MainTypeOK, Phases, DefersInv, PoolInv, OpenInv,
       HandlersInv, Running, Serving, Idle, traffic
<1>3. CASE EndCloseDB
  <2>1. /\ phase = "unwind" /\ closing /\ pools = 1 /\ pools' = 0
        /\ UNCHANGED <<phase, attempt, closing, open, late, log, traffic>>
    BY <1>3 DEF EndCloseDB
  <2>2. Unregister
    BY <1>3 DEF EndCloseDB
  <2>3. Len(defers) = 4
    BY <1>a, <2>1 DEF PoolInv
  <2>4. /\ defers' \in Seq(Clients) /\ Len(defers') = 3
        /\ \A i \in 1 .. Len(defers') : defers'[i] = Order[i]
    BY <1>a, <2>2, <2>3, Pops
  <2>5. OpenInv'
    <3>1. {Order[i] : i \in 1 .. Len(defers)}
            \subseteq {Order[i] : i \in 1 .. Len(defers')} \cup {"pool"}
      BY <2>3, <2>4, DeferOrder
    <3>. QED
      BY <1>a, <1>b, <2>1, <3>1 DEF OpenInv, Running, MainTypeOK
  <2>. QED
    BY <1>a, <1>b, <2>1, <2>4, <2>5 DEF MainInv, MainTypeOK, Phases, DefersInv, PoolInv,
       HandlersInv, Running, Serving, Idle, traffic
<1>4. CASE CloseClient
  <2>1. /\ phase = "unwind" /\ open' = open \ {NextDeferred} /\ NextDeferred # "pool"
        /\ UNCHANGED <<phase, attempt, pools, closing, late, log, traffic>>
    BY <1>4 DEF CloseClient
  <2>2. Unregister
    BY <1>4 DEF CloseClient
  <2>3. Len(defers) > 0
    <3>1. defers # <<>> /\ defers \in Seq(Clients)
      BY <1>4, <1>b DEF CloseClient, MainTypeOK
    <3>. QED
      BY <1>b, <3>1, EmptySeq
  <2>4. /\ NextDeferred = Order[Len(defers)]
        /\ defers' \in Seq(Clients) /\ Len(defers') = Len(defers) - 1
        /\ \A i \in 1 .. Len(defers') : defers'[i] = Order[i]
    BY <1>a, <2>2, <2>3, Pops
  <2>5. Len(defers) < 4
    BY <1>a, <1>b, <2>1, <2>4, DeferOrder DEF DefersInv
  <2>6. OpenInv'
    <3>1. {Order[i] : i \in 1 .. Len(defers)}
            \subseteq {Order[i] : i \in 1 .. Len(defers')} \cup {NextDeferred}
      BY <1>b, <2>3, <2>4
    <3>. QED
      BY <1>a, <2>1, <3>1 DEF OpenInv, Running
  <2>7. MainTypeOK'
    BY <1>b, <2>1, <2>4 DEF MainTypeOK
  <2>8. DefersInv'
    BY <1>b, <2>1, <2>4, <2>5 DEF DefersInv, Serving
  <2>9. PoolInv'
    BY <1>a, <1>b, <2>1, <2>4, <2>5 DEF PoolInv, Serving
  <2>10. HandlersInv'
    BY <1>a, <2>1 DEF HandlersInv, Running, Serving, Idle, traffic
  <2>. QED
    BY <2>6, <2>7, <2>8, <2>9, <2>10 DEF MainInv
<1>. QED
  BY <1>1, <1>2, <1>3, <1>4


Stages == {"enter", "acquire", "query", "publish", "log", "count", "dec", "skipped", "idle",
           "wait", "ping", "others"}
Busy == {"enter", "acquire", "query", "publish", "log", "count"}
TrafficTypeOK ==
    /\ pc \in [Handlers -> Stages]
    /\ queue \in 0 .. QueueSize /\ inserting \in BOOLEAN
    /\ inFlight \in Nat /\ requests \in Nat /\ dropped \in Nat /\ accepted \in Nat
    /\ skipped \in Nat /\ tooLarge \in Nat /\ panicked \in Nat /\ written \in Nat
    /\ hurt \in BOOLEAN

\* The two halves of the shape of the state.
LEMMA TypeHalves == TypeOK <=> MainTypeOK /\ TrafficTypeOK
<1>1. defers \in Seq(Clients) <=> defers \in Seq({"tracer", "publisher", "logger", "pool"})
  BY DEF Clients
<1>. QED
  BY <1>1, PhaseNames DEF TypeOK, MainTypeOK, TrafficTypeOK, Stages

LEMMA MainPreserves ==
    ASSUME IInv, MainStep
    PROVE  IInv'
<1>a. TypeOK /\ DefersInv /\ PoolInv /\ HandlersInv /\ ConnInv
  BY DEF IInv
<1>1. MainInv'
  BY SetUpStep, QuietMainStep, StackStep DEF MainStep, Shutdown
<1>2. UNCHANGED <<log, traffic>>
  BY DEF MainStep, SetUp, SetJWTSigningKey, SetAPISecretKey, TracingInit, NewRedisClient,
     SetupMongoDB, NopPublisher, KafkaProducer, NewLogger, ApplyPoolConfig, Completes,
     SetupFails, Attempt, Connect, ConnectFails, ApplySchema, NewRouter, ListenFails, Killed,
     Signal, Shutdown, Drained, GraceEnds, BeginCloseDB, EndCloseDB, CloseClient, Return
<1>3. UNCHANGED <<pc, inFlight, requests, accepted, skipped, tooLarge, panicked, hurt, queue,
                  inserting, dropped, written>>
  BY <1>2 DEF log, traffic, metrics
<1>4. TypeOK'
  <2>1. TrafficTypeOK'
    BY <1>a, <1>3, TypeHalves DEF TrafficTypeOK
  <2>2. MainTypeOK'
    BY <1>1 DEF MainInv
  <2>3. TypeOK' <=> MainTypeOK' /\ TrafficTypeOK'
    BY TypeHalves, PTL
  <2>. QED
    BY <2>1, <2>2, <2>3
<1>5. ConnInv'
  <2>1. CASE defers' = defers
    BY <1>a, <1>3, <2>1 DEF ConnInv
  <2>2. CASE SetUp \/ \E ok \in BOOLEAN : ApplySchema(ok)
    <3>1. phase \in {"jwtKey", "apiKey", "tracing", "redis", "mongo", "events", "logger",
                     "config", "schema"}
      BY <2>2 DEF SetUp, SetJWTSigningKey, SetAPISecretKey, TracingInit, NewRedisClient,
         SetupMongoDB, NopPublisher, KafkaProducer, NewLogger, ApplyPoolConfig, Completes,
         ApplySchema
    <3>. QED
      BY <1>a, <1>3, <3>1 DEF HandlersInv, Running, Serving, Idle, ConnInv
  <2>3. CASE EndCloseDB
    BY <1>3, <2>3 DEF EndCloseDB, Returned, ConnInv
  <2>4. CASE CloseClient
    <3>1. Len(defers) # 4
      <4>1. NextDeferred # "pool" /\ NextDeferred = defers[Len(defers)]
        BY <2>4 DEF CloseClient, NextDeferred, Pop
      <4>2. Len(defers) = 4 => defers[Len(defers)] = Order[4]
        BY <1>a DEF DefersInv
      <4>. QED
        BY <4>1, <4>2, DeferOrder
    <3>. QED
      BY <1>a, <1>3, <3>1 DEF ConnInv
  <2>. QED
    BY <2>1, <2>2, <2>3, <2>4 DEF MainStep, SetupFails, Attempt, Connect, ConnectFails,
       NewRouter, ListenFails, Killed, Signal, Shutdown, Drained, GraceEnds, BeginCloseDB,
       Return
<1>6. FinInv' /\ Ledger'
  BY <1>3 DEF IInv, FinInv, Ledger, Uncounted, Counted
<1>7. GraceProtects'
  <2>1. late' = late \/ late' = TRUE
    BY DEF MainStep, SetUp, SetJWTSigningKey, SetAPISecretKey, TracingInit, NewRedisClient,
       SetupMongoDB, NopPublisher, KafkaProducer, NewLogger, ApplyPoolConfig, Completes,
       SetupFails, Attempt, Connect, ConnectFails, ApplySchema, NewRouter, ListenFails,
       Killed, Signal, Shutdown, Drained, GraceEnds, BeginCloseDB, EndCloseDB, CloseClient,
       Return
  <2>. QED
    BY <1>3, <2>1 DEF IInv, GraceProtects
<1>. QED
  BY <1>1, <1>4, <1>5, <1>6, <1>7 DEF IInv, MainInv

----------------------------------------------------------------------------
(* Counting the requests under way *)

Those(K) == {r \in Handlers : pc[r] \in K}

LEMMA Enters ==
    ASSUME NEW CONSTANT K, NEW r \in Handlers, NEW s \in K, pc \in [Handlers -> Stages],
           pc[r] \notin K, Goto(r, s), IsFiniteSet(Those(K))
    PROVE  IsFiniteSet(Those(K)') /\ Cardinality(Those(K)') = Cardinality(Those(K)) + 1
<1>1. Those(K)' = Those(K) \cup {r} /\ r \notin Those(K)
  BY DEF Goto, Those
<1>2. Cardinality(Those(K) \cup {r}) = Cardinality(Those(K)) + 1
  BY <1>1, FS_AddElement
<1>. QED
  BY <1>1, <1>2, FS_AddElement

LEMMA Leaves ==
    ASSUME NEW CONSTANT K, NEW r \in Handlers, NEW s, s \notin K, pc \in [Handlers -> Stages],
           pc[r] \in K, Goto(r, s), IsFiniteSet(Those(K))
    PROVE  /\ IsFiniteSet(Those(K)') /\ Cardinality(Those(K)') \in Nat
           /\ Cardinality(Those(K)') + 1 = Cardinality(Those(K))
<1>1. Those(K)' = Those(K) \ {r} /\ r \in Those(K)
  BY DEF Goto, Those
<1>2. IsFiniteSet(Those(K)') /\ Cardinality(Those(K)') = Cardinality(Those(K)) - 1
  BY <1>1, FS_RemoveElement
<1>3. Cardinality(Those(K)) \in Nat /\ Cardinality(Those(K)') \in Nat
  BY <1>2, FS_CardinalityType
<1>. QED
  BY <1>2, <1>3

LEMMA Stays ==
    ASSUME NEW CONSTANT K, NEW r \in Handlers, NEW s, pc \in [Handlers -> Stages],
           s \in K <=> pc[r] \in K, Goto(r, s)
    PROVE  Those(K)' = Those(K)
  BY DEF Goto, Those

\* How a handler's move changes the size of a set of handlers.
Has(K, s) == IF s \in K THEN 1 ELSE 0

LEMMA Tally ==
    ASSUME NEW CONSTANT K, NEW r \in Handlers, NEW s, pc \in [Handlers -> Stages],
           Goto(r, s), IsFiniteSet(Those(K))
    PROVE  /\ IsFiniteSet(Those(K)') /\ Cardinality(Those(K)') \in Nat
           /\ Cardinality(Those(K)') + Has(K, pc[r]) = Cardinality(Those(K)) + Has(K, s)
<1>a. Cardinality(Those(K)) \in Nat
  BY FS_CardinalityType
<1>1. CASE s \in K /\ pc[r] \notin K
  BY <1>a, <1>1, Enters DEF Has
<1>2. CASE s \notin K /\ pc[r] \in K
  BY <1>a, <1>2, Leaves DEF Has
<1>3. CASE s \in K <=> pc[r] \in K
  BY <1>a, <1>3, Stays DEF Has
<1>. QED
  BY <1>1, <1>2, <1>3

LEMMA LedgerSets ==
    /\ Uncounted = Those(Busy) /\ Counted = Those({"dec"})
    /\ {r \in Handlers : pc[r] = "count"} = Those({"count"})
  BY DEF Uncounted, Counted, Those, Busy

LEMMA AllFinite ==
    ASSUME FinInv
    PROVE  /\ IsFiniteSet(Those(Busy)) /\ Cardinality(Those(Busy)) \in Nat
           /\ IsFiniteSet(Those({"dec"})) /\ Cardinality(Those({"dec"})) \in Nat
           /\ IsFiniteSet(Those({"count"})) /\ Cardinality(Those({"count"})) \in Nat
<1>1. IsFiniteSet(Those(Busy)) /\ IsFiniteSet(Those({"dec"}))
  BY LedgerSets DEF FinInv
<1>2. Those({"count"}) \subseteq Those(Busy)
  BY DEF Those, Busy
<1>. QED
  BY <1>1, <1>2, FS_Subset, FS_CardinalityType

----------------------------------------------------------------------------
(* The steps of the handlers *)

HandlerStep(r) ==
    Accept(r) \/ AcceptSkipped(r) \/ AcceptProbe(r) \/ Handle(r) \/ Panic(r)

\* A handler's step moves that handler, while main serves or the handler is at work.
LEMMA Moves ==
    ASSUME NEW r \in Handlers, HandlerStep(r)
    PROVE  /\ UNCHANGED main
           /\ \E s \in Stages : Goto(r, s)
           /\ phase = "serving" \/ (Running /\ pc[r] # "idle")
<1>1. CASE Accept(r)
  BY <1>1 DEF Accept, Stages
<1>2. CASE AcceptProbe(r)
  BY <1>2 DEF AcceptProbe, Stages
<1>3. CASE RejectBody(r)
  BY <1>3 DEF RejectBody, At, Stages
<1>4. CASE Refuse(r)
  BY <1>4 DEF Refuse, At, Stages
<1>5. CASE Admit(r)
  BY <1>5 DEF Admit, At, Stages
<1>6. CASE Acquire(r)
  BY <1>6 DEF Acquire, At, Stages
<1>7. CASE AcquireFails(r)
  BY <1>7 DEF AcquireFails, At, Stages
<1>8. ASSUME NEW ok \in BOOLEAN, Query(r, ok)
      PROVE  /\ UNCHANGED main
             /\ \E s \in Stages : Goto(r, s)
             /\ phase = "serving" \/ (Running /\ pc[r] # "idle")
  BY <1>8 DEF Query, At, Stages
<1>9. CASE Publish(r)
  BY <1>9 DEF Publish, At, Stages
<1>10. CASE Enqueue(r)
  BY <1>10 DEF Enqueue, At, Stages
<1>11. CASE Count(r)
  BY <1>11 DEF Count, At, Stages
<1>12. CASE Ping(r)
  BY <1>12 DEF Ping, At, Stages
<1>13. CASE PingOthers(r)
  BY <1>13 DEF PingOthers, At, Stages
<1>14. CASE Panic(r)
  BY <1>14 DEF Panic, At, Stages
<1>15. CASE AcceptSkipped(r)
  BY <1>15 DEF AcceptSkipped, Stages
<1>16. CASE Dec(r)
  BY <1>16 DEF Dec, At, Stages
<1>. QED
  BY <1>1, <1>2, <1>3, <1>4, <1>5, <1>6, <1>7, <1>8, <1>9, <1>10, <1>11, <1>12, <1>13, <1>14,
     <1>15, <1>16 DEF HandlerStep, Handle

LEMMA LedgerStep ==
    ASSUME IInv, NEW r \in Handlers, HandlerStep(r)
    PROVE  FinInv' /\ Ledger' /\ TrafficTypeOK'
<1>a. FinInv /\ Ledger /\ TrafficTypeOK /\ pc \in [Handlers -> Stages]
  BY TypeHalves DEF IInv, TrafficTypeOK
<1>b. /\ IsFiniteSet(Those(Busy)) /\ Cardinality(Those(Busy)) \in Nat
      /\ IsFiniteSet(Those({"dec"})) /\ Cardinality(Those({"dec"})) \in Nat
      /\ IsFiniteSet(Those({"count"})) /\ Cardinality(Those({"count"})) \in Nat
  BY <1>a, AllFinite
<1>c. pc' \in [Handlers -> Stages]
  BY <1>a, Moves DEF Goto
<1>d. ASSUME NEW s, Goto(r, s)
      PROVE  /\ IsFiniteSet(Those(Busy)') /\ Cardinality(Those(Busy)') \in Nat
             /\ IsFiniteSet(Those({"dec"})') /\ Cardinality(Those({"dec"})') \in Nat
             /\ IsFiniteSet(Those({"count"})') /\ Cardinality(Those({"count"})') \in Nat
             /\ Cardinality(Those(Busy)') + Has(Busy, pc[r])
                  = Cardinality(Those(Busy)) + Has(Busy, s)
             /\ Cardinality(Those({"dec"})') + Has({"dec"}, pc[r])
                  = Cardinality(Those({"dec"})) + Has({"dec"}, s)
             /\ Cardinality(Those({"count"})') + Has({"count"}, pc[r])
                  = Cardinality(Those({"count"})) + Has({"count"}, s)
  BY <1>a, <1>b, <1>d, Tally
<1>e. FinInv'
  <2>1. PICK s : Goto(r, s)
    BY Moves
  <2>2. IsFiniteSet(Those(Busy)') /\ IsFiniteSet(Those({"dec"})')
    BY <1>d, <2>1
  <2>3. Uncounted' = Those(Busy)' /\ Counted' = Those({"dec"})'
    BY DEF Uncounted, Counted, Those, Busy
  <2>. QED
    BY <2>2, <2>3 DEF FinInv
<1>f. Ledger <=>
        /\ inFlight = Cardinality(Those(Busy)) + Cardinality(Those({"dec"}))
        /\ accepted = requests + panicked + Cardinality(Those(Busy))
        /\ requests + Cardinality(Those({"count"})) + skipped
             = tooLarge + queue + (IF inserting THEN 1 ELSE 0) + written + dropped
  BY LedgerSets DEF Ledger
<1>g. Ledger' <=>
        /\ inFlight' = Cardinality(Those(Busy)') + Cardinality(Those({"dec"})')
        /\ accepted' = requests' + panicked' + Cardinality(Those(Busy)')
        /\ requests' + Cardinality(Those({"count"})') + skipped'
             = tooLarge' + queue' + (IF inserting' THEN 1 ELSE 0) + written' + dropped'
  <2>1. /\ Uncounted' = Those(Busy)' /\ Counted' = Those({"dec"})'
        /\ {q \in Handlers : pc[q] = "count"}' = Those({"count"})'
    BY DEF Uncounted, Counted, Those, Busy
  <2>. QED
    BY <2>1 DEF Ledger
<1>h. /\ Has(Busy, "enter") = 1 /\ Has(Busy, "acquire") = 1 /\ Has(Busy, "query") = 1
      /\ Has(Busy, "publish") = 1 /\ Has(Busy, "log") = 1 /\ Has(Busy, "count") = 1
      /\ \A s \in {"dec", "skipped", "idle", "wait", "ping", "others"} : Has(Busy, s) = 0
      /\ Has({"dec"}, "dec") = 1 /\ \A s \in Stages \ {"dec"} : Has({"dec"}, s) = 0
      /\ Has({"count"}, "count") = 1 /\ \A s \in Stages \ {"count"} : Has({"count"}, s) = 0
  BY DEF Has, Busy, Stages
<1>1. CASE Accept(r)
  <2>1. pc[r] = "idle" /\ Goto(r, "enter")
    BY <1>1 DEF Accept
  <2>2. /\ Cardinality(Those(Busy)') = Cardinality(Those(Busy)) + 1
        /\ Cardinality(Those({"dec"})') = Cardinality(Those({"dec"}))
        /\ Cardinality(Those({"count"})') = Cardinality(Those({"count"}))
    BY <1>b, <1>d, <1>h, <2>1 DEF Stages
  <2>. QED
    BY <1>a, <1>b, <1>c, <1>e, <1>f, <1>g, <1>1, <2>2, LifecycleAssumption DEF Accept,
       TrafficTypeOK, log, metrics, main
<1>2. CASE AcceptSkipped(r)
  <2>1. pc[r] = "idle" /\ Goto(r, "skipped")
    BY <1>2 DEF AcceptSkipped
  <2>2. /\ Cardinality(Those(Busy)') = Cardinality(Those(Busy))
        /\ Cardinality(Those({"dec"})') = Cardinality(Those({"dec"}))
        /\ Cardinality(Those({"count"})') = Cardinality(Those({"count"}))
    BY <1>b, <1>d, <1>h, <2>1 DEF Stages
  <2>. QED
    BY <1>a, <1>b, <1>c, <1>e, <1>f, <1>g, <1>2, <2>2, LifecycleAssumption DEF AcceptSkipped,
       TrafficTypeOK, log, metrics, main
<1>3. CASE AcceptProbe(r)
  <2>1. pc[r] = "idle" /\ Goto(r, "wait")
    BY <1>3 DEF AcceptProbe
  <2>2. /\ Cardinality(Those(Busy)') = Cardinality(Those(Busy))
        /\ Cardinality(Those({"dec"})') = Cardinality(Those({"dec"}))
        /\ Cardinality(Those({"count"})') = Cardinality(Those({"count"}))
    BY <1>b, <1>d, <1>h, <2>1 DEF Stages
  <2>. QED
    BY <1>a, <1>b, <1>c, <1>e, <1>f, <1>g, <1>3, <2>2, LifecycleAssumption DEF AcceptProbe,
       TrafficTypeOK, log, metrics, main
<1>4. CASE RejectBody(r)
  <2>1. CASE pc[r] = "enter"
    <3>1. pc[r] = "enter" /\ Goto(r, "count")
      BY <1>4, <2>1 DEF RejectBody, At
    <3>2. /\ Cardinality(Those(Busy)') = Cardinality(Those(Busy))
          /\ Cardinality(Those({"dec"})') = Cardinality(Those({"dec"}))
          /\ Cardinality(Those({"count"})') = Cardinality(Those({"count"})) + 1
      BY <1>b, <1>d, <1>h, <3>1 DEF Stages
    <3>. QED
      BY <1>a, <1>b, <1>c, <1>e, <1>f, <1>g, <1>4, <3>1, <3>2, LifecycleAssumption
         DEF RejectBody, Measured,
         TrafficTypeOK, log, metrics, main
  <2>2. CASE pc[r] = "skipped"
    <3>1. pc[r] = "skipped" /\ Goto(r, "idle")
      BY <1>4, <2>2 DEF RejectBody, At
    <3>2. /\ Cardinality(Those(Busy)') = Cardinality(Those(Busy))
          /\ Cardinality(Those({"dec"})') = Cardinality(Those({"dec"}))
          /\ Cardinality(Those({"count"})') = Cardinality(Those({"count"}))
      BY <1>b, <1>d, <1>h, <3>1 DEF Stages
    <3>. QED
      BY <1>a, <1>b, <1>c, <1>e, <1>f, <1>g, <1>4, <3>1, <3>2, LifecycleAssumption
         DEF RejectBody, Measured,
         TrafficTypeOK, log, metrics, main
  <2>. QED
    BY <1>4, <2>1, <2>2 DEF RejectBody, At
<1>5. CASE Refuse(r)
  <2>1. pc[r] = "enter" /\ Goto(r, "log")
    BY <1>5 DEF Refuse, At
  <2>2. /\ Cardinality(Those(Busy)') = Cardinality(Those(Busy))
        /\ Cardinality(Those({"dec"})') = Cardinality(Those({"dec"}))
        /\ Cardinality(Those({"count"})') = Cardinality(Those({"count"}))
    BY <1>b, <1>d, <1>h, <2>1 DEF Stages
  <2>. QED
    BY <1>a, <1>b, <1>c, <1>e, <1>f, <1>g, <1>5, <2>2, LifecycleAssumption DEF Refuse, At,
       TrafficTypeOK, log, metrics, main
<1>6. CASE Admit(r)
  <2>1. pc[r] = "enter" /\ Goto(r, "acquire")
    BY <1>6 DEF Admit, At
  <2>2. /\ Cardinality(Those(Busy)') = Cardinality(Those(Busy))
        /\ Cardinality(Those({"dec"})') = Cardinality(Those({"dec"}))
        /\ Cardinality(Those({"count"})') = Cardinality(Those({"count"}))
    BY <1>b, <1>d, <1>h, <2>1 DEF Stages
  <2>. QED
    BY <1>a, <1>b, <1>c, <1>e, <1>f, <1>g, <1>6, <2>2, LifecycleAssumption DEF Admit, At,
       TrafficTypeOK, log, metrics, main
<1>7. CASE Acquire(r)
  <2>1. PICK s : /\ Goto(r, s)
                 /\ (pc[r] = "wait" /\ s = "ping") \/ (pc[r] = "acquire" /\ s = "query")
    BY <1>7 DEF Acquire, At
  <2>2. /\ Cardinality(Those(Busy)') = Cardinality(Those(Busy))
        /\ Cardinality(Those({"dec"})') = Cardinality(Those({"dec"}))
        /\ Cardinality(Those({"count"})') = Cardinality(Those({"count"}))
    BY <1>b, <1>d, <1>h, <2>1 DEF Stages
  <2>. QED
    BY <1>a, <1>b, <1>c, <1>e, <1>f, <1>g, <1>7, <2>2, LifecycleAssumption DEF Acquire, At,
       TrafficTypeOK, log, metrics, main
<1>8. CASE AcquireFails(r)
  <2>1. PICK s : /\ Goto(r, s)
                 /\ (pc[r] = "wait" /\ s = "idle") \/ (pc[r] = "acquire" /\ s = "log")
    BY <1>8 DEF AcquireFails, At
  <2>2. /\ Cardinality(Those(Busy)') = Cardinality(Those(Busy))
        /\ Cardinality(Those({"dec"})') = Cardinality(Those({"dec"}))
        /\ Cardinality(Those({"count"})') = Cardinality(Those({"count"}))
    BY <1>b, <1>d, <1>h, <2>1 DEF Stages
  <2>. QED
    BY <1>a, <1>b, <1>c, <1>e, <1>f, <1>g, <1>8, <2>2, LifecycleAssumption DEF AcquireFails, At,
       TrafficTypeOK, log, metrics, main
<1>9. ASSUME NEW ok \in BOOLEAN, Query(r, ok)
      PROVE  Ledger' /\ TrafficTypeOK'
  <2>1. PICK s : Goto(r, s) /\ pc[r] = "query" /\ s \in {"publish", "log"}
    BY <1>9 DEF Query, At
  <2>2. /\ Cardinality(Those(Busy)') = Cardinality(Those(Busy))
        /\ Cardinality(Those({"dec"})') = Cardinality(Those({"dec"}))
        /\ Cardinality(Those({"count"})') = Cardinality(Those({"count"}))
    BY <1>b, <1>d, <1>h, <2>1 DEF Stages
  <2>. QED
    BY <1>a, <1>b, <1>c, <1>e, <1>f, <1>g, <1>9, <2>2, LifecycleAssumption DEF Query, At,
       TrafficTypeOK, log, metrics, main
<1>10. CASE Publish(r)
  <2>1. pc[r] = "publish" /\ Goto(r, "log")
    BY <1>10 DEF Publish, At
  <2>2. /\ Cardinality(Those(Busy)') = Cardinality(Those(Busy))
        /\ Cardinality(Those({"dec"})') = Cardinality(Those({"dec"}))
        /\ Cardinality(Those({"count"})') = Cardinality(Those({"count"}))
    BY <1>b, <1>d, <1>h, <2>1 DEF Stages
  <2>. QED
    BY <1>a, <1>b, <1>c, <1>e, <1>f, <1>g, <1>10, <2>2, LifecycleAssumption DEF Publish, At,
       TrafficTypeOK, log, metrics, main
<1>11. CASE Enqueue(r)
  <2>1. CASE pc[r] = "log"
    <3>1. pc[r] = "log" /\ Goto(r, "count")
      BY <1>11, <2>1 DEF Enqueue, At
    <3>2. /\ Cardinality(Those(Busy)') = Cardinality(Those(Busy))
          /\ Cardinality(Those({"dec"})') = Cardinality(Those({"dec"}))
          /\ Cardinality(Those({"count"})') = Cardinality(Those({"count"})) + 1
      BY <1>b, <1>d, <1>h, <3>1 DEF Stages
    <3>. QED
      BY <1>a, <1>b, <1>c, <1>e, <1>f, <1>g, <1>11, <3>1, <3>2, LifecycleAssumption
         DEF Enqueue, Measured, Full,
         TrafficTypeOK, log, metrics, main
  <2>2. CASE pc[r] = "skipped"
    <3>1. pc[r] = "skipped" /\ Goto(r, "idle")
      BY <1>11, <2>2 DEF Enqueue, At
    <3>2. /\ Cardinality(Those(Busy)') = Cardinality(Those(Busy))
          /\ Cardinality(Those({"dec"})') = Cardinality(Those({"dec"}))
          /\ Cardinality(Those({"count"})') = Cardinality(Those({"count"}))
      BY <1>b, <1>d, <1>h, <3>1 DEF Stages
    <3>. QED
      BY <1>a, <1>b, <1>c, <1>e, <1>f, <1>g, <1>11, <3>1, <3>2, LifecycleAssumption
         DEF Enqueue, Measured, Full,
         TrafficTypeOK, log, metrics, main
  <2>. QED
    BY <1>11, <2>1, <2>2 DEF Enqueue, At
<1>12. CASE Count(r)
  <2>1. pc[r] = "count" /\ Goto(r, "dec")
    BY <1>12 DEF Count, At
  <2>2. /\ Cardinality(Those(Busy)') \in Nat
        /\ Cardinality(Those(Busy)') + 1 = Cardinality(Those(Busy))
        /\ Cardinality(Those({"dec"})') = Cardinality(Those({"dec"})) + 1
        /\ Cardinality(Those({"count"})') \in Nat
        /\ Cardinality(Those({"count"})') + 1 = Cardinality(Those({"count"}))
    BY <1>b, <1>d, <1>h, <2>1 DEF Stages
  <2>. QED
    BY <1>a, <1>b, <1>c, <1>e, <1>f, <1>g, <1>12, <2>2, LifecycleAssumption DEF Count, At,
       TrafficTypeOK, log, metrics, main
<1>13. CASE Dec(r)
  <2>1. pc[r] = "dec" /\ Goto(r, "idle")
    BY <1>13 DEF Dec, At
  <2>2. /\ Cardinality(Those(Busy)') = Cardinality(Those(Busy))
        /\ Cardinality(Those({"dec"})') \in Nat
        /\ Cardinality(Those({"dec"})') + 1 = Cardinality(Those({"dec"}))
        /\ Cardinality(Those({"count"})') = Cardinality(Those({"count"}))
    BY <1>b, <1>d, <1>h, <2>1 DEF Stages
  <2>. QED
    BY <1>a, <1>b, <1>c, <1>e, <1>f, <1>g, <1>13, <2>2, LifecycleAssumption DEF Dec, At,
       TrafficTypeOK, log, metrics, main
<1>14. CASE Ping(r)
  <2>1. PICK s : Goto(r, s) /\ pc[r] = "ping" /\ s \in {"others", "idle"}
    BY <1>14 DEF Ping, At
  <2>2. /\ Cardinality(Those(Busy)') = Cardinality(Those(Busy))
        /\ Cardinality(Those({"dec"})') = Cardinality(Those({"dec"}))
        /\ Cardinality(Those({"count"})') = Cardinality(Those({"count"}))
    BY <1>b, <1>d, <1>h, <2>1 DEF Stages
  <2>. QED
    BY <1>a, <1>b, <1>c, <1>e, <1>f, <1>g, <1>14, <2>2, LifecycleAssumption DEF Ping, At,
       TrafficTypeOK, log, metrics, main
<1>15. CASE PingOthers(r)
  <2>1. pc[r] = "others" /\ Goto(r, "idle")
    BY <1>15 DEF PingOthers, At
  <2>2. /\ Cardinality(Those(Busy)') = Cardinality(Those(Busy))
        /\ Cardinality(Those({"dec"})') = Cardinality(Those({"dec"}))
        /\ Cardinality(Those({"count"})') = Cardinality(Those({"count"}))
    BY <1>b, <1>d, <1>h, <2>1 DEF Stages
  <2>. QED
    BY <1>a, <1>b, <1>c, <1>e, <1>f, <1>g, <1>15, <2>2, LifecycleAssumption DEF PingOthers, At,
       TrafficTypeOK, log, metrics, main
<1>16. CASE Panic(r)
  <2>1. CASE pc[r] \in {"enter", "acquire", "publish"}
    <3>1. pc[r] \in {"enter", "acquire", "publish"} /\ Goto(r, "idle")
      BY <1>16, <2>1 DEF Panic, At
    <3>2. /\ Cardinality(Those(Busy)') \in Nat
          /\ Cardinality(Those(Busy)') + 1 = Cardinality(Those(Busy))
          /\ Cardinality(Those({"dec"})') = Cardinality(Those({"dec"}))
          /\ Cardinality(Those({"count"})') = Cardinality(Those({"count"}))
      BY <1>b, <1>d, <1>h, <3>1 DEF Stages
    <3>. QED
      BY <1>a, <1>b, <1>c, <1>e, <1>f, <1>g, <1>16, <3>1, <3>2, LifecycleAssumption
         DEF Panic, Measured, Unwound,
         TrafficTypeOK, log, metrics, main
  <2>2. CASE pc[r] = "skipped"
    <3>1. pc[r] = "skipped" /\ Goto(r, "idle")
      BY <1>16, <2>2 DEF Panic, At
    <3>2. /\ Cardinality(Those(Busy)') = Cardinality(Those(Busy))
          /\ Cardinality(Those({"dec"})') = Cardinality(Those({"dec"}))
          /\ Cardinality(Those({"count"})') = Cardinality(Those({"count"}))
      BY <1>b, <1>d, <1>h, <3>1 DEF Stages
    <3>. QED
      BY <1>a, <1>b, <1>c, <1>e, <1>f, <1>g, <1>16, <3>1, <3>2, LifecycleAssumption
         DEF Panic, Measured, Unwound,
         TrafficTypeOK, log, metrics, main
  <2>. QED
    BY <1>16, <2>1, <2>2 DEF Panic, At
<1>. QED
  BY <1>e, <1>1, <1>2, <1>3, <1>4, <1>5, <1>6, <1>7, <1>8, <1>9,
     <1>10, <1>11, <1>12, <1>13, <1>14, <1>15, <1>16
     DEF HandlerStep, Handle


\* Only Acquire takes a connection, and it finds the pool open.
LEMMA ConnStep ==
    ASSUME IInv, NEW r \in Handlers, HandlerStep(r)
    PROVE  ConnInv'
<1>a. /\ DefersInv /\ PoolInv /\ HandlersInv /\ ConnInv
      /\ MainTypeOK /\ pc \in [Handlers -> Stages]
  BY TypeHalves DEF IInv, TrafficTypeOK
<1>b. defers' = defers
  BY Moves DEF main
<1>1. CASE Acquire(r)
  <2>1. Running /\ pc[r] # "idle" /\ pools > 0
    BY <1>1 DEF Acquire, At, PoolOpen
  <2>2. pools = 1 /\ (Serving \/ phase = "unwind")
    BY <1>a, <2>1 DEF HandlersInv, Idle, MainTypeOK
  <2>3. Len(defers) = 4
    BY <1>a, <2>2 DEF DefersInv, PoolInv
  <2>. QED
    BY <1>b, <2>3 DEF ConnInv
<1>2. CASE \E s \in Stages \ {"query", "ping"} : Goto(r, s)
  BY <1>a, <1>b, <1>2 DEF ConnInv, Goto
<1>. QED
  BY <1>1, <1>2 DEF HandlerStep, Handle, Accept, AcceptProbe, RejectBody, Refuse, Admit,
     AcceptSkipped, AcquireFails, Query, Publish, Enqueue, Count, Dec, Ping, PingOthers,
     Panic, Stages

\* While main serves, a handler finds the pool and the publisher open.
LEMMA GraceStep ==
    ASSUME IInv, NEW r \in Handlers, HandlerStep(r)
    PROVE  GraceProtects'
<1>a. DefersInv /\ PoolInv /\ HandlersInv /\ GraceProtects /\ MainTypeOK /\ Len(defers) \in Nat
      /\ DOMAIN defers = 1 .. Len(defers)
  BY MainTypes, TypeHalves DEF IInv
<1>b. late' = late
  BY Moves DEF main
<1>1. CASE hurt' = hurt
  BY <1>a, <1>b, <1>1 DEF GraceProtects
<1>2. CASE AcquireFails(r)
  <2>1. Running /\ pc[r] # "idle"
    BY <1>2 DEF AcquireFails, At
  <2>2. Serving \/ late
    BY <1>a, <2>1 DEF HandlersInv, Idle
  <2>3. Serving => PoolOpen
    BY <1>a DEF PoolInv, PoolOpen
  <2>4. hurt' = (hurt \/ (pc[r] = "acquire" /\ ~PoolOpen))
    BY <1>2 DEF AcquireFails
  <2>. QED
    BY <1>a, <1>b, <2>2, <2>3, <2>4 DEF GraceProtects
<1>3. CASE Publish(r)
  <2>1. Running /\ pc[r] # "idle"
    BY <1>3 DEF Publish, At
  <2>2. Serving \/ late
    BY <1>a, <2>1 DEF HandlersInv, Idle
  <2>3. Serving => ~Closed("publisher")
    <3>1. Serving => Len(defers) = 4 /\ 2 \in DOMAIN defers
      BY <1>a DEF DefersInv
    <3>2. Serving => defers[2] = Order[2]
      BY <1>a, <3>1 DEF DefersInv
    <3>. QED
      BY <3>1, <3>2, DeferOrder DEF Closed
  <2>4. hurt' = (hurt \/ Closed("publisher"))
    BY <1>3 DEF Publish
  <2>. QED
    BY <1>a, <1>b, <2>2, <2>3, <2>4 DEF GraceProtects
<1>. QED
  BY <1>1, <1>2, <1>3 DEF HandlerStep, Handle, Accept, AcceptProbe, RejectBody, Refuse, Admit,
     AcceptSkipped, Acquire, Query, Enqueue, Count, Dec, Ping, PingOthers, Panic, metrics

LEMMA HandlerPreserves ==
    ASSUME IInv, NEW r \in Handlers, HandlerStep(r)
    PROVE  IInv'
<1>a. /\ MainTypeOK /\ DefersInv /\ PoolInv /\ OpenInv /\ HandlersInv
      /\ pc \in [Handlers -> Stages]
  BY TypeHalves DEF IInv, TrafficTypeOK
<1>b. UNCHANGED <<phase, attempt, pools, closing, open, defers, late>>
  BY Moves DEF main
<1>1. MainTypeOK' /\ DefersInv' /\ PoolInv' /\ OpenInv'
  BY <1>a, <1>b DEF MainTypeOK, DefersInv, PoolInv, OpenInv, Running, Serving
<1>2. HandlersInv'
  <2>1. phase = "serving" \/ (Running /\ pc[r] # "idle")
    BY Moves
  <2>2. Running => Serving \/ (phase = "unwind" /\ late)
    BY <1>a, <2>1 DEF HandlersInv, Idle, Serving
  <2>. QED
    BY <1>b, <2>2 DEF HandlersInv, Running, Serving
<1>3. TypeOK'
  <2>1. TypeOK' <=> MainTypeOK' /\ TrafficTypeOK'
    BY TypeHalves, PTL
  <2>. QED
    BY <1>1, <2>1, LedgerStep
<1>. QED
  BY <1>1, <1>2, <1>3, LedgerStep, ConnStep, GraceStep DEF IInv

----------------------------------------------------------------------------
(* The access-log worker *)

LEMMA WorkerPreserves ==
    ASSUME IInv, Take \/ Insert
    PROVE  IInv'
<1>a. /\ MainTypeOK /\ TrafficTypeOK /\ Ledger /\ FinInv
      /\ Cardinality({r \in Handlers : pc[r] = "count"}) \in Nat
  BY TypeHalves, LedgerSets, AllFinite DEF IInv
<1>b. /\ UNCHANGED <<phase, attempt, pools, closing, open, defers, late>>
      /\ UNCHANGED <<pc, inFlight, requests, accepted, skipped, tooLarge, panicked, hurt, dropped>>
  BY DEF Take, Insert, main, traffic, metrics
<1>1. MainTypeOK'
  BY <1>a, <1>b DEF MainTypeOK
<1>c. /\ Uncounted' = Uncounted /\ Counted' = Counted
      /\ {r \in Handlers : pc'[r] = "count"} = {r \in Handlers : pc[r] = "count"}
  BY <1>b DEF Uncounted, Counted
<1>2. TrafficTypeOK' /\ Ledger'
  <2>1. CASE Take
    <3>1. /\ inserting = FALSE /\ inserting' = TRUE /\ queue > 0 /\ queue' = queue - 1
          /\ written' = written
      BY <1>a, <2>1 DEF Take, TrafficTypeOK
    <3>2. TrafficTypeOK'
      BY <1>a, <1>b, <3>1, LifecycleAssumption DEF TrafficTypeOK
    <3>. QED
      BY <1>a, <1>b, <1>c, <3>1, <3>2, LifecycleAssumption DEF Ledger, TrafficTypeOK
  <2>2. CASE Insert
    <3>1. queue' = queue /\ written' = written + 1
      BY <2>2 DEF Insert
    <3>2. inserting = TRUE /\ inserting' = FALSE /\ inserting' \in BOOLEAN
      BY <1>a, <2>2 DEF Insert, TrafficTypeOK
    <3>3. written' \in Nat
      BY <1>a, <3>1 DEF TrafficTypeOK
    <3>4. TrafficTypeOK'
      BY <1>a, <1>b, <3>1, <3>2, <3>3, Zenon DEF TrafficTypeOK
    <3>. QED
      BY <1>a, <1>b, <1>c, <3>1, <3>2, <3>4, LifecycleAssumption DEF Ledger, TrafficTypeOK
  <2>. QED
    BY <2>1, <2>2
<1>3. TypeOK'
  <2>1. TypeOK' <=> MainTypeOK' /\ TrafficTypeOK'
    BY TypeHalves, PTL
  <2>. QED
    BY <1>1, <1>2, <2>1
<1>4. FinInv' /\ ConnInv' /\ GraceProtects'
  BY <1>a, <1>b, <1>c DEF IInv, FinInv, ConnInv, GraceProtects
<1>5. DefersInv' /\ PoolInv' /\ OpenInv' /\ HandlersInv'
  BY <1>b DEF IInv, DefersInv, PoolInv, OpenInv, HandlersInv, Running, Serving, Idle
<1>. QED
  BY <1>2, <1>3, <1>4, <1>5 DEF IInv

----------------------------------------------------------------------------
(* Theorems *)

LEMMA InitInv == Init => IInv
<1>. SUFFICES ASSUME Init PROVE IInv
  OBVIOUS
<1>1. defers \in Seq(Clients) /\ Len(defers) = 0
  BY EmptySeq DEF Init
<1>2. /\ phase = "jwtKey" /\ attempt = 1 /\ pools = 0 /\ closing = FALSE /\ open = {}
      /\ late = FALSE /\ hurt = FALSE
      /\ \A r \in Handlers : pc[r] = "idle"
      /\ pc \in [Handlers -> Stages]
      /\ inFlight = 0 /\ requests = 0 /\ queue = 0 /\ inserting = FALSE /\ dropped = 0
      /\ accepted = 0 /\ skipped = 0 /\ tooLarge = 0 /\ panicked = 0 /\ written = 0
  BY DEF Init, Steps, Stages
<1>3. TypeOK
  <2>a. /\ 1 \in 1 .. Attempts /\ 0 \in 0 .. 1 /\ 0 \in 0 .. QueueSize
        /\ {} \subseteq {"tracer", "redis", "mongo", "publisher", "logger"}
    BY LifecycleAssumption
  <2>b. FALSE \in BOOLEAN /\ 0 \in Nat /\ "jwtKey" \in Phases
    BY DEF Phases
  <2>1. MainTypeOK
    BY <1>1, <1>2, <2>a, <2>b, Zenon DEF MainTypeOK
  <2>2. TrafficTypeOK
    BY <1>2, <2>a, <2>b, Zenon DEF TrafficTypeOK
  <2>. QED
    BY <2>1, <2>2, TypeHalves
<1>4. DefersInv /\ PoolInv /\ OpenInv /\ HandlersInv /\ ConnInv /\ GraceProtects
  BY <1>1, <1>2 DEF DefersInv, PoolInv, OpenInv, HandlersInv, Running, Serving, Idle, ConnInv,
     GraceProtects
<1>5. Uncounted = {} /\ Counted = {} /\ {r \in Handlers : pc[r] = "count"} = {}
  BY <1>2 DEF Uncounted, Counted
<1>6. FinInv /\ Ledger
  BY <1>2, <1>5, FS_EmptySet DEF FinInv, Ledger
<1>. QED
  BY <1>3, <1>4, <1>6 DEF IInv

LEMMA StepInv == IInv /\ [Next]_vars => IInv'
<1>. SUFFICES ASSUME IInv, [Next]_vars PROVE IInv'
  OBVIOUS
<1>1. CASE MainStep
  BY <1>1, MainPreserves
<1>2. ASSUME NEW r \in Handlers, HandlerStep(r) PROVE IInv'
  BY <1>2, HandlerPreserves
<1>3. CASE Take \/ Insert
  BY <1>3, WorkerPreserves
<1>4. CASE UNCHANGED vars
  <2>1. UNCHANGED <<phase, attempt, pools, closing, open, defers, late>>
        /\ UNCHANGED <<queue, inserting, dropped, written>>
        /\ UNCHANGED <<pc, inFlight, requests, accepted, skipped, tooLarge, panicked, hurt>>
    BY <1>4 DEF vars, main, log, traffic, metrics
  <2>2. TypeOK' /\ GraceProtects'
    BY <2>1 DEF IInv, TypeOK, GraceProtects
  <2>3. DefersInv' /\ PoolInv' /\ OpenInv'
    BY <2>1 DEF IInv, DefersInv, PoolInv, OpenInv, Running, Serving
  <2>4. HandlersInv' /\ ConnInv'
    BY <2>1 DEF IInv, HandlersInv, ConnInv, Running, Serving, Idle
  <2>5. FinInv' /\ Ledger'
    BY <2>1 DEF IInv, FinInv, Ledger, Uncounted, Counted
  <2>. QED
    BY <2>2, <2>3, <2>4, <2>5 DEF IInv
<1>. QED
  BY <1>1, <1>2, <1>3, <1>4 DEF Next, MainStep, HandlerStep

\* The inductive invariant: the deferred calls, the pool and the handlers fit where
\* main is.
THEOREM Invariance == Spec => []IInv
  BY InitInv, StepInv, PTL DEF Spec

\* The shape of the process, with at most one pool open whatever connection attempts
\* failed.
THEOREM TypeCorrect == Spec => []TypeOK
<1>1. IInv => TypeOK
  BY DEF IInv
<1>. QED
  BY <1>1, Invariance, PTL

\* Whatever the handlers do while main shuts down, a request that finds the pool or
\* the publisher closed outlived the grace period.
THEOREM GraceHolds == Spec => []GraceProtects
<1>1. IInv => GraceProtects
  BY DEF IInv
<1>. QED
  BY <1>1, Invariance, PTL

\* The pool is the first thing main closes and it waits for the connections in use:
\* the publisher, the logger and the tracer outlive every statement.
THEOREM StatementsHaveClients == Spec => []ClientsOutliveStatements
<1>1. ASSUME IInv PROVE ClientsOutliveStatements
  <2>. SUFFICES ASSUME InUse > 0, NEW c \in {"tracer", "publisher", "logger", "pool"}
                PROVE  ~Closed(c)
    BY DEF ClientsOutliveStatements
  <2>1. PICK r \in Handlers : pc[r] \in {"query", "ping"}
    <3>1. {r \in Handlers : pc[r] \in {"query", "ping"}} = {} => InUse = 0
      BY FS_EmptySet DEF InUse
    <3>. QED
      BY <3>1
  <2>2. Len(defers) = 4 /\ DOMAIN defers = 1 .. 4
    BY <1>1, <2>1, MainTypes DEF IInv, ConnInv
  <2>3. /\ defers[1] = "tracer" /\ defers[2] = "publisher"
        /\ defers[3] = "logger" /\ defers[4] = "pool"
    BY <1>1, <2>2, DeferOrder DEF IInv, DefersInv
  <2>. QED
    BY <2>2, <2>3 DEF Closed
<1>. QED
  BY <1>1, Invariance, PTL

\* While the process runs the gauge is exact and every access-log entry is accounted
\* for, however many requests interleave, are skipped by the metrics, panic or find the
\* queue full.
THEOREM AccountsHold == Spec => []EntriesAccounted
<1>1. IInv => EntriesAccounted
  BY DEF IInv, Ledger, EntriesAccounted
<1>. QED
  BY <1>1, Invariance, PTL

\* An orderly end leaves nothing open that main closes at all, and a fatal error of the
\* setup no pool.
THEOREM EndsClean == Spec => EndsLeaveNothingOpen
<1>. DEFINE Clean == /\ phase' = "exit" => pools' = 0 /\ open' \subseteq {"redis", "mongo"}
                     /\ phase' = "fatal" => phase = "serving" \/ pools' = 0
<1>1. ASSUME IInv, Next PROVE Clean
  <2>a. MainTypeOK /\ DefersInv /\ PoolInv /\ OpenInv
    BY <1>1, TypeHalves DEF IInv
  <2>1. CASE SetUp
    <3>1. PICK step \in {"jwtKey", "apiKey", "tracing", "redis", "mongo", "events", "logger",
                         "config"} : phase' = After(step)
      BY <2>1 DEF SetUp, SetJWTSigningKey, SetAPISecretKey, TracingInit, NewRedisClient,
         SetupMongoDB, NopPublisher, KafkaProducer, NewLogger, ApplyPoolConfig, Completes
    <3>. QED
      BY <3>1, SetupOrder
  <2>2. CASE SetupFails
    BY <2>a, <2>2 DEF SetupFails, PoolInv
  <2>3. CASE Attempt
    BY <2>a, <2>3, SetupOrder DEF Attempt, Connect, ConnectFails, Retry, Unpinged, PoolInv
  <2>4. ASSUME NEW ok \in BOOLEAN, ApplySchema(ok) \/ NewRouter(ok) PROVE Clean
    BY <2>a, <2>4, SetupOrder DEF ApplySchema, NewRouter, PoolInv
  <2>5. CASE ListenFails \/ Killed \/ Signal \/ Drained \/ GraceEnds
    BY <2>5 DEF ListenFails, Killed, Signal, Drained, GraceEnds
  <2>6. CASE BeginCloseDB \/ EndCloseDB \/ CloseClient
    <3>1. phase = "unwind" /\ phase' = phase
      BY <2>6 DEF BeginCloseDB, EndCloseDB, CloseClient
    <3>. QED
      BY <3>1
  <2>7. CASE Return
    <3>1. phase = "unwind" /\ phase' = "exit" /\ pools' = pools /\ open' = open
      BY <2>7 DEF Return
    <3>2. Len(defers) = 0
      BY <2>7, EmptySeq DEF Return
    <3>3. open \subseteq {"redis", "mongo"} /\ pools = 0
      BY <2>a, <3>1, <3>2 DEF OpenInv, PoolInv, Running, MainTypeOK
    <3>. QED
      BY <3>1, <3>3
  <2>8. ASSUME NEW r \in Handlers, HandlerStep(r) PROVE Clean
    <3>1. Running /\ phase' = phase
      BY <2>8, Moves DEF main, Running
    <3>. QED
      BY <3>1 DEF Running
  <2>9. CASE Take \/ Insert
    BY <2>9 DEF Take, Insert, main, Running
  <2>. QED
    BY <1>1, <2>1, <2>2, <2>3, <2>4, <2>5, <2>6, <2>7, <2>8, <2>9 DEF Next, Shutdown,
       HandlerStep
<1>2. IInv /\ [Next]_vars => [Clean]_vars
  BY <1>1
<1>. QED
  BY <1>2, Invariance, PTL DEF Spec, EndsLeaveNothingOpen

============================================================================
