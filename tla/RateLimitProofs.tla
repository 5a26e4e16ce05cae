-------------------------- MODULE RateLimitProofs --------------------------
(***************************************************************************)
(* Theorems about RateLimit, for any limit and window, any number of       *)
(* clients and of concurrent calls, and any lag shorter than the window.   *)
(***************************************************************************)
EXTENDS RateLimit, TLAPS

\* Admissions are counted up to Limit.
Admitted(n) == IF n < Limit THEN n ELSE Limit

\* A window has been open for at least so many ticks: it was opened with a time that
\* was up to Lag old.
Since(w) == IF w.left + Lag >= Window THEN 0 ELSE Window - w.left - Lag

\* The count m of a client's admissions fits its window: what was admitted since the
\* window opened is counted in it, and before that there was only one other window.
Fits(w, m) ==
    /\ m[Since(w)] <= Admitted(w.n)
    /\ m[Window - Lag] <= Limit + Admitted(w.n)

\* Only the memory store's calls wait for a mutex.
CallInv == \A r \in Requests : call[r] # None => backend # "redis"

\* A longer span of time has seen as many admissions or more.
RecentInv ==
    \A c \in Clients :
        /\ recent[c][0] = 0
        /\ \A d, e \in Spans : d <= e => recent[c][d] <= recent[c][e]

WindowInv ==
    \A c \in Clients :
        /\ win[c] = None => recent[c][Window - Lag] <= Limit
        /\ win[c] # None => Fits(win[c], recent[c])

IInv == TypeOK /\ CallInv /\ RecentInv /\ WindowInv

----------------------------------------------------------------------------
(* Operators *)

LEMMA LagFacts ==
    /\ Lag \in Nat /\ Lag <= MaxLag /\ Lag < Window
    /\ MaxLag \in Nat /\ Window \in Nat /\ Window > 0 /\ Limit \in Nat /\ Limit > 0
    /\ Window - Lag \in Spans /\ 0 \in Spans
    /\ backend # "redis" => Lag = MaxLag
  BY RateLimitAssumption DEF Lag, Spans

LEMMA AdmittedFacts ==
    ASSUME NEW n \in Nat
    PROVE  /\ Admitted(n) \in Nat /\ Admitted(n) <= Limit
           /\ Admitted(n) <= Admitted(n + 1)
           /\ n + 1 <= Limit => Admitted(n + 1) = Admitted(n) + 1
  BY RateLimitAssumption DEF Admitted

LEMMA SinceFacts ==
    ASSUME NEW w, w.left \in Int, w.left >= -Lag
    PROVE  /\ Since(w) \in Spans
           /\ w.left <= 0 => Since(w) >= Window - Lag
  BY LagFacts DEF Since, Spans

\* A window the caller finds over has left its client with no more than Limit
\* admissions to account for.
LEMMA Ended ==
    ASSUME IInv, NEW c \in Clients, win[c] # None, win[c].left <= 0
    PROVE  recent[c][Window - Lag] <= Limit
<1>1. /\ win[c].left \in Int /\ win[c].left >= -Lag /\ win[c].n \in Nat
      /\ recent[c] \in [Spans -> Nat]
  BY LagFacts DEF IInv, TypeOK, Windows
<1>2. Since(win[c]) \in Spans /\ Since(win[c]) >= Window - Lag
  BY <1>1, SinceFacts
<1>3. recent[c][Since(win[c])] <= Admitted(win[c].n)
  BY DEF IInv, WindowInv, Fits
<1>4. recent[c][Window - Lag] <= recent[c][Since(win[c])]
  BY <1>2, LagFacts DEF IInv, RecentInv
<1>. QED
  BY <1>1, <1>2, <1>3, <1>4, AdmittedFacts, LagFacts

\* A new window starts with nothing to count.
LEMMA Opened ==
    ASSUME IInv, NEW c \in Clients, recent[c][Window - Lag] <= Limit,
           NEW lag \in Nat, lag <= Lag
    PROVE  /\ Open(lag).n = 0 /\ Open(lag).left \in -MaxLag .. Window
           /\ Open(lag).left >= -Lag
           /\ Fits(Open(lag), recent[c])
<1>1. Open(lag).n = 0 /\ Open(lag).left = Window - lag
  BY DEF Open
<1>2. Since(Open(lag)) = 0
  BY <1>1, LagFacts DEF Since
<1>3. Admitted(0) = 0
  BY LagFacts DEF Admitted
<1>4. recent[c][0] = 0 /\ recent[c] \in [Spans -> Nat]
  BY DEF IInv, RecentInv, TypeOK
<1>5. Fits(Open(lag), recent[c])
  BY <1>1, <1>2, <1>3, <1>4, LagFacts DEF Fits
<1>. QED
  BY <1>1, <1>5, LagFacts

\* The request is counted, and admitted if the count is within the limit.
LEMMA Counts ==
    ASSUME IInv, NEW c \in Clients, NEW ok \in BOOLEAN,
           NEW v, v.n \in 0 .. Limit + 1, v.left \in -MaxLag .. Window, v.left >= -Lag,
           v = [n |-> v.n, left |-> v.left],
           Fits(v, recent[c]), Respond(c, Hit(v).n, ok)
    PROVE  /\ Hit(v) \in Windows /\ Hit(v).left >= -Lag
           /\ Fits(Hit(v), recent'[c])
           /\ recent' \in [Clients -> [Spans -> Nat]]
           /\ RecentInv'
           /\ \A d \in Clients \ {c} : recent'[d] = recent[d]
<1>a. recent \in [Clients -> [Spans -> Nat]] /\ RecentInv
  BY DEF IInv, TypeOK
<1>1. Hit(v).left = v.left /\ Hit(v).n = IF v.n > Limit THEN v.n ELSE v.n + 1
  BY DEF Hit
<1>2. Hit(v) \in Windows /\ Hit(v).left >= -Lag
  BY <1>1, LagFacts DEF Windows, Hit
<1>3. Since(Hit(v)) = Since(v) /\ Since(v) \in Spans
  BY <1>1, LagFacts, SinceFacts DEF Since
<1>4. CASE ok /\ Allowed(Hit(v).n)
  <2>1. recent' = [recent EXCEPT ![c] = [d \in Spans |-> IF d = 0 THEN 0 ELSE @[d] + 1]]
    BY <1>4 DEF Respond
  <2>2. \A d \in Spans : recent'[c][d] = IF d = 0 THEN 0 ELSE recent[c][d] + 1
    BY <1>a, <2>1
  <2>3. recent' \in [Clients -> [Spans -> Nat]]
    BY <1>a, <2>1
  <2>4. RecentInv'
    <3>1. \A d \in Clients \ {c} : recent'[d] = recent[d]
      BY <1>a, <2>1
    <3>2. recent'[c][0] = 0
      BY <2>2, LagFacts
    <3>3. ASSUME NEW d \in Spans, NEW e \in Spans, d <= e
          PROVE  recent'[c][d] <= recent'[c][e]
      <4>1. recent[c][d] \in Nat /\ recent[c][e] \in Nat /\ recent[c][d] <= recent[c][e]
        BY <1>a, <3>3 DEF RecentInv
      <4>2. d = 0 \/ e # 0
        BY <3>3, LagFacts DEF Spans
      <4>3. /\ recent'[c][d] = IF d = 0 THEN 0 ELSE recent[c][d] + 1
            /\ recent'[c][e] = IF e = 0 THEN 0 ELSE recent[c][e] + 1
        BY <2>2
      <4>. QED
        BY <4>1, <4>2, <4>3
    <3>. QED
      BY <1>a, <3>1, <3>2, <3>3 DEF RecentInv
  <2>5. Hit(v).n = v.n + 1 /\ v.n + 1 <= Limit /\ v.n \in Nat
    BY <1>1, <1>4, LagFacts DEF Allowed
  <2>6. Admitted(Hit(v).n) = Admitted(v.n) + 1 /\ Admitted(v.n) \in Nat
    BY <2>5, AdmittedFacts
  <2>7. Fits(Hit(v), recent'[c])
    <3>1. recent'[c][Since(v)] <= recent[c][Since(v)] + 1
      BY <1>a, <1>3, <2>2
    <3>2. recent'[c][Window - Lag] <= recent[c][Window - Lag] + 1
      BY <1>a, <2>2, LagFacts
    <3>3. recent[c][Since(v)] \in Nat /\ recent[c][Window - Lag] \in Nat
      BY <1>a, <1>3, LagFacts
    <3>4. recent'[c][Since(v)] \in Nat /\ recent'[c][Window - Lag] \in Nat
      BY <2>3, <1>3, LagFacts
    <3>. QED
      BY <1>3, <2>6, <3>1, <3>2, <3>3, <3>4, LagFacts DEF Fits
  <2>. QED
    BY <1>a, <1>2, <2>1, <2>3, <2>4, <2>7
<1>5. CASE ~(ok /\ Allowed(Hit(v).n))
  <2>1. recent' = recent
    BY <1>5 DEF Respond
  <2>2. Admitted(v.n) <= Admitted(Hit(v).n) /\ Admitted(v.n) \in Nat
        /\ Admitted(Hit(v).n) \in Nat
    BY <1>1, LagFacts, AdmittedFacts DEF Admitted
  <2>3. recent[c][Since(v)] \in Nat /\ recent[c][Window - Lag] \in Nat
    BY <1>a, <1>3, LagFacts
  <2>4. Fits(Hit(v), recent'[c])
    BY <1>3, <2>1, <2>2, <2>3, LagFacts DEF Fits
  <2>5. RecentInv'
    BY <1>a, <2>1 DEF RecentInv
  <2>. QED
    BY <1>a, <1>2, <2>1, <2>4, <2>5
<1>. QED
  BY <1>4, <1>5

----------------------------------------------------------------------------
(* Each step preserves the invariant *)

LEMMA RedisStep ==
    ASSUME IInv, NEW c \in Clients, NEW ok \in BOOLEAN, RedisAllow(c, ok)
    PROVE  IInv'
<1>a. /\ TypeOK /\ CallInv /\ WindowInv /\ backend = "redis"
      /\ backend' = backend /\ call' = call /\ Lag' = Lag
  BY DEF IInv, RedisAllow, Lag
<1>1. PICK v : /\ v = IF win[c] = None THEN Open(0) ELSE win[c]
               /\ win' = [win EXCEPT ![c] = Hit(v)] /\ Respond(c, Hit(v).n, ok)
  BY DEF RedisAllow
<1>2. /\ v.n \in 0 .. Limit + 1 /\ v.left \in -MaxLag .. Window /\ v.left >= -Lag
      /\ v = [n |-> v.n, left |-> v.left] /\ Fits(v, recent[c])
  <2>1. CASE win[c] = None
    <3>1. recent[c][Window - Lag] <= Limit /\ v = Open(0)
      BY <1>a, <1>1, <2>1 DEF WindowInv
    <3>2. v = [n |-> v.n, left |-> v.left]
      BY <3>1 DEF Open
    <3>. QED
      BY <3>1, <3>2, Opened, LagFacts
  <2>2. CASE win[c] # None
    BY <1>a, <1>1, <2>2, LagFacts DEF WindowInv, TypeOK, Windows
  <2>. QED
    BY <2>1, <2>2
<1>3. /\ Hit(v) \in Windows /\ Hit(v).left >= -Lag /\ Fits(Hit(v), recent'[c])
      /\ recent' \in [Clients -> [Spans -> Nat]] /\ RecentInv'
      /\ \A d \in Clients \ {c} : recent'[d] = recent[d]
  BY <1>1, <1>2, Counts
<1>4. /\ win'[c] = Hit(v) /\ win'[c] # None
      /\ \A d \in Clients \ {c} : win'[d] = win[d]
      /\ win' \in [Clients -> Windows \cup {None}]
  BY <1>a, <1>1, <1>3, NoWindowAssumption DEF TypeOK
<1>5. TypeOK'
  BY <1>a, <1>3, <1>4 DEF TypeOK
<1>6. CallInv'
  BY <1>a DEF CallInv
<1>7. WindowInv'
  <2>. SUFFICES ASSUME NEW d \in Clients
                PROVE  /\ win'[d] = None => recent'[d][Window - Lag] <= Limit
                       /\ win'[d] # None => Fits(win'[d], recent'[d])
    BY <1>a DEF WindowInv, Fits, Since
  <2>1. CASE d = c
    BY <1>3, <1>4, <2>1
  <2>2. CASE d # c
    BY <1>a, <1>3, <1>4, <2>2 DEF WindowInv
  <2>. QED
    BY <2>1, <2>2
<1>. QED
  BY <1>3, <1>5, <1>6, <1>7 DEF IInv

LEMMA NowStep ==
    ASSUME IInv, NEW r \in Requests, NEW c \in Clients, MemoryNow(r, c)
    PROVE  IInv'
<1>a. /\ backend = "memory" /\ call' = [call EXCEPT ![r] = [client |-> c, lag |-> 0]]
      /\ UNCHANGED <<backend, win, recent>> /\ Lag' = Lag
  BY DEF MemoryNow, Lag
<1>1. [client |-> c, lag |-> 0] \in Calls
  BY LagFacts DEF Calls
<1>2. TypeOK' /\ CallInv'
  BY <1>a, <1>1 DEF IInv, TypeOK, CallInv
<1>3. RecentInv' /\ WindowInv'
  BY <1>a DEF IInv, RecentInv, WindowInv, Fits, Since
<1>. QED
  BY <1>2, <1>3 DEF IInv

LEMMA MemoryStep ==
    ASSUME IInv, NEW r \in Requests, MemoryAllow(r)
    PROVE  IInv'
<1>a. /\ TypeOK /\ CallInv /\ WindowInv /\ backend' = backend /\ Lag' = Lag
      /\ call' = [call EXCEPT ![r] = None]
  BY DEF IInv, MemoryAllow, Lag
<1>b. PICK c \in Clients, lag \in Nat :
          c = call[r].client /\ lag = call[r].lag /\ lag <= Lag
  <2>1. call[r] \in Calls /\ backend # "redis"
    BY <1>a DEF MemoryAllow, TypeOK, CallInv
  <2>. QED
    BY <2>1, LagFacts DEF Calls
<1>c. PICK kept : kept = [d \in Clients |->
                            IF win[d] # None /\ Over(win[d], lag) THEN None ELSE win[d]]
  OBVIOUS
<1>1. PICK v : /\ v = IF kept[c] = None THEN Open(lag) ELSE kept[c]
               /\ win' = [kept EXCEPT ![c] = Hit(v)] /\ Respond(c, Hit(v).n, TRUE)
  BY <1>b, <1>c DEF MemoryAllow
<1>2. /\ kept \in [Clients -> Windows \cup {None}]
      /\ \A d \in Clients : /\ kept[d] = None => recent[d][Window - Lag] <= Limit
                            /\ kept[d] # None => kept[d] = win[d]
  <2>1. ASSUME NEW d \in Clients, win[d] # None, Over(win[d], lag)
        PROVE  recent[d][Window - Lag] <= Limit
    <3>1. win[d].left <= 0
      BY <1>a, <1>b, <2>1, LagFacts DEF Over, TypeOK, Windows
    <3>. QED
      BY <2>1, <3>1, Ended
  <2>2. ASSUME NEW d \in Clients, win[d] = None
        PROVE  recent[d][Window - Lag] <= Limit
    BY <1>a, <2>2 DEF WindowInv
  <2>. QED
    BY <1>a, <1>c, <2>1, <2>2 DEF TypeOK
<1>3. /\ v.n \in 0 .. Limit + 1 /\ v.left \in -MaxLag .. Window /\ v.left >= -Lag
      /\ v = [n |-> v.n, left |-> v.left] /\ Fits(v, recent[c])
  <2>1. CASE kept[c] = None
    <3>1. recent[c][Window - Lag] <= Limit /\ v = Open(lag)
      BY <1>1, <1>2, <2>1
    <3>2. v = [n |-> v.n, left |-> v.left]
      BY <3>1 DEF Open
    <3>. QED
      BY <1>b, <3>1, <3>2, Opened, LagFacts
  <2>2. CASE kept[c] # None
    <3>1. v = win[c] /\ win[c] # None
      BY <1>1, <1>2, <2>2
    <3>. QED
      BY <1>a, <3>1, LagFacts DEF WindowInv, TypeOK, Windows
  <2>. QED
    BY <2>1, <2>2
<1>4. /\ Hit(v) \in Windows /\ Hit(v).left >= -Lag /\ Fits(Hit(v), recent'[c])
      /\ recent' \in [Clients -> [Spans -> Nat]] /\ RecentInv'
      /\ \A d \in Clients \ {c} : recent'[d] = recent[d]
  BY <1>1, <1>3, Counts
<1>5. /\ win'[c] = Hit(v) /\ win'[c] # None
      /\ \A d \in Clients \ {c} : win'[d] = kept[d]
      /\ win' \in [Clients -> Windows \cup {None}]
  BY <1>1, <1>2, <1>4, NoWindowAssumption
<1>6. \A d \in Clients : win'[d] # None => win'[d].left >= -Lag
  BY <1>a, <1>2, <1>4, <1>5 DEF TypeOK
<1>7. TypeOK'
  BY <1>a, <1>4, <1>5, <1>6 DEF TypeOK
<1>8. CallInv'
  BY <1>a DEF CallInv, TypeOK
<1>9. WindowInv'
  <2>. SUFFICES ASSUME NEW d \in Clients
                PROVE  /\ win'[d] = None => recent'[d][Window - Lag] <= Limit
                       /\ win'[d] # None => Fits(win'[d], recent'[d])
    BY <1>a DEF WindowInv, Fits, Since
  <2>1. CASE d = c
    BY <1>4, <1>5, <2>1
  <2>2. CASE d # c
    BY <1>a, <1>2, <1>4, <1>5, <2>2 DEF WindowInv
  <2>. QED
    BY <2>1, <2>2
<1>. QED
  BY <1>4, <1>7, <1>8, <1>9 DEF IInv

\* A tick moves every admission one span further, and every window one tick closer
\* to its reset.
LEMMA TickStep ==
    ASSUME IInv, Tick
    PROVE  IInv'
<1>a. /\ TypeOK /\ CallInv /\ RecentInv /\ WindowInv /\ backend' = backend /\ Lag' = Lag
      /\ recent \in [Clients -> [Spans -> Nat]]
  BY DEF IInv, Tick, Lag, TypeOK
<1>1. /\ recent' \in [Clients -> [Spans -> Nat]]
      /\ \A c \in Clients : \A d \in Spans :
            recent'[c][d] = IF d = 0 THEN 0 ELSE recent[c][d - 1]
  <2>1. recent' = [c \in Clients |->
                      [d \in Spans |-> IF d = 0 THEN 0 ELSE recent[c][d - 1]]]
    BY DEF Tick
  <2>2. \A d \in Spans : d = 0 \/ d - 1 \in Spans
    BY LagFacts DEF Spans
  <2>3. \A c \in Clients : \A d \in Spans :
            (IF d = 0 THEN 0 ELSE recent[c][d - 1]) \in Nat
    BY <1>a, <2>2
  <2>. QED
    BY <2>1, <2>3
<1>2. \A c \in Clients : \A d \in Spans : recent'[c][d] <= recent[c][d]
  <2>. SUFFICES ASSUME NEW c \in Clients, NEW d \in Spans
                PROVE  recent'[c][d] <= recent[c][d]
    OBVIOUS
  <2>1. recent[c][d] \in Nat
    BY <1>a
  <2>2. d # 0 => d - 1 \in Spans /\ d - 1 <= d
    BY LagFacts DEF Spans
  <2>3. d # 0 => recent[c][d - 1] <= recent[c][d]
    BY <1>a, <2>2 DEF RecentInv
  <2>. QED
    BY <1>1, <2>1, <2>3
<1>3. RecentInv'
  <2>. SUFFICES ASSUME NEW c \in Clients
                PROVE  /\ recent'[c][0] = 0
                       /\ \A d, e \in Spans : d <= e => recent'[c][d] <= recent'[c][e]
    BY DEF RecentInv
  <2>1. recent'[c][0] = 0
    BY <1>1, LagFacts
  <2>2. ASSUME NEW d \in Spans, NEW e \in Spans, d <= e
        PROVE  recent'[c][d] <= recent'[c][e]
    <3>1. CASE d = 0
      BY <1>1, <2>1, <3>1
    <3>2. CASE d # 0
      <4>1. e # 0 /\ d - 1 \in Spans /\ e - 1 \in Spans /\ d - 1 <= e - 1
        BY <2>2, <3>2, LagFacts DEF Spans
      <4>2. recent[c][d - 1] <= recent[c][e - 1]
        BY <1>a, <4>1 DEF RecentInv
      <4>. QED
        BY <1>1, <3>2, <4>1, <4>2
    <3>. QED
      BY <3>1, <3>2
  <2>. QED
    BY <2>1, <2>2
<1>4. CallInv' /\ call' \in [Requests -> Calls \cup {None}]
  <2>1. call' = [r \in Requests |->
                   IF call[r] = None THEN None ELSE [call[r] EXCEPT !.lag = @ + 1]]
    BY DEF Tick
  <2>2. ASSUME NEW r \in Requests, call[r] # None
        PROVE  [call[r] EXCEPT !.lag = @ + 1] \in Calls
    BY <1>a, <2>2, LagFacts DEF Tick, TypeOK, Calls
  <2>. QED
    BY <1>a, <2>1, <2>2 DEF CallInv
<1>5. ASSUME NEW c \in Clients
      PROVE  /\ win'[c] \in Windows \cup {None}
             /\ win'[c] # None => win'[c].left >= -Lag
             /\ win'[c] = None => recent'[c][Window - Lag] <= Limit
             /\ win'[c] # None => Fits(win'[c], recent'[c])
  <2>a. /\ win'[c] = Age(win[c])
        /\ recent[c][Window - Lag] \in Nat /\ recent'[c][Window - Lag] \in Nat
        /\ recent'[c][Window - Lag] <= recent[c][Window - Lag]
    BY <1>a, <1>1, <1>2, LagFacts DEF Tick
  <2>1. CASE win[c] = None
    BY <1>a, <2>a, <2>1, LagFacts DEF Age, WindowInv
  <2>2. CASE win[c] # None /\ backend = "redis" /\ win[c].left = 1
    <3>1. win'[c] = None
      BY <2>a, <2>2 DEF Age
    <3>2. Lag = 0 /\ Since(win[c]) = Window - 1
      BY <2>2, LagFacts DEF Since, Lag
    <3>3. recent[c][Window - 1] <= Admitted(win[c].n)
      BY <1>a, <2>2, <3>2 DEF WindowInv, Fits
    <3>4. recent'[c][Window - Lag] = recent[c][Window - 1]
      BY <1>1, <3>2, LagFacts
    <3>5. win[c].n \in Nat /\ Window - 1 \in Spans
      BY <1>a, <2>2, LagFacts DEF TypeOK, Windows, Spans
    <3>6. recent[c][Window - 1] \in Nat
      BY <1>a, <3>5
    <3>. QED
      BY <3>1, <3>3, <3>4, <3>5, <3>6, AdmittedFacts, LagFacts
  <2>3. CASE win[c] # None /\ ~(backend = "redis" /\ win[c].left = 1)
    <3>1. PICK w \in Windows : w = win[c] /\ w.left >= -Lag /\ w.left \in Int /\ w.n \in Nat
      BY <1>a, <2>3, LagFacts DEF TypeOK, Windows
    <3>2. PICK left \in Int : left = IF w.left > -Lag THEN w.left - 1 ELSE w.left
      BY <3>1
    <3>3. win'[c] = [w EXCEPT !.left = left]
      BY <2>a, <2>3, <3>1, <3>2 DEF Age
    <3>4. win'[c].left = left /\ win'[c].n = w.n /\ left >= -Lag /\ left <= Window
      BY <3>1, <3>2, <3>3, LagFacts DEF Windows
    <3>5. win'[c] \in Windows
      BY <3>1, <3>3, <3>4, LagFacts DEF Windows
    <3>6. Since(w) \in Spans /\ Since(win'[c]) \in Spans
      BY <3>1, <3>4, SinceFacts
    <3>7. Since(win'[c]) = 0 \/ Since(win'[c]) = Since(w) \/ Since(win'[c]) = Since(w) + 1
      BY <3>1, <3>2, <3>4, LagFacts DEF Since
    <3>8. recent[c][Since(w)] \in Nat /\ recent'[c][Since(win'[c])] <= recent[c][Since(w)]
      <4>1. recent[c][Since(w)] \in Nat
        BY <1>a, <3>6
      <4>2. Since(win'[c]) = Since(w) => recent'[c][Since(win'[c])] <= recent[c][Since(w)]
        BY <1>2, <3>6
      <4>3. Since(win'[c]) = 0 => recent'[c][Since(win'[c])] = 0
        BY <1>1, LagFacts
      <4>4. Since(win'[c]) = Since(w) + 1
              => recent'[c][Since(win'[c])] = recent[c][Since(w)]
        <5>1. Since(win'[c]) = Since(w) + 1
                => Since(win'[c]) # 0 /\ Since(win'[c]) - 1 = Since(w)
          BY <3>6, LagFacts DEF Spans
        <5>. QED
          BY <1>1, <3>6, <5>1
      <4>. QED
        BY <3>7, <4>1, <4>2, <4>3, <4>4
    <3>9. Fits(w, recent[c])
      BY <1>a, <2>3, <3>1 DEF WindowInv
    <3>10. recent'[c][Since(win'[c])] \in Nat /\ Admitted(w.n) \in Nat
      BY <1>1, <3>1, <3>6, AdmittedFacts
    <3>11. Fits(win'[c], recent'[c])
      BY <2>a, <3>4, <3>8, <3>9, <3>10, LagFacts DEF Fits
    <3>. QED
      BY <3>4, <3>5, <3>11, NoWindowAssumption
  <2>. QED
    BY <2>1, <2>2, <2>3
<1>6. TypeOK'
  <2>1. win' = [c \in Clients |-> Age(win[c])]
    BY DEF Tick
  <2>2. win' \in [Clients -> Windows \cup {None}]
    BY <1>5, <2>1
  <2>. QED
    BY <1>a, <1>1, <1>4, <1>5, <2>2 DEF TypeOK
<1>7. WindowInv'
  BY <1>a, <1>5 DEF WindowInv, Fits, Since
<1>. QED
  BY <1>3, <1>4, <1>6, <1>7 DEF IInv

----------------------------------------------------------------------------
(* Theorems *)

LEMMA InitInv == Init => IInv
<1>. SUFFICES ASSUME Init PROVE IInv
  OBVIOUS
<1>1. \A c \in Clients : \A d \in Spans : recent[c][d] = 0
  BY DEF Init
<1>2. \A c \in Clients : win[c] = None
  BY DEF Init
<1>3. TypeOK
  <2>1. recent \in [Clients -> [Spans -> Nat]]
    BY DEF Init
  <2>2. backend \in Backends /\ win \in [Clients -> Windows \cup {None}]
        /\ call \in [Requests -> Calls \cup {None}]
    BY DEF Init
  <2>. QED
    BY <1>2, <2>1, <2>2 DEF TypeOK
<1>4. RecentInv /\ CallInv
  <2>1. \A c \in Clients : recent[c][0] = 0
    BY <1>1, LagFacts
  <2>2. \A c \in Clients : \A d, e \in Spans : recent[c][d] <= recent[c][e]
    BY <1>1
  <2>3. \A r \in Requests : call[r] = None
    BY DEF Init
  <2>. QED
    BY <2>1, <2>2, <2>3 DEF RecentInv, CallInv
<1>5. WindowInv
  <2>1. \A c \in Clients : recent[c][Window - Lag] = 0
    BY <1>1, LagFacts
  <2>2. \A c \in Clients : recent[c][Window - Lag] <= Limit
    <3>1. 0 <= Limit
      BY LagFacts
    <3>. QED
      BY <2>1, <3>1, Zenon
  <2>. QED
    BY <1>2, <2>2, Zenon DEF WindowInv
<1>. QED
  BY <1>3, <1>4, <1>5 DEF IInv

LEMMA StepInv == IInv /\ [Next]_vars => IInv'
<1>. SUFFICES ASSUME IInv, [Next]_vars PROVE IInv'
  OBVIOUS
<1>1. CASE UNCHANGED vars
  BY <1>1 DEF vars, IInv, TypeOK, CallInv, RecentInv, WindowInv, Fits, Since, Lag
<1>. QED
  BY <1>1, TickStep, RedisStep, NowStep, MemoryStep DEF Next

\* The inductive invariant: the admissions a client can still be held to account for
\* fit its window and the one before it.
THEOREM Invariance == Spec => []IInv
  BY InitInv, StepInv, PTL DEF Spec

\* Every counter has an expiry at most a window away, with either store.
THEOREM TypeCorrect == Spec => []TypeOK
<1>1. IInv => TypeOK
  BY DEF IInv
<1>. QED
  BY <1>1, Invariance, PTL

\* No Window of time (less the lag of the memory store's clock) sees more than twice
\* Limit admissions of a client, however its calls interleave and whatever prunes its
\* window.
THEOREM AdmissionsLimited == Spec => []AdmissionsBounded
<1>1. ASSUME IInv PROVE AdmissionsBounded
  <2>. SUFFICES ASSUME NEW c \in Clients PROVE recent[c][Window - Lag] <= 2 * Limit
    BY DEF AdmissionsBounded
  <2>1. recent[c][Window - Lag] \in Nat
    BY <1>1, LagFacts DEF IInv, TypeOK
  <2>2. CASE win[c] = None
    BY <1>1, <2>1, <2>2, LagFacts DEF IInv, WindowInv
  <2>3. CASE win[c] # None
    <3>1. recent[c][Window - Lag] <= Limit + Admitted(win[c].n) /\ win[c].n \in Nat
      BY <1>1, <2>3, LagFacts DEF IInv, WindowInv, Fits, TypeOK, Windows
    <3>. QED
      BY <2>1, <3>1, LagFacts, AdmittedFacts
  <2>. QED
    BY <2>2, <2>3
<1>. QED
  BY <1>1, Invariance, PTL

============================================================================
