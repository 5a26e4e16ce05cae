----------------------------- MODULE RateLimit -----------------------------
(***************************************************************************)
(* The per-client fixed-window rate limiter                                *)
(* (pkg/middleware/rate_limit.go) with either of its counter stores.       *)
(*                                                                         *)
(* Time is relative: a window knows the ticks left until its reset, a      *)
(* request the ticks since it called time.Now(): the model needs no bound  *)
(* on the clock.  The in-memory store samples the time before it takes its *)
(* mutex, so a request may act on a time that is up to MaxLag old.         *)
(*                                                                         *)
(* RATE_LIMIT_WINDOW is taken to be a whole number of milliseconds: the    *)
(* Redis store passes window.Milliseconds() (at least 1) to PEXPIRE, which *)
(* for another window is a shorter one, so that a window of time may meet  *)
(* more than two counters.  Redis is taken to keep its counters; one that  *)
(* loses them begins new windows.                                          *)
(***************************************************************************)
EXTENDS Integers

CONSTANTS
    Clients,    \* ClientIP() of the callers
    Requests,   \* concurrent calls of the memory store's Allow
    Backends,   \* the values of RATE_LIMIT_BACKEND considered
    Limit,      \* RATE_LIMIT_REQUESTS
    Window,     \* RATE_LIMIT_WINDOW, in clock ticks
    MaxLag,     \* longest time from time.Now() to the mutex, in clock ticks
    None        \* no window, no request

ASSUME RateLimitAssumption ==
    /\ Limit \in Nat \ {0} /\ Window \in Nat \ {0}
    /\ Backends \subseteq {"redis", "memory"}
    /\ MaxLag \in 0 .. Window - 1

\* Counts above Limit are alike to the code, and kept as one; a window that is over is
\* kept for a caller whose time is older.
Windows == [n : 1 .. Limit + 1, left : -MaxLag .. Window]

ASSUME NoWindowAssumption == None \notin Windows

VARIABLES
    backend,    \* the store the process was started with
    win,        \* each client's counter: hits n, ticks left until its reset
    call,       \* memory store: calls of Allow between time.Now() and the mutex
    recent      \* history: how many requests were admitted in the last d ticks, for each d

vars == <<backend, win, call, recent>>

\* How old a call's now may be: Redis counts by its own clock.
Lag == IF backend = "redis" THEN 0 ELSE MaxLag

Spans == 0 .. Window
Calls == [client : Clients, lag : 0 .. MaxLag]

\* A new counter, opened lag ticks after its caller looked at the clock.
Open_NoExpiry(lag) == [n |-> 0, left |-> None]
Open(lag) == [n |-> 0, left |-> Window - lag]

\* One more hit.
Hit_Extends(w) == [n |-> IF w.n > Limit THEN w.n ELSE w.n + 1, left |-> Window]
Hit(w) == [w EXCEPT !.n = IF @ > Limit THEN @ ELSE @ + 1]

Allowed_OneMore(n) == n <= Limit + 1
Allowed(n) == n <= Limit

\* !now.Before(w.reset), for a caller whose now is lag ticks old.
Over(w, lag) == w.left + lag <= 0

Init ==
    /\ backend \in Backends
    /\ win = [c \in Clients |-> None]
    /\ call = [r \in Requests |-> None]
    /\ recent = [c \in Clients |-> [d \in Spans |-> 0]]

\* The middleware lets the request through if the count is within the limit and
\* no error (ok = FALSE) came instead of it; otherwise the answer is 429 or 503.
Respond(c, n, ok) ==
    recent' = IF ok /\ Allowed(n)
              THEN [recent EXCEPT ![c] = [d \in Spans |-> IF d = 0 THEN 0 ELSE @[d] + 1]]
              ELSE recent

\* Redis runs INCR, and PEXPIRE if the key is new, as one script.  The result may
\* be lost on its way back: a script that the client then sends again is two of these
\* steps, the first with ok = FALSE.  (One that never ran changes nothing: 503.)
RedisAllow(c, ok) ==
    /\ backend = "redis"
    /\ LET w == Hit(IF win[c] = None THEN Open(0) ELSE win[c]) IN
       /\ win' = [win EXCEPT ![c] = w]
       /\ Respond(c, w.n, ok)
    /\ UNCHANGED <<backend, call>>

\* The memory store: now := time.Now() ...
MemoryNow(r, c) ==
    /\ backend = "memory"
    /\ call[r] = None
    /\ call' = [call EXCEPT ![r] = [client |-> c, lag |-> 0]]
    /\ UNCHANGED <<backend, win, recent>>

\* ... and, under the mutex, prune every window that is over, then count.
MemoryAllow(r) ==
    /\ call[r] # None
    /\ LET c    == call[r].client
           lag  == call[r].lag
           kept == [d \in Clients |->
                      IF win[d] # None /\ Over(win[d], lag) THEN None ELSE win[d]]
           w    == Hit(IF kept[c] = None THEN Open(lag) ELSE kept[c])
       IN /\ win' = [kept EXCEPT ![c] = w]
          /\ Respond(c, w.n, TRUE)
    /\ call' = [call EXCEPT ![r] = None]
    /\ UNCHANGED backend

\* Time passes.  Redis drops a key at its expiry; the memory store keeps a window
\* that is over until someone prunes it (how long it has been over matters up to
\* MaxLag).
Age(w) ==
    IF w = None \/ (backend = "redis" /\ w.left = 1) THEN None
    ELSE [w EXCEPT !.left = IF @ > -Lag THEN @ - 1 ELSE @]

Tick ==
    /\ \A r \in Requests : call[r] # None => call[r].lag < Lag
    /\ win' = [c \in Clients |-> Age(win[c])]
    /\ call' = [r \in Requests |->
                  IF call[r] = None THEN None ELSE [call[r] EXCEPT !.lag = @ + 1]]
    /\ recent' = [c \in Clients |->
                    [d \in Spans |-> IF d = 0 THEN 0 ELSE recent[c][d - 1]]]
    /\ UNCHANGED backend

Next ==
    \/ Tick
    \/ \E c \in Clients, ok \in BOOLEAN : RedisAllow(c, ok)
    \/ \E r \in Requests, c \in Clients : MemoryNow(r, c)
    \/ \E r \in Requests : MemoryAllow(r)

Spec == Init /\ [][Next]_vars

\* Time does not stop, and a goroutine that asks for the mutex gets it.
FairSpec == Spec /\ WF_vars(Tick) /\ \A r \in Requests : WF_vars(MemoryAllow(r))

----------------------------------------------------------------------------
(* Properties *)

\* Type invariant: every counter has an expiry, at most a window away.
TypeOK ==
    /\ backend \in Backends
    /\ win \in [Clients -> Windows \cup {None}]
    /\ \A c \in Clients : win[c] # None => win[c].left >= -Lag
    /\ call \in [Requests -> Calls \cup {None}]
    /\ recent \in [Clients -> [Spans -> Nat]]

\* "Requests is the maximum number of requests allowed per client per Window" of a
\* fixed window: any Window of time meets two of them, so it sees at most twice
\* Limit admissions; with the memory store this is so for Window less the time a
\* call may take to get from time.Now() to the mutex, and with Redis for windows of
\* whole milliseconds and counters that are not lost.
AdmissionsBounded == \A c \in Clients : recent[c][Window - Lag] <= 2 * Limit

\* Every window ends, also that of a client that goes on sending requests: no
\* counter is left without an expiry and refused requests do not extend it.
WindowsEnd ==
    \A c \in Clients : []<>(win[c] = None \/ win[c].left <= 0)

============================================================================
