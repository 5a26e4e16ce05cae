--------------------------- MODULE EventConsumer ---------------------------
(***************************************************************************)
(* Events from the API to a consumer group: the producer                   *)
(* (pkg/events/kafka/producer.go) appends envelopes to a partition of the  *)
(* books topic, and the processes of examples/kafka-consumer fetch, handle *)
(* and commit them.                                                        *)
(*                                                                         *)
(* The broker and the group coordinator are external: a partition belongs  *)
(* to one member of the group at a time, a member that gets it starts at   *)
(* the committed offset, and a commit by a member that has lost it is      *)
(* refused.  The set of ids a process has handled is in its memory and is  *)
(* gone after a restart.  Offsets start at 1.                              *)
(***************************************************************************)
EXTENDS Naturals, Sequences, FiniteSets

CONSTANTS
    Consumers,      \* processes of the consumer group
    MaxEvents,      \* bound of the model: events published
    MaxCopies,      \* bound of the model: times one Publish may write its message
    MaxRestarts,    \* bound of the model: crashes and stops
    MaxRebalances,  \* bound of the model: times a member loses the partition
    MaxFailures,    \* bound of the model: failed fetches, handlings and commits
    None

ASSUME ConsumerBoundsAssumption ==
    /\ IsFiniteSet(Consumers) /\ MaxEvents \in Nat /\ MaxCopies \in Nat
    /\ MaxRestarts \in Nat /\ MaxRebalances \in Nat /\ MaxFailures \in Nat
ASSUME NilAssumption == None \notin Consumers

VARIABLES
    topic,      \* the partition: the envelope id at each offset
    published,  \* calls of Publish so far; the envelope ids are 1, 2, ...
    committed,  \* the group's offset: the first one not committed
    member,     \* the process the partition belongs to, None during a rebalance
    \* the locals of each process
    pc,         \* where its loop is
    pos,        \* the offset FetchMessage returns next
    msg,        \* the offset of the message in hand
    seen,       \* ids handled in this life of the process
    \* history, read by the properties only
    times,      \* how often the work of each event has been done
    failed,     \* offsets whose handling has returned an error
    restarts, rebalances, failures

group   == <<committed, member>>
locals  == <<pc, pos, msg, seen>>
counts  == <<restarts, rebalances, failures>>
vars    == <<topic, published, committed, member, pc, pos, msg, seen, times,
             failed, restarts, rebalances, failures>>

Ids == 1 .. MaxEvents
Bad == 0        \* a message json.Unmarshal rejects

Malformed(c) == topic[msg[c]] = Bad

\* Where handle leaves the message: committed past, or fetched past after an error.
AfterMalformed_Retry == "handle"
AfterMalformed == "commit"

\* The ids known after the work was tried: marked only if it succeeded.
Mark_Before(c, ok) == seen[c] \cup {topic[msg[c]]}
Mark(c, ok) == IF ok THEN seen[c] \cup {topic[msg[c]]} ELSE seen[c]

Duplicate_Never(c) == FALSE
Duplicate(c) == topic[msg[c]] \in seen[c]

\* The offset CommitMessages sends for the message at offset o.
CommitOf_Next(o) == o + 2
CommitOf(o) == o + 1

----------------------------------------------------------------------------
Init ==
    /\ topic = <<>> /\ published = 0
    /\ committed = 1 /\ member = None
    /\ pc = [c \in Consumers |-> "fetch"]
    /\ pos = [c \in Consumers |-> 1]
    /\ msg = [c \in Consumers |-> 0]
    /\ seen = [c \in Consumers |-> {}]
    /\ times = [i \in Ids |-> 0]
    /\ failed = {}
    /\ restarts = 0 /\ rebalances = 0 /\ failures = 0

\* Publish: an envelope with a new id, written, or written again by the writer's
\* retries.  (One that is lost is none of the consumer's business.)
Publish(copies) ==
    /\ published < MaxEvents
    /\ published' = published + 1
    /\ topic' = topic \o [k \in 1 .. copies |-> published + 1]
    /\ UNCHANGED <<group, locals, times, failed, counts>>

\* Somebody else writes something that is not an envelope.
Garbage ==
    /\ \A o \in DOMAIN topic : topic[o] # Bad
    /\ topic' = Append(topic, Bad)
    /\ UNCHANGED <<published, group, locals, times, failed, counts>>

----------------------------------------------------------------------------
(* The loop of a consumer *)

TakeNext(c) ==
    /\ pc[c] = "fetch"
    /\ member = c
    /\ pos[c] \in DOMAIN topic
    /\ msg' = [msg EXCEPT ![c] = pos[c]]
    /\ pos' = [pos EXCEPT ![c] = @ + 1]
    /\ pc' = [pc EXCEPT ![c] = "handle"]
    /\ UNCHANGED <<topic, published, member, seen, times, failed, counts>>

\* FetchMessage: the next message of the partition, nothing committed.
Fetch_ReadMessage(c) == TakeNext(c) /\ committed' = pos[c] + 1
Fetch(c) == TakeNext(c) /\ UNCHANGED committed

\* A malformed message or a known id: nothing is done, and it is committed.
HandleSkip(c) ==
    /\ pc[c] = "handle"
    /\ Malformed(c) \/ Duplicate(c)
    /\ pc' = [pc EXCEPT ![c] = IF Malformed(c) THEN AfterMalformed ELSE "commit"]
    /\ UNCHANGED <<topic, published, group, pos, msg, seen, times, failed, counts>>

\* The work, and the mark after it.  If the work fails the loop goes on with the
\* next message: this one is not committed, but nothing seeks back to it.
\* (The work of the example is a line in its log, and cannot fail; the loop is
\* written for work that can.)
HandleWork(c, ok) ==
    /\ pc[c] = "handle"
    /\ ~Malformed(c) /\ ~Duplicate(c)
    /\ ~ok => failures < MaxFailures
    /\ seen' = [seen EXCEPT ![c] = Mark(c, ok)]
    /\ times' = IF ok THEN [times EXCEPT ![topic[msg[c]]] = @ + 1] ELSE times
    /\ failed' = IF ok THEN failed ELSE failed \cup {msg[c]}
    /\ failures' = IF ok THEN failures ELSE failures + 1
    /\ pc' = [pc EXCEPT ![c] = IF ok THEN "commit" ELSE "fetch"]
    /\ UNCHANGED <<topic, published, group, pos, msg, restarts, rebalances>>

\* CommitMessages; an error is logged, and one comes back for sure if the
\* partition belongs to another member by now.
Commit(c, ok) ==
    /\ pc[c] = "commit"
    /\ IF ok THEN member = c ELSE member # c \/ failures < MaxFailures
    /\ committed' = IF ok THEN CommitOf(msg[c]) ELSE committed
    /\ failures' = IF ~ok /\ member = c THEN failures + 1 ELSE failures
    /\ pc' = [pc EXCEPT ![c] = "fetch"]
    /\ UNCHANGED <<topic, published, member, pos, msg, seen, times, failed,
                   restarts, rebalances>>

----------------------------------------------------------------------------
(* Environment *)

\* A process is killed anywhere in its loop, or told to stop; its memory is lost.
Crash(c) ==
    /\ pc[c] # "down"
    /\ restarts < MaxRestarts
    /\ restarts' = restarts + 1
    /\ pc' = [pc EXCEPT ![c] = "down"]
    /\ seen' = [seen EXCEPT ![c] = {}]
    /\ member' = IF member = c THEN None ELSE member
    /\ UNCHANGED <<topic, published, committed, pos, msg, times, failed,
                   rebalances, failures>>

\* main again.
Start(c) ==
    /\ pc[c] = "down"
    /\ pc' = [pc EXCEPT ![c] = "fetch"]
    /\ UNCHANGED <<topic, published, group, pos, msg, seen, times, failed, counts>>

\* The coordinator takes the partition away from a member that is still running.
Rebalance ==
    /\ member # None
    /\ rebalances < MaxRebalances
    /\ rebalances' = rebalances + 1
    /\ member' = None
    /\ UNCHANGED <<topic, published, committed, locals, times, failed, restarts, failures>>

\* A member gets the partition and starts at the committed offset.
Assign(c) ==
    /\ member = None
    /\ pc[c] # "down"
    /\ member' = c
    /\ pos' = [pos EXCEPT ![c] = committed]
    /\ UNCHANGED <<topic, published, committed, pc, msg, seen, times, failed, counts>>

Step(c) ==
    \/ Fetch(c)
    \/ HandleSkip(c)
    \/ \E ok \in BOOLEAN : HandleWork(c, ok) \/ Commit(c, ok)

Next ==
    \/ \E copies \in 1 .. MaxCopies : Publish(copies)
    \/ Garbage
    \/ \E c \in Consumers : Step(c) \/ Crash(c) \/ Start(c) \/ Assign(c)
    \/ Rebalance

Spec == Init /\ [][Next]_vars

\* The loop keeps running, the coordinator keeps assigning the partition and a
\* process that died is started again.  Crashes, rebalances and failures come to
\* an end by their bounds.
Fairness ==
    /\ \A c \in Consumers : WF_vars(Step(c)) /\ WF_vars(Start(c))
    /\ WF_vars(\E c \in Consumers : Assign(c))

FairSpec == Spec /\ Fairness

----------------------------------------------------------------------------
(* Properties *)

\* Type invariant: the shape of the partition and of the processes' locals.
TypeOK ==
    /\ topic \in Seq(Ids \cup {Bad})
    /\ published \in 0 .. MaxEvents
    /\ committed \in 1 .. Len(topic) + 1
    /\ member \in Consumers \cup {None}
    /\ pc \in [Consumers -> {"fetch", "handle", "commit", "down"}]
    /\ pos \in [Consumers -> 1 .. Len(topic) + 1]
    /\ msg \in [Consumers -> 0 .. Len(topic)]
    /\ seen \in [Consumers -> SUBSET Ids]
    /\ times \in [Ids -> Nat]
    /\ failed \subseteq DOMAIN topic
    /\ restarts \in 0 .. MaxRestarts
    /\ rebalances \in 0 .. MaxRebalances
    /\ failures \in 0 .. MaxFailures

\* At least once: whatever crashes, rebalances and lost commits happen, the group
\* never has an event behind its offset whose work was not done, except one whose
\* handling returned an error and that a later commit of the same loop passed.
NothingLostBehindTheOffset ==
    \A o \in 1 .. committed - 1 :
        topic[o] # Bad => times[topic[o]] > 0 \/ o \in failed

\* Copies in the topic and redeliveries repeat the work of an event only across
\* the memories of different processes: at most once per life of a process.
RepeatsBounded == \A i \in Ids : times[i] <= Cardinality(Consumers) + restarts

\* Every event that reached the topic is handled, or its handling fails; neither a
\* malformed message nor copies nor a failed commit stop the loop.
EveryEventHandled ==
    \A i \in Ids : (\E o \in DOMAIN topic : topic[o] = i)
        ~> (times[i] > 0 \/ \E o \in failed : topic[o] = i)

============================================================================
