------------------------ MODULE EventConsumerProofs ------------------------
(***************************************************************************)
(* Theorems about EventConsumer, for any group, any number of events and   *)
(* copies, and any number of crashes, rebalances and failures.             *)
(***************************************************************************)
EXTENDS EventConsumer, FiniteSetTheorems, SequenceTheorems, TLAPS

InHand(c) == pc[c] \in {"handle", "commit"}

\* The message at the offset o needs nothing more.
Settled(o) == topic[o] # Bad => times[topic[o]] > 0 \/ o \in failed

\* A known id was handled.
SeenInv == \A c \in Consumers : \A i \in seen[c] : times[i] > 0

\* A loop settles a message before it takes the next one, and what was settled when
\* it took the message in hand stays so, whoever the partition belongs to by then.
\* The member's position has nothing behind it but the message it is handling.
Loop(c) ==
    /\ InHand(c) => msg[c] \in 1 .. Len(topic) /\ \A o \in 1 .. msg[c] - 1 : Settled(o)
    /\ pc[c] = "commit" => Settled(msg[c])
    /\ member = c => \A o \in 1 .. pos[c] - 1 :
                        Settled(o) \/ (pc[c] = "handle" /\ o = msg[c])
LoopInv == \A c \in Consumers : Loop(c)

\* Each life of a process did the work of an event once: those that remember it,
\* and those that ended.
Knowing(i) == {c \in Consumers : i \in seen[c]}
RepeatsInv == \A i \in Ids : times[i] <= Cardinality(Knowing(i)) + restarts

IInv ==
    /\ TypeOK
    /\ SeenInv
    /\ LoopInv
    /\ NothingLostBehindTheOffset
    /\ RepeatsInv

----------------------------------------------------------------------------
(* What is settled stays settled *)

\* The partition, the work done and the errors only grow.
Grows ==
    /\ topic' \in Seq(Ids \cup {Bad})
    /\ Len(topic) <= Len(topic')
    /\ \A o \in 1 .. Len(topic) : topic'[o] = topic[o]
    /\ \A i \in Ids : times[i] > 0 => times'[i] > 0
    /\ failed \subseteq failed'

LEMMA Numbers ==
    ASSUME TypeOK
    PROVE  /\ topic \in Seq(Ids \cup {Bad}) /\ Len(topic) \in Nat
           /\ DOMAIN topic = 1 .. Len(topic)
           /\ committed \in Nat /\ committed <= Len(topic) + 1
           /\ \A c \in Consumers : /\ pos[c] \in Nat /\ pos[c] <= Len(topic) + 1
                                   /\ msg[c] \in Nat /\ msg[c] <= Len(topic)
           /\ \A o \in 1 .. Len(topic) : topic[o] \in Ids \cup {Bad}
           /\ \A i \in Ids : times[i] \in Nat
<1>1. topic \in Seq(Ids \cup {Bad})
  BY DEF TypeOK
<1>2. Len(topic) \in Nat /\ DOMAIN topic = 1 .. Len(topic)
  BY <1>1, LenProperties
<1>3. \A o \in 1 .. Len(topic) : topic[o] \in Ids \cup {Bad}
  BY <1>1, ElementOfSeq
<1>. QED
  BY <1>1, <1>2, <1>3 DEF TypeOK

\* Writing to the partition appends to it.
LEMMA TopicGrows ==
    ASSUME TypeOK, (\E copies \in 1 .. MaxCopies : Publish(copies)) \/ Garbage
    PROVE  /\ topic' \in Seq(Ids \cup {Bad})
           /\ Len(topic') \in Nat /\ Len(topic) <= Len(topic')
           /\ \A o \in 1 .. Len(topic) : topic'[o] = topic[o]
<1>a. topic \in Seq(Ids \cup {Bad}) /\ Len(topic) \in Nat
  BY Numbers
<1>1. ASSUME NEW copies \in 1 .. MaxCopies, Publish(copies)
      PROVE  /\ topic' \in Seq(Ids \cup {Bad})
             /\ Len(topic') \in Nat /\ Len(topic) <= Len(topic')
             /\ \A o \in 1 .. Len(topic) : topic'[o] = topic[o]
  <2>. DEFINE new == [k \in 1 .. copies |-> published + 1]
  <2>1. published + 1 \in Ids /\ copies \in Nat
    BY <1>1, ConsumerBoundsAssumption DEF Publish, TypeOK, Ids
  <2>2. new \in [1 .. copies -> Ids \cup {Bad}]
    BY <2>1
  <2>3. new \in Seq(Ids \cup {Bad}) /\ Len(new) = copies
    BY <2>1, <2>2, IsASeq, LenProperties
  <2>. HIDE DEF new
  <2>4. topic' = topic \o new
    BY <1>1 DEF Publish, new
  <2>. QED
    BY <1>a, <2>1, <2>3, <2>4, ConcatProperties
<1>2. CASE Garbage
  <2>1. topic' = Append(topic, Bad) /\ Bad \in Ids \cup {Bad}
    BY <1>2 DEF Garbage
  <2>. QED
    BY <1>a, <2>1, AppendProperties
<1>. QED
  BY <1>1, <1>2

\* The message in hand is one of the partition, and it is an event unless malformed.
LEMMA MessageInHand ==
    ASSUME TypeOK, LoopInv, NEW c \in Consumers, InHand(c)
    PROVE  /\ msg[c] \in 1 .. Len(topic) /\ msg[c] \in Nat
           /\ ~Malformed(c) => topic[msg[c]] \in Ids
<1>1. msg[c] \in 1 .. Len(topic)
  BY DEF LoopInv, Loop
<1>. QED
  BY <1>1, Numbers DEF Malformed

LEMMA GrowsStep ==
    ASSUME IInv, [Next]_vars
    PROVE  Grows
<1>a. TypeOK /\ topic \in Seq(Ids \cup {Bad}) /\ Len(topic) \in Nat
      /\ \A i \in Ids : times[i] \in Nat
  BY Numbers DEF IInv
<1>1. CASE (\E copies \in 1 .. MaxCopies : Publish(copies)) \/ Garbage
  <2>1. times' = times /\ failed' = failed
    BY <1>1 DEF Publish, Garbage
  <2>. QED
    BY <1>a, <1>1, <2>1, TopicGrows DEF Grows
<1>2. ASSUME NEW c \in Consumers, NEW ok \in BOOLEAN, HandleWork(c, ok)
      PROVE  Grows
  <2>1. topic[msg[c]] \in Ids
    BY <1>a, <1>2, MessageInHand DEF IInv, HandleWork, InHand
  <2>2. \A i \in Ids : times[i] > 0 => times'[i] > 0
    BY <1>a, <1>2, <2>1 DEF HandleWork, TypeOK
  <2>. QED
    BY <1>a, <1>2, <2>2 DEF HandleWork, Grows
<1>3. CASE UNCHANGED <<topic, times, failed>>
  BY <1>a, <1>3 DEF Grows
<1>. QED
  BY <1>1, <1>2, <1>3 DEF Next, Step, Fetch, TakeNext, HandleSkip, Commit, Crash, Start,
     Assign, Rebalance, vars

LEMMA SettledStays ==
    ASSUME TypeOK, Grows, NEW o \in 1 .. Len(topic), Settled(o)
    PROVE  Settled(o)'
<1>1. topic[o] \in Ids \cup {Bad} /\ topic'[o] = topic[o]
  BY Numbers DEF Grows
<1>. QED
  BY <1>1 DEF Settled, Grows

----------------------------------------------------------------------------
(* Each step preserves the invariant *)

LEMMA TypeStep ==
    ASSUME IInv, [Next]_vars
    PROVE  TypeOK'
<1>a. TypeOK /\ LoopInv
  BY DEF IInv
<1>b. /\ topic \in Seq(Ids \cup {Bad}) /\ Len(topic) \in Nat /\ DOMAIN topic = 1 .. Len(topic)
      /\ \A i \in Ids : times[i] \in Nat
  BY <1>a, Numbers
\* A longer partition has room for the old offsets.
<1>c. ASSUME (\E copies \in 1 .. MaxCopies : Publish(copies)) \/ Garbage
      PROVE  /\ topic' \in Seq(Ids \cup {Bad})
             /\ committed \in 1 .. Len(topic') + 1
             /\ pos \in [Consumers -> 1 .. Len(topic') + 1]
             /\ msg \in [Consumers -> 0 .. Len(topic')]
             /\ failed \subseteq DOMAIN topic'
  <2>1. topic' \in Seq(Ids \cup {Bad}) /\ Len(topic') \in Nat /\ Len(topic) <= Len(topic')
    BY <1>a, <1>c, TopicGrows
  <2>2. DOMAIN topic' = 1 .. Len(topic')
    BY <2>1, LenProperties
  <2>3. /\ 1 .. Len(topic) + 1 \subseteq 1 .. Len(topic') + 1
        /\ 0 .. Len(topic) \subseteq 0 .. Len(topic')
        /\ 1 .. Len(topic) \subseteq 1 .. Len(topic')
    BY <1>b, <2>1
  <2>. QED
    BY <1>a, <1>b, <2>1, <2>2, <2>3 DEF TypeOK
<1>1. ASSUME NEW copies \in 1 .. MaxCopies, Publish(copies)
      PROVE  TypeOK'
  <2>1. published' \in 0 .. MaxEvents
    BY <1>a, <1>1, ConsumerBoundsAssumption DEF Publish, TypeOK
  <2>. QED
    BY <1>a, <1>c, <1>1, <2>1 DEF Publish, TypeOK, group, locals, counts
<1>2. CASE Garbage
  BY <1>a, <1>c, <1>2 DEF Garbage, TypeOK, group, locals, counts
<1>3. ASSUME NEW c \in Consumers, Fetch(c)
      PROVE  TypeOK'
  BY <1>a, <1>b, <1>3 DEF Fetch, TakeNext, TypeOK, group, locals, counts
<1>4. ASSUME NEW c \in Consumers, HandleSkip(c)
      PROVE  TypeOK'
  BY <1>a, <1>b, <1>4 DEF HandleSkip, AfterMalformed, TypeOK, group, locals, counts
<1>5. ASSUME NEW c \in Consumers, NEW ok \in BOOLEAN, HandleWork(c, ok)
      PROVE  TypeOK'
  <2>1. topic[msg[c]] \in Ids /\ msg[c] \in DOMAIN topic
    BY <1>a, <1>b, <1>5, MessageInHand DEF HandleWork, InHand
  <2>2. times' \in [Ids -> Nat]
    BY <1>a, <1>b, <2>1, <1>5 DEF HandleWork, TypeOK
  <2>3. failures' \in 0 .. MaxFailures
    BY <1>a, <1>5, ConsumerBoundsAssumption DEF HandleWork, TypeOK
  <2>. QED
    BY <1>a, <1>5, <2>1, <2>2, <2>3 DEF HandleWork, Mark, TypeOK, group
<1>6. ASSUME NEW c \in Consumers, NEW ok \in BOOLEAN, Commit(c, ok)
      PROVE  TypeOK'
  <2>1. msg[c] + 1 \in 1 .. Len(topic) + 1
    BY <1>a, <1>b, <1>6, MessageInHand DEF Commit, InHand
  <2>2. failures' \in 0 .. MaxFailures
    BY <1>a, <1>6, ConsumerBoundsAssumption DEF Commit, TypeOK
  <2>. QED
    BY <1>a, <1>6, <2>1, <2>2 DEF Commit, CommitOf, TypeOK
<1>7. ASSUME NEW c \in Consumers, Crash(c)
      PROVE  TypeOK'
  BY <1>a, <1>b, <1>7, ConsumerBoundsAssumption DEF Crash, TypeOK
<1>8. ASSUME NEW c \in Consumers, Start(c)
      PROVE  TypeOK'
  BY <1>a, <1>b, <1>8 DEF Start, TypeOK, group, locals, counts
<1>9. ASSUME NEW c \in Consumers, Assign(c)
      PROVE  TypeOK'
  BY <1>a, <1>b, <1>9 DEF Assign, TypeOK, group, locals, counts
<1>10. CASE Rebalance
  BY <1>a, <1>b, <1>10, ConsumerBoundsAssumption DEF Rebalance, TypeOK, locals
<1>11. CASE UNCHANGED vars
  BY <1>a, <1>b, <1>11 DEF vars, TypeOK, group, locals, counts
<1>. QED
  BY <1>1, <1>2, <1>3, <1>4, <1>5, <1>6, <1>7, <1>8, <1>9, <1>10, <1>11 DEF Next, Step

LEMMA SeenStep ==
    ASSUME IInv, [Next]_vars
    PROVE  SeenInv'
<1>a. TypeOK /\ SeenInv /\ LoopInv
  BY DEF IInv
<1>b. \A c \in Consumers : seen[c] \subseteq Ids
  BY <1>a DEF TypeOK
<1>c. \A i \in Ids : times[i] > 0 => times'[i] > 0
  BY GrowsStep DEF Grows
<1>d. ASSUME \A c \in Consumers : seen'[c] \subseteq seen[c]
      PROVE  SeenInv'
  BY <1>a, <1>b, <1>c, <1>d DEF SeenInv
<1>1. ASSUME NEW copies \in 1 .. MaxCopies, Publish(copies)
      PROVE  SeenInv'
  BY <1>d, <1>1 DEF Publish, locals
<1>2. CASE Garbage
  BY <1>d, <1>2 DEF Garbage, locals
<1>3. ASSUME NEW c \in Consumers, Fetch(c)
      PROVE  SeenInv'
  BY <1>d, <1>3 DEF Fetch, TakeNext, locals
<1>4. ASSUME NEW c \in Consumers, HandleSkip(c)
      PROVE  SeenInv'
  BY <1>d, <1>4 DEF HandleSkip, AfterMalformed, locals
<1>5. ASSUME NEW c \in Consumers, NEW ok \in BOOLEAN, HandleWork(c, ok)
      PROVE  SeenInv'
  <2>1. topic[msg[c]] \in Ids
    BY <1>a, <1>5, MessageInHand DEF HandleWork, InHand
  <2>2. ok => times'[topic[msg[c]]] > 0
    BY <1>a, <1>5, <2>1 DEF HandleWork, TypeOK
  <2>3. \A d \in Consumers : \A i \in seen'[d] : i \in seen[d] \/ (ok /\ i = topic[msg[c]])
    BY <1>a, <1>5 DEF HandleWork, Mark, TypeOK
  <2>. QED
    BY <1>a, <1>b, <1>c, <2>2, <2>3 DEF SeenInv
<1>6. ASSUME NEW c \in Consumers, NEW ok \in BOOLEAN, Commit(c, ok)
      PROVE  SeenInv'
  BY <1>d, <1>6 DEF Commit, CommitOf, locals
<1>7. ASSUME NEW c \in Consumers, Crash(c)
      PROVE  SeenInv'
  BY <1>a, <1>d, <1>7 DEF Crash, TypeOK
<1>8. ASSUME NEW c \in Consumers, Start(c)
      PROVE  SeenInv'
  BY <1>d, <1>8 DEF Start, locals
<1>9. ASSUME NEW c \in Consumers, Assign(c)
      PROVE  SeenInv'
  BY <1>d, <1>9 DEF Assign, locals
<1>10. CASE Rebalance
  BY <1>d, <1>10 DEF Rebalance, locals
<1>11. CASE UNCHANGED vars
  BY <1>d, <1>11 DEF vars, locals
<1>. QED
  BY <1>1, <1>2, <1>3, <1>4, <1>5, <1>6, <1>7, <1>8, <1>9, <1>10, <1>11 DEF Next, Step


\* A step that takes nothing into the hand of d and gives d nothing to commit.
LEMMA LoopStays ==
    ASSUME TypeOK, Grows, NEW d \in Consumers, Loop(d),
           InHand(d)' => InHand(d) /\ msg'[d] = msg[d],
           pc'[d] = "commit" => pc[d] = "commit",
           member' = d => /\ member = d /\ pos'[d] = pos[d]
                          /\ pc[d] = "handle" => pc'[d] = "handle" /\ msg'[d] = msg[d]
    PROVE  Loop(d)'
<1>a. /\ Len(topic) \in Nat /\ Len(topic') \in Nat /\ Len(topic) <= Len(topic')
      /\ msg[d] \in Nat /\ msg[d] <= Len(topic) /\ pos[d] \in Nat /\ pos[d] <= Len(topic) + 1
  BY Numbers, LenProperties DEF Grows
<1>b. \A o \in 1 .. Len(topic) : Settled(o) => Settled(o)'
  BY SettledStays
<1>1. ASSUME InHand(d)'
      PROVE  msg'[d] \in 1 .. Len(topic') /\ \A o \in 1 .. msg'[d] - 1 : Settled(o)'
  BY <1>1, <1>a, <1>b DEF Loop
<1>2. ASSUME pc'[d] = "commit"
      PROVE  Settled(msg[d])'
  <2>1. PICK m \in 1 .. Len(topic) : m = msg[d] /\ msg'[d] = m /\ Settled(m)
    BY <1>2 DEF Loop, InHand
  <2>2. Settled(m)'
    BY <1>b, <2>1
  <2>. QED
    BY <2>1, <2>2 DEF Settled
<1>3. ASSUME member' = d, NEW o \in 1 .. pos'[d] - 1
      PROVE  Settled(o)' \/ (pc'[d] = "handle" /\ o = msg'[d])
  <2>1. o \in 1 .. Len(topic) /\ o \in 1 .. pos[d] - 1
    BY <1>3, <1>a
  <2>. QED
    BY <1>3, <1>b, <2>1 DEF Loop
<1>. QED
  BY <1>1, <1>2, <1>3 DEF Loop

\* The message c has in hand is settled by now: c will commit it or take the next.
LEMMA LoopSettles ==
    ASSUME TypeOK, Grows, NEW c \in Consumers, Loop(c), pc[c] = "handle",
           pc'[c] \in {"fetch", "commit"}, msg'[c] = msg[c], pos'[c] = pos[c],
           member' = member, Settled(msg[c])'
    PROVE  Loop(c)'
<1>a. /\ Len(topic) \in Nat /\ Len(topic') \in Nat /\ Len(topic) <= Len(topic')
      /\ msg[c] \in 1 .. Len(topic) /\ pos[c] \in Nat /\ pos[c] <= Len(topic) + 1
  BY Numbers, LenProperties DEF Grows, Loop, InHand
<1>b. \A o \in 1 .. Len(topic) : Settled(o) => Settled(o)'
  BY SettledStays
<1>1. PICK m \in 1 .. Len(topic) : m = msg[c]
  BY <1>a
<1>2. Settled(m)'
  BY <1>1 DEF Settled
<1>3. \A o \in 1 .. m - 1 : Settled(o)'
  BY <1>1, <1>a, <1>b DEF Loop, InHand
<1>4. ASSUME member' = c, NEW o \in 1 .. pos'[c] - 1
      PROVE  Settled(o)'
  <2>1. o \in 1 .. Len(topic) /\ o \in 1 .. pos[c] - 1
    BY <1>4, <1>a
  <2>. QED
    BY <1>1, <1>2, <1>4, <1>b, <2>1 DEF Loop
<1>. QED
  BY <1>1, <1>2, <1>3, <1>4, <1>a DEF Loop

LEMMA LoopStep ==
    ASSUME IInv, [Next]_vars
    PROVE  LoopInv'
<1>a. TypeOK /\ SeenInv /\ LoopInv /\ Grows
  BY GrowsStep DEF IInv
<1>b. \A d \in Consumers : Loop(d)
  BY <1>a DEF LoopInv
\* The consumers that the step is not about.
<1>c. ASSUME NEW d \in Consumers, pc'[d] = pc[d], msg'[d] = msg[d], pos'[d] = pos[d],
             member' = member \/ member' # d
      PROVE  Loop(d)'
  BY <1>a, <1>b, <1>c, LoopStays DEF InHand
<1>d. member \in Consumers \cup {None} /\ None \notin Consumers
  BY <1>a, NilAssumption DEF TypeOK
<1>1. ASSUME NEW copies \in 1 .. MaxCopies, Publish(copies)
      PROVE  LoopInv'
  BY <1>c, <1>1 DEF Publish, LoopInv, group, locals
<1>2. CASE Garbage
  BY <1>c, <1>2 DEF Garbage, LoopInv, group, locals
<1>3. ASSUME NEW c \in Consumers, Fetch(c)
      PROVE  LoopInv'
  <2>1. \A d \in Consumers \ {c} : Loop(d)'
    BY <1>a, <1>c, <1>3 DEF Fetch, TakeNext, TypeOK
  <2>2. /\ pc'[c] = "handle" /\ msg'[c] = pos[c] /\ pos'[c] = pos[c] + 1
        /\ topic' = topic /\ times' = times /\ failed' = failed
        /\ pc[c] = "fetch" /\ member = c
    BY <1>a, <1>3 DEF Fetch, TakeNext, TypeOK
  <2>3. pos[c] \in 1 .. Len(topic) /\ pos[c] \in Nat
    BY <1>a, <1>3, Numbers DEF Fetch, TakeNext
  <2>4. \A o \in 1 .. pos[c] - 1 : Settled(o)'
    BY <1>b, <2>2 DEF Loop, Settled
  <2>5. \A o \in 1 .. pos'[c] - 1 : o \in 1 .. pos[c] - 1 \/ o = pos[c]
    BY <2>2, <2>3
  <2>6. Loop(c)'
    BY <2>2, <2>3, <2>4, <2>5 DEF Loop
  <2>. QED
    BY <2>1, <2>6 DEF LoopInv
<1>4. ASSUME NEW c \in Consumers, HandleSkip(c)
      PROVE  LoopInv'
  <2>1. \A d \in Consumers \ {c} : Loop(d)'
    BY <1>a, <1>c, <1>4 DEF HandleSkip, TypeOK, group
  <2>2. /\ pc[c] = "handle" /\ pc'[c] = "commit" /\ msg'[c] = msg[c] /\ pos'[c] = pos[c]
        /\ member' = member /\ topic' = topic /\ times' = times
    BY <1>a, <1>4 DEF HandleSkip, AfterMalformed, TypeOK, group
  <2>3. Settled(msg[c])'
    <3>1. topic[msg[c]] = Bad \/ topic[msg[c]] \in seen[c]
      BY <1>4 DEF HandleSkip, Malformed, Duplicate
    <3>. QED
      BY <1>a, <1>4, <2>2, <3>1 DEF Settled, SeenInv, HandleSkip
  <2>4. Loop(c)'
    BY <1>a, <1>b, <2>2, <2>3, LoopSettles
  <2>. QED
    BY <2>1, <2>4 DEF LoopInv
<1>5. ASSUME NEW c \in Consumers, NEW ok \in BOOLEAN, HandleWork(c, ok)
      PROVE  LoopInv'
  <2>1. \A d \in Consumers \ {c} : Loop(d)'
    BY <1>a, <1>c, <1>5 DEF HandleWork, TypeOK, group
  <2>2. /\ pc[c] = "handle" /\ pc'[c] \in {"fetch", "commit"}
        /\ msg' = msg /\ pos'[c] = pos[c]
        /\ member' = member /\ topic' = topic
    BY <1>a, <1>5 DEF HandleWork, TypeOK, group
  <2>3. topic[msg[c]] \in Ids /\ msg[c] \in Nat
    BY <1>a, <1>5, MessageInHand DEF HandleWork, InHand
  <2>4. Settled(msg[c])'
    <3>1. CASE ok
      <4>1. times'[topic[msg[c]]] = times[topic[msg[c]]] + 1 /\ times[topic[msg[c]]] \in Nat
        BY <1>a, <1>5, <2>3, <3>1 DEF HandleWork, TypeOK
      <4>. QED
        BY <2>2, <4>1 DEF Settled
    <3>2. CASE ~ok
      BY <1>5, <2>2, <3>2 DEF HandleWork, Settled
    <3>. QED
      BY <3>1, <3>2
  <2>5. Loop(c)'
    BY <1>a, <1>b, <2>2, <2>4, LoopSettles
  <2>. QED
    BY <2>1, <2>5 DEF LoopInv
<1>6. ASSUME NEW c \in Consumers, NEW ok \in BOOLEAN, Commit(c, ok)
      PROVE  LoopInv'
  <2>1. \A d \in Consumers \ {c} : Loop(d)'
    BY <1>a, <1>c, <1>6 DEF Commit, TypeOK
  <2>2. Loop(c)'
    BY <1>a, <1>b, <1>6, LoopStays DEF Commit, InHand, TypeOK
  <2>. QED
    BY <2>1, <2>2 DEF LoopInv
<1>7. ASSUME NEW c \in Consumers, Crash(c)
      PROVE  LoopInv'
  <2>1. \A d \in Consumers \ {c} : Loop(d)'
    BY <1>a, <1>c, <1>d, <1>7 DEF Crash, TypeOK
  <2>2. Loop(c)'
    BY <1>a, <1>b, <1>d, <1>7, LoopStays DEF Crash, InHand, TypeOK
  <2>. QED
    BY <2>1, <2>2 DEF LoopInv
<1>8. ASSUME NEW c \in Consumers, Start(c)
      PROVE  LoopInv'
  <2>1. \A d \in Consumers \ {c} : Loop(d)'
    BY <1>a, <1>c, <1>8 DEF Start, TypeOK, group
  <2>2. Loop(c)'
    BY <1>a, <1>b, <1>8, LoopStays DEF Start, InHand, TypeOK, group
  <2>. QED
    BY <2>1, <2>2 DEF LoopInv
<1>9. ASSUME NEW c \in Consumers, Assign(c)
      PROVE  LoopInv'
  <2>1. \A d \in Consumers \ {c} : Loop(d)'
    BY <1>a, <1>c, <1>9 DEF Assign, TypeOK
  <2>2. /\ pos'[c] = committed /\ pc' = pc /\ msg' = msg /\ topic' = topic
        /\ times' = times /\ failed' = failed
    BY <1>a, <1>9 DEF Assign, TypeOK
  <2>3. \A o \in 1 .. committed - 1 : Settled(o)'
    BY <2>2 DEF IInv, NothingLostBehindTheOffset, Settled
  <2>4. Loop(c)'
    BY <1>b, <2>2, <2>3 DEF Loop, InHand, Settled
  <2>. QED
    BY <2>1, <2>4 DEF LoopInv
<1>10. CASE Rebalance
  BY <1>c, <1>d, <1>10 DEF Rebalance, LoopInv, locals
<1>11. CASE UNCHANGED vars
  BY <1>c, <1>11 DEF vars, LoopInv
<1>. QED
  BY <1>1, <1>2, <1>3, <1>4, <1>5, <1>6, <1>7, <1>8, <1>9, <1>10, <1>11 DEF Next, Step

LEMMA LostStep ==
    ASSUME IInv, [Next]_vars
    PROVE  NothingLostBehindTheOffset'
<1>a. TypeOK /\ LoopInv /\ Grows
  BY GrowsStep DEF IInv
<1>b. \A o \in 1 .. Len(topic) : Settled(o) => Settled(o)'
  BY <1>a, SettledStays
<1>c. committed \in Nat /\ committed <= Len(topic) + 1 /\ Len(topic) \in Nat
  BY <1>a, Numbers
<1>d. \A o \in 1 .. committed - 1 : Settled(o)
  BY DEF IInv, NothingLostBehindTheOffset, Settled
<1>e. ASSUME \A o \in 1 .. committed' - 1 : Settled(o)'
      PROVE  NothingLostBehindTheOffset'
  BY <1>e DEF NothingLostBehindTheOffset, Settled
<1>1. CASE committed' = committed
  BY <1>1, <1>b, <1>c, <1>d, <1>e
<1>2. ASSUME NEW c \in Consumers, Commit(c, TRUE)
      PROVE  NothingLostBehindTheOffset'
  <2>1. committed' = msg[c] + 1 /\ pc[c] = "commit" /\ Loop(c)
    BY <1>2, <1>a DEF Commit, CommitOf, LoopInv
  <2>2. PICK m \in 1 .. Len(topic) : m = msg[c] /\ m \in Nat
    BY <1>c, <2>1 DEF Loop, InHand
  <2>3. \A o \in 1 .. m : Settled(o)
    BY <2>1, <2>2 DEF Loop, InHand
  <2>. QED
    BY <1>b, <1>c, <1>e, <2>1, <2>2, <2>3
<1>3. committed' = committed \/ \E c \in Consumers : Commit(c, TRUE)
  BY DEF Next, Step, Publish, Garbage, Fetch, HandleSkip, HandleWork, Commit, Crash, Start,
     Assign, Rebalance, vars, group
<1>. QED
  BY <1>1, <1>2, <1>3

LEMMA RepeatsStep ==
    ASSUME IInv, [Next]_vars
    PROVE  RepeatsInv'
<1>a. TypeOK /\ LoopInv /\ RepeatsInv
  BY DEF IInv
<1>b. \A i : IsFiniteSet(Knowing(i)) /\ Cardinality(Knowing(i)) \in Nat
  <2>1. ASSUME NEW i
        PROVE  IsFiniteSet(Knowing(i))
    <3>1. Knowing(i) \in SUBSET Consumers /\ IsFiniteSet(Consumers)
      BY ConsumerBoundsAssumption DEF Knowing
    <3>. QED
      BY <3>1, FS_Subset
  <2>. QED
    BY <2>1, FS_CardinalityType
<1>c. restarts \in Nat /\ \A i \in Ids : times[i] \in Nat
  BY <1>a, Numbers DEF TypeOK
<1>1. CASE UNCHANGED <<seen, times, restarts>>
  BY <1>a, <1>1 DEF RepeatsInv, Knowing
<1>2. ASSUME NEW c \in Consumers, NEW ok \in BOOLEAN, HandleWork(c, ok)
      PROVE  RepeatsInv'
  <2>1. PICK i \in Ids : i = topic[msg[c]] /\ i \notin seen[c]
    BY <1>a, <1>2, MessageInHand DEF HandleWork, InHand, Duplicate
  <2>2. /\ \A d \in Consumers \ {c} : seen'[d] = seen[d]
        /\ seen'[c] = (IF ok THEN seen[c] \cup {i} ELSE seen[c])
        /\ \A j \in Ids : times'[j] = IF ok /\ j = i THEN times[j] + 1 ELSE times[j]
        /\ restarts' = restarts
    BY <1>a, <1>2, <2>1 DEF HandleWork, Mark, TypeOK
  <2>3. ASSUME NEW j \in Ids
        PROVE  times'[j] <= Cardinality(Knowing(j)') + restarts'
    <3>1. CASE ~ok \/ j # i
      <4>1. Knowing(j)' = Knowing(j)
        BY <2>2, <3>1 DEF Knowing
      <4>. QED
        BY <1>a, <2>2, <3>1, <4>1 DEF RepeatsInv
    <3>2. CASE ok /\ j = i
      <4>1. Knowing(j)' = Knowing(j) \cup {c} /\ c \notin Knowing(j)
        BY <2>1, <2>2, <3>2 DEF Knowing
      <4>2. Cardinality(Knowing(j) \cup {c}) = Cardinality(Knowing(j)) + 1
        BY <1>b, <4>1, FS_AddElement
      <4>3. times[j] <= Cardinality(Knowing(j)) + restarts
        BY <1>a DEF RepeatsInv
      <4>. QED
        BY <1>b, <1>c, <2>2, <3>2, <4>1, <4>2, <4>3
    <3>. QED
      BY <3>1, <3>2
  <2>. QED
    BY <2>3 DEF RepeatsInv
<1>3. ASSUME NEW c \in Consumers, Crash(c)
      PROVE  RepeatsInv'
  <2>1. /\ \A d \in Consumers \ {c} : seen'[d] = seen[d]
        /\ seen'[c] = {} /\ times' = times /\ restarts' = restarts + 1
    BY <1>a, <1>3 DEF Crash, TypeOK
  <2>2. ASSUME NEW j \in Ids
        PROVE  times'[j] <= Cardinality(Knowing(j)') + restarts'
    <3>1. Knowing(j)' = Knowing(j) \ {c}
      BY <2>1 DEF Knowing
    <3>2. Cardinality(Knowing(j) \ {c}) >= Cardinality(Knowing(j)) - 1
          /\ Cardinality(Knowing(j) \ {c}) \in Nat
      <4>1. IsFiniteSet(Knowing(j) \ {c})
            /\ Cardinality(Knowing(j) \ {c}) = IF c \in Knowing(j) THEN Cardinality(Knowing(j)) - 1
                                               ELSE Cardinality(Knowing(j))
        BY <1>b, FS_RemoveElement
      <4>2. Cardinality(Knowing(j) \ {c}) \in Nat
        BY <4>1, FS_CardinalityType
      <4>. QED
        BY <1>b, <4>1, <4>2
    <3>3. times[j] <= Cardinality(Knowing(j)) + restarts
      BY <1>a DEF RepeatsInv
    <3>. QED
      BY <1>b, <1>c, <2>1, <3>1, <3>2, <3>3
  <2>. QED
    BY <2>2 DEF RepeatsInv
<1>. QED
  BY <1>1, <1>2, <1>3 DEF Next, Step, Publish, Garbage, Fetch, TakeNext, HandleSkip, Commit,
     Start, Assign, Rebalance, vars, locals, counts

----------------------------------------------------------------------------
(* Theorems *)

LEMMA InitInv ==
    ASSUME Init
    PROVE  IInv
<1>1. Len(topic) = 0 /\ DOMAIN topic = {} /\ topic \in Seq(Ids \cup {Bad}) /\ committed = 1
  BY EmptySeq DEF Init
<1>2. TypeOK
  BY <1>1, ConsumerBoundsAssumption DEF Init, TypeOK
<1>3. SeenInv
  BY DEF Init, SeenInv
<1>4. LoopInv
  BY <1>1, NilAssumption DEF Init, LoopInv, Loop, InHand
<1>5. NothingLostBehindTheOffset
  BY <1>1 DEF NothingLostBehindTheOffset
<1>6. RepeatsInv
  <2>1. \A i \in Ids : Knowing(i) = {} /\ times[i] = 0 /\ restarts = 0
    BY DEF Init, Knowing
  <2>. QED
    BY <2>1, FS_EmptySet DEF RepeatsInv
<1>. QED
  BY <1>2, <1>3, <1>4, <1>5, <1>6 DEF IInv

\* The inductive invariant holds whatever crashes, rebalances and failures happen
\* to the consumers' loops.
THEOREM Invariance == Spec => []IInv
<1>1. Init => IInv
  BY InitInv
<1>2. IInv /\ [Next]_vars => IInv'
  BY TypeStep, SeenStep, LoopStep, LostStep, RepeatsStep DEF IInv
<1>. QED
  BY <1>1, <1>2, PTL DEF Spec

\* The offsets of the group and of every loop are offsets of the partition.
THEOREM TypeCorrect == Spec => []TypeOK
<1>1. IInv => TypeOK
  BY DEF IInv
<1>. QED
  BY <1>1, Invariance, PTL

\* FetchMessage, handle, CommitMessages, in this order: at least once, for any group.
THEOREM NothingLost == Spec => []NothingLostBehindTheOffset
<1>1. IInv => NothingLostBehindTheOffset
  BY DEF IInv
<1>. QED
  BY <1>1, Invariance, PTL

\* The memory of handled ids bounds how often an event's work is repeated.
THEOREM RepeatsLimited == Spec => []RepeatsBounded
<1>1. ASSUME IInv
      PROVE  RepeatsBounded
  <2>. SUFFICES ASSUME NEW i \in Ids
       PROVE  times[i] <= Cardinality(Consumers) + restarts
    BY DEF RepeatsBounded
  <2>1. Knowing(i) \in SUBSET Consumers /\ IsFiniteSet(Consumers)
    BY ConsumerBoundsAssumption DEF Knowing
  <2>2. Cardinality(Knowing(i)) <= Cardinality(Consumers) /\ Cardinality(Consumers) \in Nat
        /\ Cardinality(Knowing(i)) \in Nat
    BY <2>1, FS_Subset, FS_CardinalityType
  <2>3. times[i] <= Cardinality(Knowing(i)) + restarts /\ times[i] \in Nat /\ restarts \in Nat
    BY <1>1 DEF IInv, RepeatsInv, TypeOK
  <2>. QED
    BY <2>2, <2>3
<1>. QED
  BY <1>1, Invariance, PTL

============================================================================
