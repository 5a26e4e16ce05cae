------------------------ MODULE BookMutationsProofs ------------------------
(***************************************************************************)
(* Theorems about BookMutations, for any number of users, values, books    *)
(* and concurrent requests.                                                *)
(***************************************************************************)
EXTENDS BookMutations, SequenceTheorems, TLAPS

\* The request has checked the owner and has not written yet.
Writing(r) == req[r] # None /\ req[r].pc # "publish"
\* The request has committed and has not returned.
Pending(r) == req[r] # None /\ req[r].pc = "publish"

\* Ids come from the sequence: nothing is known of an id it has not given.
IdInv ==
    /\ \A n \in Ids : n > lastId => books[n] = None
    /\ \A c \in DOMAIN commits : commits[c].id <= lastId
    /\ \A r \in Requests : req[r] # None => req[r].id <= lastId

\* A row in the table was made by a commit, and a deleted book stays deleted, by
\* one commit.
TableInv ==
    /\ \A n \in Ids : books[n] # None =>
          \E c \in DOMAIN commits : commits[c] = [id |-> n, row |-> books[n]]
    /\ \A c \in DOMAIN commits : commits[c].row = None =>
          /\ books[commits[c].id] = None
          /\ \A d \in DOMAIN commits : commits[d] = commits[c] => c = d

\* What an event says of the commits: see EventsReportCommits.
Reports(e) ==
    /\ e.com \in DOMAIN commits
    /\ IF e.type = "deleted"
       THEN /\ commits[e.com] = [id |-> e.id, row |-> None]
            /\ \E c \in 1 .. e.com - 1 : commits[c] = [id |-> e.id, row |-> e.data]
       ELSE commits[e.com] = [id |-> e.id, row |-> e.data]

\* A request that is about to write acts for the owner of the book, if the book is
\* still there, and holds a row it once had; one that is about to publish holds an
\* event that is true.
HandlerInv ==
    \A r \in Requests :
        /\ Writing(r) =>
              /\ books[req[r].id] # None => books[req[r].id].owner = req[r].who
              /\ req[r].pc = "replace" => req[r].arg \in ReplaceBody
              /\ req[r].pc = "delete" => req[r].arg = NoFields
              /\ \E c \in DOMAIN commits : commits[c] = [id |-> req[r].id, row |-> req[r].snap]
        /\ Pending(r) => Reports(req[r])

\* Every event on the topic, and every one that may still be written, is true.
TopicInv ==
    /\ \A i \in DOMAIN topic : Reports(topic[i])
    /\ \A e \in afloat : Reports(e)

\* What Publish may have reported as written is on the topic, and a request knows
\* of nothing else.
OrderInv ==
    /\ \A c \in told : \E i \in DOMAIN topic : topic[i].com = c
    /\ \A c \in DOMAIN before : before[c] \subseteq told
    /\ \A r \in Requests : Writing(r) => req[r].begun \subseteq told

IInv ==
    /\ TypeOK
    /\ IdInv
    /\ TableInv
    /\ HandlerInv
    /\ TopicInv
    /\ OrderInv
    /\ NoFieldUndone
    /\ EventsFollowAnswers

----------------------------------------------------------------------------
(* What a step does *)

NewCommit == [id : Ids, row : Row \cup {None}]

\* A commit is appended to the history, and nothing before it changes.
LEMMA CommitAppends ==
    ASSUME TypeOK, NEW id \in Ids, NEW row \in Row \cup {None}, NEW arg,
           NEW begun \in SUBSET Commits, Commit(id, row, arg, begun)
    PROVE  /\ commits' \in Seq(NewCommit) /\ before' \in Seq(SUBSET Commits)
           /\ Len(commits) \in Nat /\ Len(commits) + 1 \in Commits
           /\ Len(commits') = Len(commits) + 1 /\ Len(before') = Len(commits')
           /\ DOMAIN commits = 1 .. Len(commits) /\ DOMAIN before = DOMAIN commits
           /\ DOMAIN commits' = 1 .. Len(commits) + 1 /\ DOMAIN before' = DOMAIN commits'
           /\ \A c \in DOMAIN commits : commits'[c] = commits[c] /\ before'[c] = before[c]
           /\ commits'[Len(commits) + 1] = [id |-> id, row |-> row]
           /\ before'[Len(commits) + 1] = begun
<1>1. commits \in Seq(NewCommit) /\ before \in Seq(SUBSET Commits)
      /\ Len(before) = Len(commits)
  BY DEF TypeOK, NewCommit
<1>2. [id |-> id, row |-> row] \in NewCommit
  BY DEF NewCommit
<1>3. commits' = Append(commits, [id |-> id, row |-> row]) /\ before' = Append(before, begun)
      /\ Len(commits) < MaxCommits
  BY DEF Commit
<1>4. Len(commits) \in Nat /\ Len(commits) + 1 \in Commits
  BY <1>1, <1>3, LenProperties, BookBoundsAssumption DEF Commits
<1>. QED
  BY <1>1, <1>2, <1>3, <1>4, AppendProperties, LenProperties

\* The steps that only the requests see: an owner check that succeeds ...
Begins(r) ==
    /\ req[r] = None
    /\ \E u \in Users, id \in Ids, op \in {"replace", "patch", "delete"},
          body \in PatchBody \cup {NoFields} :
          /\ books[id] # None /\ books[id].owner = u
          /\ op = "replace" => body \in ReplaceBody
          /\ op = "delete" => body = NoFields
          /\ req' = [req EXCEPT ![r] = [pc |-> op, who |-> u, id |-> id, arg |-> body,
                                        snap |-> books[id], begun |-> told, com |-> 0]]
    /\ UNCHANGED <<books, lastId, kafka, history>>

\* ... and a request that gives up before it has written.
GivesUp(r) ==
    /\ Writing(r)
    /\ req' = [req EXCEPT ![r] = None]
    /\ UNCHANGED <<books, lastId, kafka, history>>

\* A statement commits: what it writes, for whom, and what the request does next.
Writes(r, id, row, arg, begun, type, ack) ==
    /\ Commit(id, row, arg, begun)
    /\ ThenPublish(r, type, id, row, ack)
    /\ UNCHANGED kafka
    /\ \/ /\ type = "created"
          /\ req[r] = None
          /\ id = lastId + 1 /\ lastId' = lastId + 1
          /\ row \in Row
          /\ arg = [title |-> row.title, author |-> row.author]
          /\ begun = told
       \/ /\ Writing(r)
          /\ id = req[r].id /\ arg = req[r].arg /\ begun = req[r].begun
          /\ books[id] # None
          /\ UNCHANGED lastId
          /\ \/ /\ type = "updated" /\ row \in Row
                /\ row.owner = books[id].owner
                /\ row.title = IF arg.title = None THEN books[id].title ELSE arg.title
                /\ row.author = IF arg.author = None THEN books[id].author ELSE arg.author
             \/ type = "deleted" /\ row = None /\ arg = NoFields

Arguments == PatchBody \cup {NoFields}

\* Types of the locals, request by request.
LEMMA Locals ==
    ASSUME TypeOK, NEW r \in Requests, req[r] # None
    PROVE  /\ req[r] \in Storing \cup Publishing
           /\ Writing(r) => req[r] \in Storing
           /\ Pending(r) => req[r] \in Publishing
           /\ req[r].id \in Ids
<1>1. req[r] \in Storing \cup Publishing
  BY DEF TypeOK
<1>. QED
  BY <1>1 DEF Writing, Pending, Storing, Publishing

\* Every step is one of these, a publication, or an event that lands late.
LEMMA StepForms ==
    ASSUME IInv, NEW r \in Requests, RequestStep(r)
    PROVE  \/ Begins(r)
           \/ GivesUp(r)
           \/ \E id \in Ids, row \in Row \cup {None}, arg \in Arguments,
                 begun \in SUBSET Commits, type \in Types, ack \in BOOLEAN :
                 Writes(r, id, row, arg, begun, type, ack)
           \/ \E copies \in 0 .. MaxCopies, late \in BOOLEAN : Publish(r, copies, late)
<1>. DEFINE SomeWrite ==
               \E id \in Ids, row \in Row \cup {None}, arg \in Arguments,
                  begun \in SUBSET Commits, type \in Types, ack \in BOOLEAN :
                  Writes(r, id, row, arg, begun, type, ack)
<1>a. told \in SUBSET Commits
  BY DEF IInv, TypeOK
<1>b. lastId \in Nat /\ books \in [Ids -> Row \cup {None}]
  BY DEF IInv, TypeOK
<1>1. ASSUME NEW u \in Users, NEW body \in ReplaceBody,
             NEW ack \in BOOLEAN, CreateBook(r, u, body, ack)
      PROVE  SomeWrite
  <2>. DEFINE row == [owner |-> u, title |-> body.title, author |-> body.author]
  <2>1. row \in Row /\ body = [title |-> row.title, author |-> row.author]
    BY DEF Row, ReplaceBody
  <2>2. body \in Arguments
    BY NilAssumption DEF Arguments, PatchBody, ReplaceBody, NoFields, Fields
  <2>3. NextId \in Ids /\ NextId = lastId + 1 /\ lastId' = lastId + 1
    BY <1>1, <1>b DEF CreateBook, NextId
  <2>4. Writes(r, NextId, row, body, told, "created", ack)
    BY <1>1, <2>1, <2>3 DEF CreateBook, Writes
  <2>. QED
    BY <1>a, <2>1, <2>2, <2>3, <2>4 DEF Types
<1>2. ASSUME NEW u \in Users, NEW id \in Ids,
             NEW op \in {"replace", "patch", "delete"}, NEW body \in Arguments,
             op = "replace" => body \in ReplaceBody, op = "delete" => body = NoFields,
             FirstByID(r, u, op, id, body)
      PROVE  Begins(r)
  BY <1>2 DEF FirstByID, Begins, Owns, Arguments
<1>3. ASSUME Writing(r), Gone(r), UNCHANGED lastId
      PROVE  GivesUp(r)
  BY <1>3 DEF Gone, GivesUp
<1>4. ASSUME Writing(r)
      PROVE  /\ req[r].id \in Ids /\ req[r].arg \in Arguments
             /\ req[r].begun \in SUBSET Commits
  BY <1>4, Locals DEF IInv, Storing, Writing, Arguments
<1>5. ASSUME NEW ack \in BOOLEAN,
             Writing(r), NEW row \in Row, Update(r, row, ack), UNCHANGED lastId,
             row.owner = books[req[r].id].owner,
             row.title = IF req[r].arg.title = None THEN books[req[r].id].title
                         ELSE req[r].arg.title,
             row.author = IF req[r].arg.author = None THEN books[req[r].id].author
                          ELSE req[r].arg.author
      PROVE  SomeWrite
  <2>1. Writes(r, req[r].id, row, req[r].arg, req[r].begun, "updated", ack)
    BY <1>5 DEF Update, Writes
  <2>. QED
    BY <1>4, <1>5, <2>1 DEF Types
<1>6. ASSUME NEW ack \in BOOLEAN, UpdateFields(r, ack)
      PROVE  GivesUp(r) \/ SomeWrite
  <2>1. Writing(r) /\ UNCHANGED lastId
    BY <1>6 DEF UpdateFields, Writing
  <2>2. CASE Gone(r)
    BY <1>3, <2>1, <2>2
  <2>3. CASE ~Gone(r)
    <3>. DEFINE row == [books[req[r].id] EXCEPT !.title = req[r].arg.title,
                                                !.author = req[r].arg.author]
    <3>1. Update(r, row, ack) /\ books[req[r].id] \in Row
      BY <1>6, <1>4, <2>1, <2>3, <1>b DEF UpdateFields, Update
    <3>2. req[r].arg \in ReplaceBody
      BY <1>6, <2>1 DEF IInv, HandlerInv, UpdateFields
    <3>3. row \in Row /\ row.owner = books[req[r].id].owner
          /\ row.title = req[r].arg.title /\ row.author = req[r].arg.author
      BY <3>1, <3>2 DEF Row, ReplaceBody
    <3>4. req[r].arg.title # None /\ req[r].arg.author # None
      BY <3>2, NilAssumption DEF ReplaceBody
    <3>. HIDE DEF row
    <3>. QED
      BY <1>5, <2>1, <3>1, <3>3, <3>4
  <2>. QED
    BY <2>2, <2>3
<1>7. ASSUME NEW ack \in BOOLEAN, PatchFields(r, ack)
      PROVE  GivesUp(r) \/ SomeWrite
  <2>1. Writing(r) /\ UNCHANGED lastId
    BY <1>7 DEF PatchFields, Writing
  <2>2. CASE Gone(r)
    BY <1>3, <2>1, <2>2
  <2>3. CASE ~Gone(r)
    <3>. DEFINE b   == books[req[r].id]
                arg == req[r].arg
                row == [b EXCEPT !.title  = IF arg.title  = None THEN @ ELSE arg.title,
                                 !.author = IF arg.author = None THEN @ ELSE arg.author]
    <3>1. Update(r, row, ack) /\ b \in Row
      BY <1>7, <1>4, <2>1, <2>3, <1>b DEF PatchFields, Update, Merge
    <3>2. arg \in Arguments
      BY <1>4, <2>1
    <3>3. row \in Row /\ row.owner = b.owner
          /\ row.title = (IF arg.title = None THEN b.title ELSE arg.title)
          /\ row.author = (IF arg.author = None THEN b.author ELSE arg.author)
      BY <3>1, <3>2 DEF Row, Arguments, PatchBody, NoFields, Fields
    <3>. HIDE DEF row
    <3>. QED
      BY <1>5, <2>1, <3>1, <3>3
  <2>. QED
    BY <2>2, <2>3
<1>8. ASSUME NEW ack \in BOOLEAN, DeleteByID(r, ack)
      PROVE  GivesUp(r) \/ SomeWrite
  <2>1. Writing(r) /\ UNCHANGED lastId
    BY <1>8 DEF DeleteByID, Writing
  <2>2. CASE Gone(r)
    BY <1>3, <2>1, <2>2
  <2>3. CASE ~Gone(r)
    <3>1. /\ books[req[r].id] # None
          /\ Commit(req[r].id, None, NoFields, req[r].begun)
          /\ ThenPublish(r, "deleted", req[r].id, None, ack)
          /\ UNCHANGED kafka
      BY <1>8, <2>3 DEF DeleteByID, Missing
    <3>2. req[r].arg = NoFields
      BY <1>8, <2>1 DEF IInv, HandlerInv, DeleteByID
    <3>3. Writes(r, req[r].id, None, NoFields, req[r].begun, "deleted", ack)
      BY <2>1, <3>1, <3>2 DEF Writes
    <3>. QED
      BY <1>4, <2>1, <3>3 DEF Types, Arguments
  <2>. QED
    BY <2>2, <2>3
<1>9. ASSUME StoreFails(r)
      PROVE  GivesUp(r)
  BY <1>9 DEF StoreFails, GivesUp, Writing
<1>10. ReplaceBody \subseteq Arguments /\ PatchBody \subseteq Arguments
       /\ NoFields \in Arguments
  BY NilAssumption DEF Arguments, PatchBody, ReplaceBody, NoFields, Fields
<1>. HIDE DEF SomeWrite
<1>11. Begins(r) \/ GivesUp(r) \/ SomeWrite
       \/ \E copies \in 0 .. MaxCopies, late \in BOOLEAN : Publish(r, copies, late)
  BY <1>1, <1>2, <1>6, <1>7, <1>8, <1>9, <1>10 DEF RequestStep
<1>. QED
  BY <1>11 DEF SomeWrite

----------------------------------------------------------------------------
(* Each kind of step preserves the invariant *)

\* What only the requests see leaves these parts alone.
LEMMA QuietStep ==
    ASSUME IInv, UNCHANGED <<books, lastId, topic, afloat, commits, named, told, before>>
    PROVE  TableInv' /\ TopicInv' /\ NoFieldUndone' /\ EventsFollowAnswers'
<1>1. TableInv'
  BY DEF IInv, TableInv
<1>2. TopicInv'
  BY DEF IInv, TopicInv, Reports
<1>3. NoFieldUndone'
  BY DEF IInv, NoFieldUndone
<1>4. EventsFollowAnswers'
  BY DEF IInv, EventsFollowAnswers
<1>. QED
  BY <1>1, <1>2, <1>3, <1>4

LEMMA BeginsStep ==
    ASSUME IInv, NEW r \in Requests, Begins(r)
    PROVE  IInv'
<1>1. UNCHANGED <<books, lastId, topic, afloat, commits, named, told, before>>
  BY DEF Begins, kafka, history
<1>2. PICK u \in Users, id \in Ids, op \in {"replace", "patch", "delete"},
           body \in PatchBody \cup {NoFields} :
        /\ books[id] # None /\ books[id].owner = u
        /\ op = "replace" => body \in ReplaceBody
        /\ op = "delete" => body = NoFields
        /\ req' = [req EXCEPT ![r] = [pc |-> op, who |-> u, id |-> id, arg |-> body,
                                      snap |-> books[id], begun |-> told, com |-> 0]]
  BY DEF Begins
<1>. DEFINE L == [pc |-> op, who |-> u, id |-> id, arg |-> body,
                  snap |-> books[id], begun |-> told, com |-> 0]
<1>4. told \in SUBSET Commits
  BY DEF IInv, TypeOK
<1>5. L \in Storing
  BY <1>2, <1>4 DEF Storing, IInv, TypeOK
<1>6. L # None
  BY <1>5, LocalsAssumption
<1>7. req'[r] = L /\ \A q \in Requests \ {r} : req'[q] = req[q]
  BY <1>2 DEF IInv, TypeOK
<1>8. TypeOK'
  BY <1>1, <1>2, <1>5 DEF IInv, TypeOK
<1>9. IdInv'
  BY <1>1, <1>2, <1>7 DEF IInv, IdInv, TypeOK, Ids
<1>10. HandlerInv'
  <2>. SUFFICES ASSUME NEW q \in Requests
       PROVE  /\ Writing(q)' =>
                    /\ books[req'[q].id] # None => books[req'[q].id].owner = req'[q].who
                    /\ req'[q].pc = "replace" => req'[q].arg \in ReplaceBody
                    /\ req'[q].pc = "delete" => req'[q].arg = NoFields
                    /\ \E c \in DOMAIN commits :
                          commits[c] = [id |-> req'[q].id, row |-> req'[q].snap]
              /\ Pending(q)' => Reports(req[q])'
    BY <1>1 DEF HandlerInv
  <2>1. CASE q = r
    <3>1. \E c \in DOMAIN commits : commits[c] = [id |-> id, row |-> books[id]]
      BY <1>2 DEF IInv, TableInv
    <3>. QED
      BY <2>1, <3>1, <1>2, <1>7 DEF Pending
  <2>2. CASE q # r
    BY <2>2, <1>1, <1>7 DEF IInv, HandlerInv, Writing, Pending, Reports
  <2>. QED
    BY <2>1, <2>2
<1>11. OrderInv'
  <2>1. \A q \in Requests : Writing(q)' =>
            \/ Writing(q) /\ req'[q] = req[q]
            \/ q = r /\ req'[q].begun = told
    BY <1>7 DEF Writing
  <2>. QED
    BY <1>1, <2>1 DEF IInv, OrderInv
<1>. QED
  BY <1>1, <1>8, <1>9, <1>10, <1>11, QuietStep DEF IInv

\* Giving up and publishing end a request: what holds of the others stays.
LEMMA EndsStep ==
    ASSUME IInv, NEW r \in Requests, req' = [req EXCEPT ![r] = None],
           UNCHANGED <<books, lastId, commits, named, before>>
    PROVE  /\ req' \in [Requests -> Storing \cup Publishing \cup {None}]
           /\ TableInv' /\ NoFieldUndone'
           /\ IdInv' /\ HandlerInv'
           /\ \A q \in Requests : Writing(q)' => Writing(q) /\ req'[q] = req[q]
<1>1. \A q \in Requests : req'[q] = None \/ req'[q] = req[q]
  BY DEF IInv, TypeOK
<1>2. \A q \in Requests : /\ Writing(q)' => Writing(q) /\ req'[q] = req[q]
                          /\ Pending(q)' => Pending(q) /\ req'[q] = req[q]
  BY <1>1 DEF Writing, Pending
<1>3. req' \in [Requests -> Storing \cup Publishing \cup {None}]
  BY DEF IInv, TypeOK
<1>4. TableInv' /\ NoFieldUndone'
  BY DEF IInv, TableInv, NoFieldUndone
<1>5. IdInv'
  BY <1>1 DEF IInv, IdInv
<1>6. HandlerInv'
  BY <1>2 DEF IInv, HandlerInv, Reports
<1>. QED
  BY <1>2, <1>3, <1>4, <1>5, <1>6

LEMMA GivesUpStep ==
    ASSUME IInv, NEW r \in Requests, GivesUp(r)
    PROVE  IInv'
<1>1. UNCHANGED <<books, lastId, topic, afloat, commits, named, told, before>>
      /\ req' = [req EXCEPT ![r] = None]
  BY DEF GivesUp, kafka, history
<1>2. TypeOK'
  BY <1>1, EndsStep DEF IInv, TypeOK
<1>3. OrderInv'
  BY <1>1, EndsStep DEF IInv, OrderInv
<1>. QED
  BY <1>1, <1>2, <1>3, QuietStep, EndsStep DEF IInv

\* The topic is appended to, with copies of the one event.
LEMMA PublishAppends ==
    ASSUME TypeOK, NEW r \in Requests, NEW copies \in 0 .. MaxCopies, NEW late \in BOOLEAN,
           Publish(r, copies, late)
    PROVE  /\ topic' \in Seq(Event)
           /\ DOMAIN topic = 1 .. Len(topic) /\ Len(topic) \in Nat
           /\ DOMAIN topic' = 1 .. Len(topic) + copies
           /\ req[r] \in Publishing
           /\ \A i \in DOMAIN topic' :
                 IF i \in DOMAIN topic THEN topic'[i] = topic[i]
                 ELSE topic'[i] = [type |-> req[r].type, id |-> req[r].id,
                                   data |-> req[r].data, com |-> req[r].com]
<1>. DEFINE e == [type |-> req[r].type, id |-> req[r].id,
                  data |-> req[r].data, com |-> req[r].com]
            es == [i \in 1 .. copies |-> e]
<1>1. req[r] \in Publishing
  BY Locals DEF Publish, Pending
<1>2. e \in Event
  BY <1>1 DEF Publishing, Event
<1>. HIDE DEF e
<1>3. copies \in Nat
  BY BookBoundsAssumption
<1>4. es \in [1 .. copies -> Event]
  BY <1>2
<1>5. es \in Seq(Event) /\ Len(es) = copies /\ \A i \in 1 .. copies : es[i] = e
  BY <1>3, <1>4, LenProperties, IsASeq
<1>. HIDE DEF es
<1>6. topic \in Seq(Event) /\ topic' = topic \o es
  BY DEF TypeOK, Publish, e, es
<1>7. DOMAIN topic = 1 .. Len(topic) /\ Len(topic) \in Nat
  BY <1>6, LenProperties
<1>8. topic' \in Seq(Event) /\ Len(topic') = Len(topic) + copies
  BY <1>5, <1>6, ConcatProperties
<1>9. DOMAIN topic' = 1 .. Len(topic) + copies
  BY <1>8, LenProperties
<1>10. \A i \in DOMAIN topic' : IF i \in DOMAIN topic THEN topic'[i] = topic[i]
                                ELSE topic'[i] = e
  BY <1>3, <1>5, <1>6, <1>7, <1>9, ConcatProperties
<1>. QED
  BY <1>1, <1>7, <1>8, <1>9, <1>10 DEF e

\* The topic grows by events whose mutation came after every event it follows.
LEMMA OrderStays ==
    ASSUME IInv, NEW e \in Event, e.com \in DOMAIN before,
           NEW n \in Nat,
           DOMAIN topic = 1 .. Len(topic), Len(topic) \in Nat,
           DOMAIN topic' = 1 .. Len(topic) + n,
           \A i \in DOMAIN topic' : IF i \in DOMAIN topic THEN topic'[i] = topic[i]
                                    ELSE topic'[i] = e,
           before' = before
    PROVE  EventsFollowAnswers'
<1>. SUFFICES ASSUME NEW j \in DOMAIN topic', NEW c \in before[topic'[j].com]
     PROVE  \E i \in 1 .. j - 1 : topic'[i].com = c
  BY DEF EventsFollowAnswers
<1>1. CASE j \in DOMAIN topic
  <2>1. PICK i \in 1 .. j - 1 : topic[i].com = c
    BY <1>1 DEF IInv, EventsFollowAnswers
  <2>2. i \in DOMAIN topic /\ i \in DOMAIN topic'
    BY <1>1
  <2>. QED
    BY <2>1, <2>2
<1>2. CASE j \notin DOMAIN topic
  <2>1. c \in told
    BY <1>2 DEF IInv, OrderInv
  <2>2. PICK i \in DOMAIN topic : topic[i].com = c
    BY <2>1 DEF IInv, OrderInv
  <2>3. i \in DOMAIN topic' /\ i \in 1 .. j - 1
    BY <1>2, <2>2
  <2>. QED
    BY <2>2, <2>3
<1>. QED
  BY <1>1, <1>2

LEMMA PublishStep ==
    ASSUME IInv, NEW r \in Requests, NEW copies \in 0 .. MaxCopies, NEW late \in BOOLEAN,
           Publish(r, copies, late)
    PROVE  IInv'
<1>. DEFINE e == [type |-> req[r].type, id |-> req[r].id,
                  data |-> req[r].data, com |-> req[r].com]
<1>1. /\ UNCHANGED <<books, lastId, commits, named, before>>
      /\ req' = [req EXCEPT ![r] = None] /\ Pending(r)
      /\ afloat' = IF late THEN afloat \cup {e} ELSE afloat
      /\ told' = IF copies > 0 THEN told \cup {e.com} ELSE told
  BY DEF Publish, Acked, Pending
<1>2. topic' \in Seq(Event) /\ DOMAIN topic = 1 .. Len(topic) /\ Len(topic) \in Nat
      /\ DOMAIN topic' = 1 .. Len(topic) + copies
      /\ \A i \in DOMAIN topic' : IF i \in DOMAIN topic THEN topic'[i] = topic[i]
                                  ELSE topic'[i] = e
  BY PublishAppends DEF IInv
<1>3. e \in Event /\ e.com \in Commits
  BY PublishAppends DEF IInv, Publishing, Event
<1>4. Reports(e)
  <2>1. Reports(req[r])
    BY <1>1 DEF IInv, HandlerInv
  <2>. QED
    BY <2>1 DEF Reports
<1>. HIDE DEF e
<1>5. TypeOK'
  <2>1. afloat' \in SUBSET Event /\ told' \in SUBSET Commits
    BY <1>1, <1>3 DEF IInv, TypeOK
  <2>. QED
    BY <1>1, <1>2, <2>1, EndsStep DEF IInv, TypeOK
<1>6. TopicInv'
  <2>1. ASSUME NEW i \in DOMAIN topic'
        PROVE  Reports(topic[i])'
    <3>1. PICK v : v = topic'[i]
      OBVIOUS
    <3>2. Reports(v)
      BY <1>2, <1>4, <3>1 DEF IInv, TopicInv
    <3>. QED
      BY <1>1, <3>1, <3>2 DEF Reports
  <2>2. ASSUME NEW v \in afloat'
        PROVE  Reports(v)'
    <3>1. Reports(v)
      BY <1>1, <1>4, <2>2 DEF IInv, TopicInv
    <3>. QED
      BY <1>1, <3>1 DEF Reports
  <2>. QED
    BY <2>1, <2>2 DEF TopicInv
<1>7. copies \in Nat /\ DOMAIN topic \subseteq DOMAIN topic'
  BY <1>2, BookBoundsAssumption
<1>8. OrderInv'
  <2>1. ASSUME NEW c \in told'
        PROVE  \E i \in DOMAIN topic' : topic'[i].com = c
    <3>1. CASE c \in told
      BY <1>2, <1>7, <3>1 DEF IInv, OrderInv
    <3>2. CASE c = e.com /\ copies > 0
      <4>1. Len(topic) + 1 \in DOMAIN topic' /\ Len(topic) + 1 \notin DOMAIN topic
        BY <1>2, <1>7, <3>2
      <4>. QED
        BY <1>2, <3>2, <4>1
    <3>. QED
      BY <1>1, <2>1, <3>1, <3>2
  <2>2. told \subseteq told'
    BY <1>1
  <2>. QED
    BY <1>1, <2>1, <2>2, EndsStep DEF IInv, OrderInv
<1>9. e.com \in DOMAIN before
  BY <1>4, LenProperties DEF Reports, IInv, TypeOK
<1>10. EventsFollowAnswers'
  BY <1>1, <1>2, <1>3, <1>7, <1>9, OrderStays
<1>. QED
  BY <1>1, <1>5, <1>6, <1>8, <1>10, EndsStep DEF IInv

LEMMA LandsStep ==
    ASSUME IInv, NEW e \in afloat, Lands(e)
    PROVE  IInv'
<1>1. /\ UNCHANGED <<books, lastId, req, commits, named, told, before>>
      /\ topic' = Append(topic, e) /\ afloat' = afloat \ {e}
  BY DEF Lands, history
<1>2. e \in Event /\ topic \in Seq(Event)
  BY DEF IInv, TypeOK
<1>3. topic' \in Seq(Event) /\ DOMAIN topic = 1 .. Len(topic) /\ Len(topic) \in Nat
      /\ DOMAIN topic' = 1 .. Len(topic) + 1
      /\ \A i \in DOMAIN topic' : IF i \in DOMAIN topic THEN topic'[i] = topic[i]
                                  ELSE topic'[i] = e
  BY <1>1, <1>2, AppendProperties, LenProperties
<1>4. TypeOK'
  BY <1>1, <1>3 DEF IInv, TypeOK
<1>5. IdInv' /\ TableInv' /\ NoFieldUndone'
  BY <1>1 DEF IInv, IdInv, TableInv, NoFieldUndone
<1>6. HandlerInv'
  BY <1>1 DEF IInv, HandlerInv, Writing, Pending, Reports
<1>7. TopicInv'
  <2>1. ASSUME NEW i \in DOMAIN topic'
        PROVE  Reports(topic[i])'
    <3>1. PICK v : v = topic'[i]
      OBVIOUS
    <3>2. Reports(v)
      BY <1>3, <3>1 DEF IInv, TopicInv
    <3>. QED
      BY <1>1, <3>1, <3>2 DEF Reports
  <2>2. ASSUME NEW v \in afloat'
        PROVE  Reports(v)'
    <3>1. Reports(v)
      BY <1>1, <2>2 DEF IInv, TopicInv
    <3>. QED
      BY <1>1, <3>1 DEF Reports
  <2>. QED
    BY <2>1, <2>2 DEF TopicInv
<1>8. DOMAIN topic \subseteq DOMAIN topic'
  BY <1>3
<1>9. OrderInv'
  <2>1. \A c \in told : \E i \in DOMAIN topic' : topic'[i].com = c
    BY <1>3, <1>8 DEF IInv, OrderInv
  <2>. QED
    BY <1>1, <2>1 DEF IInv, OrderInv, Writing
<1>10. e.com \in DOMAIN before
  BY LenProperties DEF Reports, IInv, TopicInv, TypeOK
<1>11. EventsFollowAnswers'
  BY <1>1, <1>2, <1>3, <1>10, OrderStays
<1>. QED
  BY <1>4, <1>5, <1>6, <1>7, <1>9, <1>11 DEF IInv

\* What was true of an event stays true when another mutation commits.
LEMMA ReportsStay ==
    ASSUME NEW e, Reports(e), DOMAIN commits = 1 .. Len(commits), Len(commits) \in Nat,
           DOMAIN commits \subseteq DOMAIN commits',
           \A c \in DOMAIN commits : commits'[c] = commits[c]
    PROVE  Reports(e)'
BY DEF Reports

\* The arguments of a mutation name each of the two fields or leave it out.
LEMMA ArgumentFields ==
    /\ Arguments = [title : Titles \cup {None}, author : Authors \cup {None}]
    /\ \A a : NoFields = a => a.title = None /\ a.author = None
BY DEF Arguments, PatchBody, NoFields, Fields

LEMMA WritesStep ==
    ASSUME IInv, NEW r \in Requests, NEW id \in Ids, NEW row \in Row \cup {None},
           NEW arg \in Arguments, NEW begun \in SUBSET Commits, NEW type \in Types,
           NEW ack \in BOOLEAN, Writes(r, id, row, arg, begun, type, ack)
    PROVE  IInv'
<1>. DEFINE Created == /\ type = "created" /\ req[r] = None
                       /\ id = lastId + 1 /\ lastId' = lastId + 1 /\ row \in Row
                       /\ arg = [title |-> row.title, author |-> row.author]
                       /\ begun = told
            Stored  == /\ Writing(r) /\ id = req[r].id /\ arg = req[r].arg
                       /\ begun = req[r].begun /\ books[id] # None /\ lastId' = lastId
            Updated == /\ Stored /\ type = "updated" /\ row \in Row
                       /\ row.owner = books[id].owner
                       /\ row.title = IF arg.title = None THEN books[id].title ELSE arg.title
                       /\ row.author = IF arg.author = None THEN books[id].author ELSE arg.author
            Deleted == Stored /\ type = "deleted" /\ row = None /\ arg = NoFields
<1>1. Created \/ Updated \/ Deleted
  BY DEF Writes
<1>2. Commit(id, row, arg, begun) /\ ThenPublish(r, type, id, row, ack)
      /\ topic' = topic /\ afloat' = afloat /\ told' = told
  BY DEF Writes, kafka, Commit
<1>3. PICK n \in Commits : n = Len(commits) + 1
  BY <1>2, CommitAppends DEF IInv
<1>4. /\ commits' \in Seq(NewCommit) /\ before' \in Seq(SUBSET Commits)
      /\ Len(commits) \in Nat /\ Len(commits') = n /\ Len(before') = n
      /\ DOMAIN commits = 1 .. Len(commits) /\ DOMAIN before = DOMAIN commits
      /\ DOMAIN commits' = 1 .. n /\ DOMAIN before' = 1 .. n
      /\ \A c \in DOMAIN commits : commits'[c] = commits[c] /\ before'[c] = before[c]
      /\ commits'[n] = [id |-> id, row |-> row] /\ before'[n] = begun
  BY <1>2, <1>3, CommitAppends DEF IInv
<1>5. DOMAIN commits' = DOMAIN commits \cup {n} /\ n \notin DOMAIN commits /\ n \in Nat
  BY <1>3, <1>4
<1>a. /\ \A c \in DOMAIN commits : commits'[c] = commits[c]
      /\ commits'[n] = [id |-> id, row |-> row]
  BY <1>4
<1>b. \A c \in DOMAIN commits : commits[c].id \in Ids
  <2>1. commits \in Seq(NewCommit)
    BY DEF IInv, TypeOK, NewCommit
  <2>2. \A c \in DOMAIN commits : commits[c] \in NewCommit
    BY <2>1, <1>4, ElementOfSeq
  <2>. QED
    BY <2>2 DEF NewCommit
<1>6. /\ books'[id] = row
      /\ \A m \in Ids \ {id} : books'[m] = books[m]
      /\ books' \in [Ids -> Row \cup {None}]
  BY <1>2 DEF Commit, IInv, TypeOK
\* Nothing in the system knows a book that is being created.
<1>7. Created => /\ books[id] = None
                 /\ \A c \in DOMAIN commits : commits[c].id # id
                 /\ \A q \in Requests : req[q] # None => req[q].id # id
  <2>1. lastId \in Nat
    BY DEF IInv, TypeOK
  <2>2. \A q \in Requests : req[q] # None => req[q].id \in Ids
    BY Locals DEF IInv
  <2>. QED
    BY <1>b, <2>1, <2>2 DEF IInv, IdInv, Ids
<1>8. \E v \in Row : /\ v = IF row = None THEN req[r].snap ELSE row
                     /\ req'[r] = IF ack THEN [pc |-> "publish", type |-> type, id |-> id,
                                               data |-> v, com |-> n]
                                  ELSE None
  <2>1. Payload(r, row) \in Row
    <3>1. CASE row # None
      BY <3>1 DEF Payload
    <3>2. CASE row = None
      <4>1. Writing(r) /\ req[r] \in Storing
        BY <1>1, <3>2, Locals, RowAssumption DEF IInv, Writing
      <4>. QED
        BY <3>2, <4>1 DEF Payload, Storing
    <3>. QED
      BY <3>1, <3>2
  <2>2. req'[r] = IF ack THEN [pc |-> "publish", type |-> type, id |-> id,
                               data |-> Payload(r, row), com |-> n]
                  ELSE None
    BY <1>2, <1>3 DEF ThenPublish, IInv, TypeOK
  <2>. QED
    BY <2>1, <2>2 DEF Payload
<1>9. PICK v \in Row : /\ v = IF row = None THEN req[r].snap ELSE row
                       /\ req'[r] = IF ack THEN [pc |-> "publish", type |-> type, id |-> id,
                                                 data |-> v, com |-> n]
                                    ELSE None
  BY <1>8
<1>10. \A q \in Requests \ {r} : req'[q] = req[q]
  BY <1>2 DEF ThenPublish, IInv, TypeOK
<1>11. [pc |-> "publish", type |-> type, id |-> id, data |-> v, com |-> n] \in Publishing
  BY DEF Publishing
<1>12. \A q \in Requests :
          /\ Writing(q)' => q # r /\ Writing(q) /\ req'[q] = req[q]
          /\ Pending(q)' =>
                \/ q # r /\ Pending(q) /\ req'[q] = req[q]
                \/ q = r /\ req'[q] = [pc |-> "publish", type |-> type, id |-> id,
                                       data |-> v, com |-> n]
  BY <1>9, <1>10 DEF Writing, Pending
<1>. HIDE DEF Created, Updated, Deleted, Stored
<1>13. TypeOK'
  <2>1. req' \in [Requests -> Storing \cup Publishing \cup {None}]
    <3>1. req' = [req EXCEPT ![r] = req'[r]]
      BY <1>2 DEF ThenPublish, IInv, TypeOK
    <3>2. req'[r] \in Storing \cup Publishing \cup {None}
      BY <1>9, <1>11
    <3>3. req \in [Requests -> Storing \cup Publishing \cup {None}]
      BY DEF IInv, TypeOK
    <3>. QED
      BY <3>1, <3>2, <3>3
  <2>2. lastId' \in 0 .. MaxId
    BY <1>1 DEF Created, Updated, Deleted, Stored, IInv, TypeOK, Ids
  <2>3. named' \in [Ids -> Arguments]
    <3>1. named \in [Ids -> Arguments]
      BY DEF IInv, TypeOK, Arguments
    <3>2. [f \in Fields |-> IF arg[f] = None THEN named[id][f] ELSE arg[f]] \in Arguments
      BY <3>1, ArgumentFields DEF Fields
    <3>. QED
      BY <3>1, <3>2, <1>2 DEF Commit
  <2>4. n <= MaxCommits
    BY DEF Commits
  <2>. QED
    BY <1>2, <1>4, <1>6, <2>1, <2>2, <2>3, <2>4 DEF IInv, TypeOK, NewCommit, Arguments
<1>14. IdInv'
  <2>1. lastId \in Nat /\ lastId' \in Nat /\ lastId <= lastId' /\ id <= lastId'
    <3>1. lastId \in Nat
      BY DEF IInv, TypeOK
    <3>2. CASE Created
      BY <3>1, <3>2 DEF Created
    <3>3. CASE Stored
      BY <3>1, <3>3 DEF Stored, Writing, IInv, IdInv, Ids
    <3>. QED
      BY <3>2, <3>3, <1>1 DEF Updated, Deleted
  <2>2. \A m \in Ids : m > lastId' => books'[m] = None
    BY <1>6, <2>1 DEF IInv, IdInv, Ids
  <2>3. \A c \in DOMAIN commits' : commits'[c].id <= lastId'
    <3>1. \A c \in DOMAIN commits : commits[c].id <= lastId /\ commits[c].id \in Nat
      BY <1>b DEF IInv, IdInv, Ids
    <3>2. id \in Nat
      BY DEF Ids
    <3>. QED
      BY <1>5, <1>a, <2>1, <3>1, <3>2
  <2>4. \A q \in Requests : req'[q] # None => req'[q].id <= lastId'
    <3>1. \A q \in Requests : req[q] # None => req[q].id \in Ids
      BY Locals DEF IInv
    <3>. QED
      BY <1>9, <1>10, <2>1, <3>1 DEF IInv, IdInv, Ids
  <2>. QED
    BY <2>2, <2>3, <2>4 DEF IdInv
<1>15. \A c \in DOMAIN commits : commits[c].row = None => commits[c].id # id
  BY <1>1, <1>7 DEF Created, Updated, Deleted, Stored, IInv, TableInv
<1>16. TableInv'
  <2>1. \A m \in Ids : books'[m] # None =>
           \E c \in DOMAIN commits' : commits'[c] = [id |-> m, row |-> books'[m]]
    <3>. SUFFICES ASSUME NEW m \in Ids, books'[m] # None
         PROVE  \E c \in DOMAIN commits' : commits'[c] = [id |-> m, row |-> books'[m]]
      OBVIOUS
    <3>1. CASE m = id
      BY <3>1, <1>5, <1>6, <1>a
    <3>2. CASE m # id
      <4>1. PICK c \in DOMAIN commits : commits[c] = [id |-> m, row |-> books[m]]
        BY <3>2, <1>6 DEF IInv, TableInv
      <4>. QED
        BY <3>2, <4>1, <1>5, <1>6, <1>a
    <3>. QED
      BY <3>1, <3>2
  <2>2. ASSUME NEW c \in DOMAIN commits', commits'[c].row = None
        PROVE  /\ books'[commits'[c].id] = None
               /\ \A d \in DOMAIN commits' : commits'[d] = commits'[c] => c = d
    <3>2. CASE c = n
      <4>1. commits'[c] = [id |-> id, row |-> None] /\ row = None
        BY <2>2, <3>2, <1>a
      <4>2. \A d \in DOMAIN commits : commits[d] # [id |-> id, row |-> None]
        BY <1>15
      <4>. QED
        BY <3>2, <4>1, <4>2, <1>5, <1>6, <1>a
    <3>3. CASE c \in DOMAIN commits
      <4>1. commits'[c] = commits[c] /\ commits[c].row = None /\ commits[c].id # id
        BY <2>2, <3>3, <1>a, <1>15
      <4>2. books[commits[c].id] = None
            /\ \A d \in DOMAIN commits : commits[d] = commits[c] => c = d
        BY <3>3, <4>1 DEF IInv, TableInv
      <4>3. commits'[n] # commits[c]
        BY <4>1, <1>a
      <4>. QED
        BY <3>3, <4>1, <4>2, <4>3, <1>5, <1>6, <1>a, <1>b
    <3>. QED
      BY <3>2, <3>3, <1>5
  <2>. QED
    BY <2>1, <2>2 DEF TableInv
<1>17. \A e : Reports(e) => Reports(e)'
  BY <1>4, <1>5, ReportsStay
<1>18. HandlerInv'
  <2>1. ASSUME NEW q \in Requests, Writing(q)'
        PROVE  /\ books'[req'[q].id] # None => books'[req'[q].id].owner = req'[q].who
               /\ req'[q].pc = "replace" => req'[q].arg \in ReplaceBody
               /\ req'[q].pc = "delete" => req'[q].arg = NoFields
               /\ \E c \in DOMAIN commits' :
                     commits'[c] = [id |-> req'[q].id, row |-> req'[q].snap]
    <3>1. Writing(q) /\ req'[q] = req[q] /\ req[q].id \in Ids
      BY <1>12, <2>1, Locals DEF IInv, Writing
    <3>2. books'[req[q].id] # None => books'[req[q].id].owner = req[q].who
      <4>1. books[req[q].id] # None => books[req[q].id].owner = req[q].who
        BY <3>1 DEF IInv, HandlerInv
      <4>2. CASE req[q].id # id
        BY <3>1, <4>1, <4>2, <1>6
      <4>3. CASE req[q].id = id
        BY <3>1, <4>1, <4>3, <1>1, <1>6, <1>7 DEF Created, Updated, Deleted, Stored, Writing
      <4>. QED
        BY <4>2, <4>3
    <3>3. \E c \in DOMAIN commits' :
             commits'[c] = [id |-> req[q].id, row |-> req[q].snap]
      BY <3>1, <1>4, <1>5 DEF IInv, HandlerInv
    <3>4. /\ req[q].pc = "replace" => req[q].arg \in ReplaceBody
          /\ req[q].pc = "delete" => req[q].arg = NoFields
      BY <3>1 DEF IInv, HandlerInv
    <3>. QED
      BY <3>1, <3>2, <3>3, <3>4
  <2>2. ASSUME NEW q \in Requests, Pending(q)'
        PROVE  Reports(req[q])'
    <3>1. PICK e : e = req'[q]
      OBVIOUS
    <3>2. CASE q # r
      <4>1. Pending(q) /\ e = req[q]
        BY <1>12, <2>2, <3>1, <3>2
      <4>2. Reports(e)
        BY <4>1 DEF IInv, HandlerInv
      <4>3. Reports(e)'
        BY <4>2, <1>17
      <4>. QED
        BY <4>3, <3>1 DEF Reports
    <3>3. CASE q = r
      <4>1. e = [pc |-> "publish", type |-> type, id |-> id, data |-> v, com |-> n]
        BY <1>12, <2>2, <3>1, <3>3
      <4>2. n \in DOMAIN commits' /\ 1 .. n - 1 = DOMAIN commits
        BY <1>3, <1>4, <1>5
      <4>3. CASE Deleted
        <5>1. \E c \in DOMAIN commits : commits[c] = [id |-> id, row |-> req[r].snap]
          BY <4>3 DEF IInv, HandlerInv, Deleted, Stored
        <5>. QED
          BY <3>1, <4>1, <4>2, <4>3, <5>1, <1>4, <1>9 DEF Reports, Deleted
      <4>4. CASE Created \/ Updated
        BY <3>1, <4>1, <4>2, <4>4, <1>4, <1>9, RowAssumption DEF Reports, Created, Updated
      <4>. QED
        BY <4>3, <4>4, <1>1
    <3>. QED
      BY <3>2, <3>3
  <2>. QED
    BY <2>1, <2>2 DEF HandlerInv
<1>19. TopicInv'
  <2>1. ASSUME NEW i \in DOMAIN topic
        PROVE  Reports(topic[i])'
    <3>1. PICK e : e = topic[i]
      OBVIOUS
    <3>2. Reports(e)'
      BY <3>1, <1>17 DEF IInv, TopicInv
    <3>. QED
      BY <1>2, <3>1, <3>2 DEF Reports
  <2>2. ASSUME NEW e \in afloat
        PROVE  Reports(e)'
    BY <2>2, <1>17 DEF IInv, TopicInv
  <2>. QED
    BY <1>2, <2>1, <2>2 DEF TopicInv
<1>20. OrderInv'
  <2>1. begun \subseteq told
    BY <1>1 DEF Created, Updated, Deleted, Stored, IInv, OrderInv
  <2>2. \A c \in DOMAIN before' : before'[c] \subseteq told
    BY <1>4, <1>5, <2>1 DEF IInv, OrderInv
  <2>3. \A q \in Requests : Writing(q)' => req'[q].begun \subseteq told
    BY <1>12 DEF IInv, OrderInv
  <2>. QED
    BY <1>2, <2>2, <2>3 DEF IInv, OrderInv
<1>21. NoFieldUndone'
  <2>. SUFFICES ASSUME NEW m \in Ids, books'[m] # None
       PROVE  books'[m].title = named'[m].title /\ books'[m].author = named'[m].author
    BY DEF NoFieldUndone
  <2>1. named \in [Ids -> Arguments]
    BY DEF IInv, TypeOK, Arguments
  <2>2. CASE m # id
    <3>1. named'[m] = named[m]
      BY <1>2, <2>1, <2>2 DEF Commit
    <3>. QED
      BY <3>1, <2>2, <1>6 DEF IInv, NoFieldUndone
  <2>3. CASE m = id
    <3>1. named'[id] = [f \in Fields |-> IF arg[f] = None THEN named[id][f] ELSE arg[f]]
      BY <1>2, <2>1 DEF Commit
    <3>2. /\ named'[id].title = IF arg.title = None THEN named[id].title ELSE arg.title
          /\ named'[id].author = IF arg.author = None THEN named[id].author ELSE arg.author
      BY <3>1 DEF Fields
    <3>3. CASE Created
      BY <2>3, <3>2, <3>3, <1>6, NilAssumption DEF Created, Row
    <3>4. CASE Updated
      BY <2>3, <3>2, <3>4, <1>6 DEF Updated, Stored, IInv, NoFieldUndone
    <3>5. CASE Deleted
      BY <2>3, <3>5, <1>6 DEF Deleted
    <3>. QED
      BY <3>3, <3>4, <3>5, <1>1
  <2>. QED
    BY <2>2, <2>3
<1>22. EventsFollowAnswers'
  <2>. SUFFICES ASSUME NEW j \in DOMAIN topic, NEW c \in before'[topic[j].com]
       PROVE  \E i \in 1 .. j - 1 : topic[i].com = c
    BY <1>2 DEF EventsFollowAnswers
  <2>1. topic[j].com \in DOMAIN commits
    BY DEF IInv, TopicInv, Reports
  <2>. QED
    BY <2>1, <1>4 DEF IInv, EventsFollowAnswers
<1>. QED
  BY <1>13, <1>14, <1>16, <1>18, <1>19, <1>20, <1>21, <1>22 DEF IInv

----------------------------------------------------------------------------
(* Theorems *)

LEMMA InitInv ==
    ASSUME Init
    PROVE  IInv
<1>1. (\A r \in Requests : req[r] = None) /\ (\A n \in Ids : books[n] = None)
  BY DEF Init
<1>2. DOMAIN topic = {} /\ DOMAIN commits = {} /\ DOMAIN before = {}
      /\ Len(commits) = 0 /\ Len(before) = 0
  BY DEF Init
<1>3. \A S : <<>> \in Seq(S)
  BY EmptySeq
<1>4. TypeOK
  BY <1>1, <1>2, <1>3, BookBoundsAssumption DEF Init, TypeOK
<1>5. IdInv /\ TableInv /\ TopicInv
  BY <1>1, <1>2 DEF Init, IdInv, TableInv, TopicInv
<1>6. HandlerInv /\ OrderInv
  BY <1>1, <1>2 DEF Init, HandlerInv, OrderInv, Writing, Pending
<1>7. NoFieldUndone /\ EventsFollowAnswers
  BY <1>1, <1>2 DEF NoFieldUndone, EventsFollowAnswers
<1>. QED
  BY <1>4, <1>5, <1>6, <1>7 DEF IInv

LEMMA StepInv ==
    ASSUME IInv, [Next]_vars
    PROVE  IInv'
<1>1. CASE Next
  BY <1>1, StepForms, BeginsStep, GivesUpStep, WritesStep, PublishStep, LandsStep DEF Next
<1>2. CASE UNCHANGED vars
  <2>1. TypeOK' /\ IdInv' /\ TableInv'
    BY <1>2 DEF vars, IInv, TypeOK, IdInv, TableInv
  <2>2. HandlerInv' /\ TopicInv'
    <3>1. \A e : Reports(e)' = Reports(e)
      BY <1>2 DEF vars, Reports
    <3>2. \A r \in Requests : Writing(r)' = Writing(r) /\ Pending(r)' = Pending(r)
      BY <1>2 DEF vars, Writing, Pending
    <3>3. TopicInv'
      BY <1>2, <3>1 DEF vars, IInv, TopicInv
    <3>4. HandlerInv'
      BY <1>2, <3>1, <3>2 DEF vars, IInv, HandlerInv
    <3>. QED
      BY <3>3, <3>4
  <2>3. OrderInv'
    BY <1>2 DEF vars, IInv, OrderInv, Writing, Pending
  <2>4. NoFieldUndone' /\ EventsFollowAnswers'
    BY <1>2 DEF vars, IInv, NoFieldUndone, EventsFollowAnswers
  <2>. QED
    BY <2>1, <2>2, <2>3, <2>4 DEF IInv
<1>. QED
  BY <1>1, <1>2

\* The inductive invariant holds of every state of the four mutations, whatever the
\* interleaving of their statements.
THEOREM Invariance == Spec => []IInv
<1>1. Init => IInv
  BY InitInv
<1>2. IInv /\ [Next]_vars => IInv'
  BY StepInv
<1>. QED
  BY <1>1, <1>2, PTL DEF Spec

\* The table, the requests and the topic keep their types (the locals of
\* BookService and the rows of book_sqlc.go).
THEOREM TypeCorrect == Spec => []TypeOK
<1>1. IInv => TypeOK
  BY DEF IInv
<1>. QED
  BY <1>1, Invariance, PTL

\* UPDATE ... COALESCE merges into the row as it is: no PATCH undoes a field that a
\* concurrent request wrote.
THEOREM FieldsKept == Spec => []NoFieldUndone
<1>1. IInv => NoFieldUndone
  BY DEF IInv
<1>. QED
  BY <1>1, Invariance, PTL

\* Of the DELETEs of a book that race, one affects a row and publishes.
THEOREM OneDeletion == Spec => []DeletedOnce
<1>1. ASSUME IInv
      PROVE  DeletedOnce
  <2>. SUFFICES ASSUME NEW i \in DOMAIN topic, NEW j \in DOMAIN topic,
                       topic[i].type = "deleted"
       PROVE  /\ books[topic[i].id] = None
              /\ topic[j].type = "deleted" /\ topic[j].id = topic[i].id
                    => topic[j].com = topic[i].com
    BY DEF DeletedOnce
  <2>1. Reports(topic[i]) /\ Reports(topic[j]) /\ TableInv
    BY <1>1 DEF IInv, TopicInv
  <2>2. topic[i].com \in DOMAIN commits
        /\ commits[topic[i].com] = [id |-> topic[i].id, row |-> None]
    BY <2>1 DEF Reports
  <2>3. topic[j].type = "deleted" => /\ topic[j].com \in DOMAIN commits
                                     /\ commits[topic[j].com] = [id |-> topic[j].id, row |-> None]
    BY <2>1 DEF Reports
  <2>. QED
    BY <2>1, <2>2, <2>3 DEF TableInv
<1>. QED
  BY <1>1, Invariance, PTL

\* Every event on the topic tells of a mutation that committed, with a row it made.
THEOREM EventsTrue == Spec => []EventsReportCommits
<1>1. IInv => EventsReportCommits
  BY DEF IInv, TopicInv, Reports, EventsReportCommits
<1>. QED
  BY <1>1, Invariance, PTL

\* An event that Publish reported as written is ahead of the events of every
\* mutation that began afterwards, whatever retries, timeouts and other instances
\* do.
THEOREM EventsInOrder == Spec => []EventsFollowAnswers
<1>1. IInv => EventsFollowAnswers
  BY DEF IInv
<1>. QED
  BY <1>1, Invariance, PTL

\* The owner that FirstByID checked is still the owner when the statement writes:
\* no step changes or deletes a book for anyone else.
THEOREM OwnerWrites == Spec => OnlyTheOwnerWrites
<1>. DEFINE Act ==
        \A id \in Ids :
          books[id] # None /\ books'[id] # books[id] =>
              /\ \E r \in Requests : /\ req[r] # None /\ req'[r] # req[r]
                                      /\ req[r].id = id /\ req[r].who = books[id].owner
              /\ books'[id] = None \/ books'[id].owner = books[id].owner
<1>1. ASSUME IInv, [Next]_vars
      PROVE  [Act]_vars
  <2>1. CASE UNCHANGED vars
    BY <2>1
  <2>2. CASE Next
    <3>. SUFFICES ASSUME NEW m \in Ids, books[m] # None, books'[m] # books[m]
         PROVE  /\ \E r \in Requests : /\ req[r] # None /\ req'[r] # req[r]
                                        /\ req[r].id = m /\ req[r].who = books[m].owner
                /\ books'[m] = None \/ books'[m].owner = books[m].owner
      OBVIOUS
    <3>1. PICK r \in Requests, id \in Ids, row \in Row \cup {None}, arg \in Arguments,
               begun \in SUBSET Commits, type \in Types, ack \in BOOLEAN :
                 Writes(r, id, row, arg, begun, type, ack)
      BY <1>1, <2>2, StepForms DEF Begins, GivesUp, Publish, Lands, Next
    <3>2. Commit(id, row, arg, begun) /\ ThenPublish(r, type, id, row, ack)
      BY <3>1 DEF Writes
    <3>3. books \in [Ids -> Row \cup {None}] /\ lastId \in Nat
          /\ req \in [Requests -> Storing \cup Publishing \cup {None}]
      BY <1>1 DEF IInv, TypeOK
    <3>4. id = m /\ books'[m] = row
      BY <3>2, <3>3 DEF Commit
    <3>5. Writing(r) /\ id = req[r].id
          /\ (row = None \/ row.owner = books[id].owner)
      BY <1>1, <3>1, <3>3, <3>4 DEF Writes, IInv, IdInv, Ids
    <3>6. req[r].who = books[id].owner
      BY <1>1, <3>4, <3>5 DEF IInv, HandlerInv
    <3>7. req'[r] # req[r]
      <4>1. req'[r] = None \/ req'[r].pc = "publish"
        BY <3>2, <3>3 DEF ThenPublish
      <4>. QED
        BY <4>1, <3>5 DEF Writing
    <3>. QED
      BY <3>4, <3>5, <3>6, <3>7 DEF Writing
  <2>. QED
    BY <2>1, <2>2, <1>1
<1>. QED
  BY <1>1, Invariance, PTL DEF Spec, OnlyTheOwnerWrites

============================================================================
