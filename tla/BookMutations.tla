--------------------------- MODULE BookMutations ---------------------------
(***************************************************************************)
(* Creating, replacing, patching and deleting books: BookService           *)
(* (pkg/service/book_service.go) over the books table                      *)
(* (pkg/repository/book_sqlc.go) and the event topic                       *)
(* (pkg/events/kafka/producer.go).                                         *)
(*                                                                         *)
(* A mutation reads the row and checks its owner, then writes by id alone, *)
(* then publishes: three steps with other requests in between.  A          *)
(* statement commits on its own; its answer may be lost (ack = FALSE, also *)
(* a process that dies after it), and then nothing is published.  The      *)
(* requests may run on several instances, each with its own Kafka writer.  *)
(* A Publish that ends with an error leaves its event lost, written, or    *)
(* with a writer or a broker that may still write it, after the request    *)
(* has been answered and in no order with the others'.  The bump of the    *)
(* list cache, between the write and the event, is in BookListCache.       *)
(***************************************************************************)
EXTENDS Naturals, Sequences

CONSTANTS
    Users,          \* users.id
    Titles,         \* values of title and of author
    Authors,
    Requests,       \* concurrent POST, PUT, PATCH and DELETE of books
    MaxCopies,      \* copies of its event written while Publish runs: 0 with NopPublisher
    MaxId,          \* bound of the model: books created
    Late,           \* bound of the model: the commits, by number, whose event may land late
    MaxCommits,     \* bound of the model: committed mutations
    None            \* nil

ASSUME BookBoundsAssumption == MaxCopies \in Nat /\ MaxId \in Nat /\ MaxCommits \in Nat
ASSUME NilAssumption == None \notin Titles \cup Authors

VARIABLES
    books,      \* the books table
    lastId,     \* the sequence behind books.id
    req,        \* the locals of each request, None when idle
    topic,      \* the books topic, in the order of its one partition per key
    afloat,     \* events that a writer or a broker may still write
    \* history, read by the properties only
    commits,    \* every committed mutation: the book and its new row
    named,      \* the value last committed for each field by a write that named it
    told,       \* commits whose Publish may have returned without error
    before      \* for each commit, those that were told when its request began

kafka   == <<topic, afloat>>
history == <<commits, named, told, before>>
vars    == <<books, lastId, req, topic, afloat, commits, named, told, before>>

Ids    == 1 .. MaxId
Fields == {"title", "author"}
Row    == [owner : Users, title : Titles, author : Authors]

ASSUME RowAssumption == None \notin Row

\* Request bodies: PUT names both fields, PATCH at least one.
ReplaceBody == [title : Titles, author : Authors]
NoFields    == [f \in Fields |-> None]
PatchBody   == [title : Titles \cup {None}, author : Authors \cup {None}] \ {NoFields}

\* BIGSERIAL: an id is never given twice.
NextId_Reused == CHOOSE n \in 1 .. lastId + 1 :
                    /\ n <= lastId => books[n] = None
                    /\ \A k \in 1 .. n - 1 : books[k] # None
NextId == lastId + 1

\* b.OwnerID == actorID
Owns(u, b) == b.owner = u

\* The row after UPDATE ... SET f = COALESCE($f, f), against the row as it is then.
Merge_Snapshot(r) ==
    LET b == req[r].snap IN
    [b EXCEPT !.title  = IF req[r].arg.title  = None THEN @ ELSE req[r].arg.title,
              !.author = IF req[r].arg.author = None THEN @ ELSE req[r].arg.author]
Merge_Null(r) ==
    [books[req[r].id] EXCEPT !.title = req[r].arg.title, !.author = req[r].arg.author]
Merge(r) ==
    LET b == books[req[r].id] IN
    [b EXCEPT !.title  = IF req[r].arg.title  = None THEN @ ELSE req[r].arg.title,
              !.author = IF req[r].arg.author = None THEN @ ELSE req[r].arg.author]

\* DELETE affected no row: ErrNotFound.
Missing_Ignored(id) == FALSE
Missing(id) == books[id] = None

\* What the event carries: the returned row, or the row read before a DELETE.
Payload_Snapshot(r, row) == IF req[r] = None THEN row ELSE req[r].snap
Payload(r, row) == IF row = None THEN req[r].snap ELSE row

\* When Publish may return without error: the writer is synchronous (Async: false,
\* RequireAll), so only once the event is written.
Acked_Async(copies) == TRUE
Acked(copies) == copies > 0

----------------------------------------------------------------------------
Init ==
    /\ books = [n \in Ids |-> None]
    /\ lastId = 0
    /\ req = [r \in Requests |-> None]
    /\ topic = <<>>
    /\ afloat = {}
    /\ commits = <<>>
    /\ named = [n \in Ids |-> NoFields]
    /\ told = {}
    /\ before = <<>>

\* A statement commits: book id becomes row, arg being the fields it named and
\* begun the commits that were told when its request began.
Commit(id, row, arg, begun) ==
    /\ Len(commits) < MaxCommits
    /\ books' = [books EXCEPT ![id] = row]
    /\ commits' = Append(commits, [id |-> id, row |-> row])
    /\ named' = [named EXCEPT ![id] =
                    [f \in Fields |-> IF arg[f] = None THEN @[f] ELSE arg[f]]]
    /\ before' = Append(before, begun)
    /\ UNCHANGED told

\* On to the event, or, if the answer was lost, an error and no event.
ThenPublish(r, type, id, row, ack) ==
    req' = [req EXCEPT ![r] =
              IF ack THEN [pc |-> "publish", type |-> type, id |-> id,
                           data |-> Payload(r, row), com |-> Len(commits) + 1]
              ELSE None]

\* POST: the owner is the caller.
CreateBook(r, u, body, ack) ==
    /\ req[r] = None
    /\ NextId \in Ids
    /\ lastId' = IF NextId > lastId THEN NextId ELSE lastId
    /\ LET row == [owner |-> u, title |-> body.title, author |-> body.author] IN
       /\ Commit(NextId, row, body, told)
       /\ ThenPublish(r, "created", NextId, row, ack)
    /\ UNCHANGED kafka

\* PUT, PATCH, DELETE: FirstByID finds the caller's own book.
\* (Otherwise the answer is 404 or 403 and nothing changes.)
FirstByID(r, u, op, id, body) ==
    /\ req[r] = None
    /\ books[id] # None
    /\ Owns(u, books[id])
    /\ req' = [req EXCEPT ![r] = [pc |-> op, who |-> u, id |-> id, arg |-> body,
                                  snap |-> books[id], begun |-> told, com |-> 0]]
    /\ UNCHANGED <<books, lastId, kafka, history>>

\* The write finds no row: the book was deleted meanwhile, 404.
Gone(r) ==
    /\ Missing(req[r].id)
    /\ req' = [req EXCEPT ![r] = None]
    /\ UNCHANGED <<books, kafka, history>>

Update(r, row, ack) ==
    /\ books[req[r].id] # None
    /\ Commit(req[r].id, row, req[r].arg, req[r].begun)
    /\ ThenPublish(r, "updated", req[r].id, row, ack)
    /\ UNCHANGED kafka

\* PUT: title and author are the body's.
UpdateFields(r, ack) ==
    /\ req[r] # None /\ req[r].pc = "replace"
    /\ \/ Gone(r)
       \/ Update(r, [books[req[r].id] EXCEPT !.title = req[r].arg.title,
                                             !.author = req[r].arg.author], ack)
    /\ UNCHANGED lastId

\* PATCH: the fields the body leaves out keep their value.
PatchFields(r, ack) ==
    /\ req[r] # None /\ req[r].pc = "patch"
    /\ Gone(r) \/ Update(r, Merge(r), ack)
    /\ UNCHANGED lastId

DeleteByID(r, ack) ==
    /\ req[r] # None /\ req[r].pc = "delete"
    /\ \/ Gone(r)
       \/ /\ ~Missing(req[r].id)
          /\ Commit(req[r].id, None, NoFields, req[r].begun)
          /\ ThenPublish(r, "deleted", req[r].id, None, ack)
          /\ UNCHANGED kafka
    /\ UNCHANGED lastId

\* The statement fails, or the request's context ends before it: 500.
StoreFails(r) ==
    /\ req[r] # None /\ req[r].pc # "publish"
    /\ req' = [req EXCEPT ![r] = None]
    /\ UNCHANGED <<books, lastId, kafka, history>>

\* publishBookEvent: while Publish runs the event is written some number of times
\* (none, or again by retries of the writer), and it may stay with the writer or a
\* broker when Publish returns, at its timeout above all.  The request succeeds
\* whether Publish returns an error or not.
Publish(r, copies, late) ==
    /\ req[r] # None /\ req[r].pc = "publish"
    /\ late => req[r].com \in Late
    /\ LET e == [type |-> req[r].type, id |-> req[r].id,
                 data |-> req[r].data, com |-> req[r].com] IN
       /\ topic' = topic \o [i \in 1 .. copies |-> e]
       /\ afloat' = IF late THEN afloat \cup {e} ELSE afloat
    /\ told' = IF Acked(copies) THEN told \cup {req[r].com} ELSE told
    /\ req' = [req EXCEPT ![r] = None]
    /\ UNCHANGED <<books, lastId, commits, named, before>>

\* An event that was left behind is written after all.
Lands(e) ==
    /\ topic' = Append(topic, e)
    /\ afloat' = afloat \ {e}
    /\ UNCHANGED <<books, lastId, req, history>>

RequestStep(r) ==
    \/ \E u \in Users, body \in ReplaceBody, ack \in BOOLEAN : CreateBook(r, u, body, ack)
    \/ \E u \in Users, id \in Ids :
          \/ \E body \in ReplaceBody : FirstByID(r, u, "replace", id, body)
          \/ \E body \in PatchBody : FirstByID(r, u, "patch", id, body)
          \/ FirstByID(r, u, "delete", id, NoFields)
    \/ \E ack \in BOOLEAN : UpdateFields(r, ack) \/ PatchFields(r, ack) \/ DeleteByID(r, ack)
    \/ StoreFails(r)
    \/ \E copies \in 0 .. MaxCopies, late \in BOOLEAN : Publish(r, copies, late)

Next ==
    \/ \E r \in Requests : RequestStep(r)
    \/ \E e \in afloat : Lands(e)

Spec == Init /\ [][Next]_vars

----------------------------------------------------------------------------
(* Properties *)

Commits == 1 .. MaxCommits
Storing ==
    [pc : {"replace", "patch", "delete"}, who : Users, id : Ids,
     arg : PatchBody \cup {NoFields}, snap : Row, begun : SUBSET Commits, com : {0}]
Types == {"created", "updated", "deleted"}
Publishing == [pc : {"publish"}, type : Types, id : Ids, data : Row, com : Commits]
Event == [type : Types, id : Ids, data : Row, com : Commits]

ASSUME LocalsAssumption == None \notin Storing \cup Publishing

\* Type invariant: the shape of the table, of the requests and of the topic.
TypeOK ==
    /\ books \in [Ids -> Row \cup {None}]
    /\ lastId \in 0 .. MaxId
    /\ req \in [Requests -> Storing \cup Publishing \cup {None}]
    /\ topic \in Seq(Event)
    /\ afloat \in SUBSET Event
    /\ told \in SUBSET Commits
    /\ commits \in Seq([id : Ids, row : Row \cup {None}])
    /\ named \in [Ids -> PatchBody \cup {NoFields}]
    /\ before \in Seq(SUBSET Commits)
    /\ Len(before) = Len(commits) /\ Len(commits) <= MaxCommits

\* The owner check and the write are separate statements, and the write is by id
\* alone: still a book changes or goes only by a request of its own owner, and
\* never changes hands, because an id is not given to another book.
OnlyTheOwnerWrites ==
    [][\A id \in Ids :
          books[id] # None /\ books'[id] # books[id] =>
              /\ \E r \in Requests : /\ req[r] # None /\ req'[r] # req[r]
                                      /\ req[r].id = id /\ req[r].who = books[id].owner
              /\ books'[id] = None \/ books'[id].owner = books[id].owner]_vars

\* Each field of a book holds what the last committed write that named the field
\* gave it: a PATCH of one field never undoes a concurrent write of the other.
NoFieldUndone ==
    \A id \in Ids : books[id] # None =>
        books[id].title = named[id].title /\ books[id].author = named[id].author

\* However many DELETEs of a book race, one of them deletes it, and only that one
\* tells the consumers; once they are told, the book is gone for good.
DeletedOnce ==
    \A i, j \in DOMAIN topic :
        topic[i].type = "deleted" =>
            /\ books[topic[i].id] = None
            /\ topic[j].type = "deleted" /\ topic[j].id = topic[i].id
                  => topic[j].com = topic[i].com

\* An event tells of a committed mutation: created and updated carry the row that
\* very commit made, deleted a row the book had at an earlier commit.
EventsReportCommits ==
    \A i \in DOMAIN topic :
        LET e == topic[i] IN
        IF e.type = "deleted"
        THEN /\ commits[e.com] = [id |-> e.id, row |-> None]
             /\ \E c \in 1 .. e.com - 1 : commits[c] = [id |-> e.id, row |-> e.data]
        ELSE commits[e.com] = [id |-> e.id, row |-> e.data]

\* Publishing is synchronous, so success means something: a mutation whose event
\* was published without error before another mutation began is on the topic ahead
\* of every copy of the other's event, on whatever instances they ran.  Overlapping
\* requests, and a Publish that timed out, may leave events in any order.
EventsFollowAnswers ==
    \A j \in DOMAIN topic : \A c \in before[topic[j].com] :
        \E i \in 1 .. j - 1 : topic[i].com = c

============================================================================
