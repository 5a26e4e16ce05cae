---------------------------- MODULE BookPaging ----------------------------
(***************************************************************************)
(* GET /books with its query parameters: parsing and bounds                *)
(* (pkg/api/books.go), the SELECT that SQLCBookStore.List builds           *)
(* (pkg/repository/book_sqlc.go) and the cache key of a page               *)
(* (pkg/service/book_service.go), and a client that walks through a list   *)
(* page by page while other clients create books.                          *)
(*                                                                         *)
(* PostgreSQL may return rows that ORDER BY does not tell apart in any     *)
(* order, and in another order for the next page.  A text is a sequence of *)
(* characters, and texts sort by Rank.  An id is drawn from a sequence     *)
(* before its row can be seen, so rows appear in any order of their ids.   *)
(* A page may come from Redis, or from a load another request began: it    *)
(* then shows an earlier state of the table.  Rows that are changed or     *)
(* deleted under a walk are not in this module.                            *)
(*                                                                         *)
(* The page this module is about is the one BookListCache files under a    *)
(* key, and that module says how old it may be; no name of the two is the  *)
(* same, so a module can extend both.                                      *)
(***************************************************************************)
EXTENDS Integers, Functions, SequencesExt

CONSTANTS
    Books,          \* the rows a table may hold: title, author, owner, created, updated
    Rank(_),        \* the collation: the place of a text in the order of texts
    ToLower(_),     \* strings.ToLower of a character
    LOWER(_),       \* PostgreSQL's LOWER of a character, which depends on its locale
    Ascii,          \* the characters the two are known to agree on
    RawQueries,     \* query strings: offset, limit, title, author, owner, sort, order
    DefaultLimit,   \* 10, scaled down
    MaxLimit,       \* findBooksMaxLimit (100), scaled down
    MaxInt,         \* math.MaxInt64, scaled down
    MaxId,          \* bound of the model: ids of books
    Bad,            \* a text strconv rejects
    Nil             \* a parameter left out, no row: nil

ASSUME PagingAssumption ==
    /\ DefaultLimit \in 1 .. MaxLimit /\ MaxLimit \in Nat
    /\ MaxInt \in Nat /\ MaxId \in Nat

\* Texts are sequences of characters.  Owners are ids of users, which come from a
\* sequence of int64 that does not get to its last value.
ASSUME BooksAssumption ==
    /\ Nil \notin Books
    /\ \A b \in Books :
          /\ b.title \in Seq(STRING) /\ Rank(b.title) \in Int
          /\ b.author \in Seq(STRING) /\ Rank(b.author) \in Int
          /\ b.owner \in 0 .. MaxInt - 1
          /\ b.created \in Int /\ b.updated \in Int

ASSUME LettersAssumption == \A c \in Ascii : ToLower(c) = LOWER(c)

\* What a query string may hold: numbers are those strconv accepts, owners unsigned.
ASSUME QueriesAssumption ==
    \A raw \in RawQueries :
        /\ raw.offset \in Int \cup {Nil, Bad} /\ raw.limit \in Int \cup {Nil, Bad}
        /\ raw.owner \in Nat \cup {Nil, Bad}
        /\ raw.title \in Seq(STRING) /\ raw.author \in Seq(STRING)

VARIABLES
    tables, \* the states of the books table so far, the last one the current
    lastId, \* the last id drawn from the sequence
    drawn,  \* ids of INSERTs that have not committed
    query,  \* the query the client asks for, Nil before and if it was refused
    upto,   \* the offset of the next page
    got,    \* the ids received so far
    done,   \* a page shorter than its limit has come, or a 400
    \* history, read by the properties only
    from,   \* the state the first page shows, 0 before
    at,     \* the state the last page shows
    back    \* some page shows an earlier state than the page before it

inserts  == <<tables, lastId, drawn>>
walk     == <<query, upto, got, done, from, at, back>>
walkVars == <<inserts, walk>>

Ids   == 1 .. MaxId
Table == [Ids -> Books \cup {Nil}]
Now   == tables[Len(tables)]

----------------------------------------------------------------------------
(* parseOffsetLimit and parseBookListQuery *)

Offset(raw) == IF raw.offset = Nil THEN 0 ELSE raw.offset

Cap(l) == IF l > MaxLimit THEN MaxLimit ELSE l

Limit(raw) == IF raw.limit = Nil THEN DefaultLimit ELSE Cap(raw.limit)

SortFields == {"id", "title", "author", "created_at", "updated_at", "owner_id"}

Valid(raw) ==
    /\ raw.offset # Bad /\ raw.limit # Bad
    /\ raw.offset = Nil \/ raw.offset >= 0
    /\ raw.limit = Nil \/ raw.limit >= 1
    /\ raw.owner # Bad
    /\ raw.sort \in SortFields \cup {Nil}
    /\ raw.order \in {"asc", "desc", Nil}

Parse(raw) ==
    [offset |-> Offset(raw), limit |-> Limit(raw),
     title |-> raw.title, author |-> raw.author, owner |-> raw.owner,
     sort  |-> IF raw.sort = Nil THEN "id" ELSE raw.sort,
     order |-> IF raw.order = Nil THEN "asc" ELSE raw.order]

----------------------------------------------------------------------------
(* SQLCBookStore.List *)

\* The filter is lowered by Go, the column by PostgreSQL.
LowerFilter(text) == [i \in DOMAIN text |-> ToLower(text[i])]
LowerColumn(text) == [i \in DOMAIN text |-> LOWER(text[i])]

\* What a character of the filter stands for in the pattern: escapeLikePattern
\* makes %, _ and the escape character itself literal.
Pattern_Raw(c) ==
    IF c = "%" THEN [any |-> TRUE] ELSE IF c = "_" THEN [one |-> TRUE] ELSE [lit |-> c]
Pattern(c) == [lit |-> c]

\* text LIKE '%' || pattern || '%': the pieces of text the characters take, cut
\* at the given places, are what they stand for.
Takes(p, text, i, j) ==
    CASE DOMAIN p = {"lit"} -> j = i + 1 /\ text[i] = p.lit
      [] DOMAIN p = {"one"} -> j = i + 1
      [] DOMAIN p = {"any"} -> j >= i
Like(text, filter) ==
    \E cut \in [1 .. Len(filter) + 1 -> 1 .. Len(text) + 1] :
        \A k \in DOMAIN filter :
            /\ cut[k] <= cut[k + 1]
            /\ cut[k + 1] <= Len(text) + 1
            /\ Takes(Pattern(filter[k]), text, cut[k], cut[k + 1])

\* uint to BIGINT
ToInt64(v) == IF v > MaxInt THEN MaxInt ELSE v

Where(q, b) ==
    /\ q.title # <<>> => Like(LowerColumn(b.title), LowerFilter(q.title))
    /\ q.author # <<>> => Like(LowerColumn(b.author), LowerFilter(q.author))
    /\ q.owner # Nil => b.owner = ToInt64(q.owner)

Column(q, table, n) ==
    CASE q.sort = "id" -> n
      [] q.sort = "title" -> Rank(table[n].title)
      [] q.sort = "author" -> Rank(table[n].author)
      [] q.sort = "created_at" -> table[n].created
      [] q.sort = "updated_at" -> table[n].updated
      [] q.sort = "owner_id" -> table[n].owner

\* Row m may come before row n.
OrderBy_NoTieBreak(q, table, m, n) ==
    LET c(k) == Column(q, table, k)
    IN  IF q.order = "asc" THEN c(m) <= c(n) ELSE c(m) >= c(n)
OrderBy(q, table, m, n) ==
    LET c(k) == Column(q, table, k)
    IN  \/ IF q.order = "asc" THEN c(m) < c(n) ELSE c(m) > c(n)
        \/ c(m) = c(n) /\ m < n

\* Every order of the selected rows that the ORDER BY clause allows.
Orders(q, table) ==
    {s \in SetToSeqs({n \in Ids : table[n] # Nil /\ Where(q, table[n])}) :
        \A i, j \in DOMAIN s : i < j => OrderBy(q, table, s[i], s[j])}

PageRows(s, offset, limit) ==
    SubSeq(s, offset + 1, IF offset + limit < Len(s) THEN offset + limit ELSE Len(s))

----------------------------------------------------------------------------
(* The Redis key of a page, as a sequence of its parts.  A filter is free    *)
(* text and may contain the words between the parts.                         *)

Word(w) == << <<"word", w>> >>
Hex_Verbatim(text) == [i \in DOMAIN text |-> <<"word", text[i]>>]
Hex(text) == [i \in DOMAIN text |-> <<"hex", text[i]>>]

BooksListDataCacheKey(q) ==
    << <<"offset", q.offset>>, <<"limit", q.limit>> >>
    \o Word("_title_") \o Hex(q.title) \o Word("_author_") \o Hex(q.author)
    \o << <<"owner", q.owner>>, <<"sort", q.sort>>, <<"order", q.order>> >>

----------------------------------------------------------------------------
\* A table as creations and deletions have left it.
WalkInit ==
    /\ \E table \in Table : tables = <<table>>
    /\ lastId \in 0 .. MaxId /\ \A n \in Ids : Now[n] # Nil => n <= lastId
    /\ drawn = {}
    /\ query = Nil /\ upto = 0 /\ got = <<>> /\ done = FALSE
    /\ from = 0 /\ at = 0 /\ back = FALSE

\* FindBooks with a query string, refused or not.
Ask(raw) ==
    /\ query = Nil /\ ~done
    /\ query' = IF Valid(raw) THEN Parse(raw) ELSE Nil
    /\ upto' = IF Valid(raw) THEN Offset(raw) ELSE 0
    /\ done' = ~Valid(raw)
    /\ UNCHANGED <<inserts, got, from, at, back>>

\* The next page of the same list: ListBooks has loaded it (v is the current state)
\* or found it in Redis, or got it from a load under way (v may be an earlier one).
Turn(v, s) ==
    LET new == PageRows(s, upto, query.limit) IN
    /\ got' = got \o new
    /\ upto' = upto + query.limit
    /\ done' = (Len(new) < query.limit)
    /\ from' = IF from = 0 THEN v ELSE from
    /\ at' = v
    /\ back' = (back \/ v < at)
    /\ UNCHANGED <<inserts, query>>

\* Another client's INSERT: BIGSERIAL gives it the next id ...
Draw ==
    /\ ~done /\ lastId < MaxId
    /\ lastId' = lastId + 1
    /\ drawn' = drawn \cup {lastId + 1}
    /\ UNCHANGED <<tables, walk>>

\* ... and its row appears when it commits, or never.
Create(n, b) ==
    /\ ~done /\ n \in drawn
    /\ tables' = Append(tables, [Now EXCEPT ![n] = b])
    /\ drawn' = drawn \ {n}
    /\ UNCHANGED <<lastId, walk>>

CreateFails(n) ==
    /\ ~done /\ n \in drawn
    /\ drawn' = drawn \ {n}
    /\ UNCHANGED <<tables, lastId, walk>>

WalkNext ==
    \/ \E raw \in RawQueries : Ask(raw)
    \/ query # Nil /\ ~done
         /\ \E v \in DOMAIN tables : \E s \in Orders(query, tables[v]) : Turn(v, s)
    \/ Draw
    \/ \E n \in drawn : CreateFails(n) \/ \E b \in Books : Create(n, b)

WalkSpec == WalkInit /\ [][WalkNext]_walkVars

----------------------------------------------------------------------------
(* Properties *)

\* The filter as the API documents it, a case-insensitive substring: of ASCII letters
\* any case will do; other characters match if the two lowerings make them one.
SameLetter(c, d) ==
    IF {c, d} \subseteq Ascii THEN ToLower(c) = ToLower(d) ELSE LOWER(c) = ToLower(d)
HasPart(text, part) ==
    \E i \in 0 .. Len(text) - Len(part) :
        \A k \in DOMAIN part : SameLetter(text[i + k], part[k])

\* The rows a query asks for, in a total order.
Wanted(q, table) ==
    {n \in Ids :
        /\ table[n] # Nil
        /\ HasPart(table[n].title, q.title) /\ HasPart(table[n].author, q.author)
        /\ q.owner \in {Nil, table[n].owner}}
Listing(q, table) ==
    LET c(n) == Column(q, table, n)
        before(m, n) == IF c(m) = c(n) THEN m < n ELSE (c(m) < c(n)) = (q.order = "asc")
    IN  CHOOSE s \in SetToSeqs(Wanted(q, table)) :
            \A i, j \in DOMAIN s : i < j => before(s[i], s[j])

\* A walk whose pages show one state of the table yields, from its first offset on,
\* every row it asks for once and in order, however rows with equal values are
\* returned by each statement; a filter means its characters, %, _ and the escape
\* character too.  If books appear meanwhile, wherever they sort, a row of the first
\* page's table may come twice but is not missed, unless some page shows an earlier
\* state than the one before it, as a page that Redis kept may.
WalkIsExact ==
    done /\ query # Nil /\ ~back =>
        LET listing == Listing(query, tables[from])
            rest    == SubSeq(listing, query.offset + 1, Len(listing))
        IN  /\ from = at => got = rest
            /\ Range(rest) \subseteq Range(got)

Keyed ==
    {[query |-> Parse(raw), key |-> BooksListDataCacheKey(Parse(raw))] :
        raw \in {r \in RawQueries : Valid(r)}}

\* Two queries that share a key of the cache (and of the singleflight group) ask
\* for the same page, whatever text their filters hold.
KeyDeterminesPage ==
    query # Nil /\ from = 0 =>
        LET key  == BooksListDataCacheKey(query)
            same == {k.query : k \in {e \in Keyed : e.key = key}}
        IN  \A q \in same : PageRows(Listing(q, Now), q.offset, q.limit)
                              = PageRows(Listing(query, Now), query.offset, query.limit)

============================================================================
