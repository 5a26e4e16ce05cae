--------------------------- MODULE MCBookPaging ---------------------------
(* BookPaging on small instances: texts with wildcards, capital letters (one *)
(* that only Go lowers) and the words of the cache key in them, values at    *)
(* and beyond every bound.                                                   *)
EXTENDS BookPaging

Texts == << <<"%">>, <<"A", "b">>, <<"_author_">>, <<"SIGMA">> >>

TextRank(t) == CHOOSE i \in DOMAIN Texts : Texts[i] = t

\* The case of PostgreSQL's C locale.
Upper == [A |-> "a", SIGMA |-> "sigma"]
GoLower(c) == IF c \in DOMAIN Upper THEN Upper[c] ELSE c
PgLower(c) == IF c = "A" THEN "a" ELSE c

Characters == {"A", "a", "b", "%", "_", "_author_"}

SomeBooks ==
    {[title |-> Texts[1], author |-> Texts[4], owner |-> 1, created |-> 2, updated |-> 2],
     [title |-> Texts[2], author |-> Texts[3], owner |-> 1, created |-> 1, updated |-> 3],
     [title |-> Texts[2], author |-> Texts[1], owner |-> 2, created |-> 2, updated |-> 1]}

\* Queries that order and cut, and queries that filter.
Walks ==
    [offset : {Nil, 1}, limit : {Nil, 1, 9}, owner : {Nil, 1}, title : {<<>>}, author : {<<>>},
     sort : {Nil, "title", "author", "created_at", "updated_at", "owner_id"},
     order : {Nil, "desc"}]

Filters ==
    [offset : {Nil}, limit : {1}, owner : {Nil, 1, 7},
     title : {<<>>, <<"a">>, <<"%">>, <<"_">>, <<"_author_">>},
     author : {<<>>, <<"_author_">>, <<"SIGMA">>}, sort : {Nil}, order : {Nil}]

BadQueries ==
    [offset : {Nil, Bad, -1}, limit : {Nil, Bad, 0}, owner : {Nil, Bad},
     title : {<<>>}, author : {<<>>},
     sort : {Nil, "price"}, order : {Nil, "up"}]

AllQueries == Walks \cup Filters \cup BadQueries

============================================================================
