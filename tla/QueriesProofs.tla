--------------------------- MODULE QueriesProofs ---------------------------
(***************************************************************************)
(* What a page or a subscription shows, and to whom, for every set of      *)
(* items and requests.                                                     *)
(***************************************************************************)
EXTENDS Queries, FiniteSetTheorems, TLAPS

-----------------------------------------------------------------------------
(* Match sets                                                              *)

\* What passes the matchers of a filter passes each of its fields.
LEMMA HitFields ==
    ASSUME NEW f, NEW extra, NEW fields, Hits(With(MatchSet(f), extra), fields),
           NEW d \in DOMAIN f
    PROVE  Passes(FilterMatcher(f, d), fields)
BY DEF Hits, With, MatchSet

\* A hit passes the matchers that are added to those of the filter.
LEMMA HitExtra ==
    ASSUME NEW f, NEW extra, NEW fields, Hits(With(MatchSet(f), extra), fields),
           NEW m \in extra
    PROVE  Passes(m, fields)
BY DEF Hits, With, MatchSet

\* What Equal matches.
LEMMA PassesEqual ==
    ASSUME NEW d, NEW v, NEW fields
    PROVE  Passes(Equal(d, v), fields) <=> d \in DOMAIN fields /\ fields[d] = v
BY DEF Passes, Equal, Matcher, IsMatch

\* A records filter hits records only.
LEMMA HitRecords ==
    ASSUME NEW f, NEW extra, NEW fields, Hits(With(MatchSet(f), extra), fields)
    PROVE  fields["interface"] = "Records"
<1>1. Equal("interface", "Records") \in With(MatchSet(f), extra).inner
  BY DEF With, MatchSet
<1> QED BY <1>1, PassesEqual DEF Hits

\* None of these fields is a tag.
LEMMA NotTags ==
    ASSUME NEW d \in {"published", "author", "recipient", "contextId", "dataSize"}
                       \cup Dates \cup {ConciseFields[i] : i \in 1..5}
    PROVE  d \notin TagFields
BY AsksAssumption

\* The filters put on author, recipient and published select by them.
LEMMA HitPublished ==
    ASSUME NEW f, NEW extra, NEW fields, NEW v,
           Hits(With(MatchSet(Set(f, "published", v)), extra), fields)
    PROVE  "published" \in DOMAIN fields /\ fields["published"] = v
<1>0. PICK g : g = Set(f, "published", v)
  OBVIOUS
<1>1. "published" \in DOMAIN g /\ g["published"] = v
  BY <1>0 DEF Set
<1>2. Passes(FilterMatcher(g, "published"), fields)
  BY <1>0, <1>1, HitFields
<1>3. "published" \notin TagFields
  BY NotTags
<1>4. How("published") = "equal"
  BY DEF How, Dates
<1>5. FilterMatcher(g, "published") = Equal("published", v)
  BY <1>1, <1>3, <1>4 DEF FilterMatcher, Equal
<1> QED BY <1>2, <1>5, PassesEqual

\* A filter with one author or recipient hits what has that one.
LEMMA HitParty ==
    ASSUME NEW f, NEW extra, NEW fields, Hits(With(MatchSet(f), extra), fields),
           NEW d \in {"author", "recipient"}, NEW did, d \in DOMAIN f, f[d] = {did}
    PROVE  d \in DOMAIN fields /\ fields[d] = did
<1>1. Passes(FilterMatcher(f, d), fields)
  BY HitFields
<1>2. d \notin TagFields
  BY NotTags
<1>3. How(d) = "oneOf"
  BY DEF How, Dates
<1>4. FilterMatcher(f, d) = Matcher(d, "oneOf", {did})
  BY <1>2, <1>3 DEF FilterMatcher
<1> QED BY <1>1, <1>4 DEF Passes, Matcher, IsMatch

-----------------------------------------------------------------------------
(* Who is shown what                                                       *)

\* The index holds what the message says, and false when it does not say
\* whether it is published.
LEMMA FieldsFacts ==
    ASSUME NEW x \in Items
    PROVE  /\ \A d \in DOMAIN Message[x] :
                d \in DOMAIN Fields[x] /\ Fields[x][d] = Message[x][d]
           /\ \A d \in DOMAIN Fields[x] : d \notin DOMAIN Message[x]
                => d = "published" /\ Fields[x][d] = FALSE
<1>1. Fields[x] = build_indexes(Message[x])
  BY DEF Fields
<1> QED BY <1>1, Zenon DEF build_indexes

\* The index holds the interface and method of the message itself.
LEMMA MethodFacts ==
    ASSUME NEW x \in Items
    PROVE  /\ Fields[x]["method"] = Message[x]["method"]
           /\ Fields[x]["interface"] = Message[x]["interface"]
           /\ Fields[x]["interface"] = "Protocols" => Fields[x]["method"] # "Delete"
BY FieldsFacts, ItemsAssumption, Zenon

\* A hit is a hit of one of the filters.
LEMMA HitPicked ==
    ASSUME NEW a \in Asks, NEW x \in Items, Hit[a][x] # {}
    PROVE  \E i \in DOMAIN Sets[a] : Hits(Sets[a][i], Fields[x])
BY DEF Hit

\* The match sets of a query, one for each filter.
LEMMA RecordsHit ==
    ASSUME NEW filters, NEW i \in DOMAIN RecordsQuery(filters), NEW fields,
           Hits(RecordsQuery(filters)[i], fields)
    PROVE  /\ i \in DOMAIN filters
           /\ Hits(With(MatchSet(filters[i]), ActiveWrite), fields)
           /\ fields["method"] = "Write"
<1>1. /\ i \in DOMAIN filters
      /\ Hits(With(MatchSet(filters[i]), ActiveWrite), fields)
  BY DEF RecordsQuery
<1>2. Equal("method", "Write") \in ActiveWrite
  BY DEF ActiveWrite
<1>3. Passes(Equal("method", "Write"), fields)
  BY <1>1, <1>2, HitExtra
<1> QED BY <1>1, <1>3, PassesEqual

\* What a records query hits is a write that the author of the query may see.
LEMMA QueryVisible ==
    ASSUME NEW r, r.kind = "query", ~Refused(r), NEW fields,
           NEW i \in DOMAIN RecordsQueryOf(r), Hits(RecordsQueryOf(r)[i], fields)
    PROVE  /\ fields["method"] = "Write"
           /\ Entitled(r) \/ Concerns(r, fields)
<1>0. PICK yes : yes = TRUE
  OBVIOUS
<1>1. CASE only_published(r)
  <2>1. PICK f : f = Set(r.filter, "published", yes)
    OBVIOUS
  <2>2. RecordsQueryOf(r) = RecordsQuery(<<f>>)
    BY <1>0, <1>1, <2>1 DEF RecordsQueryOf
  <2>3. /\ i \in DOMAIN <<f>>
        /\ Hits(With(MatchSet(<<f>>[i]), ActiveWrite), fields)
        /\ fields["method"] = "Write"
    BY <2>2, RecordsHit
  <2>4. <<f>>[i] = f
    BY <2>3
  <2>5. "published" \in DOMAIN fields /\ fields["published"] = yes
    BY <2>1, <2>3, <2>4, HitPublished
  <2> QED BY <1>0, <2>3, <2>5 DEF Concerns
<1>2. CASE ~only_published(r) /\ r.requester = Owner
  <2>1. RecordsQueryOf(r) = RecordsQuery(<<r.filter>>)
    BY <1>2 DEF RecordsQueryOf
  <2> QED BY <1>2, <2>1, RecordsHit DEF Entitled
<1>3. CASE ~only_published(r) /\ r.requester # Owner
  <2>1. RecordsQueryOf(r) = RecordsQuery(into_non_owner(r))
    BY <1>3 DEF RecordsQueryOf
  <2>2. /\ i \in DOMAIN into_non_owner(r)
        /\ Hits(With(MatchSet(into_non_owner(r)[i]), ActiveWrite), fields)
        /\ fields["method"] = "Write"
    BY <2>1, RecordsHit
  <2>3. authorize_query(r)
    BY <1>3 DEF Refused
  <2>4. i \in {"author", "recipient", "published", "role"}
    BY <2>2 DEF into_non_owner
  <2>5. CASE i = "published"
    <3>1. into_non_owner(r)[i] = Set(r.filter, "published", yes)
      BY <1>0, <2>2, <2>5, Zenon DEF into_non_owner
    <3>2. "published" \in DOMAIN fields /\ fields["published"] = yes
      BY <2>2, <3>1, HitPublished
    <3> QED BY <1>0, <2>2, <3>2 DEF Concerns
  <2>6. CASE i = "role"
    <3>1. r.role
      BY <2>2, <2>6 DEF into_non_owner
    <3> QED BY <2>2, <2>3, <3>1 DEF authorize_query, Entitled
  <2>7. CASE i \in {"author", "recipient"}
    <3>0. PICK f, d, did : f = into_non_owner(r)[i] /\ d = i /\ did = r.requester
      OBVIOUS
    <3>1. f = Set(Set(r.filter, d, {did}), "published", FALSE)
      BY <2>2, <2>7, <3>0, Zenon DEF into_non_owner
    <3>2. d \in DOMAIN f /\ f[d] = {did}
      BY <2>7, <3>0, <3>1, Zenon DEF Set
    <3>3. Hits(With(MatchSet(f), ActiveWrite), fields)
      BY <2>2, <3>0
    <3>4. d \in DOMAIN fields /\ fields[d] = did
      BY <2>7, <3>0, <3>2, <3>3, HitParty
    <3> QED BY <2>2, <2>7, <3>0, <3>4 DEF Concerns
  <2> QED BY <2>4, <2>5, <2>6, <2>7
<1> QED BY <1>1, <1>2, <1>3

\* query_concise returns what its index finds, once.
LEMMA ConcisePage ==
    ASSUME NEW S, NEW a \in Asks, NEW cur, NEW x \in DOMAIN query_concise(S, a, cur).page
    PROVE  /\ x \in S /\ x \in Findable[a]
           /\ query_concise(S, a, cur).page[x] = 1
BY Zenon DEF query_concise, PageOf, FromCursor

\* The parts of a scan, named.
Up(a) == [Request[a].sort EXCEPT !.asc = TRUE]
From(S, a, cur) == {x \in S : /\ Up(a).field \in DOMAIN Fields[x]
                              /\ \A k \in cur : ~BeforeKey(Up(a), x, k)}
Below(S, a, cur) == [x \in From(S, a, cur) |-> {y \in From(S, a, cur) : Before(Up(a), y, x)}]
Stops(S, a, cur) ==
    {x \in From(S, a, cur) : \E n \in Request[a].limit : Count(a, Below(S, a, cur)[x]) = n + 1}
Taken(S, a, cur) ==
    {x \in From(S, a, cur) : /\ Collected[a][x] # {}
                             /\ Stops(S, a, cur) \cap (Below(S, a, cur)[x] \cup {x}) = {}}
More(S, a, cur) == \E n \in Request[a].limit : n > 0 /\ n < Count(a, Taken(S, a, cur))
Last(S, a, cur) ==
    {x \in Taken(S, a, cur) : \A y \in Taken(S, a, cur) : y = x \/ Before(Up(a), y, x)}

\* What query_full returns, and the cursor it returns it with.
LEMMA FullShape ==
    ASSUME NEW S, NEW a, NEW cur
    PROVE  /\ DOMAIN query_full(S, a, cur).page = Taken(S, a, cur)
           /\ \A x \in Taken(S, a, cur) :
                /\ More(S, a, cur) /\ x \in Last(S, a, cur) =>
                     query_full(S, a, cur).page[x] = Cardinality(Collected[a][x]) - 1
                /\ ~(More(S, a, cur) /\ x \in Last(S, a, cur)) =>
                     query_full(S, a, cur).page[x] = Cardinality(Collected[a][x]) - 0
           /\ More(S, a, cur) =>
                query_full(S, a, cur).next = {CursorOf(Up(a), x) : x \in Last(S, a, cur)}
           /\ ~More(S, a, cur) => query_full(S, a, cur).next = {}
<1>1. query_full(S, a, cur) =
        [page |-> [x \in Taken(S, a, cur) |-> Cardinality(Collected[a][x])
                     - (IF More(S, a, cur) /\ x \in Last(S, a, cur) THEN 1 ELSE 0)],
         next |-> IF More(S, a, cur) THEN {CursorOf(Up(a), x) : x \in Last(S, a, cur)}
                                     ELSE {}]
  BY DEF query_full, Up, From, Below, Stops, Taken, More, Last
<1> QED BY <1>1

\* How often an entry is collected: never, unless some filter hits it.
LEMMA CollectedFacts ==
    ASSUME NEW a \in Asks, NEW x \in Items
    PROVE  /\ IsFiniteSet(Collected[a][x]) /\ Cardinality(Collected[a][x]) \in Nat
           /\ Collected[a][x] # {} <=> DOMAIN Sets[a] = {} \/ Hit[a][x] # {}
           /\ Collected[a][x] # {} => Cardinality(Collected[a][x]) > 0
<1>1. Collected[a][x] = IF DOMAIN Sets[a] = {} THEN {0} ELSE Hit[a][x]
  BY DEF Collected
<1>2. Hit[a][x] \subseteq DOMAIN Sets[a]
  BY DEF Hit
<1>3. IsFiniteSet(Collected[a][x])
  BY <1>1, <1>2, AsksAssumption, FS_Subset, FS_Singleton, Zenon
<1> QED BY <1>1, <1>3, FS_CardinalityType, FS_EmptySet

\* query_full returns stored entries that some filter hits.
LEMMA FullPage ==
    ASSUME NEW S \in SUBSET Items, NEW a \in Asks, NEW cur,
           NEW x \in DOMAIN query_full(S, a, cur).page
    PROVE  /\ x \in S
           /\ DOMAIN Sets[a] = {} \/ Hit[a][x] # {}
           /\ query_full(S, a, cur).page[x] \in Nat
<1>1. /\ x \in Taken(S, a, cur)
      /\ query_full(S, a, cur).page[x] \in {Cardinality(Collected[a][x]) - 0,
                                            Cardinality(Collected[a][x]) - 1}
  BY FullShape
<1>2. x \in S /\ Collected[a][x] # {}
  BY <1>1 DEF Taken, From
<1> QED BY <1>1, <1>2, CollectedFacts

\* What the index finds is a hit.
LEMMA FindableHit ==
    ASSUME NEW a \in Asks, NEW x \in Findable[a]
    PROVE  x \in Items /\ Hit[a][x] # {}
BY DEF Findable

\* What an answer shows was there and matched.
LEMMA AnswerFacts ==
    ASSUME NEW S \in SUBSET Items, NEW a \in Asks, NEW cur,
           NEW x \in DOMAIN Answer(S, a, cur).page
    PROVE  /\ x \in S
           /\ DOMAIN Sets[a] = {} \/ Hit[a][x] # {}
           /\ Answer(S, a, cur).page[x] \in Nat
<1>1. CASE Concise[a]
  <2>1. Answer(S, a, cur) = query_concise(S, a, cur)
    BY <1>1 DEF Answer
  <2> QED BY <2>1, ConcisePage, FindableHit
<1>2. CASE ~Concise[a]
  <2>1. Answer(S, a, cur) = query_full(S, a, cur)
    BY <1>2 DEF Answer
  <2> QED BY <2>1, FullPage, Zenon
<1> QED BY <1>1, <1>2

\* An answer shows what the author of the query may see.
LEMMA AnswerVisible ==
    ASSUME NEW S \in SUBSET Items, NEW a \in Asks, NEW cur, ~Refused(Request[a]),
           Request[a].kind # "read", NEW x \in DOMAIN Answer(S, a, cur).page
    PROVE  Entitled(Request[a]) \/ (~IsDelete(x) /\ Concerns(Request[a], Fields[x]))
<1>0. PICK r : r = Request[a]
  OBVIOUS
<1>1. /\ x \in S
      /\ DOMAIN Sets[a] = {} \/ Hit[a][x] # {}
  BY <1>0, AnswerFacts, Zenon
<1>2. Sets[a] = SetsOf(r)
  BY <1>0 DEF Sets
<1>3. r.kind \in {"query", "protocols", "messages"}
  BY <1>0, AsksAssumption
<1>4. CASE r.kind = "query"
  <2>1. Sets[a] = RecordsQueryOf(r)
    BY <1>2, <1>4 DEF SetsOf
  <2>2. DOMAIN Sets[a] # {}
    BY <2>1 DEF RecordsQueryOf, RecordsQuery, into_non_owner
  <2>3. PICK i \in DOMAIN Sets[a] : Hits(Sets[a][i], Fields[x])
    BY <1>1, <2>2, HitPicked
  <2>4. /\ Fields[x]["method"] = "Write"
        /\ Entitled(r) \/ Concerns(r, Fields[x])
    BY <1>0, <1>4, <2>1, <2>3, QueryVisible
  <2> QED BY <1>0, <2>4 DEF IsDelete
<1>5. CASE r.kind = "protocols"
  <2>1. Sets[a] = ProtocolsQuery(r.filter, IF Unpublished(r) THEN {} ELSE {TRUE})
    BY <1>2, <1>5 DEF SetsOf
  <2>2. CASE Unpublished(r)
    BY <1>0, <1>5, <2>2 DEF Unpublished, Entitled
  <2>3. CASE ~Unpublished(r)
    <3>0. PICK yes : yes = TRUE
      BY Zenon
    <3>1. PICK ms : /\ Sets[a] = <<ms>>
                    /\ {Equal("published", yes), Equal("interface", "Protocols")}
                         \subseteq ms.inner
      <4>1. Sets[a] = ProtocolsQuery(r.filter, {yes})
        BY <2>1, <2>3, <3>0
      <4> QED BY <4>1 DEF ProtocolsQuery
    <3>2. PICK i \in DOMAIN Sets[a] : Hits(Sets[a][i], Fields[x])
      BY <1>1, <3>1, HitPicked
    <3>3. Hits(ms, Fields[x])
      BY <3>1, <3>2
    <3>4. /\ Passes(Equal("published", yes), Fields[x])
          /\ Passes(Equal("interface", "Protocols"), Fields[x])
      BY <3>1, <3>3 DEF Hits
    <3>5. "published" \in DOMAIN Fields[x] /\ Fields[x]["published"]
      BY <3>0, <3>4, PassesEqual, Zenon
    <3>6. Fields[x]["interface"] = "Protocols"
      BY <3>4, PassesEqual
    <3>7. Fields[x]["method"] # "Delete"
      BY <1>1, <3>6, MethodFacts
    <3>8. Concerns(r, Fields[x])
      BY <3>5 DEF Concerns
    <3> QED BY <1>0, <3>7, <3>8 DEF IsDelete
  <2> QED BY <2>2, <2>3
<1>6. CASE r.kind = "messages"
  BY <1>0, <1>6 DEF Refused, authorize_messages, Entitled
<1> QED BY <1>3, <1>4, <1>5, <1>6

\* What authorize_read lets through, the author of the read may see.
LEMMA ReadVisible ==
    ASSUME NEW a \in Reads, NEW y \in Items, Fields[y]["interface"] = "Records",
           authorize_read(Request[a], Message[y])
    PROVE  Entitled(Request[a]) \/ Concerns(Request[a], Fields[y])
<1>1. \A d \in DOMAIN Message[y] : d \in DOMAIN Fields[y] /\ Fields[y][d] = Message[y][d]
  BY FieldsFacts, Zenon
<1>2. "author" \in DOMAIN Message[y]
  BY MethodFacts, ItemsAssumption
<1>3. Request[a].kind = "read"
  BY DEF Reads
<1> QED BY <1>1, <1>2, <1>3 DEF authorize_read, Entitled, Concerns

\* A read finds records that are stored.
LEMMA ReadFinds ==
    ASSUME NEW S \in SUBSET Items, NEW a \in Reads, NEW cur,
           NEW x \in DOMAIN Answer(S, a, cur).page
    PROVE  x \in S /\ Fields[x]["interface"] = "Records"
<1>1. a \in Asks /\ Request[a].kind = "read"
  BY DEF Reads
<1>2. PICK f, extra : f = Request[a].filter /\ extra = {Equal("initial", FALSE)}
  BY Zenon
<1>3. Sets[a] = <<With(MatchSet(f), extra)>>
  BY <1>1, <1>2 DEF Sets, SetsOf, ReadQuery
<1>4. x \in S /\ Hit[a][x] # {}
  <2>1. x \in S /\ (DOMAIN Sets[a] = {} \/ Hit[a][x] # {})
    BY <1>1, AnswerFacts, Zenon
  <2>2. DOMAIN Sets[a] # {}
    BY <1>3
  <2> QED BY <2>1, <2>2
<1>5. PICK i \in DOMAIN Sets[a] : Hits(Sets[a][i], Fields[x])
  BY <1>1, <1>4, HitPicked
<1>6. Hits(With(MatchSet(f), extra), Fields[x])
  BY <1>3, <1>5
<1> QED BY <1>4, <1>6, HitRecords

\* A subscription delivers what its author may see.
LEMMA DeliveredVisible ==
    ASSUME NEW a \in Asks, MaySubscribe(Request[a]), NEW x \in Items,
           Delivers(Request[a], Message[x])
    PROVE  Entitled(Request[a]) \/ (~IsDelete(x) /\ Concerns(Request[a], Fields[x]))
<1>0. PICK r, m : r = Request[a] /\ m = Message[x]
  OBVIOUS
<1>1. CASE r.kind = "messages"
  BY <1>0, <1>1 DEF MaySubscribe, authorize_messages, Entitled
<1>2. CASE r.kind = "query" /\ r.requester = Owner
  BY <1>0, <1>2 DEF Entitled
<1>3. CASE r.kind = "query" /\ r.requester # Owner
  <2>1. PICK f : f = SubscribeFilter(r)
    OBVIOUS
  <2>2. records_is_match(f, m)
    BY <1>0, <1>3, <2>1 DEF Delivers
  <2>3. "author" \in DOMAIN f /\ f["author"] = {r.requester}
    BY <1>3, <2>1 DEF SubscribeFilter, Set
  <2>4. m["method"] = "Write" /\ EventPasses(f, "author", m)
    BY <2>2, <2>3 DEF records_is_match
  <2>5. "author" \notin TagFields
    BY NotTags
  <2>6. How("author") = "oneOf"
    BY DEF How, Dates
  <2>7. "author" \notin DOMAIN Absent
    BY DEF Absent
  <2>8. "author" \in DOMAIN m /\ IsMatch("oneOf", f["author"], m["author"])
    BY <2>4, <2>5, <2>6, <2>7 DEF EventPasses
  <2>9. m["author"] = r.requester
    BY <2>3, <2>8 DEF IsMatch
  <2>10. Concerns(r, Fields[x])
    BY <1>0, <2>8, <2>9, FieldsFacts, Zenon DEF Concerns
  <2>11. ~IsDelete(x)
    BY <1>0, <2>4, MethodFacts DEF IsDelete
  <2> QED BY <1>0, <2>10, <2>11
<1> QED BY <1>0, <1>1, <1>2, <1>3 DEF MaySubscribe


-----------------------------------------------------------------------------
(* The client has one request, and nothing was shown before it was made.   *)

ClientInv ==
    /\ TypeOK
    /\ \A a, b \in ask \cup live : a = b
    /\ \A a \in live : MaySubscribe(Request[a])
    /\ \A a \in ask : status # "none" /\ (Refused(Request[a]) => status = "refused")
    /\ ask = {} => /\ status = "none" /\ cursor = {} /\ steady = {} /\ ~restarted
                   /\ returned = [x \in Items |-> 0]
    /\ live = {} => seen = {}
    /\ status = "deleted" => ask \subseteq Reads /\ \A x \in held : IsDelete(x)

OneEach(S) == \A x, y \in S : Cid[x] = Cid[y] => x = y

\* ClientInv holds before the first request.
LEMMA InitClient == Init => ClientInv
<1> SUFFICES ASSUME Init PROVE ClientInv
  OBVIOUS
<1>1. PICK h \in Histories : items = h.stored /\ log = h.stored /\ put = h.put
  BY DEF Init
<1>2. put \subseteq Items /\ items \subseteq put /\ log = items /\ OneEach(items)
  BY <1>1, ItemsAssumption DEF OneEach
<1>3. returned \in [Items -> 0..Often]
  BY DEF Init, Often
<1> QED BY <1>2, <1>3, Zenon DEF Init, ClientInv, TypeOK, OneEach

\* A count that is added to stays a count.
LEMMA AddToFacts ==
    ASSUME NEW n \in 0..Often, NEW k \in Nat
    PROVE  /\ AddTo(n, k) \in 0..Often
           /\ n <= AddTo(n, k) /\ AddTo(n, k) <= n + k
           /\ k > 0 => AddTo(n, k) > 0
BY DEF AddTo, Often

\* What a page changes.
PageStep(a, S, answer) ==
    /\ S = Source(a, items, log) /\ answer = Answer(S, a, cursor)
    /\ returned' = [x \in Items |->
          IF x \in DOMAIN answer.page THEN AddTo(returned[x], answer.page[x])
                                      ELSE returned[x]]
    /\ cursor' = answer.next
    /\ status' = IF answer.next = {} THEN "done" ELSE "paging"
    /\ restarted' = (restarted \/
          /\ Concise[a]
          /\ \E k \in cursor : \A x \in S \cap Findable[a] : Cid[x] # k.cid)

\* NextPage is such a step.
LEMMA PageFacts ==
    ASSUME NextPage
    PROVE  \E a \in ask \ Reads : \E S, answer : PageStep(a, S, answer)
BY DEF NextPage, PageStep

\* A page keeps the types.
LEMMA NextPageTypes ==
    ASSUME ClientInv, NextPage
    PROVE  returned' \in [Items -> 0..Often] /\ restarted' \in BOOLEAN
<1>1. PICK a \in ask \ Reads : \E S, answer : PageStep(a, S, answer)
  BY PageFacts
<1>a. PICK S, answer : PageStep(a, S, answer)
  BY <1>1
<1>2. a \in Asks /\ S \in SUBSET Items
  BY <1>1, <1>a DEF ClientInv, TypeOK, Source, PageStep
<1>3. \A x \in DOMAIN answer.page : answer.page[x] \in Nat
  BY <1>a, <1>2, AnswerFacts, Zenon DEF PageStep
<1>4. \A x \in Items : returned[x] \in 0..Often
  BY DEF ClientInv, TypeOK
<1>5. restarted' \in BOOLEAN
  BY <1>a, Zenon DEF ClientInv, TypeOK, PageStep
<1> QED BY <1>a, <1>3, <1>4, <1>5, AddToFacts, Zenon DEF PageStep

\* What is shown is counted.
LEMMA ShowFacts ==
    ASSUME TypeOK, NEW S
    PROVE  /\ Show(S) \in [Items -> 0..Often]
           /\ \A x \in Items : Show(S)[x] > 0 => x \in S \/ returned[x] > 0
<1>1. \A x \in Items : returned[x] \in 0..Often
  BY DEF TypeOK
<1> QED BY <1>1, AddToFacts, Zenon DEF Show

\* What a read finds is stored.
LEMMA ReadTypes ==
    ASSUME ClientInv, Read
    PROVE  /\ returned' \in [Items -> 0..Often] /\ held' \subseteq put
           /\ \A x \in held' : IsDelete(x)
           /\ ask \subseteq Reads /\ ask # {}
           /\ status' \in {"done", "deleted"}
<1>1. PICK a, found :
        /\ a \in ask \cap Reads
        /\ found = DOMAIN Answer(items, a, cursor).page
        /\ held' = {x \in found : found = {x} /\ IsDelete(x)}
        /\ returned' = Show({x \in found : /\ found = {x} /\ ~IsDelete(x)
                                          /\ authorize_read(Request[a], Message[x])})
        /\ status' = IF held' = {} THEN "done" ELSE "deleted"
  BY Zenon DEF Read
<1>2. items \in SUBSET Items /\ items \subseteq put /\ TypeOK
  BY DEF ClientInv, TypeOK
<1>3. found \subseteq items
  BY <1>1, <1>2, ReadFinds
<1>4. returned' \in [Items -> 0..Often]
  BY <1>1, <1>2, ShowFacts
<1>5. ask = {a}
  BY <1>1 DEF ClientInv
<1> QED BY <1>1, <1>2, <1>3, <1>4, <1>5

\* Every step keeps ClientInv.
LEMMA StepClient == ClientInv /\ [Next]_vars => ClientInv'
<1> SUFFICES ASSUME ClientInv, [Next]_vars PROVE ClientInv'
  OBVIOUS
<1>0. /\ put \subseteq Items /\ items \subseteq put /\ log \subseteq put
      /\ OneEach(items) /\ OneEach(log)
  BY DEF ClientInv, TypeOK, OneEach
<1>a. ASSUME UNCHANGED <<query, live, seen>>, put \subseteq put', put' \subseteq Items,
             items' \subseteq put', log' \subseteq put', pending' \subseteq put',
             unlogged' \subseteq put', unlisted' \subseteq put',
             OneEach(items'), OneEach(log'), steady' \subseteq Queried(items', log'),
             steady' \subseteq steady
      PROVE  ClientInv'
  <2>1. steady' \subseteq Queried(items, log)'
    BY <1>a DEF Queried, Source, query
  <2>2. /\ seen' \subseteq Items /\ held' \subseteq put'
        /\ \A S \in {items', log'} : \A x, y \in S : Cid[x] = Cid[y] => x = y
    BY <1>a DEF query, ClientInv, TypeOK, OneEach
  <2>3. TypeOK'
    BY <1>a, <2>1, <2>2 DEF query, ClientInv, TypeOK
  <2>4. ask' = {} => steady' = {}
    BY <1>a DEF query, ClientInv
  <2> QED BY <1>a, <2>3, <2>4 DEF query, ClientInv
<1>b. steady \subseteq Queried(items, log) /\ \A a \in ask : a \in Asks
  BY DEF ClientInv, TypeOK
<1>1. ASSUME NEW x \in Items, Put(x) PROVE ClientInv'
  <2>1. /\ items' = items \cup {x} /\ log' = log /\ put' = put \cup {x}
        /\ pending' = pending \cup {x} /\ unlogged' = unlogged \cup {x}
        /\ UNCHANGED <<unlisted, query, live, seen, steady>>
    BY <1>1 DEF Put, stream
  <2>2. OneEach(items')
    BY <1>0, <1>1, <2>1 DEF OneEach, Put, SameCid
  <2>3. steady' \subseteq Queried(items', log')
    BY <1>b, <2>1 DEF Queried, Source
  <2> QED BY <1>0, <1>a, <2>1, <2>2, <2>3, Zenon DEF ClientInv, TypeOK
<1>2. ASSUME NEW x \in Items, Archive(x) PROVE ClientInv'
  <2>1. /\ items' = (items \ SameCid(items, x)) \cup {x} /\ log' = log
        /\ put' = put \cup {x} /\ unlogged' = unlogged \cup {x}
        /\ steady' = steady \cap Queried(items', log')
        /\ UNCHANGED <<unlisted, pending, query, live, seen>>
    BY <1>2 DEF Archive, stream
  <2>2. OneEach(items')
    BY <1>0, <2>1 DEF OneEach, SameCid
  <2> QED BY <1>0, <1>a, <2>1, <2>2, Zenon DEF ClientInv, TypeOK
<1>3. ASSUME NEW x \in Items, AppendEvent(x) PROVE ClientInv'
  <2>1. /\ log' = (log \ SameCid(log, x)) \cup {x} /\ items' = items
        /\ unlogged' = unlogged \ {x} /\ x \in unlogged
        /\ steady' = steady \cap Queried(items', log')
        /\ UNCHANGED <<put, unlisted, pending, query, live, seen>>
    BY <1>3 DEF AppendEvent, stream
  <2>2. OneEach(log')
    BY <1>0, <2>1 DEF OneEach, SameCid
  <2>3. put' = put /\ unlogged' \subseteq put /\ unlisted' \subseteq put /\ pending' \subseteq put
    BY <1>0, <2>1 DEF ClientInv, TypeOK
  <2>4. items' \subseteq put /\ log' \subseteq put
    BY <1>0, <2>1 DEF ClientInv, TypeOK
  <2> QED BY <1>0, <1>a, <2>1, <2>2, <2>3, <2>4
<1>4. ASSUME NEW x \in Items, Emit(x) PROVE ClientInv'
  <2>1. /\ UNCHANGED <<items, log, put, unlogged, unlisted, live, query, steady>>
        /\ pending' \subseteq pending /\ seen' \subseteq seen \cup {x}
        /\ live = {} => seen' = seen
    BY <1>4 DEF Emit
  <2>2. UNCHANGED Queried(items, log)
    BY <2>1 DEF Queried, Source, query
  <2>3. TypeOK'
    BY <2>1, <2>2 DEF query, ClientInv, TypeOK
  <2> QED BY <2>1, <2>3 DEF query, ClientInv
<1>5. ASSUME NEW x \in Items, Delete(x) PROVE ClientInv'
  <2>1. /\ items' = items \ {x} /\ log' = log /\ x \in items
        /\ unlisted' = unlisted \cup {x}
        /\ steady' = steady \cap Queried(items', log')
        /\ UNCHANGED <<put, unlogged, pending, query, live, seen>>
    BY <1>5 DEF Delete, stream
  <2>2. OneEach(items')
    BY <1>0, <2>1 DEF OneEach
  <2>3. put' = put /\ unlogged' \subseteq put /\ unlisted' \subseteq put /\ pending' \subseteq put
    BY <1>0, <2>1 DEF ClientInv, TypeOK
  <2>4. items' \subseteq put /\ log' \subseteq put
    BY <1>0, <2>1 DEF ClientInv, TypeOK
  <2> QED BY <1>0, <1>a, <2>1, <2>2, <2>3, <2>4
<1>6. ASSUME NEW x \in Items, DeleteEvent(x) PROVE ClientInv'
  <2>1. /\ log' = log \ SameCid(log, x) /\ items' = items
        /\ unlisted' = unlisted \ {x}
        /\ steady' = steady \cap Queried(items', log')
        /\ UNCHANGED <<put, unlogged, pending, query, live, seen>>
    BY <1>6 DEF DeleteEvent, stream
  <2>2. OneEach(log')
    BY <1>0, <2>1 DEF OneEach
  <2> QED BY <1>0, <1>a, <2>1, <2>2, Zenon DEF ClientInv, TypeOK
<1>7. ASSUME NEW a \in Asks, Subscribe(a) PROVE ClientInv'
  <2>1. UNCHANGED Queried(items, log)
    BY <1>7 DEF Subscribe, store, query, Queried, Source
  <2> QED BY <1>7, <2>1 DEF Subscribe, store, query, ClientInv, TypeOK
<1>8. ASSUME NEW a \in Asks, Ask(a) PROVE ClientInv'
  <2>1. Queried(items, log)' = Source(a, items, log)
    BY <1>8 DEF Ask, store, Queried, Source
  <2>2. TypeOK'
    BY <1>8, <2>1 DEF Ask, store, stream, ClientInv, TypeOK
  <2> QED BY <1>8, <2>2 DEF Ask, stream, ClientInv
<1>9. ASSUME NextPage PROVE ClientInv'
  <2>1. returned' \in [Items -> 0..Often] /\ restarted' \in BOOLEAN
    BY <1>9, NextPageTypes
  <2>2. /\ ask # {} /\ status = "paging" /\ status' \in {"done", "paging"}
        /\ UNCHANGED <<items, log, put, unlogged, unlisted, pending, live, seen, ask,
                       held, steady>>
    BY <1>9 DEF NextPage, store, stream
  <2>3. UNCHANGED Queried(items, log)
    BY <2>2 DEF Queried, Source
  <2>4. TypeOK'
    BY <2>1, <2>2, <2>3 DEF ClientInv, TypeOK
  <2> QED BY <2>2, <2>4 DEF ClientInv
<1>10. ASSUME Read \/ ReadDeleted PROVE ClientInv'
  <2>1. /\ returned' \in [Items -> 0..Often] /\ held' \subseteq put
        /\ \A x \in held' : IsDelete(x)
        /\ ask \subseteq Reads /\ ask # {}
        /\ status \in {"paging", "deleted"} /\ status' \in {"done", "deleted"}
    <3>1. CASE Read
      BY <3>1, ReadTypes, Zenon DEF Read
    <3>2. CASE ReadDeleted
      BY <3>2, ShowFacts DEF ReadDeleted, ClientInv
    <3> QED BY <1>10, <3>1, <3>2
  <2>2. UNCHANGED <<items, log, put, unlogged, unlisted, pending, live, seen, ask, cursor,
                    steady, restarted>>
    BY <1>10 DEF Read, ReadDeleted, store, stream
  <2>3. UNCHANGED Queried(items, log)
    BY <2>2 DEF Queried, Source
  <2>4. TypeOK'
    BY <2>1, <2>2, <2>3 DEF ClientInv, TypeOK
  <2> QED BY <2>1, <2>2, <2>4 DEF ClientInv, IsDelete
<1>11. ASSUME UNCHANGED vars PROVE ClientInv'
  <2>1. UNCHANGED Queried(items, log)
    BY <1>11 DEF vars, Queried, Source
  <2> QED BY <1>11, <2>1 DEF vars, ClientInv, TypeOK
<1> QED BY <1>1, <1>2, <1>3, <1>4, <1>5, <1>6, <1>7, <1>8, <1>9, <1>10, <1>11 DEF Next

\* Every variable keeps its type, and the client one request.
THEOREM ClientIsOne == Spec => []ClientInv
BY InitClient, StepClient, PTL DEF Spec

\* Every variable keeps its type, and the store and the log have one entry
\* for a CID: an initial write that is archived replaces itself, and what is
\* logged late replaces what was logged before.
THEOREM QueriesTypes == Spec => []TypeOK
<1>1. ClientInv => TypeOK
  BY DEF ClientInv
<1> QED BY <1>1, ClientIsOne, PTL


-----------------------------------------------------------------------------
(* What is shown to whom                                                   *)

MayBeShown(a, S, x) ==
    \/ Entitled(Request[a])
    \/ ~IsDelete(x) /\ Concerns(Request[a], Fields[x])
    \/ IsDelete(x) /\ \E y \in InitialOf(S, x) : Concerns(Request[a], Fields[y])

\* The more was put, the more may be shown.
LEMMA ShownGrows ==
    ASSUME NEW S, NEW T, S \subseteq T, NEW a, NEW x, MayBeShown(a, S, x)
    PROVE  MayBeShown(a, T, x)
<1>1. InitialOf(S, x) \subseteq InitialOf(T, x)
  BY DEF InitialOf
<1> QED BY <1>1 DEF MayBeShown

\* A page shows nothing new but what may be shown.
LEMMA NextPageShows ==
    ASSUME ClientInv, NextPage, NEW x \in Items, returned'[x] > 0
    PROVE  \/ returned[x] > 0
           \/ \A a \in ask : MayBeShown(a, put, x)
<1>1. SUFFICES ASSUME ~(returned[x] > 0), NEW a \in ask
               PROVE  MayBeShown(a, put, x)
  OBVIOUS
<1>2. PICK b \in ask \ Reads : \E S, answer : PageStep(b, S, answer)
  BY PageFacts
<1>a. PICK S, answer : PageStep(b, S, answer)
  BY <1>2
<1>3. x \in DOMAIN answer.page
  BY <1>1, <1>a DEF PageStep
<1>4. a = b /\ a \in Asks /\ S \in SUBSET Items /\ Request[a].kind # "read"
  BY <1>2, <1>a, Zenon DEF ClientInv, TypeOK, Source, Reads, PageStep
<1>5. ~Refused(Request[a])
  BY DEF ClientInv, NextPage
<1> QED BY <1>a, <1>3, <1>4, <1>5, AnswerVisible, Zenon DEF MayBeShown, PageStep

\* A read shows nothing new but what may be shown.
LEMMA ReadShows ==
    ASSUME ClientInv, Read \/ ReadDeleted, NEW x \in Items, returned'[x] > 0
    PROVE  \/ returned[x] > 0
           \/ \A a \in ask : MayBeShown(a, put, x)
<1>1. SUFFICES ASSUME ~(returned[x] > 0), NEW a \in ask
               PROVE  MayBeShown(a, put, x)
  OBVIOUS
<1>2. TypeOK /\ items \in SUBSET Items /\ items \subseteq put
  BY DEF ClientInv, TypeOK
<1>3. CASE Read
  <2>1. PICK b, found, shown :
          /\ b \in ask \cap Reads
          /\ found = DOMAIN Answer(items, b, cursor).page
          /\ shown = {y \in found : /\ found = {y} /\ ~IsDelete(y)
                                    /\ authorize_read(Request[b], Message[y])}
          /\ returned' = Show(shown)
    BY <1>3, Zenon DEF Read
  <2>2. a = b
    BY <2>1 DEF ClientInv
  <2>3. x \in shown
    BY <1>1, <1>2, <2>1, ShowFacts
  <2>4. ~IsDelete(x) /\ authorize_read(Request[a], Message[x]) /\ x \in found
    BY <2>1, <2>2, <2>3
  <2>5. Fields[x]["interface"] = "Records"
    BY <1>2, <2>1, <2>4, ReadFinds
  <2> QED BY <2>1, <2>2, <2>4, <2>5, ReadVisible DEF MayBeShown
<1>4. CASE ReadDeleted
  <2>1. PICK b, shown :
          /\ b \in ask
          /\ shown = {y \in held : \E z \in InitialOf(items, y) :
                                       authorize_read(Request[b], Message[z])}
          /\ returned' = Show(shown)
    BY <1>4, Zenon DEF ReadDeleted
  <2>2. a = b /\ a \in Reads
    BY <1>4, <2>1 DEF ClientInv, ReadDeleted
  <2>3. x \in shown
    BY <1>1, <1>2, <2>1, ShowFacts
  <2>4. PICK z \in InitialOf(items, x) : authorize_read(Request[a], Message[z])
    BY <2>1, <2>2, <2>3
  <2>5. IsDelete(x)
    BY <1>4, <2>1, <2>3 DEF ClientInv, ReadDeleted
  <2>6. z \in items /\ Fields[z]["interface"] = "Records"
    BY <2>4 DEF InitialOf
  <2>7. Entitled(Request[a]) \/ Concerns(Request[a], Fields[z])
    BY <1>2, <2>2, <2>4, <2>6, ReadVisible
  <2>8. MayBeShown(a, items, x)
    BY <2>4, <2>5, <2>7 DEF MayBeShown
  <2> QED BY <1>2, <2>8, ShownGrows
<1> QED BY <1>3, <1>4

\* Every step keeps VisibleOnly.
LEMMA StepVisible == ClientInv /\ VisibleOnly /\ [Next]_vars => VisibleOnly'
<1> SUFFICES ASSUME ClientInv, VisibleOnly, [Next]_vars,
                    NEW a \in ask' \cup live', NEW x \in Items,
                    returned'[x] > 0 \/ x \in seen'
             PROVE  MayBeShown(a, put', x)
  BY DEF VisibleOnly, MayBeShown
<1>1. put \subseteq put'
  BY DEF Next, Put, Archive, AppendEvent, Emit, Delete, DeleteEvent, Subscribe, Ask,
         NextPage, Read, ReadDeleted, store, vars
<1>2. ASSUME a \in ask \cup live, returned[x] > 0 \/ x \in seen
      PROVE  MayBeShown(a, put', x)
  <2>1. MayBeShown(a, put, x)
    BY <1>2, Zenon DEF VisibleOnly, MayBeShown
  <2> QED BY <1>1, <2>1, ShownGrows
<1>3. CASE ask' = ask /\ live' = live /\ returned' = returned /\ seen' = seen
  BY <1>2, <1>3
<1>4. ASSUME NEW y \in Items, Emit(y) PROVE MayBeShown(a, put', x)
  <2>1. /\ a \in ask \cup live /\ returned' = returned /\ put' = put
        /\ \A b \in live : b = a /\ b \in Asks /\ MaySubscribe(Request[b])
    BY <1>4 DEF Emit, query, ClientInv, TypeOK
  <2>2. CASE returned[x] > 0 \/ x \in seen
    BY <1>2, <2>1, <2>2
  <2>3. CASE ~(returned[x] > 0 \/ x \in seen)
    <3>1. x = y /\ \E b \in live : Delivers(Request[b], Message[x])
      BY <1>4, <2>1, <2>3 DEF Emit
    <3>2. a \in Asks /\ MaySubscribe(Request[a]) /\ Delivers(Request[a], Message[x])
      BY <2>1, <3>1
    <3> QED BY <2>1, <3>2, DeliveredVisible DEF MayBeShown
  <2> QED BY <2>2, <2>3
<1>5. ASSUME NEW b \in Asks, Subscribe(b) PROVE MayBeShown(a, put', x)
  <2>1. returned'[x] = 0 /\ seen' = {}
    BY <1>5 DEF Subscribe, query, ClientInv
  <2> QED BY <2>1
<1>6. ASSUME NEW b \in Asks, Ask(b) PROVE MayBeShown(a, put', x)
  <2>1. returned'[x] = 0 /\ seen' = seen /\ live' = live /\ ask' = {b} /\ live \subseteq {b}
    BY <1>6 DEF Ask, stream, ClientInv
  <2>2. x \in seen /\ live # {}
    BY <2>1 DEF ClientInv
  <2> QED BY <1>2, <2>1, <2>2
<1>7. ASSUME NextPage \/ Read \/ ReadDeleted PROVE MayBeShown(a, put', x)
  <2>1. put' = put /\ live' = live /\ seen' = seen /\ ask' = ask /\ ask # {}
    BY <1>7, Zenon DEF NextPage, Read, ReadDeleted, store, stream
  <2>2. a \in ask
    BY <2>1 DEF ClientInv
  <2>3. CASE returned[x] > 0 \/ x \in seen
    BY <1>2, <2>2, <2>3
  <2>4. CASE ~(returned[x] > 0 \/ x \in seen)
    BY <1>7, <2>1, <2>2, <2>4, NextPageShows, ReadShows
  <2> QED BY <2>3, <2>4
<1>8. ASSUME NEW y \in Items,
             \/ Put(y) \/ Archive(y) \/ AppendEvent(y) \/ Delete(y) \/ DeleteEvent(y)
      PROVE  MayBeShown(a, put', x)
  BY <1>3, <1>8 DEF Put, Archive, AppendEvent, Delete, DeleteEvent, stream, query
<1>9. ASSUME UNCHANGED vars PROVE MayBeShown(a, put', x)
  BY <1>3, <1>9 DEF vars
<1> QED BY <1>4, <1>5, <1>6, <1>7, <1>8, <1>9 DEF Next

\* A requester is shown, on a page, by a read or through a subscription, only
\* what is published, what they wrote or received, or what a role or a grant
\* permits, whatever they ask for and however the store changes.
THEOREM OnlyVisibleShown == Spec => []VisibleOnly
<1>1. Init => VisibleOnly
  BY DEF Init, VisibleOnly
<1> QED BY <1>1, ClientIsOne, StepVisible, PTL DEF Spec


-----------------------------------------------------------------------------
(* A search of one index finds all that matches                            *)

KeyFields == {ConciseFields[i] : i \in 1..5}

\* The filters made of a request's filter keep the fields it is searched by.
LEMMA KeysKept ==
    ASSUME NEW f, NEW d \in {"published", "author", "recipient"}, NEW v, NEW k \in KeyFields
    PROVE  /\ k \in DOMAIN Set(f, d, v) <=> k \in DOMAIN f
           /\ k \in DOMAIN f => Set(f, d, v)[k] = f[k]
<1>1. k # d
  BY DEF KeyFields, ConciseFields
<1> QED BY <1>1 DEF Set

SameKeys(f, g) ==
    \A k \in KeyFields : /\ k \in DOMAIN f <=> k \in DOMAIN g
                         /\ k \in DOMAIN f => f[k] = g[k]

\* The filters for one who is not the owner have the fields of the first.
LEMMA NonOwnerKeys ==
    ASSUME NEW r, NEW i \in DOMAIN into_non_owner(r)
    PROVE  SameKeys(into_non_owner(r)[i], r.filter)
<1>0. PICK yes, no : yes = TRUE /\ no = FALSE
  BY Zenon
<1>1. i \in {"author", "recipient", "published", "role"}
  BY DEF into_non_owner
<1>2. CASE i \in {"published", "role"}
  <2>1. PICK v : into_non_owner(r)[i] = Set(r.filter, "published", v)
    BY <1>2, Zenon DEF into_non_owner
  <2> QED BY <2>1, KeysKept DEF SameKeys
<1>3. CASE i \in {"author", "recipient"}
  <2>1. PICK d, v, g :
           /\ d \in {"author", "recipient"} /\ g = Set(r.filter, d, v)
           /\ into_non_owner(r)[i] = Set(g, "published", no)
    <3>1. into_non_owner(r)[i] = Set(Set(r.filter, i, {r.requester}), "published", no)
      BY <1>0, <1>3, Zenon DEF into_non_owner
    <3>2. PICK g : g = Set(r.filter, i, {r.requester})
      OBVIOUS
    <3> QED BY <1>3, <3>1, <3>2
  <2>2. SameKeys(g, r.filter)
    BY <2>1, KeysKept DEF SameKeys
  <2>3. SameKeys(Set(g, "published", no), g)
    BY KeysKept DEF SameKeys
  <2> QED BY <2>1, <2>2, <2>3 DEF SameKeys
<1> QED BY <1>1, <1>2, <1>3

\* Every match set of a query or a read comes from a filter with the keys of
\* the one asked for.
LEMMA SetsKeys ==
    ASSUME NEW a \in Asks, Request[a].kind \in {"query", "read"}, NEW i \in DOMAIN Sets[a]
    PROVE  \E f, extra : /\ Sets[a][i] = With(MatchSet(f), extra)
                         /\ SameKeys(f, Request[a].filter)
<1>0. PICK r : r = Request[a]
  OBVIOUS
<1>1. Sets[a] = SetsOf(r)
  BY <1>0 DEF Sets
<1>2. CASE r.kind = "read"
  <2>1. PICK extra : extra = {Equal("initial", FALSE)}
    BY Zenon
  <2>2. Sets[a] = <<With(MatchSet(r.filter), extra)>>
    BY <1>1, <1>2, <2>1 DEF SetsOf, ReadQuery
  <2>3. Sets[a][i] = With(MatchSet(r.filter), extra)
    BY <2>2
  <2> QED BY <1>0, <2>3 DEF SameKeys
<1>3. CASE r.kind = "query"
  <2>1. Sets[a] = RecordsQueryOf(r)
    BY <1>1, <1>3 DEF SetsOf
  <2>2. PICK filters : /\ Sets[a] = RecordsQuery(filters)
                       /\ \A j \in DOMAIN filters : SameKeys(filters[j], r.filter)
    <3>1. CASE only_published(r)
      <4>0. PICK yes, f : yes = TRUE /\ f = Set(r.filter, "published", yes)
        BY Zenon
      <4>1. Sets[a] = RecordsQuery(<<f>>)
        BY <2>1, <3>1, <4>0 DEF RecordsQueryOf
      <4>2. SameKeys(f, r.filter)
        BY <4>0, KeysKept, Zenon DEF SameKeys
      <4>3. \A j \in DOMAIN <<f>> : <<f>>[j] = f
        OBVIOUS
      <4> QED BY <4>1, <4>2, <4>3
    <3>2. CASE ~only_published(r) /\ r.requester = Owner
      <4>0. PICK f : f = r.filter
        OBVIOUS
      <4>1. Sets[a] = RecordsQuery(<<f>>)
        BY <2>1, <3>2, <4>0 DEF RecordsQueryOf
      <4>2. SameKeys(f, r.filter)
        BY <4>0 DEF SameKeys
      <4>3. \A j \in DOMAIN <<f>> : <<f>>[j] = f
        OBVIOUS
      <4> QED BY <4>1, <4>2, <4>3
    <3>3. CASE ~only_published(r) /\ r.requester # Owner
      <4>1. Sets[a] = RecordsQuery(into_non_owner(r))
        BY <2>1, <3>3 DEF RecordsQueryOf
      <4> QED BY <4>1, NonOwnerKeys
    <3> QED BY <3>1, <3>2, <3>3
  <2>3. i \in DOMAIN filters /\ Sets[a][i] = With(MatchSet(filters[i]), ActiveWrite)
    BY <2>2 DEF RecordsQuery
  <2> QED BY <1>0, <2>2, <2>3
<1> QED BY <1>0, <1>2, <1>3

\* MessagesQuery names no field of the index.
LEMMA MessagesQueryUnindexed ==
    ASSUME NEW filters, NEW d \in DOMAIN MessagesQuery(filters)
    PROVE  MessagesQuery(filters)[d].index = {}
BY Zenon DEF MessagesQuery

\* Only queries and reads of records are concise.
LEMMA ConciseKinds ==
    ASSUME NEW a \in Asks, Concise[a]
    PROVE  Request[a].kind \in {"query", "read"}
<1>0. PICK r : r = Request[a]
  OBVIOUS
<1>1. Sets[a] = SetsOf(r) /\ is_concise(Sets[a])
  BY <1>0 DEF Sets, Concise
<1>2. r.kind # "protocols"
  <2>1. SUFFICES ASSUME r.kind = "protocols" PROVE FALSE
    OBVIOUS
  <2>2. PICK P : Sets[a] = ProtocolsQuery(r.filter, P)
    BY <1>1, <2>1 DEF SetsOf
  <2>3. PICK ms : Sets[a] = <<ms>> /\ \A b \in ms.index : b.value = <<>>
    BY <2>2 DEF ProtocolsQuery
  <2>4. 1 \in DOMAIN Sets[a] /\ Sets[a][1] = ms
    BY <2>3
  <2> QED BY <1>1, <2>3, <2>4 DEF is_concise
<1>3. r.kind # "messages"
  <2>1. SUFFICES ASSUME r.kind = "messages" PROVE FALSE
    OBVIOUS
  <2>2. Sets[a] = MessagesQuery(r.filter)
    BY <1>1, <2>1 DEF SetsOf
  <2>3. \A d \in DOMAIN Sets[a] : Sets[a][d].index = {}
    BY <2>2, MessagesQueryUnindexed, Zenon
  <2> QED BY <1>1, <2>3 DEF is_concise
<1> QED BY <1>0, <1>2, <1>3, AsksAssumption

\* A value begins with itself.
LEMMA StartsWithItself ==
    ASSUME NEW v, Len(v) \in Nat
    PROVE  StartsWith(v, v)
BY DEF StartsWith

\* What matches is found under the value the index is searched for: the value
\* itself, or one that begins with it.
LEMMA ConciseFindsAll ==
    ASSUME NEW a \in Asks, Concise[a], NEW x \in Items, Hit[a][x] # {}
    PROVE  x \in Findable[a]
<1>1. PICK i \in Hit[a][x] : i \in DOMAIN Sets[a] /\ Hits(Sets[a][i], Fields[x])
  BY DEF Hit
<1>2. PICK f, extra : Sets[a][i] = With(MatchSet(f), extra) /\ SameKeys(f, Request[a].filter)
  BY <1>1, ConciseKinds, SetsKeys
<1>3. PICK b \in Sets[a][i].index : TRUE
  BY <1>1 DEF Concise, is_concise
<1>4. b \in as_concise(f)
  BY <1>2, <1>3 DEF With, MatchSet
<1>5. PICK j \in DOMAIN ConciseFields : /\ b.field = ConciseFields[j]
                                        /\ b.value = f[ConciseFields[j]]
                                        /\ ConciseFields[j] \in DOMAIN f
  BY <1>4 DEF as_concise
<1>6. b.field \in KeyFields /\ b.field \notin TagFields
  <2>1. DOMAIN ConciseFields = 1..5
    BY DEF ConciseFields
  <2> QED BY <1>5, <2>1, NotTags, Zenon DEF KeyFields
<1>7. PICK k : k = b.field
  OBVIOUS
<1>8. Passes(FilterMatcher(f, k), Fields[x])
  BY <1>1, <1>2, <1>5, <1>7, HitFields
<1>9. FilterMatcher(f, k) = Matcher(k, How(k), f[k])
  BY <1>6, <1>7 DEF FilterMatcher
<1>10. k \in DOMAIN Fields[x] /\ IsMatch(How(k), f[k], Fields[x][k])
  BY <1>8, <1>9 DEF Passes, Matcher
<1>11. Len(f[k]) \in Nat
  <2>1. k \in {ConciseFields[n] : n \in 1..5} \cap DOMAIN Request[a].filter
        /\ f[k] = Request[a].filter[k]
    BY <1>2, <1>5, <1>6, <1>7, Zenon DEF SameKeys, KeyFields
  <2> QED BY <2>1, ConciseKinds, AsksAssumption, Zenon
<1>12. StartsWith(Fields[x][k], f[k])
  <2>1. CASE k = "contextId"
    <3>1. How(k) = "startsWith"
      BY <2>1 DEF How, Dates
    <3> QED BY <1>10, <3>1 DEF IsMatch
  <2>2. CASE k # "contextId"
    <3>1. k \in {"recordId", "protocolPath", "parentId", "schema"}
      BY <1>5, <1>7, <2>2 DEF ConciseFields
    <3>2. How(k) = "equal"
      BY <3>1 DEF How, Dates
    <3>3. Fields[x][k] = f[k]
      BY <1>10, <3>2 DEF IsMatch
    <3> QED BY <1>11, <3>3, StartsWithItself
  <2> QED BY <2>1, <2>2, Zenon
<1>13. matches(b, x)
  BY <1>5, <1>7, <1>10, <1>12 DEF matches
<1> QED BY <1>1, <1>3, <1>13 DEF Findable


-----------------------------------------------------------------------------
(* Subscriptions and queries                                               *)

\* What a matcher of a filter lets through, the filter of a subscription does.
LEMMA EventsCoverMatchers ==
    ASSUME NEW a \in Asks, Request[a].kind = "query", NEW x \in Items, NEW d,
           d \in DOMAIN Request[a].filter,
           Passes(FilterMatcher(Request[a].filter, d), Fields[x])
    PROVE  EventPasses(Request[a].filter, d, Message[x])
<1>1. PICK f, m, fields : f = Request[a].filter /\ m = Message[x] /\ fields = Fields[x]
  OBVIOUS
<1>2. /\ \A e \in DOMAIN m : e \in DOMAIN fields /\ fields[e] = m[e]
      /\ \A e \in DOMAIN fields : e \notin DOMAIN m => e = "published" /\ fields[e] = FALSE
  BY <1>1, FieldsFacts, Zenon
<1>3. "published" \notin TagFields
  BY NotTags
<1>4. CASE d \in TagFields
  <2>1. FilterMatcher(f, d) = Equal(d, f[d].value)
    BY <1>4, Zenon DEF FilterMatcher
  <2>2. d \in DOMAIN fields /\ fields[d] = f[d].value
    BY <1>1, <2>1, PassesEqual
  <2>3. d \in DOMAIN m /\ m[d] = f[d].value
    BY <1>2, <1>3, <1>4, <2>2, Zenon
  <2>4. Len(f[d].value) \in Nat /\ f[d].how \in {"equal", "startsWith"}
    BY <1>1, <1>4, AsksAssumption, Zenon
  <2>5. StartsWith(m[d], f[d].value)
    BY <2>3, <2>4, StartsWithItself
  <2>6. IsMatch(f[d].how, f[d].value, m[d])
    BY <2>3, <2>4, <2>5, Zenon DEF IsMatch
  <2> QED BY <1>1, <1>4, <2>3, <2>6, Zenon DEF EventPasses
<1>5. CASE d \notin TagFields
  <2>1. FilterMatcher(f, d) = Matcher(d, How(d), f[d])
    BY <1>5 DEF FilterMatcher
  <2>2. d \in DOMAIN fields /\ IsMatch(How(d), f[d], fields[d])
    BY <1>1, <2>1 DEF Passes, Matcher
  <2>3. CASE d \in DOMAIN m
    BY <1>1, <1>2, <1>5, <2>2, <2>3 DEF EventPasses
  <2>4. CASE d \notin DOMAIN m
    <3>1. d = "published" /\ fields[d] = FALSE
      BY <1>2, <2>2, <2>4
    <3>2. d \in DOMAIN Absent /\ Absent[d] = fields[d]
      BY <3>1, Zenon DEF Absent
    <3>3. IsMatch(How(d), f[d], Absent[d])
      BY <2>2, <3>2, Zenon
    <3> QED BY <1>1, <1>5, <2>4, <3>2, <3>3 DEF EventPasses
  <2> QED BY <2>3, <2>4
<1> QED BY <1>4, <1>5

\* The owner's subscription is sent the event of whatever a query with the
\* same filter selects.
LEMMA EventsCoverQueries ==
    ASSUME NEW a \in Asks, Request[a].kind = "query", Request[a].requester = Owner,
           NEW x \in Items, Selected(a, x)
    PROVE  Delivers(Request[a], Message[x])
<1>1. PICK r, f : r = Request[a] /\ f = r.filter
  OBVIOUS
<1>2. Sets[a] = RecordsQueryOf(r)
  BY <1>1 DEF Sets, SetsOf
<1>3. PICK yes, g : yes = TRUE /\ g = IF only_published(r) THEN Set(f, "published", yes) ELSE f
  OBVIOUS
<1>4. Sets[a] = RecordsQuery(<<g>>)
  BY <1>1, <1>2, <1>3, Zenon DEF RecordsQueryOf
<1>5. DOMAIN Sets[a] # {}
  BY <1>4 DEF RecordsQuery
<1>6. PICK i \in DOMAIN Sets[a] : Hits(Sets[a][i], Fields[x])
  BY <1>5, HitPicked DEF Selected
<1>7. /\ i \in DOMAIN <<g>> /\ Hits(With(MatchSet(<<g>>[i]), ActiveWrite), Fields[x])
      /\ Fields[x]["method"] = "Write"
  BY <1>4, <1>6, RecordsHit
<1>8. Hits(With(MatchSet(g), ActiveWrite), Fields[x])
  BY <1>7, SMTT(30)
<1>9. Fields[x]["interface"] = "Records"
  BY <1>8, HitRecords
<1>10. ASSUME NEW d \in DOMAIN f PROVE EventPasses(f, d, Message[x])
  <2>1. d \in DOMAIN g /\ g[d] = f[d]
    <3>1. CASE only_published(r) /\ d = "published"
      <4>1. f[d] \in BOOLEAN /\ f[d]
        BY <1>1, <1>10, <3>1, AsksAssumption, Zenon DEF only_published
      <4> QED BY <1>3, <1>10, <3>1, <4>1 DEF Set
    <3>2. CASE ~(only_published(r) /\ d = "published")
      BY <1>3, <1>10, <3>2, Zenon DEF Set
    <3> QED BY <3>1, <3>2
  <2>2. Passes(FilterMatcher(g, d), Fields[x])
    BY <1>8, <2>1, HitFields, Zenon
  <2>3. FilterMatcher(g, d) = FilterMatcher(f, d)
    BY <2>1, Zenon DEF FilterMatcher
  <2> QED BY <1>1, <1>10, <2>2, <2>3, EventsCoverMatchers, Zenon
<1>11. SubscribeFilter(r) = f
  BY <1>1, Zenon DEF SubscribeFilter
<1>12. Message[x]["interface"] = "Records" /\ Message[x]["method"] = "Write"
  BY <1>7, <1>9, MethodFacts
<1> QED BY <1>1, <1>10, <1>11, <1>12 DEF Delivers, records_is_match

\* Whatever an owner's query selects was there when it was made, or its event
\* has come or is to come.
LiveInv ==
    \A a \in ask \cap live :
        Request[a].kind = "query" /\ Request[a].requester = Owner
        => \A x \in items : Selected(a, x) => x \in steady \cup seen \cup pending

\* A query does not select archived writes.
LEMMA SelectsActive ==
    ASSUME NEW a \in Asks, Request[a].kind = "query", NEW x \in Items, Selected(a, x)
    PROVE  ~Archived(x)
<1>0. PICK no : no = FALSE
  BY Zenon
<1>1. Sets[a] = RecordsQueryOf(Request[a])
  BY DEF Sets, SetsOf
<1>2. DOMAIN Sets[a] # {}
  BY <1>1 DEF RecordsQueryOf, RecordsQuery, into_non_owner
<1>3. PICK i \in DOMAIN Sets[a] : Hits(Sets[a][i], Fields[x])
  BY <1>2, HitPicked DEF Selected
<1>4. PICK filters : Sets[a] = RecordsQuery(filters)
  BY <1>1, Zenon DEF RecordsQueryOf
<1>5. Hits(With(MatchSet(filters[i]), ActiveWrite), Fields[x])
  BY <1>3, <1>4, RecordsHit
<1>6. Equal("initial", no) \in ActiveWrite
  BY <1>0, Zenon DEF ActiveWrite
<1>7. Passes(Equal("initial", no), Fields[x])
  BY <1>5, <1>6, HitExtra
<1>8. Fields[x]["initial"] = no
  BY <1>7, PassesEqual
<1> QED BY <1>0, <1>8, FieldsFacts, Zenon DEF Archived

\* Every step keeps LiveInv.
LEMMA StepLive == ClientInv /\ LiveInv /\ [Next]_vars => LiveInv'
<1> SUFFICES ASSUME ClientInv, LiveInv, [Next]_vars,
                    NEW a \in ask' \cap live', Request[a].kind = "query",
                    Request[a].requester = Owner, NEW x \in items', Selected(a, x)
             PROVE  x \in steady' \cup seen' \cup pending'
  BY DEF LiveInv, Selected
<1>a. ASSUME UNCHANGED <<ask, live, seen, pending>>, x \in items, steady \cap items' \subseteq steady'
      PROVE  x \in steady' \cup seen' \cup pending'
  BY <1>a DEF LiveInv
<1>b. ASSUME a \in ask, NEW S, NEW L PROVE Queried(S, L) = S
  BY <1>b DEF Queried, Source, ClientInv
<1>1. ASSUME NEW y \in Items, Put(y) PROVE x \in steady' \cup seen' \cup pending'
  <2>1. /\ ask' = ask /\ live' = live /\ seen' = seen /\ pending' = pending \cup {y}
        /\ steady' = steady /\ (x = y \/ x \in items)
    BY <1>1, Zenon DEF Put, stream, query
  <2> QED BY <2>1 DEF LiveInv
<1>2. ASSUME NEW y \in Items, Archive(y) PROVE x \in steady' \cup seen' \cup pending'
  <2>1. /\ UNCHANGED <<ask, live, seen, pending>> /\ Archived(y)
        /\ steady' = steady \cap Queried(items', log) /\ (x = y \/ x \in items)
    BY <1>2 DEF Archive, stream, query
  <2>2. a \in Asks
    BY <2>1 DEF ClientInv, TypeOK
  <2>3. x # y
    BY <1>2, <2>1, <2>2, SelectsActive
  <2> QED BY <1>a, <1>b, <2>1, <2>3
<1>3. ASSUME NEW y \in Items, AppendEvent(y) \/ Delete(y) \/ DeleteEvent(y)
      PROVE  x \in steady' \cup seen' \cup pending'
  <2>1. /\ UNCHANGED <<ask, live, seen, pending>> /\ items' \subseteq items
        /\ \E L : steady' = steady \cap Queried(items', L)
    BY <1>3 DEF AppendEvent, Delete, DeleteEvent, stream, query
  <2> QED BY <1>a, <1>b, <2>1
<1>4. ASSUME NEW y \in Items, Emit(y) PROVE x \in steady' \cup seen' \cup pending'
  <2>1. /\ ask' = ask /\ live' = live /\ items' = items /\ steady' = steady
        /\ pending' = pending \ {y} /\ seen \subseteq seen'
    BY <1>4 DEF Emit, query
  <2>2. a \in Asks /\ items \subseteq Items
    BY <2>1, Zenon DEF ClientInv, TypeOK
  <2>3. Delivers(Request[a], Message[x])
    BY <2>1, <2>2, EventsCoverQueries
  <2>4. x = y => x \in seen'
    BY <1>4, <2>1, <2>3 DEF Emit
  <2> QED BY <2>1, <2>4 DEF LiveInv
<1>5. ASSUME NEW b \in Asks, Subscribe(b) PROVE x \in steady' \cup seen' \cup pending'
  BY <1>5 DEF Subscribe, query
<1>6. ASSUME NEW b \in Asks, Ask(b) PROVE x \in steady' \cup seen' \cup pending'
  BY <1>6 DEF Ask, store, Source
<1>7. ASSUME NextPage \/ Read \/ ReadDeleted PROVE x \in steady' \cup seen' \cup pending'
  BY <1>a, <1>7, Zenon DEF NextPage, Read, ReadDeleted, store, stream
<1>8. ASSUME UNCHANGED vars PROVE x \in steady' \cup seen' \cup pending'
  BY <1>8 DEF vars, LiveInv
<1> QED BY <1>1, <1>2, <1>3, <1>4, <1>5, <1>6, <1>7, <1>8, Zenon DEF Next

\* LiveInv always holds.
LEMMA LiveInvariant == Spec => []LiveInv
<1>1. Init => LiveInv
  BY DEF Init, LiveInv
<1> QED BY <1>1, ClientIsOne, StepLive, PTL DEF Spec
=============================================================================
