------------------------------ MODULE Filters ------------------------------
(***************************************************************************)
(* What a query selects, and what a subscription lets through.             *)
(*                                                                         *)
(* A filter is a function on the fields it constrains.  A query of the     *)
(* store is a function to match sets, OR-ed together; a match set is a set *)
(* of matchers, AND-ed together, and perhaps the index to search.  Matchers*)
(* are applied to the flattened fields of a message, a function.  The      *)
(* values of the fields an index is searched by, and of tags, are          *)
(* sequences, so that one can be a prefix of another; dates and sizes are  *)
(* numbers; an optional value is a set of at most one element.  Tags are   *)
(* strings: numbers and ranges as tags are left out.                       *)
(***************************************************************************)
EXTENDS Naturals, Sequences, FiniteSets

CONSTANTS Owner, Anonymous, TagFields

Dates == {"dateCreated", "datePublished", "messageTimestamp"}

(***************************************************************************)
(* Ranges and prefixes.                                                    *)
(***************************************************************************)
InRange(r, v) ==
    /\ \A b \in r.gt : v > b
    /\ \A b \in r.ge : v >= b
    /\ \A b \in r.lt : v < b
    /\ \A b \in r.le : v <= b

InDateRange(r, v) ==
    /\ \A b \in r.lower : v >= b
    /\ \A b \in r.upper : v < b

StartsWith(v, p) == Len(p) <= Len(v) /\ \A i \in 1..Len(p) : v[i] = p[i]

(***************************************************************************)
(* Matchers and match sets.                                                *)
(***************************************************************************)
Matcher(field, how, value) == [field |-> field, how |-> how, value |-> value]
Equal(field, value) == Matcher(field, "equal", value)

IsMatch(how, wanted, v) ==
    CASE how = "equal"      -> v = wanted
      [] how = "startsWith" -> StartsWith(v, wanted)
      [] how = "oneOf"      -> v \in wanted
      [] how = "range"      -> InRange(wanted, v)
      [] how = "dateRange"  -> InDateRange(wanted, v)

\* A matcher on a field the message does not have never matches.
Passes(m, fields) ==
    /\ m.field \in DOMAIN fields
    /\ IsMatch(m.how, m.value, fields[m.field])

Hits(ms, fields) == \A m \in ms.inner : Passes(m, fields)

How(field) ==
    CASE field \in {"author", "recipient"} -> "oneOf"
      [] field = "contextId"               -> "startsWith"
      [] field = "dataSize"                -> "range"
      [] field \in Dates                   -> "dateRange"
      [] OTHER                             -> "equal"

\* A tag filter asks for a value or for a prefix; both become equality.
FilterMatcher(f, field) ==
    IF field \in TagFields THEN Equal(field, f[field].value)
                           ELSE Matcher(field, How(field), f[field])

ConciseFields ==
    <<"recordId", "protocolPath", "contextId", "parentId", "schema">>

\* The field the query is searched by: the first of these the filter has.
as_concise(f) ==
    {[field |-> ConciseFields[i], value |-> f[ConciseFields[i]]] :
        i \in {j \in DOMAIN ConciseFields :
                 /\ ConciseFields[j] \in DOMAIN f
                 /\ \A k \in 1..(j - 1) : ConciseFields[k] \notin DOMAIN f}}

MatchSet(f) ==
    [index |-> as_concise(f),
     inner |-> {Equal("interface", "Records")}
                 \cup {FilterMatcher(f, field) : field \in DOMAIN f}]

With(ms, matchers) == [ms EXCEPT !.inner = @ \cup matchers]

(***************************************************************************)
(* The queries the handlers put to the store.                              *)
(***************************************************************************)
ActiveWrite == {Equal("method", "Write"), Equal("initial", FALSE)}

RecordsQuery(filters) ==
    [i \in DOMAIN filters |-> With(MatchSet(filters[i]), ActiveWrite)]

\* A read may find a delete: it does not ask for a method.
ReadQuery(f) == <<With(MatchSet(f), {Equal("initial", FALSE)})>>

ProtocolsQuery(protocol, published) ==
    <<[index |-> {[field |-> "protocol", value |-> <<>>]},
       inner |-> {Equal("interface", "Protocols")}
                   \cup {Equal("protocol", p) : p \in protocol}
                   \cup {Equal("published", b) : b \in published}]>>

\* A filter on a protocol looks for it as protocol or as tag.
MessagesQuery(filters) ==
    [d \in {e \in (DOMAIN filters) \X {"tag.protocol", "protocol"} :
              e[2] = "protocol" \/ "protocol" \in DOMAIN filters[e[1]]} |->
        LET f == filters[d[1]]
        IN  [index |-> {},
             inner |-> {Matcher(field, How(field), f[field]) :
                          field \in DOMAIN f \ {"protocol"}}
                         \cup {Equal(d[2], f[field]) :
                                field \in DOMAIN f \cap {"protocol"}}]]

is_concise(sets) ==
    /\ DOMAIN sets # {}
    /\ \A i \in DOMAIN sets : \E b \in sets[i].index : b.value # <<>>

(***************************************************************************)
(* What a requester may ask for.  An ask is a request as a handler sees    *)
(* it: its kind, who signed it, its filter, how it is sorted and cut into  *)
(* pages, whether it invokes a role or names a grant, and what the checks  *)
(* of ProtocolRules and GrantRules say of that role or grant: permitted,   *)
(* and, for a grant limited to one, its protocol; and, if it was signed    *)
(* by a delegate, what they say of the delegated grant.                    *)
(***************************************************************************)
Set(f, field, v) ==
    [d \in DOMAIN f \cup {field} |-> IF d = field THEN v ELSE f[d]]

SortsPublished(a) == a.sort.field = "datePublished"

validate(a) ==
    "published" \in DOMAIN a.filter /\ ~a.filter["published"]
        => ~SortsPublished(a)

only_published(a) ==
    IF "published" \in DOMAIN a.filter THEN a.filter["published"]
    ELSE \/ "datePublished" \in DOMAIN a.filter
         \/ SortsPublished(a)
         \/ a.requester = Anonymous

\* A delegated grant that does not permit the request turns it down.
Undelegated(a) == FALSE \in a.delegated

\* A role is invoked for a path of a protocol and, below the top of its
\* structure, in a context.
authorize_query(a) ==
    /\ a.requester # Anonymous /\ ~Undelegated(a)
    /\ a.role =>
         /\ {"protocol", "protocolPath"} \subseteq DOMAIN a.filter
         /\ Len(a.filter["protocolPath"]) > 1 => "contextId" \in DOMAIN a.filter
         /\ a.permitted

\* The filters of someone else's query: what is published, what they wrote
\* or received, and with a role whatever the filter selects.
into_non_owner(a) ==
    [k \in {"author", "recipient"}
             \cup (IF "published" \in DOMAIN a.filter THEN {} ELSE {"published"})
             \cup (IF a.role THEN {"role"} ELSE {}) |->
        CASE k = "published" -> Set(a.filter, "published", TRUE)
          [] k = "role"      -> Set(a.filter, "published", FALSE)
          [] OTHER           ->
               Set(Set(a.filter, k, {a.requester}), "published", FALSE)]

\* Mutant of RecordsQueryOf: the filter of someone else is taken as it is.
RecordsQueryOfAny(a) ==
    RecordsQuery(<<IF only_published(a) THEN Set(a.filter, "published", TRUE)
                                        ELSE a.filter>>)

RecordsQueryOf(a) ==
    IF only_published(a)
      THEN RecordsQuery(<<Set(a.filter, "published", TRUE)>>)
    ELSE IF a.requester = Owner THEN RecordsQuery(<<a.filter>>)
    ELSE RecordsQuery(into_non_owner(a))

\* Unpublished protocols are for the owner, and for a grant that is not
\* limited to another protocol than the one asked for.
Unpublished(a) ==
    \/ a.requester = Owner
    \/ /\ a.requester # Anonymous /\ a.named /\ a.permitted
       /\ a.protocol = {} \/ a.protocol = a.filter

\* A request that names a grant is turned down with it.
authorize_protocols(a) ==
    a.requester \notin {Owner, Anonymous} /\ a.named => a.permitted

\* A grant limited to a protocol covers filters on that protocol alone.
authorize_messages(a) ==
    \/ a.requester = Owner
    \/ /\ a.named /\ a.permitted
       /\ \A p \in a.protocol : \A i \in DOMAIN a.filter :
            "protocol" \in DOMAIN a.filter[i] /\ a.filter[i]["protocol"] = p

authorize_read(a, m) ==
    \/ "published" \in DOMAIN m /\ m["published"]
    \/ /\ a.requester # Anonymous
       /\ \/ a.requester \in {Owner, m["author"]}
          \/ "recipient" \in DOMAIN m /\ m["recipient"] = a.requester
          \/ a.permitted /\ ~Undelegated(a)

authorize_subscribe(a) ==
    \/ "published" \in DOMAIN a.filter /\ a.filter["published"]
    \/ a.requester # Anonymous /\ ~Undelegated(a) /\ (a.role => a.permitted)

SetsOf(a) ==
    CASE a.kind = "query"     -> RecordsQueryOf(a)
      [] a.kind = "read"      -> ReadQuery(a.filter)
      [] a.kind = "protocols" ->
           ProtocolsQuery(a.filter, IF Unpublished(a) THEN {} ELSE {TRUE})
      [] a.kind = "messages"  -> MessagesQuery(a.filter)

Refused(a) ==
    \/ a.kind = "query" /\ ~validate(a)
    \/ a.kind = "query" /\ ~only_published(a) /\ ~authorize_query(a)
    \/ a.kind = "protocols" /\ ~authorize_protocols(a)
    \/ a.kind = "messages" /\ ~authorize_messages(a)

(***************************************************************************)
(* Messages, as an index flattens them and as a subscription sees them.    *)
(***************************************************************************)
build_indexes(m) ==
    IF m["method"] = "Write"
      THEN [d \in DOMAIN m \cup {"published"} |->
              IF d \in DOMAIN m THEN m[d] ELSE FALSE]
      ELSE m

\* What the filter of a subscription takes an absent field for.
Absent == [published |-> FALSE, recipient |-> "", contextId |-> <<>>,
           datePublished |-> 0]

EventPasses(f, field, m) ==
    IF field \in TagFields
      THEN field \in DOMAIN m /\ IsMatch(f[field].how, f[field].value, m[field])
    ELSE IF field \in DOMAIN m THEN IsMatch(How(field), f[field], m[field])
    ELSE /\ field \in DOMAIN Absent
         /\ IsMatch(How(field), f[field], Absent[field])

\* Only writes pass the filter of a records subscription.
records_is_match(f, m) ==
    /\ m["interface"] = "Records" /\ m["method"] = "Write"
    /\ \A field \in DOMAIN f : EventPasses(f, field, m)

messages_is_match(f, m) ==
    \A field \in DOMAIN f :
        IF field = "protocol"
          THEN /\ m["method"] # "Delete"
               /\ field \in DOMAIN m /\ m[field] = f[field]
          ELSE IsMatch(How(field), f[field], m[field])

\* Mutant of SubscribeFilter: the owner's subscription is limited as well.
SubscribeFilterAll(a) ==
    Set(Set(a.filter, "author", {a.requester}), "recipient", {a.requester})

\* Someone else's subscription is limited to what they wrote to themselves.
SubscribeFilter(a) ==
    IF a.requester = Owner THEN a.filter
    ELSE Set(Set(a.filter, "author", {a.requester}), "recipient", {a.requester})

Delivers(a, m) ==
    CASE a.kind = "query"    -> records_is_match(SubscribeFilter(a), m)
      [] a.kind = "messages" ->
           \/ DOMAIN a.filter = {}
           \/ \E i \in DOMAIN a.filter : messages_is_match(a.filter[i], m)

MaySubscribe(a) ==
    CASE a.kind = "query"    -> a.requester # Anonymous /\ authorize_subscribe(a)
      [] a.kind = "messages" -> authorize_messages(a)
      [] OTHER               -> FALSE

=============================================================================
