---------------------------- MODULE PagesProofs ----------------------------
(***************************************************************************)
(* What the pages of an answer add up to: nothing that stayed is missed,   *)
(* nothing is returned twice, and the items come in order.                 *)
(***************************************************************************)
EXTENDS QueriesProofs, WellFoundedInduction

-----------------------------------------------------------------------------
(* The order of items                                                      *)

\* Items with a number to be sorted by.
Keyed(o, F) == \A x \in F : Cid[x] \in Nat /\ Fields[x][o.field] \in Nat

\* Keys are in lexicographic order.
LEMMA KeyOrder ==
    ASSUME NEW v \in Nat, NEW w \in Nat, NEW u \in Nat,
           NEW c \in Nat, NEW d \in Nat, NEW e \in Nat
    PROVE  /\ ~KeyBefore(v, c, v, c)
           /\ KeyBefore(v, c, w, d) => ~KeyBefore(w, d, v, c)
           /\ KeyBefore(v, c, w, d) \/ KeyBefore(w, d, v, c) \/ (v = w /\ c = d)
           /\ KeyBefore(v, c, w, d) /\ KeyBefore(w, d, u, e) => KeyBefore(v, c, u, e)
           /\ KeyBefore(v, c, u, e) /\ ~KeyBefore(w, d, u, e) => KeyBefore(v, c, w, d)
           /\ KeyBefore(u, e, v, c) /\ ~KeyBefore(u, e, w, d) => KeyBefore(w, d, v, c)
BY SMTT(30) DEF KeyBefore

\* Before compares keys, in the order asked for.
LEMMA BeforeValues ==
    ASSUME NEW o, NEW x, NEW y
    PROVE  /\ o.asc => (Before(o, x, y) <=>
                KeyBefore(Fields[x][o.field], Cid[x], Fields[y][o.field], Cid[y]))
           /\ ~o.asc => (Before(o, x, y) <=>
                KeyBefore(Fields[y][o.field], Cid[y], Fields[x][o.field], Cid[x]))
<1>1. /\ CursorOf(o, x).value = Fields[x][o.field] /\ CursorOf(o, x).cid = Cid[x]
      /\ CursorOf(o, y).value = Fields[y][o.field] /\ CursorOf(o, y).cid = Cid[y]
  BY DEF CursorOf
<1> QED BY <1>1 DEF Before, BeforeKey

\* Before is a strict order, total up to equal cursors.
LEMMA BeforeOrder ==
    ASSUME NEW o, NEW F, Keyed(o, F), NEW x \in F, NEW y \in F, NEW z \in F
    PROVE  /\ ~Before(o, x, x)
           /\ Before(o, x, y) => ~Before(o, y, x)
           /\ Before(o, x, y) \/ Before(o, y, x) \/ CursorOf(o, x) = CursorOf(o, y)
           /\ Before(o, x, y) /\ Before(o, y, z) => Before(o, x, z)
           /\ Before(o, x, z) /\ ~Before(o, y, z) => Before(o, x, y)
           /\ CursorOf(o, x) = CursorOf(o, y) => Cid[x] = Cid[y]
<1>1. PICK v, w, u, c, d, e : /\ v = Fields[x][o.field] /\ c = Cid[x]
                              /\ w = Fields[y][o.field] /\ d = Cid[y]
                              /\ u = Fields[z][o.field] /\ e = Cid[z]
  OBVIOUS
<1>2. v \in Nat /\ w \in Nat /\ u \in Nat /\ c \in Nat /\ d \in Nat /\ e \in Nat
  BY <1>1 DEF Keyed
<1>3. /\ CursorOf(o, x) = CursorOf(o, y) <=> v = w /\ c = d
      /\ CursorOf(o, x) = CursorOf(o, y) => Cid[x] = Cid[y]
  <2>1. CursorOf(o, x) = [cid |-> c, value |-> v] /\ CursorOf(o, y) = [cid |-> d, value |-> w]
    BY <1>1 DEF CursorOf
  <2> QED BY <1>1, <2>1
<1>4. CASE o.asc
  <2>1. /\ Before(o, x, x) <=> KeyBefore(v, c, v, c)
        /\ Before(o, x, y) <=> KeyBefore(v, c, w, d)
        /\ Before(o, y, x) <=> KeyBefore(w, d, v, c)
        /\ Before(o, y, z) <=> KeyBefore(w, d, u, e)
        /\ Before(o, x, z) <=> KeyBefore(v, c, u, e)
    BY <1>1, <1>4, BeforeValues
  <2> QED BY <1>2, <1>3, <2>1, KeyOrder
<1>5. CASE ~o.asc
  <2>1. /\ Before(o, x, x) <=> KeyBefore(v, c, v, c)
        /\ Before(o, x, y) <=> KeyBefore(w, d, v, c)
        /\ Before(o, y, x) <=> KeyBefore(v, c, w, d)
        /\ Before(o, y, z) <=> KeyBefore(u, e, w, d)
        /\ Before(o, x, z) <=> KeyBefore(u, e, v, c)
    BY <1>1, <1>5, BeforeValues
  <2>2. /\ ~KeyBefore(v, c, v, c)
        /\ KeyBefore(w, d, v, c) => ~KeyBefore(v, c, w, d)
        /\ KeyBefore(v, c, w, d) \/ KeyBefore(w, d, v, c) \/ (v = w /\ c = d)
        /\ KeyBefore(u, e, w, d) /\ KeyBefore(w, d, v, c) => KeyBefore(u, e, v, c)
        /\ KeyBefore(u, e, v, c) /\ ~KeyBefore(u, e, w, d) => KeyBefore(w, d, v, c)
    BY <1>2, KeyOrder
  <2> QED BY <1>3, <2>1, <2>2
<1> QED BY <1>4, <1>5

\* A set of naturals that is not empty has a least element.
LEMMA NatLeast ==
    ASSUME NEW Z, Z \subseteq Nat, Z # {}
    PROVE  \E n \in Z : \A k \in Z : ~(k < n)
<1>1. PICK L : L = OpToRel(<, Nat)
  BY Zenon
<1>2. IsWellFoundedOn(L, Nat)
  BY <1>1, NatLessThanWellFounded, Zenon
<1>3. PICK n \in Z : \A k \in Z : ~(<<k, n>> \in L)
  BY <1>2, WFMin, Zenon
<1>4. L = {e \in Nat \X Nat : e[1] < e[2]}
  BY <1>1 DEF OpToRel
<1> QED BY <1>3, <1>4, Zenon

\* A finite set has a least element for a strict total order on it.
LEMMA Least ==
    ASSUME NEW T, IsFiniteSet(T), T # {}, NEW R,
           \A x, y \in T : x = y \/ <<x, y>> \in R \/ <<y, x>> \in R,
           \A x \in T : <<x, x>> \notin R,
           \A x, y, z \in T : <<x, y>> \in R /\ <<y, z>> \in R => <<x, z>> \in R
    PROVE  \E y \in T : \A z \in T : z = y \/ <<y, z>> \in R
<1> DEFINE under(y) == {w \in T : <<w, y>> \in R}
<1>1. \A y \in T : IsFiniteSet(under(y)) /\ Cardinality(under(y)) \in Nat
  BY FS_Subset, FS_CardinalityType, Zenon
<1>b. PICK size : /\ \A y \in T : size[y] = Cardinality(under(y))
                  /\ \A y \in T : size[y] \in Nat
  <2>1. PICK size : size = [y \in T |-> Cardinality(under(y))]
    BY Zenon
  <2>2. \A y \in T : size[y] = Cardinality(under(y))
    BY <2>1
  <2> HIDE DEF under
  <2> QED BY <1>1, <2>2
<1>2. PICK Z : Z = {size[y] : y \in T}
  BY Zenon
<1>c. Z \subseteq Nat /\ Z # {}
  BY <1>2, <1>b
<1>3. PICK n \in Z : \A k \in Z : ~(k < n)
  BY <1>c, NatLeast, Zenon
<1>4. PICK y \in T : n = size[y]
  BY <1>2, <1>3
<1>5. \A z \in T : ~(size[z] < size[y])
  BY <1>2, <1>3, <1>4
<1>6. SUFFICES ASSUME NEW z \in T, z # y, <<y, z>> \notin R PROVE FALSE
  BY <1>4
<1>7. <<z, y>> \in R
  BY <1>6
<1>8. under(z) \in SUBSET under(y) /\ under(z) # under(y)
  BY <1>7, Zenon
<1>9. PICK P, Q : P = under(z) /\ Q = under(y)
  BY Zenon
<1>10. Cardinality(P) <= Cardinality(Q) /\ Cardinality(P) # Cardinality(Q)
  BY <1>1, <1>8, <1>9, FS_Subset, Zenon
<1>11. size[z] = Cardinality(P) /\ size[y] = Cardinality(Q)
  BY <1>9, <1>b
<1> QED BY <1>5, <1>10, <1>11, <1>b

\* Items with different CIDs are ordered: there is a first and a last.
LEMMA FirstAndLast ==
    ASSUME NEW o, NEW F, Keyed(o, F), NEW T \in SUBSET F, IsFiniteSet(T), T # {},
           \A x, y \in T : Cid[x] = Cid[y] => x = y
    PROVE  /\ \E y \in T : \A z \in T : z = y \/ Before(o, y, z)
           /\ \E y \in T : \A z \in T : z = y \/ Before(o, z, y)
<1>1. /\ \A x, y \in T : x = y \/ Before(o, x, y) \/ Before(o, y, x)
      /\ \A x \in T : ~Before(o, x, x)
      /\ \A x, y, z \in T : Before(o, x, y) /\ Before(o, y, z) => Before(o, x, z)
  BY BeforeOrder
<1>2. \E y \in T : \A z \in T : z = y \/ Before(o, y, z)
  <2>1. PICK R : R = {e \in T \X T : Before(o, e[1], e[2])}
    BY Zenon
  <2>2. \A x, y \in T : <<x, y>> \in R <=> Before(o, x, y)
    BY <2>1
  <2>3. /\ \A x, y \in T : x = y \/ <<x, y>> \in R \/ <<y, x>> \in R
        /\ \A x \in T : <<x, x>> \notin R
        /\ \A x, y, z \in T : <<x, y>> \in R /\ <<y, z>> \in R => <<x, z>> \in R
    BY <1>1, <2>2
  <2>4. \E y \in T : \A z \in T : z = y \/ <<y, z>> \in R
    BY <2>3, Least
  <2> QED BY <2>2, <2>4, Zenon
<1>3. \E y \in T : \A z \in T : z = y \/ Before(o, z, y)
  <2>1. PICK R : R = {e \in T \X T : Before(o, e[2], e[1])}
    BY Zenon
  <2>2. \A x, y \in T : <<x, y>> \in R <=> Before(o, y, x)
    BY <2>1
  <2>3. /\ \A x, y \in T : x = y \/ <<x, y>> \in R \/ <<y, x>> \in R
        /\ \A x \in T : <<x, x>> \notin R
        /\ \A x, y, z \in T : <<x, y>> \in R /\ <<y, z>> \in R => <<x, z>> \in R
    BY <1>1, <2>2
  <2>4. \E y \in T : \A z \in T : z = y \/ <<y, z>> \in R
    BY <2>3, Least
  <2> QED BY <2>2, <2>4, Zenon
<1> QED BY <1>2, <1>3


-----------------------------------------------------------------------------
(* One page                                                                *)

\* The order in which a query goes through the items, and the items it can
\* come to.
Order(a) == IF Concise[a] THEN Request[a].sort
                          ELSE [Request[a].sort EXCEPT !.asc = TRUE]
Scanned(a) == IF Concise[a] THEN Findable[a]
              ELSE {x \in Items : Request[a].sort.field \in DOMAIN Fields[x]}
Names(a, k) == \E z \in Scanned(a) : k = CursorOf(Order(a), z)
\* A search begins where the cursor says.
Present(S, a, cur) ==
    Concise[a] => \A k \in cur : \E c \in S \cap Findable[a] : Cid[c] = k.cid

\* What a query scans, and the order it scans it in.
LEMMA ScannedFacts ==
    ASSUME NEW a \in Asks
    PROVE  /\ Scanned(a) \subseteq Items
           /\ Order(a).field = Request[a].sort.field
           /\ Concise[a] \/ Request[a].sort.asc => Order(a) = Request[a].sort
           /\ Keyed(Order(a), Scanned(a))
           /\ \A x, y \in Scanned(a) :
                Cid[x] = Cid[y] => CursorOf(Order(a), x) = CursorOf(Order(a), y)
<1>1. Request[a].sort \in [field : Dates, asc : BOOLEAN]
  BY AsksAssumption
<1>2. Order(a).field = Request[a].sort.field
  BY <1>1 DEF Order
<1>3. Concise[a] \/ Request[a].sort.asc => Order(a) = Request[a].sort
  <2>1. SUFFICES ASSUME ~Concise[a], Request[a].sort.asc
                 PROVE  Order(a) = Request[a].sort
    BY DEF Order
  <2>2. PICK s : s = Request[a].sort
    OBVIOUS
  <2>3. s \in [field : Dates, asc : BOOLEAN] /\ s.asc = TRUE
    BY <1>1, <2>1, <2>2
  <2>4. [s EXCEPT !.asc = TRUE] = s
    BY <2>3
  <2> QED BY <2>1, <2>2, <2>4 DEF Order
<1>4. /\ Scanned(a) \subseteq Items
      /\ \A x \in Scanned(a) : Order(a).field \in DOMAIN Fields[x]
  BY <1>2, AsksAssumption DEF Scanned, Findable
<1>5. Keyed(Order(a), Scanned(a))
  BY <1>2, <1>4, AsksAssumption, ItemsAssumption DEF Keyed
<1>6. ASSUME NEW x \in Scanned(a), NEW y \in Scanned(a), Cid[x] = Cid[y]
      PROVE  CursorOf(Order(a), x) = CursorOf(Order(a), y)
  <2>1. Order(a).field \in Dates
    BY <1>1, <1>2
  <2>2. Order(a).field \in Dates \cap DOMAIN Fields[x] /\ x \in Items /\ y \in Items
    BY <1>4, <2>1
  <2>3. Fields[x][Order(a).field] = Fields[y][Order(a).field]
    BY <1>6, <2>2, ItemsAssumption
  <2> QED BY <1>6, <2>3 DEF CursorOf
<1> QED BY <1>2, <1>3, <1>4, <1>5, <1>6

\* A lower rank means that it comes before.
LEMMA RankOrder ==
    ASSUME NEW o, NEW F, Keyed(o, F), NEW from \in SUBSET F, IsFiniteSet(from),
           NEW x \in from, NEW y \in from
    PROVE  /\ Rank(from, o, x) \in Nat
           /\ Rank(from, o, x) < Rank(from, o, y) => Before(o, x, y)
<1>1. PICK X, Y : /\ X = {w \in from : Before(o, w, x)}
                  /\ Y = {w \in from : Before(o, w, y)}
  BY Zenon
<1>2. IsFiniteSet(X) /\ IsFiniteSet(Y)
  BY <1>1, FS_Subset
<1>3. Cardinality(X) \in Nat /\ Cardinality(Y) \in Nat
  BY <1>2, FS_CardinalityType
<1>4. ASSUME ~Before(o, x, y) PROVE Cardinality(Y) <= Cardinality(X)
  <2>1. \A w \in from : Before(o, w, y) => Before(o, w, x)
    BY <1>4, BeforeOrder
  <2>2. Y \in SUBSET X
    BY <1>1, <2>1
  <2> QED BY <1>2, <2>2, FS_Subset
<1>5. Rank(from, o, x) = Cardinality(X) /\ Rank(from, o, y) = Cardinality(Y)
  BY <1>1 DEF Rank
<1> QED BY <1>3, <1>4, <1>5

\* The scan of an index takes up at the cursor, if what it names is there.
LEMMA FromCursorFacts ==
    ASSUME NEW a \in Asks, Concise[a], NEW S, NEW cur, \A k \in cur : Names(a, k),
           NEW x \in S \cap Findable[a]
    PROVE  /\ (\A k \in cur : ~BeforeKey(Request[a].sort, x, k)) =>
                x \in FromCursor(S \cap Findable[a], Request[a].sort, cur)
           /\ x \in FromCursor(S \cap Findable[a], Request[a].sort, cur)
              /\ Present(S, a, cur)
                => \A k \in cur : ~BeforeKey(Request[a].sort, x, k)
<1>1. PICK o, found : o = Request[a].sort /\ found = S \cap Findable[a]
  BY Zenon
<1>2. Order(a) = o /\ Scanned(a) = Findable[a]
  BY <1>1 DEF Order, Scanned
<1>3. ASSUME NEW k \in cur, NEW c \in found, Cid[c] = k.cid
      PROVE  CursorOf(o, c) = k
  <2>1. PICK z \in Findable[a] : k = CursorOf(o, z)
    BY <1>2 DEF Names
  <2>2. k.cid = Cid[z]
    BY <2>1 DEF CursorOf
  <2> QED BY <1>1, <1>2, <1>3, <2>1, <2>2, ScannedFacts
<1>4. \A k \in cur : \A c \in found : Cid[c] = k.cid =>
        (Before(o, x, c) <=> BeforeKey(o, x, k))
  BY <1>3 DEF Before
<1>5. FromCursor(found, o, cur) =
        {y \in found : \A k \in cur : \A c \in found : Cid[c] = k.cid => ~Before(o, y, c)}
  BY DEF FromCursor
<1>6. (\A k \in cur : ~BeforeKey(o, x, k)) => x \in FromCursor(found, o, cur)
  BY <1>1, <1>4, <1>5, Zenon
<1>7. x \in FromCursor(found, o, cur) /\ Present(S, a, cur)
        => \A k \in cur : ~BeforeKey(o, x, k)
  BY <1>1, <1>4, <1>5 DEF Present
<1> QED BY <1>1, <1>6, <1>7


\* What a page does: an item the cursor has not passed is on it, or is not
\* passed by the next cursor either; the next cursor names an item that was
\* not on the page and that the cursor had not passed.
PageGoesOn(S, a, cur) ==
    LET q == Answer(S, a, cur)
    IN  \A x \in S \cap Scanned(a) :
          /\ Selected(a, x)
          /\ \A k \in cur : ~BeforeKey(Order(a), x, k)
          => \/ x \in DOMAIN q.page /\ q.page[x] > 0
             \/ 0 \in Request[a].limit
             \/ q.next # {} /\ \A k \in q.next : ~BeforeKey(Order(a), x, k)

NextIsNamed(S, a, cur) == \A k \in Answer(S, a, cur).next : Names(a, k)

NextIsLater(S, a, cur) ==
    LET q == Answer(S, a, cur)
    IN  \A k \in q.next : \E y \in S \cap Scanned(a) :
          /\ k = CursorOf(Order(a), y)
          /\ Present(S, a, cur) => \A l \in cur : ~BeforeKey(Order(a), y, l)
          /\ \A x \in DOMAIN q.page : q.page[x] > 0 =>
               Before(Order(a), x, y) \/ (x = y /\ ~CollectedOnce(a, x))

PageIsNew(S, a, cur) ==
    LET q == Answer(S, a, cur)
    IN  \A x \in DOMAIN q.page :
          /\ x \in S \cap Scanned(a)
          /\ CollectedOnce(a, x) => q.page[x] <= 1
          /\ Present(S, a, cur) => \A l \in cur : ~BeforeKey(Order(a), x, l)

\* A page of query_concise goes on where the last one ended.
LEMMA ConciseScan ==
    ASSUME NEW a \in Asks, Concise[a], NEW S \in SUBSET Items, OneEach(S),
           NEW cur, \A k \in cur : Names(a, k)
    PROVE  /\ PageGoesOn(S, a, cur) /\ NextIsNamed(S, a, cur)
           /\ NextIsLater(S, a, cur) /\ PageIsNew(S, a, cur)
<1>1. PICK o, F, lim : o = Request[a].sort /\ F = Findable[a] /\ lim = Request[a].limit
  OBVIOUS
<1>2. Order(a) = o /\ Scanned(a) = F
  BY <1>1 DEF Order, Scanned
<1>3. PICK from : from = FromCursor(S \cap F, o, cur)
  OBVIOUS
<1>4. PICK page : page = PageOf(from, o, lim)
  OBVIOUS
<1>5. PICK q : q = Answer(S, a, cur)
  OBVIOUS
<1>6. /\ q.page = [x \in page |-> 1]
      /\ q.next = IF 0 \in lim THEN {} ELSE FirstOf(from \ page, o)
  BY <1>1, <1>3, <1>4, <1>5, Zenon DEF Answer, query_concise
<1>7. from \subseteq S \cap F /\ page \subseteq from
  BY <1>3, <1>4 DEF FromCursor, PageOf
<1>8. Keyed(o, F) /\ F \subseteq Items
  BY <1>2, ScannedFacts
<1>9. IsFiniteSet(from) /\ IsFiniteSet(from \ page)
  BY <1>7, ItemsAssumption, FS_Subset
<1>10. ASSUME NEW x \in S \cap F
       PROVE  /\ (\A k \in cur : ~BeforeKey(o, x, k)) => x \in from
              /\ x \in from /\ Present(S, a, cur) => \A k \in cur : ~BeforeKey(o, x, k)
  BY <1>1, <1>3, FromCursorFacts, Zenon
<1>11. ASSUME NEW x \in page, NEW y \in from \ page PROVE Before(o, x, y)
  <2>1. PICK n \in lim : ~(Rank(from, o, y) < (IF n = 0 THEN 1 ELSE n))
    BY <1>4, <1>11 DEF PageOf
  <2>2. Rank(from, o, x) < (IF n = 0 THEN 1 ELSE n)
    BY <1>4, <1>11 DEF PageOf
  <2>3. PICK N, i, j : /\ N = (IF n = 0 THEN 1 ELSE n)
                       /\ i = Rank(from, o, x) /\ j = Rank(from, o, y)
    OBVIOUS
  <2>4. N \in Nat
    BY <1>1, <2>1, <2>3, AsksAssumption
  <2>5. from \in SUBSET F /\ x \in from /\ y \in from
    BY <1>7, <1>11
  <2>6. i \in Nat /\ j \in Nat /\ (i < j => Before(o, x, y))
    BY <1>8, <1>9, <2>3, <2>5, RankOrder
  <2> QED BY <2>1, <2>2, <2>3, <2>4, <2>6
<1>12. ASSUME NEW k \in q.next
       PROVE  \E y \in from \ page : /\ k = CursorOf(o, y)
                                     /\ \A z \in from \ page : z = y \/ Before(o, y, z)
  BY <1>6, <1>12 DEF FirstOf
<1>13. PageGoesOn(S, a, cur)
  <2>1. SUFFICES ASSUME NEW x \in S \cap F, \A k \in cur : ~BeforeKey(o, x, k),
                        x \notin page, 0 \notin lim
                 PROVE  q.next # {} /\ \A k \in q.next : ~BeforeKey(o, x, k)
    BY <1>1, <1>2, <1>5, <1>6 DEF PageGoesOn
  <2>2. x \in from \ page
    BY <1>10, <2>1
  <2>3. q.next # {}
    <3>1. PICK rest : rest = from \ page
      BY Zenon
    <3>2. \A y, z \in rest : Cid[y] = Cid[z] => y = z
      BY <1>7, <3>1 DEF OneEach
    <3>3. rest \in SUBSET F /\ IsFiniteSet(rest) /\ rest # {}
      BY <1>7, <1>9, <2>2, <3>1
    <3>4. PICK y \in rest : \A z \in rest : z = y \/ Before(o, y, z)
      BY <1>8, <3>2, <3>3, FirstAndLast
    <3>5. CursorOf(o, y) \in FirstOf(rest, o)
      BY <3>4 DEF FirstOf
    <3> QED BY <1>6, <2>1, <3>1, <3>5
  <2>4. ASSUME NEW k \in q.next PROVE ~BeforeKey(o, x, k)
    <3>1. PICK y \in from \ page : /\ k = CursorOf(o, y)
                                   /\ \A z \in from \ page : z = y \/ Before(o, y, z)
      BY <1>12, <2>4
    <3>2. x = y \/ Before(o, y, x)
      BY <2>2, <3>1
    <3>3. x \in F /\ y \in F
      BY <1>7, <2>2, <3>1
    <3>4. ~Before(o, x, y)
      BY <1>8, <3>2, <3>3, BeforeOrder
    <3> QED BY <3>1, <3>4 DEF Before
  <2> QED BY <2>3, <2>4
<1>14. NextIsNamed(S, a, cur)
  BY <1>2, <1>5, <1>7, <1>12 DEF NextIsNamed, Names
<1>15. NextIsLater(S, a, cur)
  <2>1. SUFFICES ASSUME NEW k \in q.next
                 PROVE  \E y \in S \cap F :
                          /\ k = CursorOf(o, y)
                          /\ Present(S, a, cur) => \A l \in cur : ~BeforeKey(o, y, l)
                          /\ \A x \in DOMAIN q.page : Before(o, x, y)
    BY <1>2, <1>5, Zenon DEF NextIsLater
  <2>2. PICK y \in from \ page : k = CursorOf(o, y)
    BY <1>12, <2>1
  <2>3. y \in S \cap F
    BY <1>7, <2>2
  <2>4. Present(S, a, cur) => \A l \in cur : ~BeforeKey(o, y, l)
    BY <1>10, <2>2, <2>3
  <2>5. \A x \in DOMAIN q.page : Before(o, x, y)
    BY <1>6, <1>11, <2>2
  <2> QED BY <2>2, <2>3, <2>4, <2>5, Zenon
<1>16. PageIsNew(S, a, cur)
  <2>1. SUFFICES ASSUME NEW x \in DOMAIN q.page
                 PROVE  /\ x \in S \cap F /\ q.page[x] <= 1
                        /\ Present(S, a, cur) => \A l \in cur : ~BeforeKey(o, x, l)
    BY <1>2, <1>5 DEF PageIsNew
  <2>2. x \in page /\ q.page[x] = 1
    BY <1>6, <2>1
  <2> QED BY <1>7, <1>10, <2>2
<1> QED BY <1>13, <1>14, <1>15, <1>16


\* Counting more entries gives no less.
LEMMA CountFacts ==
    ASSUME NEW a \in Asks, NEW T \in SUBSET Items, NEW U \in SUBSET Items,
           \A y \in U : Collected[a][y] # {} => y \in T
    PROVE  /\ Count(a, T) \in Nat /\ Count(a, U) \in Nat
           /\ Count(a, U) <= Count(a, T)
<1>1. PICK P, Q, W : /\ P = UNION {{x} \X Collected[a][x] : x \in T}
                     /\ Q = UNION {{x} \X Collected[a][x] : x \in U}
                     /\ W = Items \X ((DOMAIN Sets[a]) \cup {0})
  BY Zenon
<1>2. IsFiniteSet(W)
  BY <1>1, ItemsAssumption, AsksAssumption, FS_Product, FS_AddElement, Zenon
<1>3. \A x \in Items : Collected[a][x] \subseteq (DOMAIN Sets[a]) \cup {0}
  BY DEF Collected, Hit
<1>4. P \in SUBSET W
  BY <1>1, <1>3
<1>5. Q \in SUBSET P
  <2>1. SUFFICES ASSUME NEW e \in Q PROVE e \in P
    OBVIOUS
  <2>2. PICK x \in U : e \in {x} \X Collected[a][x]
    BY <1>1
  <2>3. x \in T
    BY <2>2
  <2> QED BY <1>1, <2>2, <2>3
<1>6. IsFiniteSet(P) /\ IsFiniteSet(Q) /\ Cardinality(Q) <= Cardinality(P)
  BY <1>2, <1>4, <1>5, FS_Subset
<1>7. Count(a, T) = Cardinality(P) /\ Count(a, U) = Cardinality(Q)
  BY <1>1 DEF Count
<1> QED BY <1>6, <1>7, FS_CardinalityType

\* A page of query_full goes on where the last one ended.
LEMMA FullScan ==
    ASSUME NEW a \in Asks, ~Concise[a], NEW S \in SUBSET Items, OneEach(S),
           NEW cur, \A k \in cur : Names(a, k)
    PROVE  /\ PageGoesOn(S, a, cur) /\ NextIsNamed(S, a, cur)
           /\ NextIsLater(S, a, cur) /\ PageIsNew(S, a, cur)
<1>1. PICK o, F, lim : o = Up(a) /\ F = Scanned(a) /\ lim = Request[a].limit
  OBVIOUS
<1>2. Order(a) = o
  BY <1>1 DEF Order, Up
<1>3. Keyed(o, F) /\ F \subseteq Items
  BY <1>1, <1>2, ScannedFacts
<1>4. PICK from, below, stops, taken, last :
        /\ from = From(S, a, cur) /\ below = Below(S, a, cur) /\ stops = Stops(S, a, cur)
        /\ taken = Taken(S, a, cur) /\ last = Last(S, a, cur)
  OBVIOUS
<1>5. PICK q : q = Answer(S, a, cur)
  OBVIOUS
<1>6. q = query_full(S, a, cur)
  BY <1>5 DEF Answer
<1>7. from = {x \in S \cap F : \A k \in cur : ~BeforeKey(o, x, k)}
  <2>1. o.field = Request[a].sort.field
    BY <1>2, ScannedFacts
  <2>2. F = {x \in Items : o.field \in DOMAIN Fields[x]}
    BY <1>1, <2>1 DEF Scanned
  <2> QED BY <1>1, <1>4, <2>2 DEF From
<1>8. \A x \in from : below[x] = {y \in from : Before(o, y, x)}
  BY <1>1, <1>4 DEF Below
<1>9. stops = {x \in from : \E n \in lim : Count(a, below[x]) = n + 1}
  BY <1>1, <1>4 DEF Stops
<1>10. taken = {x \in from : Collected[a][x] # {} /\ stops \cap (below[x] \cup {x}) = {}}
  BY <1>4 DEF Taken
<1>11. last = {x \in taken : \A y \in taken : y = x \/ Before(o, y, x)}
  BY <1>1, <1>4 DEF Last
<1>12. More(S, a, cur) <=> \E n \in lim : n > 0 /\ n < Count(a, taken)
  BY <1>1, <1>4, Zenon DEF More
<1>13. /\ DOMAIN q.page = taken
       /\ \A x \in taken :
            /\ More(S, a, cur) /\ x \in last => q.page[x] = Cardinality(Collected[a][x]) - 1
            /\ ~(More(S, a, cur) /\ x \in last) => q.page[x] = Cardinality(Collected[a][x]) - 0
       /\ More(S, a, cur) => q.next = {CursorOf(o, x) : x \in last}
       /\ ~More(S, a, cur) => q.next = {}
  BY <1>1, <1>4, <1>6, FullShape, SMTT(30)
<1>14. taken \subseteq from /\ from \subseteq F /\ from \subseteq S /\ IsFiniteSet(from)
  BY <1>7, <1>10, ItemsAssumption, FS_Subset
<1>15. ASSUME NEW T \in SUBSET from, T # {}
       PROVE  /\ \E y \in T : \A z \in T : z = y \/ Before(o, y, z)
              /\ \E y \in T : \A z \in T : z = y \/ Before(o, z, y)
  <2>1. T \in SUBSET F /\ IsFiniteSet(T)
    BY <1>14, FS_Subset
  <2>2. \A x, y \in T : Cid[x] = Cid[y] => x = y
    BY <1>14 DEF OneEach
  <2> QED BY <1>3, <1>15, <2>1, <2>2, FirstAndLast
<1>16. PageGoesOn(S, a, cur)
  <2>1. SUFFICES ASSUME NEW x \in S \cap F, Selected(a, x),
                        \A k \in cur : ~BeforeKey(o, x, k), 0 \notin lim,
                        ~(x \in taken /\ q.page[x] > 0)
                 PROVE  q.next # {} /\ \A k \in q.next : ~BeforeKey(o, x, k)
    BY <1>1, <1>2, <1>5, <1>13, Zenon DEF PageGoesOn
  <2>2. x \in from /\ x \in Items /\ Collected[a][x] # {}
    BY <1>3, <1>7, <2>1, CollectedFacts, Zenon DEF Selected
  <2>3. SUFFICES /\ More(S, a, cur) /\ last # {}
                 /\ \A z \in last : ~Before(o, x, z)
    BY <1>13, Zenon DEF Before
  <2>4. last \subseteq F /\ x \in F
    BY <1>11, <1>14, <2>2
  <2>5. CASE x \in taken
    <3>1. More(S, a, cur) /\ x \in last
      BY <1>13, <2>1, <2>2, <2>5, CollectedFacts, SMTT(30)
    <3>2. ASSUME NEW z \in last PROVE ~Before(o, x, z)
      <4>1. z = x \/ Before(o, z, x)
        BY <1>11, <3>1, <3>2
      <4> QED BY <1>3, <2>4, <3>2, <4>1, BeforeOrder
    <3> QED BY <3>1, <3>2, Zenon
  <2>6. CASE x \notin taken
    <3>1. PICK w \in stops : w \in from /\ (w = x \/ Before(o, w, x))
      BY <1>8, <1>9, <1>10, <2>2, <2>6
    <3>2. PICK s \in stops : \A z \in stops : z = s \/ Before(o, s, z)
      BY <1>9, <1>15, <3>1
    <3>3. s \in from /\ \E n \in lim : Count(a, below[s]) = n + 1
      BY <1>9, <3>2
    <3>4. PICK n \in lim : Count(a, below[s]) = n + 1
      BY <3>3
    <3>5. ASSUME NEW z \in below[s], Collected[a][z] # {} PROVE z \in taken
      <4>1. z \in from /\ Before(o, z, s)
        BY <1>8, <3>3, <3>5
      <4>2. ASSUME NEW v \in stops, v = z \/ v \in below[z] PROVE FALSE
        <5>1. v \in from /\ (v = z \/ Before(o, v, z))
          BY <1>8, <1>9, <4>1, <4>2, Zenon
        <5>2. v \in F /\ z \in F /\ s \in F
          BY <1>14, <3>3, <4>1, <5>1, Zenon
        <5>3. Before(o, v, s)
          BY <1>3, <4>1, <5>1, <5>2, BeforeOrder
        <5>4. v = s \/ Before(o, s, v)
          BY <3>2, <4>2
        <5> QED BY <1>3, <5>2, <5>3, <5>4, BeforeOrder
      <4> QED BY <1>10, <3>5, <4>1, <4>2
    <3>6. taken \in SUBSET Items /\ below[s] \in SUBSET Items
      BY <1>3, <1>8, <1>14, <3>3
    <3>7. Count(a, taken) \in Nat /\ Count(a, below[s]) <= Count(a, taken)
      BY <3>5, <3>6, CountFacts
    <3>8. n \in Nat /\ n # 0
      BY <1>1, <2>1, <3>4, AsksAssumption, Zenon
    <3>9. n > 0 /\ n < Count(a, taken)
      BY <3>4, <3>7, <3>8
    <3>10. taken # {}
      <4>1. SUFFICES ASSUME taken = {} PROVE FALSE
        OBVIOUS
      <4>2. UNION {{y} \X Collected[a][y] : y \in taken} = {}
        BY <4>1
      <4>3. Count(a, taken) = 0
        BY <4>2, FS_EmptySet, Zenon DEF Count
      <4> QED BY <3>8, <3>9, <4>3
    <3>11. last # {}
      <4>1. PICK y \in taken : \A z \in taken : z = y \/ Before(o, z, y)
        BY <1>14, <1>15, <3>10
      <4> QED BY <1>11, <4>1
    <3>12. ASSUME NEW z \in last, Before(o, x, z) PROVE FALSE
      <4>1. z \in taken /\ z \in from /\ w \in F /\ z \in F
        BY <1>11, <1>14, <3>1, <3>12
      <4>2. Before(o, w, z)
        BY <1>3, <2>4, <3>1, <3>12, <4>1, BeforeOrder
      <4>3. w \in below[z]
        BY <1>8, <3>1, <4>1, <4>2, Zenon
      <4> QED BY <1>10, <3>1, <4>1, <4>3
    <3> QED BY <1>12, <3>4, <3>9, <3>11, <3>12
  <2> QED BY <2>5, <2>6
<1>17. NextIsNamed(S, a, cur)
  <2>1. SUFFICES ASSUME NEW k \in q.next PROVE Names(a, k)
    BY <1>5, Zenon DEF NextIsNamed
  <2>2. PICK x \in last : k = CursorOf(o, x)
    BY <1>13, <2>1
  <2> QED BY <1>1, <1>2, <1>11, <1>14, <2>2 DEF Names
<1>18. ASSUME NEW x \in taken, CollectedOnce(a, x) PROVE Cardinality(Collected[a][x]) = 1
  <2>1. x \in Items /\ Collected[a][x] # {}
    BY <1>10, <1>14, <1>18
  <2>2. PICK i \in Collected[a][x] : Collected[a][x] = {i}
    BY <1>18, <2>1 DEF CollectedOnce
  <2> QED BY <2>2, FS_Singleton, Zenon
<1>19. NextIsLater(S, a, cur)
  <2>1. SUFFICES ASSUME NEW k \in q.next
                 PROVE  \E y \in S \cap F :
                          /\ k = CursorOf(o, y)
                          /\ Present(S, a, cur) => \A l \in cur : ~BeforeKey(o, y, l)
                          /\ \A x \in DOMAIN q.page : q.page[x] > 0 =>
                               Before(o, x, y) \/ (x = y /\ ~CollectedOnce(a, x))
    BY <1>1, <1>2, <1>5, SMTT(30) DEF NextIsLater
  <2>2. More(S, a, cur)
    BY <1>13, <2>1
  <2>3. PICK y \in last : k = CursorOf(o, y)
    BY <1>13, <2>1, <2>2
  <2>4. y \in S \cap F /\ \A l \in cur : ~BeforeKey(o, y, l)
    BY <1>7, <1>11, <1>14, <2>3, Zenon
  <2>5. ASSUME NEW x \in DOMAIN q.page, q.page[x] > 0, ~Before(o, x, y)
        PROVE  x = y /\ ~CollectedOnce(a, x)
    <3>1. x \in taken
      BY <1>13, <2>5
    <3>2. x = y
      BY <1>11, <2>3, <2>5, <3>1
    <3>3. q.page[x] = Cardinality(Collected[a][x]) - 1
      BY <1>13, <2>2, <2>3, <3>1, <3>2
    <3>4. Cardinality(Collected[a][x]) # 1
      BY <2>5, <3>3
    <3> QED BY <1>18, <3>1, <3>2, <3>4
  <2> QED BY <2>3, <2>4, <2>5, Zenon
<1>20. PageIsNew(S, a, cur)
  <2>1. SUFFICES ASSUME NEW x \in DOMAIN q.page
                 PROVE  /\ x \in S \cap F /\ (CollectedOnce(a, x) => q.page[x] <= 1)
                        /\ \A l \in cur : ~BeforeKey(o, x, l)
    BY <1>1, <1>2, <1>5, Zenon DEF PageIsNew
  <2>2. x \in taken
    BY <1>13, <2>1
  <2>3. CollectedOnce(a, x) => q.page[x] <= 1
    BY <1>13, <1>18, <2>2
  <2> QED BY <1>7, <1>14, <2>2, <2>3, Zenon
<1> QED BY <1>16, <1>17, <1>19, <1>20


-----------------------------------------------------------------------------
(* All pages                                                               *)

\* What a request selects is scanned.
LEMMA SelectedScanned ==
    ASSUME NEW a \in Asks, NEW x \in Items, Selected(a, x)
    PROVE  x \in Scanned(a)
<1>1. CASE Concise[a]
  <2>1. DOMAIN Sets[a] # {}
    BY <1>1 DEF Concise, is_concise
  <2> QED BY <1>1, <2>1, ConciseFindsAll DEF Selected, Scanned
<1>2. CASE ~Concise[a]
  BY <1>2 DEF Selected, Scanned
<1> QED BY <1>1, <1>2

\* While pages come, the cursor has passed no item that it has not shown.
Shown(a) ==
    Request[a].kind # "read" /\ 0 \notin Request[a].limit =>
      \A x \in steady : Selected(a, x) =>
        /\ status = "paging" => \/ returned[x] > 0
                                \/ \A k \in cursor : ~BeforeKey(Order(a), x, k)
        /\ status = "done" => returned[x] > 0

PagingInv ==
    \A a \in ask : Shown(a) /\ \A k \in cursor : Names(a, k)

\* What a page does to what was shown before.
PageCounts(q) ==
    /\ \A x \in Items : /\ returned[x] \in Nat /\ returned'[x] \in Nat
                        /\ returned[x] <= returned'[x]
                        /\ x \notin DOMAIN q.page => returned'[x] = returned[x]
    /\ \A x \in DOMAIN q.page : /\ x \in Items /\ q.page[x] \in Nat
                                /\ returned'[x] <= returned[x] + q.page[x]
                                /\ q.page[x] > 0 => returned'[x] > 0

PageEffect(a, S, q) ==
    /\ a \in Asks /\ ask = {a} /\ Request[a].kind # "read"
    /\ S = Source(a, items, log) /\ S \in SUBSET Items /\ steady \subseteq S
    /\ q = Answer(S, a, cursor)
    /\ PageGoesOn(S, a, cursor) /\ NextIsNamed(S, a, cursor)
    /\ NextIsLater(S, a, cursor) /\ PageIsNew(S, a, cursor)
    /\ PageCounts(q)
    /\ cursor' = q.next
    /\ status = "paging" /\ status' = IF q.next = {} THEN "done" ELSE "paging"
    /\ ~restarted' => ~restarted /\ Present(S, a, cursor)
    /\ ask' = ask /\ steady' = steady

\* What a page changes, in terms of what is scanned.
LEMMA NextPageFacts ==
    ASSUME ClientInv, PagingInv, NextPage
    PROVE  \E a, S, q : PageEffect(a, S, q)
<1>1. PICK a \in ask \ Reads : \E S, q : PageStep(a, S, q)
  BY PageFacts
<1>2. PICK S, q : PageStep(a, S, q)
  BY <1>1
<1>3. /\ a \in Asks /\ ask = {a} /\ Request[a].kind # "read"
      /\ S = Source(a, items, log) /\ q = Answer(S, a, cursor)
  <2>1. ask \in SUBSET Asks /\ \A b, c \in ask : b = c
    BY DEF ClientInv, TypeOK
  <2>2. a \in Asks /\ ask = {a} /\ Request[a].kind # "read"
    BY <1>1, <2>1, Zenon DEF Reads
  <2>3. S = Source(a, items, log) /\ q = Answer(S, a, cursor)
    BY <1>2, Zenon DEF PageStep
  <2> QED BY <2>2, <2>3
<1>4. S \in SUBSET Items /\ OneEach(S)
  BY <1>3 DEF ClientInv, TypeOK, Source, OneEach
<1>5. steady \subseteq S
  <2>1. Queried(items, log) = S
    BY <1>3 DEF Queried
  <2> QED BY <2>1 DEF ClientInv, TypeOK
<1>6. \A k \in cursor : Names(a, k)
  BY <1>1 DEF PagingInv
<1>7. /\ PageGoesOn(S, a, cursor) /\ NextIsNamed(S, a, cursor)
      /\ NextIsLater(S, a, cursor) /\ PageIsNew(S, a, cursor)
  BY <1>3, <1>4, <1>6, ConciseScan, FullScan
<1>8. \A x \in DOMAIN q.page : x \in Items /\ q.page[x] \in Nat
  BY <1>3, <1>4, AnswerFacts, Zenon
<1>9. /\ \A x \in Items : returned[x] \in 0..Often
      /\ \A x \in Items \ DOMAIN q.page : returned'[x] = returned[x]
      /\ \A x \in Items \cap DOMAIN q.page : returned'[x] = AddTo(returned[x], q.page[x])
  BY <1>2, Zenon DEF ClientInv, TypeOK, PageStep
<1>10. ASSUME NEW x \in Items
       PROVE  /\ returned[x] \in Nat /\ returned'[x] \in Nat /\ returned[x] <= returned'[x]
              /\ x \in DOMAIN q.page =>
                   /\ returned'[x] <= returned[x] + q.page[x]
                   /\ q.page[x] > 0 => returned'[x] > 0
  <2>1. returned[x] \in 0..Often
    BY <1>9
  <2>2. CASE x \in DOMAIN q.page
    <3>1. q.page[x] \in Nat /\ returned'[x] = AddTo(returned[x], q.page[x])
      BY <1>8, <1>9, <2>2
    <3>2. PICK n, k : n = returned[x] /\ k = q.page[x]
      OBVIOUS
    <3>3. /\ AddTo(n, k) \in 0..Often /\ n <= AddTo(n, k) /\ AddTo(n, k) <= n + k
          /\ k > 0 => AddTo(n, k) > 0
      BY <2>1, <3>1, <3>2, AddToFacts
    <3>4. n \in Nat /\ AddTo(n, k) \in Nat
      BY <2>1, <3>2, <3>3 DEF Often
    <3> QED BY <3>1, <3>2, <3>3, <3>4
  <2>3. CASE x \notin DOMAIN q.page
    BY <1>9, <2>1, <2>3 DEF Often
  <2> QED BY <2>2, <2>3
<1>a. PageCounts(q)
  <2>1. ASSUME NEW x \in Items
        PROVE  /\ returned[x] \in Nat /\ returned'[x] \in Nat /\ returned[x] <= returned'[x]
               /\ x \notin DOMAIN q.page => returned'[x] = returned[x]
    BY <1>9, <1>10, Zenon
  <2>2. ASSUME NEW x \in DOMAIN q.page
        PROVE  /\ x \in Items /\ q.page[x] \in Nat
               /\ returned'[x] <= returned[x] + q.page[x]
               /\ q.page[x] > 0 => returned'[x] > 0
    <3>1. x \in Items /\ q.page[x] \in Nat
      BY <1>8, <2>2, Zenon
    <3> QED BY <1>10, <2>2, <3>1, Zenon
  <2> QED BY <2>1, <2>2, Zenon DEF PageCounts
<1>11. ~restarted' => ~restarted /\ Present(S, a, cursor)
  BY <1>2, Zenon DEF PageStep, Present
<1>12. /\ cursor' = q.next /\ ask' = ask /\ steady' = steady
       /\ status = "paging" /\ status' = IF q.next = {} THEN "done" ELSE "paging"
  BY <1>2 DEF NextPage, PageStep
<1> QED BY <1>3, <1>4, <1>5, <1>7, <1>a, <1>11, <1>12, Zenon DEF PageEffect


\* A step of a read, while the read is the client's request.
LEMMA ReadAsks ==
    ASSUME ClientInv, Read \/ ReadDeleted
    PROVE  /\ ask \subseteq Reads /\ ask' = ask /\ cursor' = cursor
           /\ status \in {"paging", "deleted"}
<1>1. ask' = ask /\ cursor' = cursor /\ status \in {"paging", "deleted"}
  BY DEF Read, ReadDeleted
<1>2. CASE Read
  BY <1>1, <1>2, ReadTypes
<1>3. CASE ReadDeleted
  BY <1>1, <1>3 DEF ReadDeleted, ClientInv
<1> QED BY <1>1, <1>2, <1>3

\* PagingInv holds before the first page.
LEMMA InitPaging == Init => PagingInv
BY DEF Init, PagingInv

\* Every step keeps PagingInv.
LEMMA StepPaging == ClientInv /\ PagingInv /\ [Next]_vars => PagingInv'
<1> SUFFICES ASSUME ClientInv, PagingInv, [Next]_vars PROVE PagingInv'
  BY Zenon
<1>1. ASSUME UNCHANGED <<ask, status, cursor, returned>>, steady' \subseteq steady
      PROVE  PagingInv'
  BY <1>1 DEF PagingInv, Shown, Names
<1>2. ASSUME NEW a \in Asks, Ask(a) PROVE PagingInv'
  <2>1. ask' = {a} /\ cursor' = {} /\ status' # "done"
    BY <1>2 DEF Ask, ClientInv
  <2> QED BY <2>1 DEF PagingInv, Shown
<1>3. ASSUME NextPage PROVE PagingInv'
  <2>1. PICK a, S, q : PageEffect(a, S, q)
    BY <1>3, NextPageFacts
  <2>2. \A k \in cursor' : Names(a, k)
    BY <2>1, Zenon DEF PageEffect, NextIsNamed
  <2>3. Shown(a)'
    <3>1. SUFFICES ASSUME 0 \notin Request[a].limit, NEW x \in steady, Selected(a, x)
                   PROVE  /\ status' = "paging" =>
                               \/ returned'[x] > 0
                               \/ \A k \in cursor' : ~BeforeKey(Order(a), x, k)
                          /\ status' = "done" => returned'[x] > 0
      BY <2>1, Zenon DEF Shown, PageEffect
    <3>2. x \in Items /\ x \in S \cap Scanned(a)
      BY <2>1, <3>1, SelectedScanned, Zenon DEF PageEffect
    <3>3. CASE returned[x] > 0
      <4>1. /\ returned[x] \in Nat /\ returned'[x] \in Nat /\ returned[x] <= returned'[x]
        BY <2>1, <3>2, Zenon DEF PageEffect, PageCounts
      <4>2. returned'[x] > 0
        BY <3>3, <4>1
      <4> QED BY <4>2
    <3>4. CASE ~(returned[x] > 0)
      <4>1. \A k \in cursor : ~BeforeKey(Order(a), x, k)
        BY <2>1, <3>1, <3>4, Zenon DEF PagingInv, Shown, PageEffect
      <4>2. \/ x \in DOMAIN q.page /\ q.page[x] > 0
            \/ q.next # {} /\ \A k \in q.next : ~BeforeKey(Order(a), x, k)
        <5>1. q = Answer(S, a, cursor) /\ PageGoesOn(S, a, cursor)
          BY <2>1 DEF PageEffect
        <5> QED BY <3>1, <3>2, <4>1, <5>1, ZenonT(30) DEF PageGoesOn
      <4>3. CASE x \in DOMAIN q.page /\ q.page[x] > 0
        <5>1. returned'[x] > 0
          BY <2>1, <4>3, Zenon DEF PageEffect, PageCounts
        <5> QED BY <5>1
      <4>4. CASE q.next # {} /\ \A k \in q.next : ~BeforeKey(Order(a), x, k)
        BY <2>1, <4>4, Zenon DEF PageEffect
      <4> QED BY <4>2, <4>3, <4>4, Zenon
    <3> QED BY <3>3, <3>4
  <2>4. ask' = {a}
    BY <2>1 DEF PageEffect
  <2> QED BY <2>2, <2>3, <2>4, Zenon DEF PagingInv, Names
<1>4. ASSUME Read \/ ReadDeleted PROVE PagingInv'
  <2>1. \A a \in ask : Request[a].kind = "read"
    BY <1>4, ReadAsks DEF Reads
  <2>2. ask' = ask /\ cursor' = cursor
    BY <1>4, ReadAsks
  <2> QED BY <2>1, <2>2, Zenon DEF PagingInv, Shown, Names
<1>5. ASSUME NEW x \in Items, Put(x) \/ Archive(x) \/ AppendEvent(x) \/ Emit(x)
                               \/ Delete(x) \/ DeleteEvent(x)
      PROVE  PagingInv'
  BY <1>1, <1>5 DEF Put, Archive, AppendEvent, Emit, Delete, DeleteEvent, query
<1>6. ASSUME NEW a \in Asks, Subscribe(a) PROVE PagingInv'
  BY <1>1, <1>6 DEF Subscribe, query
<1>7. CASE UNCHANGED vars
  BY <1>1, <1>7 DEF vars
<1> QED BY <1>2, <1>3, <1>4, <1>5, <1>6, <1>7 DEF Next


\* All that was selected and stayed, before the cursor, has been returned.
THEOREM PagingInvariant == Spec => [](ClientInv /\ PagingInv)
BY InitClient, InitPaging, StepClient, StepPaging, PTL DEF Spec

\* However the store changes between two pages, when the last page has come
\* every item that matched and was in the store, or for a messages query in
\* the event log, all the time has been on one.
THEOREM NothingIsMissed == Spec => []NothingMissed
<1>1. PagingInv => NothingMissed
  BY DEF PagingInv, Shown, NothingMissed
<1> QED BY <1>1, PagingInvariant, PTL

-----------------------------------------------------------------------------
(* No item twice, and in order                                             *)

\* What was returned lies before the cursor, or at it.
Passed(a, x, k) ==
    \/ BeforeKey(Order(a), x, k)
    \/ Cid[x] = k.cid /\ ~CollectedOnce(a, x)

Fresh(a, ret, cur) ==
    /\ \A x \in Items : /\ CollectedOnce(a, x) => ret[x] <= 1
                        /\ ret[x] > 0 => x \in Scanned(a)
    /\ \A k \in cur : \A x \in Items : ret[x] > 0 => Passed(a, x, k)

RepeatInv ==
    ~restarted => \A a \in ask \ Reads :
        /\ Fresh(a, returned, cursor)
        /\ status = "paging" /\ cursor = {} => \A x \in Items : returned[x] = 0

\* What lies before the old cursor, or at it, does so for a later one.
LEMMA PassedLater ==
    ASSUME NEW a \in Asks, NEW x \in Scanned(a), NEW y \in Scanned(a), NEW z \in Scanned(a),
           Passed(a, x, CursorOf(Order(a), z)), ~Before(Order(a), y, z)
    PROVE  Passed(a, x, CursorOf(Order(a), y))
<1>1. Keyed(Order(a), Scanned(a))
  BY ScannedFacts
<1>2. CASE Before(Order(a), x, z)
  <2>1. Before(Order(a), x, y)
    BY <1>1, <1>2, BeforeOrder
  <2> QED BY <2>1 DEF Passed, Before
<1>3. CASE ~Before(Order(a), x, z)
  <2>1. Cid[x] = Cid[z] /\ ~CollectedOnce(a, x)
    BY <1>3 DEF Passed, Before, CursorOf
  <2>2. CursorOf(Order(a), x) = CursorOf(Order(a), z)
    BY <2>1, ScannedFacts
  <2>3. ~Before(Order(a), y, x)
    BY <2>2 DEF Before
  <2>4. Before(Order(a), x, y) \/ Cid[x] = Cid[y]
    BY <1>1, <2>3, BeforeOrder
  <2> QED BY <2>1, <2>4 DEF Passed, Before, CursorOf
<1> QED BY <1>2, <1>3

\* Every step keeps RepeatInv.
LEMMA StepRepeat == ClientInv /\ PagingInv /\ RepeatInv /\ [Next]_vars => RepeatInv'
<1> SUFFICES ASSUME ClientInv, PagingInv, RepeatInv, [Next]_vars PROVE RepeatInv'
  OBVIOUS
<1>1. CASE UNCHANGED <<ask, status, cursor, returned, restarted>>
  BY <1>1 DEF RepeatInv
<1>2. ASSUME NEW a \in Asks, Ask(a) PROVE RepeatInv'
  BY <1>2 DEF Ask, ClientInv, RepeatInv, Fresh
<1>3. ASSUME NextPage PROVE RepeatInv'
  <2>1. PICK a, S, q : PageEffect(a, S, q)
    BY <1>3, NextPageFacts
  <2>2. /\ a \in Asks /\ ask = {a} /\ ask' = {a} /\ a \notin Reads /\ cursor' = q.next
        /\ status = "paging" /\ status' = IF q.next = {} THEN "done" ELSE "paging"
        /\ ~restarted' => ~restarted /\ Present(S, a, cursor)
        /\ q = Answer(S, a, cursor)
        /\ NextIsLater(S, a, cursor) /\ PageIsNew(S, a, cursor)
    BY <2>1 DEF PageEffect, Reads
  <2>3. SUFFICES ASSUME ~restarted' PROVE Fresh(a, returned', q.next)
    <3>1. ask' \ Reads = {a} /\ cursor' = q.next /\ ~(status' = "paging" /\ cursor' = {})
      BY <2>2
    <3> QED BY <3>1, Zenon DEF RepeatInv
  <2>4. /\ Present(S, a, cursor)
        /\ \A x \in Items : /\ CollectedOnce(a, x) => returned[x] <= 1
                            /\ returned[x] > 0 => x \in Scanned(a)
        /\ \A k \in cursor : \A x \in Items : returned[x] > 0 => Passed(a, x, k)
        /\ cursor = {} => \A x \in Items : returned[x] = 0
    <3>1. a \in ask \ Reads /\ ~restarted /\ Present(S, a, cursor) /\ status = "paging"
      BY <2>2, <2>3
    <3> QED BY <3>1, Zenon DEF RepeatInv, Fresh
  <2>5. ASSUME NEW x \in DOMAIN q.page
        PROVE  /\ x \in Scanned(a) /\ (CollectedOnce(a, x) => q.page[x] <= 1)
               /\ \A l \in cursor : ~BeforeKey(Order(a), x, l)
    BY <2>2, <2>4, <2>5, Zenon DEF PageIsNew
  <2>6. ASSUME NEW x \in Items
        PROVE  /\ CollectedOnce(a, x) => returned'[x] <= 1
               /\ returned'[x] > 0 => x \in Scanned(a)
               /\ returned'[x] > 0 =>
                    returned[x] > 0 \/ (x \in DOMAIN q.page /\ q.page[x] > 0)
    <3>1. CASE x \in DOMAIN q.page
      <4>1. /\ q.page[x] \in Nat /\ returned[x] \in Nat /\ returned'[x] \in Nat
            /\ returned'[x] <= returned[x] + q.page[x]
        BY <2>1, <3>1, Zenon DEF PageEffect, PageCounts
      <4>2. ASSUME CollectedOnce(a, x) PROVE returned[x] = 0
        <5>1. CASE cursor = {}
          BY <2>4, <5>1
        <5>2. ASSUME NEW l \in cursor PROVE returned[x] = 0
          <6>1. ~Passed(a, x, l)
            BY <2>5, <3>1, <4>2, <5>2 DEF Passed
          <6> QED BY <2>4, <4>1, <5>2, <6>1
        <5> QED BY <5>1, <5>2
      <4> QED BY <2>5, <3>1, <4>1, <4>2
    <3>2. CASE x \notin DOMAIN q.page
      <4>1. returned'[x] = returned[x]
        BY <2>1, <3>2, Zenon DEF PageEffect, PageCounts
      <4> QED BY <2>4, <4>1, Zenon
    <3> QED BY <3>1, <3>2
  <2>7. ASSUME NEW k \in q.next, NEW x \in Items, returned'[x] > 0
        PROVE  Passed(a, x, k)
    <3>1. PICK y \in S \cap Scanned(a) :
             /\ k = CursorOf(Order(a), y)
             /\ \A l \in cursor : ~BeforeKey(Order(a), y, l)
             /\ \A z \in DOMAIN q.page : q.page[z] > 0 =>
                  Before(Order(a), z, y) \/ (z = y /\ ~CollectedOnce(a, z))
      BY <2>2, <2>4, <2>7, Zenon DEF NextIsLater
    <3>2. CASE x \in DOMAIN q.page /\ q.page[x] > 0
      BY <3>1, <3>2 DEF Before, Passed, CursorOf
    <3>3. CASE returned[x] > 0
      <4>1. PICK l \in cursor : Passed(a, x, l)
        BY <2>4, <3>3
      <4>2. PICK z \in Scanned(a) : l = CursorOf(Order(a), z)
        BY <2>2, Zenon DEF PagingInv, Names
      <4>3. ~Before(Order(a), y, z)
        BY <3>1, <4>1, <4>2 DEF Before
      <4>4. x \in Scanned(a)
        BY <2>4, <3>3, Zenon
      <4> QED BY <2>2, <3>1, <4>1, <4>2, <4>3, <4>4, PassedLater
    <3> QED BY <2>6, <2>7, <3>2, <3>3, Zenon
  <2> QED BY <2>6, <2>7, Zenon DEF Fresh
<1>4. ASSUME Read \/ ReadDeleted PROVE RepeatInv'
  <2>1. ask' = ask /\ ask \subseteq Reads
    BY <1>4, ReadAsks
  <2> QED BY <2>1 DEF RepeatInv
<1>5. ASSUME NEW x \in Items, Put(x) \/ Archive(x) \/ AppendEvent(x) \/ Emit(x)
                               \/ Delete(x) \/ DeleteEvent(x)
      PROVE  RepeatInv'
  BY <1>1, <1>5, Zenon DEF Put, Archive, AppendEvent, Emit, Delete, DeleteEvent, query
<1>6. ASSUME NEW a \in Asks, Subscribe(a) PROVE RepeatInv'
  BY <1>1, <1>6 DEF Subscribe, query
<1>7. CASE UNCHANGED vars
  BY <1>1, <1>7 DEF vars
<1> QED BY <1>2, <1>3, <1>4, <1>5, <1>6, <1>7 DEF Next

\* A read answers once.
ReadInv ==
    \A a \in ask \cap Reads :
        /\ cursor = {}
        /\ \A x \in Items : /\ returned[x] <= 1
                            /\ status \in {"paging", "deleted"} => returned[x] = 0

\* Every step keeps ReadInv.
LEMMA StepRead == ClientInv /\ ReadInv /\ [Next]_vars => ReadInv'
<1> SUFFICES ASSUME ClientInv, ReadInv, [Next]_vars PROVE ReadInv'
  OBVIOUS
<1>1. CASE UNCHANGED <<ask, status, cursor, returned>>
  BY <1>1 DEF ReadInv
<1>2. ASSUME NEW a \in Asks, Ask(a) PROVE ReadInv'
  BY <1>2 DEF Ask, ClientInv, ReadInv
<1>3. ASSUME NextPage PROVE ReadInv'
  <2>1. ask' = ask /\ \E a \in ask : a \notin Reads
    BY <1>3 DEF NextPage
  <2>2. ask' \cap Reads = {}
    BY <2>1 DEF ClientInv
  <2> QED BY <2>2, Zenon DEF ReadInv
<1>4. ASSUME Read \/ ReadDeleted PROVE ReadInv'
  <2>1. PICK T : returned' = Show(T)
    BY <1>4, Zenon DEF Read, ReadDeleted
  <2>2. /\ ask' = ask /\ cursor' = cursor /\ ask \subseteq Reads
        /\ status \in {"paging", "deleted"}
    BY <1>4, ReadAsks
  <2>3. SUFFICES ASSUME NEW a \in ask, NEW x \in Items
                 PROVE  returned'[x] <= 1
                        /\ (status' \in {"paging", "deleted"} => returned'[x] = 0)
    BY <2>2, Zenon DEF ReadInv
  <2>4. returned[x] = 0
    BY <2>2, <2>3 DEF ReadInv
  <2>5. returned'[x] = 0 \/ returned'[x] = 1
    BY <2>1, <2>4 DEF Show, AddTo, Often
  <2>6. ASSUME status' = "deleted" PROVE returned'[x] = 0
    <3>1. PICK b, found :
             /\ held' = {y \in found : found = {y} /\ IsDelete(y)}
             /\ returned' = Show({y \in found : /\ found = {y} /\ ~IsDelete(y)
                                               /\ authorize_read(Request[b], Message[y])})
             /\ held' # {}
      BY <1>4, <2>6, Zenon DEF Read, ReadDeleted
    <3>2. {y \in found : /\ found = {y} /\ ~IsDelete(y)
                        /\ authorize_read(Request[b], Message[y])} = {}
      BY <3>1, Zenon
    <3>3. returned' = Show({})
      BY <3>1, <3>2, Zenon
    <3> QED BY <2>4, <3>3 DEF Show
  <2>7. status' \in {"done", "deleted"}
    BY <1>4, ReadTypes DEF ReadDeleted
  <2> QED BY <2>5, <2>6, <2>7
<1>5. ASSUME NEW x \in Items, Put(x) \/ Archive(x) \/ AppendEvent(x) \/ Emit(x)
                               \/ Delete(x) \/ DeleteEvent(x)
      PROVE  ReadInv'
  BY <1>1, <1>5, Zenon DEF Put, Archive, AppendEvent, Emit, Delete, DeleteEvent, query
<1>6. ASSUME NEW a \in Asks, Subscribe(a) PROVE ReadInv'
  BY <1>1, <1>6 DEF Subscribe, query
<1>7. CASE UNCHANGED vars
  BY <1>1, <1>7 DEF vars
<1> QED BY <1>2, <1>3, <1>4, <1>5, <1>6, <1>7 DEF Next

\* Until a page begins again, nothing from the cursor on has been returned.
THEOREM RepeatInvariant ==
    Spec => [](ClientInv /\ PagingInv /\ RepeatInv /\ ReadInv)
<1>1. Init => RepeatInv /\ ReadInv
  BY DEF Init, RepeatInv, Fresh, ReadInv
<1>2. ClientInv /\ PagingInv /\ RepeatInv /\ [Next]_vars => RepeatInv'
  BY StepRepeat
<1> QED BY <1>1, <1>2, StepRead, PagingInvariant, PTL DEF Spec

\* No item is on two pages, or twice on one, unless query_concise began again
\* because the item of its cursor was gone, or query_full collected the item
\* for two match sets.
THEOREM NothingIsRepeated == Spec => []NoRepeats
<1>1. RepeatInv /\ ReadInv => NoRepeats
  <2>1. SUFFICES ASSUME RepeatInv, ReadInv, ~restarted, NEW a \in ask, NEW x \in Items,
                        CollectedOnce(a, x)
                 PROVE  returned[x] <= 1
    BY Zenon DEF NoRepeats
  <2>2. CASE a \in Reads
    BY <2>1, <2>2, Zenon DEF ReadInv
  <2>3. CASE a \notin Reads
    BY <2>1, <2>3, Zenon DEF RepeatInv, Fresh
  <2> QED BY <2>2, <2>3
<1> QED BY <1>1, RepeatInvariant, PTL

\* The pages follow each other in the order asked for, which a scan keeps to
\* when it is ascending; what is returned again is the item at the cursor.
THEOREM PagesAreInOrder == Spec => []PagesInOrder
<1>1. ClientInv /\ RepeatInv /\ ReadInv => PagesInOrder
  <2>1. SUFFICES ASSUME ClientInv, RepeatInv, ReadInv,
                        NEW a \in ask, NEW k \in cursor, NEW x \in Items,
                        ~restarted, returned[x] > 0, Concise[a] \/ Request[a].sort.asc
                 PROVE  \/ BeforeKey(Request[a].sort, x, k)
                        \/ Cid[x] = k.cid /\ ~CollectedOnce(a, x)
    BY DEF PagesInOrder
  <2>2. a \in Asks /\ a \notin Reads
    BY <2>1 DEF ClientInv, TypeOK, ReadInv
  <2>3. Order(a) = Request[a].sort
    BY <2>1, <2>2, ScannedFacts
  <2> QED BY <2>1, <2>2, <2>3 DEF RepeatInv, Fresh, Passed
<1> QED BY <1>1, RepeatInvariant, PTL

\* An owner who subscribes and then queries with the same filter misses no
\* record: when the query is done, whatever it selects that is in the store
\* was on a page, or its event has come or is about to be emitted.
THEOREM ViewIsLive == Spec => []LiveView
<1>1. NothingMissed /\ LiveInv => LiveView
  BY DEF NothingMissed, LiveInv, LiveView
<1> QED BY <1>1, LiveInvariant, NothingIsMissed, PTL
=============================================================================
