---------------------------- MODULE TraceQueriesProofs ----------------------------
(***************************************************************************)
(* What the read side guarantees whatever the tables hold and whatever     *)
(* imports commit meanwhile.  A page of a timeline begins at an offset: an *)
(* event is missed only if it moves before it, and imports only insert.    *)
(* The charts and the overview group the same rows in different ways: what *)
(* they sum is compared through the rows themselves.                       *)
(***************************************************************************)
EXTENDS TraceQueries, TLAPS, FiniteSetTheorems, FunctionTheorems,
        SequenceTheorems, WellFoundedInduction

--------------------------------------------------------------------------------
(* A finite set in a strict order: how many come before each *)

\* R orders the elements of S strictly and entirely
StrictOrder(R, S) ==
    /\ \A x \in S : <<x, x>> \notin R
    /\ \A x, y, z \in S : <<x, y>> \in R /\ <<y, z>> \in R => <<x, z>> \in R
    /\ \A x, y \in S : x = y \/ <<x, y>> \in R \/ <<y, x>> \in R

\* The elements of S that come before x
Before(R, S, x) == {y \in S : <<y, x>> \in R}

\* How many come before x
Rank(R, S, x) == Cardinality(Before(R, S, x))

\* A rank is a position, from 0
LEMMA RankType ==
    ASSUME NEW R, NEW S, IsFiniteSet(S), StrictOrder(R, S), NEW x \in S
    PROVE  /\ IsFiniteSet(Before(R, S, x))
           /\ Rank(R, S, x) \in 0 .. Cardinality(S) - 1
<1>1. Before(R, S, x) \in SUBSET (S \ {x}) BY DEF Before, StrictOrder
<1>2. IsFiniteSet(S \ {x}) /\ Cardinality(S \ {x}) = Cardinality(S) - 1 BY FS_RemoveElement
<1>3. /\ IsFiniteSet(Before(R, S, x))
      /\ Cardinality(Before(R, S, x)) <= Cardinality(S \ {x})
    BY <1>1, <1>2, FS_Subset
<1>4. Cardinality(Before(R, S, x)) \in Nat /\ Cardinality(S) \in Nat BY <1>3, FS_CardinalityType
<1> QED BY <1>2, <1>3, <1>4 DEF Rank

\* What comes later has a higher rank
LEMMA RankIncreases ==
    ASSUME NEW R, NEW S, IsFiniteSet(S), StrictOrder(R, S),
           NEW x \in S, NEW y \in S, <<x, y>> \in R
    PROVE  Rank(R, S, x) < Rank(R, S, y)
<1>1. Before(R, S, x) \in SUBSET (Before(R, S, y) \ {x})
    BY DEF Before, StrictOrder
<1>2. x \in Before(R, S, y) BY DEF Before
<1>3. /\ IsFiniteSet(Before(R, S, y)) /\ IsFiniteSet(Before(R, S, x))
      /\ Rank(R, S, x) \in Nat /\ Rank(R, S, y) \in Nat
    <2>1. /\ IsFiniteSet(Before(R, S, y)) /\ Rank(R, S, y) \in 0 .. Cardinality(S) - 1 BY RankType
    <2>2. /\ IsFiniteSet(Before(R, S, x)) /\ Rank(R, S, x) \in 0 .. Cardinality(S) - 1 BY RankType
    <2>3. Cardinality(S) \in Nat BY FS_CardinalityType
    <2> QED BY <2>1, <2>2, <2>3
<1>4. /\ IsFiniteSet(Before(R, S, y) \ {x})
      /\ Cardinality(Before(R, S, y) \ {x}) = Rank(R, S, y) - 1
    BY <1>2, <1>3, FS_RemoveElement DEF Rank
<1>5. Rank(R, S, x) <= Cardinality(Before(R, S, y) \ {x}) BY <1>1, <1>4, FS_Subset DEF Rank
<1> QED BY <1>3, <1>4, <1>5

\* No two elements have one rank
LEMMA RankIsOfOne ==
    ASSUME NEW R, NEW S, IsFiniteSet(S), StrictOrder(R, S),
           NEW x \in S, NEW y \in S, Rank(R, S, x) = Rank(R, S, y)
    PROVE  x = y
<1>1. Rank(R, S, x) \in Int BY RankType
<1>2. ASSUME <<x, y>> \in R PROVE FALSE
    <2>1. Rank(R, S, x) < Rank(R, S, y) BY <1>2, RankIncreases
    <2> QED BY <1>1, <2>1
<1>3. ASSUME <<y, x>> \in R PROVE FALSE
    <2>1. Rank(R, S, y) < Rank(R, S, x) BY <1>3, RankIncreases
    <2> QED BY <1>1, <2>1
<1> QED BY <1>2, <1>3 DEF StrictOrder

\* There are n naturals below n
LEMMA FirstNaturals ==
    ASSUME NEW n \in Nat
    PROVE  IsFiniteSet(0 .. n - 1) /\ Cardinality(0 .. n - 1) = n
<1> DEFINE m == n - 1
<1>1. m \in Int /\ (0 > m => n = 0) /\ m - 0 + 1 = n OBVIOUS
<1> HIDE DEF m
<1>2. IsFiniteSet(0 .. m) /\ Cardinality(0 .. m) = IF 0 > m THEN 0 ELSE m - 0 + 1
    BY <1>1, FS_Interval
<1>3. Cardinality(0 .. m) = n BY <1>1, <1>2
<1> QED BY <1>2, <1>3 DEF m

\* Each position is the rank of some element: ranks have no gap
LEMMA RankIsOnto ==
    ASSUME NEW R, NEW S, IsFiniteSet(S), StrictOrder(R, S), NEW n \in 0 .. Cardinality(S) - 1
    PROVE  \E x \in S : Rank(R, S, x) = n
<1> DEFINE f == [x \in S |-> Rank(R, S, x)]
<1> DEFINE T == 0 .. Cardinality(S) - 1
<1>0. Cardinality(S) \in Nat BY FS_CardinalityType
<1>1. IsFiniteSet(T) /\ Cardinality(T) = Cardinality(S) BY <1>0, FirstNaturals
<1>2. f \in [S -> T] BY RankType
<1>3. \A x, y \in S : f[x] = f[y] => x = y BY RankIsOfOne
<1>4. f \in Injection(S, T)
    <2> HIDE DEF f, T
    <2> QED BY <1>2, <1>3 DEF Injection, IsInjective
<1>5. f \in Surjection(S, T)
    <2> HIDE DEF f, T
    <2> QED BY <1>1, <1>4, FS_Injection
<1>6. \A t \in T : \E x \in S : f[x] = t
    <2> HIDE DEF f, T
    <2> QED BY <1>5 DEF Surjection
<1> QED BY <1>6

\* S in its order: Ordered of the model, for an order that is a set of pairs
Listed(R, S) == [n \in 1 .. Cardinality(S) |-> CHOOSE x \in S : Rank(R, S, x) = n - 1]

\* The sequence of S holds each element once, at its rank
LEMMA ListedRanks ==
    ASSUME NEW R, NEW S, IsFiniteSet(S), StrictOrder(R, S)
    PROVE  /\ Listed(R, S) \in Seq(S)
           /\ Len(Listed(R, S)) = Cardinality(S)
           /\ \A x \in S : Listed(R, S)[Rank(R, S, x) + 1] = x
<1>0. Cardinality(S) \in Nat BY FS_CardinalityType
<1>1. ASSUME NEW n \in 1 .. Cardinality(S)
      PROVE  Listed(R, S)[n] \in S /\ Rank(R, S, Listed(R, S)[n]) = n - 1
    <2>1. n - 1 \in 0 .. Cardinality(S) - 1 BY <1>0
    <2>2. \E x \in S : Rank(R, S, x) = n - 1 BY <2>1, RankIsOnto
    <2> QED BY <2>2 DEF Listed
<1>2. DOMAIN Listed(R, S) = 1 .. Cardinality(S) BY DEF Listed
<1>3. Listed(R, S) \in [1 .. Cardinality(S) -> S]
    BY <1>1 DEF Listed
<1>4. Listed(R, S) \in Seq(S) BY <1>0, <1>3
<1>5. Len(Listed(R, S)) = Cardinality(S) BY <1>0, <1>3
<1>6. ASSUME NEW x \in S PROVE Listed(R, S)[Rank(R, S, x) + 1] = x
    <2>1. Rank(R, S, x) \in 0 .. Cardinality(S) - 1 BY RankType
    <2> DEFINE m == Rank(R, S, x) + 1
    <2>2. m \in 1 .. Cardinality(S) /\ m - 1 = Rank(R, S, x) BY <2>1, <1>0
    <2> HIDE DEF m
    <2> DEFINE y == Listed(R, S)[m]
    <2>3. y \in S /\ Rank(R, S, y) = Rank(R, S, x) BY <1>1, <2>2
    <2> HIDE DEF y
    <2>4. y = x BY <2>3, RankIsOfOne
    <2> QED BY <2>4 DEF y, m
<1> QED BY <1>4, <1>5, <1>6

--------------------------------------------------------------------------------
(* The events of a session in the order of their keys *)

\* What an entry of the timeline can be
ModelEvent == [type : {"model_call"}, id : DOMAIN ModelCallRow]

ToolEvent == [type : {"tool_call"}, id : DOMAIN ToolCallRow]

Event == ModelEvent \cup ToolEvent

\* HappensBefore, as a set of pairs
EventOrder == {pair \in Event \X Event : HappensBefore(pair[1], pair[2])}

\* The sort key of an event is five numbers
LEMMA KeyType ==
    ASSUME NEW e \in Event
    PROVE  /\ SortKey(e)[1] \in Int /\ SortKey(e)[2] \in Int /\ SortKey(e)[3] \in Int
           /\ SortKey(e)[4] \in Int /\ SortKey(e)[5] \in Int
<1>1. CASE e \in ModelEvent
    <2>1. e.type = "model_call" /\ e.id \in DOMAIN ModelCallRow BY <1>1 DEF ModelEvent
    <2>2. e.id \in Nat /\ TypeOrder[e.type] = 1 BY <2>1, RowsAssumption DEF TypeOrder
    <2>3. CallOf(e).started \in OrNull(Nat) /\ CallOf(e).index \in Int
        BY <2>1, RowsAssumption DEF CallOf
    <2> QED BY <2>2, <2>3 DEF SortKey, OrNull
<1>2. CASE e \in ToolEvent
    <2>1. e.type = "tool_call" /\ e.id \in DOMAIN ToolCallRow BY <1>2 DEF ToolEvent
    <2>2. e.id \in Nat /\ TypeOrder[e.type] = 2 BY <2>1, RowsAssumption DEF TypeOrder
    <2>3. CallOf(e).started \in OrNull(Nat) /\ CallOf(e).index \in Int
        BY <2>1, RowsAssumption DEF CallOf
    <2> QED BY <2>2, <2>3 DEF SortKey, OrNull
<1> QED BY <1>1, <1>2 DEF Event

\* No two events have one key: the type and the id are part of it
\* (query_exploration.py sorts by them last)
LEMMA KeyIdentifies ==
    ASSUME NEW e \in Event, NEW g \in Event,
           SortKey(e)[4] = SortKey(g)[4], SortKey(e)[5] = SortKey(g)[5]
    PROVE  e = g
<1>1. TypeOrder[e.type] = TypeOrder[g.type] /\ e.id = g.id BY DEF SortKey
<1>2. e.type = g.type BY <1>1 DEF TypeOrder, Event, ModelEvent, ToolEvent
<1> QED BY <1>1, <1>2 DEF Event, ModelEvent, ToolEvent

\* The keys are compared as tuples are
Lexicographic(k, l) ==
    \/ k[1] < l[1]
    \/ k[1] = l[1] /\ k[2] < l[2]
    \/ k[1] = l[1] /\ k[2] = l[2] /\ k[3] < l[3]
    \/ k[1] = l[1] /\ k[2] = l[2] /\ k[3] = l[3] /\ k[4] < l[4]
    \/ k[1] = l[1] /\ k[2] = l[2] /\ k[3] = l[3] /\ k[4] = l[4] /\ k[5] < l[5]

\* An event happens before another when its key is the lower
LEMMA BeforeByKey ==
    ASSUME NEW e, NEW g
    PROVE  HappensBefore(e, g) <=> Lexicographic(SortKey(e), SortKey(g))
<1> DEFINE k == SortKey(e)
<1> DEFINE l == SortKey(g)
<1> DEFINE At(n) == k[n] < l[n] /\ \A m \in 1 .. n - 1 : k[m] = l[m]
<1>1. HappensBefore(e, g) <=> \E n \in 1 .. 5 : At(n) BY DEF HappensBefore
<1> HIDE DEF k, l
<1>2. At(1) <=> k[1] < l[1] OBVIOUS
<1>3. At(2) <=> k[1] = l[1] /\ k[2] < l[2] OBVIOUS
<1>4. At(3) <=> k[1] = l[1] /\ k[2] = l[2] /\ k[3] < l[3] OBVIOUS
<1>5. At(4) <=> k[1] = l[1] /\ k[2] = l[2] /\ k[3] = l[3] /\ k[4] < l[4] OBVIOUS
<1>6. At(5) <=> k[1] = l[1] /\ k[2] = l[2] /\ k[3] = l[3] /\ k[4] = l[4] /\ k[5] < l[5] OBVIOUS
<1>7. (\E n \in 1 .. 5 : At(n)) <=> At(1) \/ At(2) \/ At(3) \/ At(4) \/ At(5)
    <2>1. \A n \in 1 .. 5 : n = 1 \/ n = 2 \/ n = 3 \/ n = 4 \/ n = 5 OBVIOUS
    <2>2. 1 \in 1 .. 5 /\ 2 \in 1 .. 5 /\ 3 \in 1 .. 5 /\ 4 \in 1 .. 5 /\ 5 \in 1 .. 5 OBVIOUS
    <2> HIDE DEF At
    <2> QED BY <2>1, <2>2, Zenon
<1> HIDE DEF At
<1> QED BY <1>1, <1>2, <1>3, <1>4, <1>5, <1>6, <1>7, Zenon DEF Lexicographic, k, l

\* The keys order any events strictly and entirely
LEMMA EventsAreOrdered ==
    ASSUME NEW S \in SUBSET Event
    PROVE  StrictOrder(EventOrder, S)
<1>0. ASSUME NEW e \in S, NEW g \in S
      PROVE  <<e, g>> \in EventOrder <=> Lexicographic(SortKey(e), SortKey(g))
    <2>1. <<e, g>> \in EventOrder <=> HappensBefore(e, g) BY DEF EventOrder
    <2> QED BY <2>1, BeforeByKey
<1>1. ASSUME NEW e \in S PROVE <<e, e>> \notin EventOrder
    BY <1>0, KeyType DEF Lexicographic
<1>2. ASSUME NEW e \in S, NEW g \in S, NEW h \in S,
             <<e, g>> \in EventOrder, <<g, h>> \in EventOrder
      PROVE  <<e, h>> \in EventOrder
    <2> DEFINE k == SortKey(e)
    <2> DEFINE l == SortKey(g)
    <2> DEFINE m == SortKey(h)
    <2>1. /\ k[1] \in Int /\ k[2] \in Int /\ k[3] \in Int /\ k[4] \in Int /\ k[5] \in Int
          /\ l[1] \in Int /\ l[2] \in Int /\ l[3] \in Int /\ l[4] \in Int /\ l[5] \in Int
          /\ m[1] \in Int /\ m[2] \in Int /\ m[3] \in Int /\ m[4] \in Int /\ m[5] \in Int
        BY KeyType
    <2>2. Lexicographic(k, l) /\ Lexicographic(l, m) BY <1>2, <1>0
    <2> HIDE DEF k, l, m
    <2>3. Lexicographic(k, m) BY <2>1, <2>2 DEF Lexicographic
    <2> QED BY <2>3, <1>0 DEF k, m
<1>3. ASSUME NEW e \in S, NEW g \in S
      PROVE  e = g \/ <<e, g>> \in EventOrder \/ <<g, e>> \in EventOrder
    <2> DEFINE k == SortKey(e)
    <2> DEFINE l == SortKey(g)
    <2>1. /\ k[1] \in Int /\ k[2] \in Int /\ k[3] \in Int /\ k[4] \in Int /\ k[5] \in Int
          /\ l[1] \in Int /\ l[2] \in Int /\ l[3] \in Int /\ l[4] \in Int /\ l[5] \in Int
        BY KeyType
    <2>2. k[4] = l[4] /\ k[5] = l[5] => e = g BY KeyIdentifies
    <2> HIDE DEF k, l
    <2>3. Lexicographic(k, l) \/ Lexicographic(l, k) \/ (k[4] = l[4] /\ k[5] = l[5])
        BY <2>1 DEF Lexicographic
    <2> QED BY <2>2, <2>3, <1>0 DEF k, l
<1> QED BY <1>1, <1>2, <1>3 DEF StrictOrder

\* The timeline is the events in that order, each at its rank
LEMMA TimelineIsListed ==
    ASSUME NEW S \in SUBSET Event
    PROVE  Timeline(S) = Listed(EventOrder, S)
<1>1. ASSUME NEW x \in S
      PROVE  {y \in S : HappensBefore(y, x)} = Before(EventOrder, S, x)
    BY DEF Before, EventOrder
<1> DEFINE Choice(n) == CHOOSE x \in S : Cardinality({y \in S : HappensBefore(y, x)}) = n - 1
<1> DEFINE Ranked(n) == CHOOSE x \in S : Rank(EventOrder, S, x) = n - 1
<1>2. \A n \in 1 .. Cardinality(S) : Choice(n) = Ranked(n) BY <1>1 DEF Rank
<1>3. Timeline(S) = [n \in 1 .. Cardinality(S) |-> Choice(n)] BY DEF Timeline, Ordered
<1>4. Listed(EventOrder, S) = [n \in 1 .. Cardinality(S) |-> Ranked(n)] BY DEF Listed
<1> HIDE DEF Choice, Ranked
<1> QED BY <1>2, <1>3, <1>4

--------------------------------------------------------------------------------
(* A page of the timeline *)

\* Among more events an event has at least the rank it had
LEMMA RankInMore ==
    ASSUME NEW T \in SUBSET Event, IsFiniteSet(T), NEW S \in SUBSET T, NEW e \in S
    PROVE  Rank(EventOrder, S, e) <= Rank(EventOrder, T, e)
<1>1. Before(EventOrder, S, e) \in SUBSET Before(EventOrder, T, e) BY DEF Before
<1>2. IsFiniteSet(Before(EventOrder, T, e)) BY EventsAreOrdered, RankType
<1> QED BY <1>1, <1>2, FS_Subset DEF Rank

\* A page holds the events whose rank is in its window, and no other
LEMMA WindowOfTimeline ==
    ASSUME NEW S \in SUBSET Event, IsFiniteSet(S), NEW limit \in Nat, NEW offset \in Nat
    PROVE  LET page == Window(Timeline(S), limit, offset) IN
           /\ page \in Seq(S)
           /\ Len(page) <= limit
           /\ \A e \in S : offset <= Rank(EventOrder, S, e) /\ Rank(EventOrder, S, e) < offset + limit
                            => e \in ToSet(page)
<1> DEFINE list == Timeline(S)
<1> DEFINE last == IF offset + limit < Len(list) THEN offset + limit ELSE Len(list)
<1> DEFINE page == SubSeq(list, offset + 1, last)
<1>1. list \in Seq(S) /\ Len(list) = Cardinality(S)
      /\ \A e \in S : list[Rank(EventOrder, S, e) + 1] = e
    BY TimelineIsListed, EventsAreOrdered, ListedRanks
<1>2. Len(list) \in Nat /\ last \in Nat /\ last <= Len(list) /\ last <= offset + limit BY <1>1
<1>3. Window(Timeline(S), limit, offset) = page BY DEF Window
<1>4. \A e \in S : Rank(EventOrder, S, e) \in 0 .. Len(list) - 1 BY <1>1, EventsAreOrdered, RankType
<1> HIDE DEF list
<1>5. CASE last <= offset
    <2>1. page = <<>> BY <1>1, <1>2, <1>5
    <2>2. ASSUME NEW e \in S, offset <= Rank(EventOrder, S, e), Rank(EventOrder, S, e) < offset + limit
          PROVE  FALSE
        <3>1. Rank(EventOrder, S, e) \in 0 .. Len(list) - 1 BY <1>4
        <3> QED BY <1>2, <1>5, <2>2, <3>1
    <2>3. page \in Seq(S) /\ Len(page) = 0 BY <2>1
    <2> QED BY <1>3, <2>2, <2>3
<1>6. CASE offset < last
    <2>1. /\ page \in Seq(S) /\ Len(page) = last - offset /\ DOMAIN page = 1 .. last - offset
          /\ \A i \in 1 .. last - offset : page[i] = list[offset + i]
        <3>1. \A i \in offset + 1 .. last : i \in 1 .. Len(list) BY <1>2
        <3>2. (last - (offset + 1)) + 1 = last - offset BY <1>2
        <3>3. \A i \in 1 .. last - offset : i + (offset + 1) - 1 = offset + i BY <1>2
        <3> HIDE DEF last
        <3> QED BY <1>1, <1>2, <1>6, <3>1, <3>2, <3>3
    <2>2. Len(page) <= limit BY <1>2, <2>1
    <2>3. ASSUME NEW e \in S, offset <= Rank(EventOrder, S, e), Rank(EventOrder, S, e) < offset + limit
          PROVE  e \in ToSet(page)
        <3> DEFINE r == Rank(EventOrder, S, e)
        <3>1. r \in 0 .. Len(list) - 1 BY <1>4
        <3>2. (r + 1) - offset \in 1 .. last - offset BY <1>2, <2>3, <3>1
        <3>3. offset + ((r + 1) - offset) = r + 1 BY <1>2, <3>1
        <3>4. page[(r + 1) - offset] = e BY ZenonT(40), <1>1, <2>1, <3>2, <3>3
        <3> HIDE DEF page, r
        <3> QED BY <2>1, <3>2, <3>4 DEF ToSet
    <2> HIDE DEF page
    <2> QED BY <1>3, <2>1, <2>2, <2>3
<1> QED BY <1>2, <1>5, <1>6

\* A page is appended: what was read stays read
LEMMA ItemsOfBoth ==
    ASSUME NEW S, NEW s \in Seq(S), NEW t \in Seq(S)
    PROVE  ToSet(s) \subseteq ToSet(s \o t) /\ ToSet(t) \subseteq ToSet(s \o t)
<1>1. /\ DOMAIN s = 1 .. Len(s) /\ DOMAIN t = 1 .. Len(t) /\ Len(s) \in Nat /\ Len(t) \in Nat
      /\ DOMAIN (s \o t) = 1 .. Len(s) + Len(t)
    OBVIOUS
<1>2. \A i \in 1 .. Len(s) : (s \o t)[i] = s[i] /\ i \in 1 .. Len(s) + Len(t) BY <1>1
<1>3. \A i \in 1 .. Len(t) : (s \o t)[Len(s) + i] = t[i] /\ Len(s) + i \in 1 .. Len(s) + Len(t)
    BY <1>1
<1> QED BY <1>1, <1>2, <1>3 DEF ToSet

--------------------------------------------------------------------------------
(* The inductive invariant of the reading of a timeline *)

\* The image of a finite set is finite
LEMMA ImageIsFinite ==
    ASSUME NEW f, NEW S, IsFiniteSet(S)
    PROVE  IsFiniteSet({f[x] : x \in S})
<1> DEFINE T == {f[x] : x \in S}
<1> DEFINE h == [x \in S |-> f[x]]
<1>1. h \in [S -> T] /\ \A t \in T : \E x \in S : h[x] = t OBVIOUS
<1> HIDE DEF h, T
<1>2. h \in Surjection(S, T) BY <1>1 DEF Surjection
<1>3. IsFiniteSet(T) BY <1>2, FS_Surjection
<1> QED BY <1>3 DEF T

\* The union of finitely many finite sets is finite
LEMMA UnionIsFinite ==
    ASSUME NEW f, NEW S, IsFiniteSet(S), \A x \in S : IsFiniteSet(f[x])
    PROVE  IsFiniteSet(UNION {f[x] : x \in S})
<1> DEFINE T == {f[x] : x \in S}
<1>1. IsFiniteSet(T) BY ImageIsFinite
<1>2. \A t \in T : IsFiniteSet(t) OBVIOUS
<1> HIDE DEF T
<1>3. IsFiniteSet(UNION T) BY <1>1, <1>2, FS_UNION
<1> QED BY <1>3 DEF T

\* Imports have committed finitely many batches
CommittedOK == committed \in SUBSET Batches /\ IsFiniteSet(committed)

\* Types of the variables, and of the statement that waits for the other one
TypeOK ==
    /\ CommittedOK
    /\ phase \in {"closed", "models", "tools", "loaded"}
    /\ modelCalls \in SUBSET ModelEvent /\ IsFiniteSet(modelCalls)
    /\ items \in Seq(Event)
    /\ total \in Nat
    /\ present \in SUBSET Event

\* What the page would be cut from if its second statement ran now
Readable == (IF phase = "tools" THEN modelCalls ELSE ModelEvents) \cup ToolEvents

\* The event is not yet passed by a reader that has read offset events
AheadOf(S, e, offset) == offset <= Rank(EventOrder, S, e)

\* A reader that asks for one page more is below the ceiling
RoomLeft == phase \in {"models", "tools"} => Len(items) < MaxLoaded

\* Every event the session had at its opening is still there to be read; it
\* is on the page, or the next page begins at or before it
NothingPassed ==
    phase \in {"models", "tools"} =>
        /\ present \subseteq Readable
        /\ \A e \in present : e \in ToSet(items) \/ AheadOf(Readable, e, Len(items))

\* The first statement answered what is still there
SnapshotIsOld == phase = "tools" => modelCalls \subseteq ModelEvents

\* The inductive invariant
ReadsInv == TypeOK /\ RoomLeft /\ SnapshotIsOld /\ NothingPassed /\ TimelineMissesNothing

\* The tables hold finitely many rows, of their types
LEMMA RowsType ==
    ASSUME CommittedOK
    PROVE  /\ Sessions \in SUBSET DOMAIN SessionRow /\ IsFiniteSet(Sessions)
           /\ ModelCalls \in SUBSET DOMAIN ModelCallRow /\ IsFiniteSet(ModelCalls)
           /\ ToolCalls \in SUBSET DOMAIN ToolCallRow /\ IsFiniteSet(ToolCalls)
<1>1. \A b \in committed : b \in Batches BY DEF CommittedOK
<1>2. IsFiniteSet(committed) BY DEF CommittedOK
<1>3. IsFiniteSet(Sessions)
    <2> DEFINE f == [b \in committed |-> b.sessions]
    <2>1. \A b \in committed : IsFiniteSet(f[b]) BY <1>1, BatchesAssumption
    <2>2. Sessions = UNION {f[b] : b \in committed} BY DEF Sessions
    <2> HIDE DEF f
    <2> QED BY <1>2, <2>1, <2>2, UnionIsFinite
<1>4. IsFiniteSet(ModelCalls)
    <2> DEFINE f == [b \in committed |-> b.model_calls]
    <2>1. \A b \in committed : IsFiniteSet(f[b]) BY <1>1, BatchesAssumption
    <2>2. ModelCalls = UNION {f[b] : b \in committed} BY DEF ModelCalls
    <2> HIDE DEF f
    <2> QED BY <1>2, <2>1, <2>2, UnionIsFinite
<1>5. IsFiniteSet(ToolCalls)
    <2> DEFINE f == [b \in committed |-> b.tool_calls]
    <2>1. \A b \in committed : IsFiniteSet(f[b]) BY <1>1, BatchesAssumption
    <2>2. ToolCalls = UNION {f[b] : b \in committed} BY DEF ToolCalls
    <2> HIDE DEF f
    <2> QED BY <1>2, <2>1, <2>2, UnionIsFinite
<1> QED BY <1>1, <1>3, <1>4, <1>5, BatchesAssumption DEF Sessions, ModelCalls, ToolCalls

EventsOK ==
    /\ ModelEvents \in SUBSET ModelEvent /\ IsFiniteSet(ModelEvents)
    /\ ToolEvents \in SUBSET ToolEvent /\ IsFiniteSet(ToolEvents)

\* The events of the session on display are finitely many
LEMMA EventsType == CommittedOK => EventsOK
<1> SUFFICES ASSUME CommittedOK PROVE EventsOK OBVIOUS
<1>1. /\ ModelCallsOf(Watched) \in SUBSET DOMAIN ModelCallRow
      /\ ToolCallsOf(Watched) \in SUBSET DOMAIN ToolCallRow
    BY RowsType DEF ModelCallsOf, ToolCallsOf
<1>2. IsFiniteSet(ModelCallsOf(Watched)) /\ IsFiniteSet(ToolCallsOf(Watched))
    BY RowsType, FS_Subset DEF ModelCallsOf, ToolCallsOf
<1>3. IsFiniteSet(ModelEvents)
    <2> DEFINE f == [c \in ModelCallsOf(Watched) |-> [type |-> "model_call", id |-> c]]
    <2>1. ModelEvents = {f[c] : c \in ModelCallsOf(Watched)} BY DEF ModelEvents
    <2> HIDE DEF f
    <2> QED BY <1>2, <2>1, ImageIsFinite
<1>4. IsFiniteSet(ToolEvents)
    <2> DEFINE f == [c \in ToolCallsOf(Watched) |-> [type |-> "tool_call", id |-> c]]
    <2>1. ToolEvents = {f[c] : c \in ToolCallsOf(Watched)} BY DEF ToolEvents
    <2> HIDE DEF f
    <2> QED BY <1>2, <2>1, ImageIsFinite
<1> QED BY <1>1, <1>3, <1>4 DEF EventsOK, ModelEvents, ToolEvents, ModelEvent, ToolEvent

\* A commit of an import removes no event
LEMMA EventsStay ==
    ASSUME NEW b \in Batches, Commit(b)
    PROVE  ModelEvents \subseteq ModelEvents' /\ ToolEvents \subseteq ToolEvents'
<1>1. committed \subseteq committed' BY DEF Commit
<1>2. ModelCalls \subseteq ModelCalls' /\ ToolCalls \subseteq ToolCalls'
    BY <1>1 DEF ModelCalls, ToolCalls
<1>3. ModelCallsOf(Watched) \subseteq ModelCallsOf(Watched)'
      /\ ToolCallsOf(Watched) \subseteq ToolCallsOf(Watched)'
    BY <1>2 DEF ModelCallsOf, ToolCallsOf
<1> QED BY <1>3 DEF ModelEvents, ToolEvents

\* Without a commit the events stay as they are
LEMMA SameEvents ==
    ASSUME UNCHANGED committed
    PROVE  ModelEvents' = ModelEvents /\ ToolEvents' = ToolEvents
BY DEF ModelEvents, ToolEvents, ModelCallsOf, ToolCallsOf, ModelCalls, ToolCalls

\* Events that arrive push an event back, never before the offset
LEMMA StillAhead ==
    ASSUME NEW T \in SUBSET Event, IsFiniteSet(T), NEW S \in SUBSET T, NEW e \in S,
           NEW offset \in Nat, AheadOf(S, e, offset)
    PROVE  AheadOf(T, e, offset)
<1>1. Rank(EventOrder, S, e) <= Rank(EventOrder, T, e) BY RankInMore
<1>2. IsFiniteSet(S) BY FS_Subset
<1>3. StrictOrder(EventOrder, S) /\ StrictOrder(EventOrder, T) BY EventsAreOrdered
<1>4. Rank(EventOrder, S, e) \in 0 .. Cardinality(S) - 1 BY <1>2, <1>3, RankType
<1>5. Rank(EventOrder, T, e) \in 0 .. Cardinality(T) - 1 BY <1>3, RankType
<1> QED BY <1>1, <1>4, <1>5 DEF AheadOf

--------------------------------------------------------------------------------
(* One page more *)

\* An event that was ahead of the offset is on the page that is read there,
\* or it is ahead of the next one
LEMMA PageIsRead ==
    ASSUME TypeOK, RoomLeft, SelectToolCalls
    PROVE  LET S == modelCalls \cup ToolEvents IN
           /\ S \in SUBSET Event /\ IsFiniteSet(S)
           /\ items' \in Seq(Event)
           /\ ToSet(items) \subseteq ToSet(items')
           /\ \A e \in S : AheadOf(S, e, Len(items)) => e \in ToSet(items') \/ AheadOf(S, e, Len(items'))
           /\ total' = Cardinality(S)
           /\ phase' \in {"models", "loaded"}
           /\ phase' = "models" => Len(items') < MaxLoaded
<1> DEFINE S == modelCalls \cup ToolEvents
<1> DEFINE page == Window(Timeline(S), Limit, Offset)
<1>1. S \in SUBSET Event /\ IsFiniteSet(S)
    <2>1. ToolEvents \in SUBSET Event /\ IsFiniteSet(ToolEvents) BY EventsType DEF EventsOK, TypeOK, Event
    <2>2. modelCalls \in SUBSET Event /\ IsFiniteSet(modelCalls) BY DEF TypeOK, Event
    <2> QED BY <2>1, <2>2, FS_Union
<1>2. /\ items \in Seq(Event) /\ Len(items) \in Nat /\ Len(items) < MaxLoaded
      /\ items' = items \o page
      /\ total' = Cardinality(S)
      /\ phase' = IF IsLast(page, Len(items) + Len(page), Cardinality(S)) THEN "loaded" ELSE "models"
    BY DEF TypeOK, RoomLeft, SelectToolCalls
<1>3. Limit \in Nat BY <1>2, PagesAssumption DEF Limit
<1>4. /\ page \in Seq(S) /\ Len(page) <= Limit
      /\ \A e \in S : Len(items) <= Rank(EventOrder, S, e)
                        /\ Rank(EventOrder, S, e) < Len(items) + Limit => e \in ToSet(page)
    <2> HIDE DEF S
    <2> QED BY <1>1, <1>2, <1>3, WindowOfTimeline DEF Offset
<1>5. page \in Seq(Event) /\ Len(page) \in Nat
    <2> HIDE DEF S, page
    <2>1. Len(page) \in Nat /\ page \in [1 .. Len(page) -> S] BY <1>4
    <2> QED BY <1>1, <2>1
<1>6. /\ items' \in Seq(Event) /\ Len(items') = Len(items) + Len(page)
      /\ ToSet(items) \subseteq ToSet(items') /\ ToSet(page) \subseteq ToSet(items')
    <2> HIDE DEF S, page
    <2> QED BY <1>2, <1>5, ItemsOfBoth
<1>7. ASSUME NEW e \in S, AheadOf(S, e, Len(items))
      PROVE  e \in ToSet(items') \/ AheadOf(S, e, Len(items'))
    <2> HIDE DEF S, page
    <2>1. Rank(EventOrder, S, e) \in Int
        <3>1. StrictOrder(EventOrder, S) BY <1>1, EventsAreOrdered
        <3>2. Rank(EventOrder, S, e) \in 0 .. Cardinality(S) - 1 BY <1>1, <3>1, RankType
        <3> QED BY <3>2
    <2>2. CASE Rank(EventOrder, S, e) < Len(items) + Limit
        BY <1>4, <1>6, <1>7, <2>2 DEF AheadOf
    <2>3. CASE Len(items) + Limit <= Rank(EventOrder, S, e)
        BY <1>2, <1>3, <1>4, <1>5, <1>6, <2>1, <2>3 DEF AheadOf
    <2> QED BY <1>2, <1>3, <2>1, <2>2, <2>3
<1>8. phase' \in {"models", "loaded"} /\ (phase' = "models" => Len(items') < MaxLoaded)
    <2>1. Len(items) + Len(page) \in Nat /\ MaxLoaded \in Nat BY <1>2, <1>5, PagesAssumption
    <2> HIDE DEF S, page
    <2> QED BY <1>2, <1>6, <2>1 DEF IsLast
<1> HIDE DEF S
<1>9. /\ S \in SUBSET Event /\ IsFiniteSet(S)
      /\ items' \in Seq(Event)
      /\ ToSet(items) \subseteq ToSet(items')
      /\ \A e \in S : AheadOf(S, e, Len(items)) => e \in ToSet(items') \/ AheadOf(S, e, Len(items'))
      /\ total' = Cardinality(S)
      /\ phase' \in {"models", "loaded"}
      /\ phase' = "models" => Len(items') < MaxLoaded
    BY <1>1, <1>2, <1>6, <1>7, <1>8
<1> QED BY <1>9 DEF S

\* Every step keeps the types
LEMMA TypeIsKept ==
    ASSUME TypeOK, RoomLeft, [Next]_vars
    PROVE  TypeOK' /\ RoomLeft'
<1>0. CommittedOK BY DEF TypeOK
<1>1. ASSUME NEW b \in Batches, Commit(b) PROVE TypeOK' /\ RoomLeft'
    <2>1. committed' \in SUBSET Batches /\ IsFiniteSet(committed')
        BY <1>1, <1>0, FS_AddElement DEF Commit, CommittedOK
    <2> QED BY <1>1, <2>1 DEF Commit, TypeOK, CommittedOK, RoomLeft
<1>2. CASE Open
    <2>1. present' \in SUBSET Event BY <1>0, <1>2, EventsType DEF EventsOK, Open, Event
    <2>2. items' \in Seq(Event) /\ Len(items') < MaxLoaded BY <1>2, PagesAssumption DEF Open
    <2> QED BY <1>2, <2>1, <2>2 DEF Open, TypeOK, CommittedOK, RoomLeft
<1>3. CASE SelectModelCalls
    <2>1. modelCalls' \in SUBSET ModelEvent /\ IsFiniteSet(modelCalls')
        BY <1>0, <1>3, EventsType DEF EventsOK, SelectModelCalls
    <2> QED BY <1>3, <2>1 DEF SelectModelCalls, TypeOK, CommittedOK, RoomLeft
<1>4. CASE SelectToolCalls
    <2> DEFINE S == modelCalls \cup ToolEvents
    <2>1. /\ S \in SUBSET Event /\ IsFiniteSet(S)
          /\ items' \in Seq(Event) /\ total' = Cardinality(S)
          /\ phase' \in {"models", "loaded"} /\ (phase' = "models" => Len(items') < MaxLoaded)
        BY <1>4, PageIsRead
    <2> HIDE DEF S
    <2>2. total' \in Nat BY <2>1, FS_CardinalityType
    <2>3. modelCalls' = {} /\ UNCHANGED <<committed, present>> BY <1>4 DEF SelectToolCalls
    <2> QED BY <2>1, <2>2, <2>3, FS_EmptySet DEF TypeOK, CommittedOK, RoomLeft
<1>5. CASE Close
    <2>1. items' \in Seq(Event) BY <1>5 DEF Close
    <2> QED BY <1>5, <2>1 DEF Close, TypeOK, CommittedOK, RoomLeft
<1>6. CASE UNCHANGED vars BY <1>6 DEF vars, TypeOK, CommittedOK, RoomLeft
<1> QED BY <1>1, <1>2, <1>3, <1>4, <1>5, <1>6 DEF Next

\* Every step leaves readable what was
LEMMA MoreIsReadable ==
    ASSUME TypeOK, TypeOK', NothingPassed, Readable \subseteq Readable',
           UNCHANGED <<items, present>>, phase \in {"models", "tools"}
    PROVE  NothingPassed'
<1>1. Readable' \in SUBSET Event /\ IsFiniteSet(Readable')
    <2>1. ModelEvents' \in SUBSET ModelEvent /\ IsFiniteSet(ModelEvents')
          /\ ToolEvents' \in SUBSET ToolEvent /\ IsFiniteSet(ToolEvents')
        <3>1. (CommittedOK => EventsOK)' BY EventsType, PTL
        <3> QED BY <3>1 DEF TypeOK, EventsOK
    <2>2. modelCalls' \in SUBSET ModelEvent /\ IsFiniteSet(modelCalls') BY DEF TypeOK
    <2> QED BY <2>1, <2>2, FS_Union DEF Readable, Event
<1>2. ASSUME NEW e \in present, AheadOf(Readable, e, Len(items))
      PROVE  AheadOf(Readable', e, Len(items))
    <2>1. e \in Readable /\ Len(items) \in Nat BY DEF NothingPassed, TypeOK
    <2> HIDE DEF Readable
    <2> QED BY <1>1, <1>2, <2>1, StillAhead
<1> QED BY <1>1, <1>2 DEF NothingPassed

--------------------------------------------------------------------------------
(* Every step keeps the invariant *)

\* What the first statement answered stays in the table: nothing is deleted
LEMMA SnapshotIsKept ==
    ASSUME SnapshotIsOld, [Next]_vars
    PROVE  SnapshotIsOld'
<1>1. ASSUME NEW b \in Batches, Commit(b) PROVE SnapshotIsOld'
    BY <1>1, EventsStay DEF Commit, SnapshotIsOld
<1>2. CASE Open BY <1>2 DEF Open, SnapshotIsOld
<1>3. CASE SelectModelCalls BY <1>3, SameEvents DEF SelectModelCalls, SnapshotIsOld
<1>4. CASE SelectToolCalls BY <1>4 DEF SelectToolCalls, SnapshotIsOld
<1>5. CASE Close BY <1>5 DEF Close, SnapshotIsOld
<1>6. CASE UNCHANGED vars BY <1>6, SameEvents DEF vars, SnapshotIsOld
<1> QED BY <1>1, <1>2, <1>3, <1>4, <1>5, <1>6 DEF Next

\* Every step keeps the opening events ahead of the reader, or on the page
LEMMA NothingIsPassed ==
    ASSUME TypeOK, TypeOK', RoomLeft, SnapshotIsOld, NothingPassed, [Next]_vars
    PROVE  NothingPassed'
<1>1. ASSUME NEW b \in Batches, Commit(b) PROVE NothingPassed'
    <2>1. Readable \subseteq Readable' BY <1>1, EventsStay DEF Commit, Readable
    <2>2. UNCHANGED <<phase, items, present>> BY <1>1 DEF Commit
    <2>3. CASE phase \in {"models", "tools"} BY <2>1, <2>2, <2>3, MoreIsReadable
    <2>4. CASE phase \notin {"models", "tools"} BY <2>2, <2>4 DEF NothingPassed
    <2> QED BY <2>3, <2>4
<1>2. CASE Open
    <2>1. items' = <<>> /\ phase' = "models" /\ present' = ModelEvents \cup ToolEvents
          /\ UNCHANGED committed
        BY <1>2 DEF Open
    <2>2. Readable' = present' BY <2>1, SameEvents DEF Readable
    <2>3. Readable' \in SUBSET Event /\ IsFiniteSet(Readable')
        <3>1. CommittedOK BY DEF TypeOK
        <3> QED BY <2>1, <2>2, <3>1, EventsType, FS_Union DEF EventsOK, Event
    <2>4. ASSUME NEW e \in present' PROVE AheadOf(Readable', e, 0)
        <3> DEFINE R == Readable'
        <3>1. R \in SUBSET Event /\ IsFiniteSet(R) /\ e \in R BY <2>2, <2>3
        <3> HIDE DEF R
        <3>2. StrictOrder(EventOrder, R) BY <3>1, EventsAreOrdered
        <3>3. Rank(EventOrder, R, e) \in 0 .. Cardinality(R) - 1 BY <3>1, <3>2, RankType
        <3>4. AheadOf(R, e, 0) BY <3>3 DEF AheadOf
        <3> QED BY <3>4 DEF R
    <2>5. Len(items') = 0 BY <2>1
    <2> QED BY <2>2, <2>4, <2>5 DEF NothingPassed
<1>3. CASE SelectModelCalls
    <2>1. phase = "models" /\ phase' = "tools" /\ modelCalls' = ModelEvents
          /\ UNCHANGED <<committed, items, present>>
        BY <1>3 DEF SelectModelCalls
    <2>2. Readable' = Readable BY <2>1, SameEvents DEF Readable
    <2> QED BY <2>1, <2>2, MoreIsReadable
<1>4. CASE SelectToolCalls
    <2> DEFINE S == modelCalls \cup ToolEvents
    <2>1. phase = "tools" /\ UNCHANGED <<committed, present>> BY <1>4 DEF SelectToolCalls
    <2>2. Readable = S BY <2>1 DEF Readable
    <2>3. SUFFICES ASSUME phase' = "models" PROVE NothingPassed'
        BY <1>4, PageIsRead DEF NothingPassed
    <2>4. Readable' = ModelEvents \cup ToolEvents BY <2>1, <2>3, SameEvents DEF Readable
    <2>5. S \subseteq Readable' BY <2>1, <2>4 DEF SnapshotIsOld
    <2>6. /\ S \in SUBSET Event /\ IsFiniteSet(S)
          /\ items' \in Seq(Event) /\ ToSet(items) \subseteq ToSet(items')
          /\ \A e \in S : AheadOf(S, e, Len(items)) => e \in ToSet(items') \/ AheadOf(S, e, Len(items'))
        BY <1>4, PageIsRead
    <2>7. Readable' \in SUBSET Event /\ IsFiniteSet(Readable')
        <3>1. CommittedOK BY DEF TypeOK
        <3> QED BY <2>4, <3>1, EventsType, FS_Union DEF EventsOK, Event
    <2>8. present \subseteq S /\ \A e \in present : e \in ToSet(items) \/ AheadOf(S, e, Len(items))
        BY <2>1, <2>2 DEF NothingPassed
    <2> HIDE DEF S
    <2>9. ASSUME NEW e \in present
          PROVE  e \in ToSet(items') \/ AheadOf(Readable', e, Len(items'))
        <3>1. CASE e \in ToSet(items') BY <3>1
        <3>2. CASE e \notin ToSet(items')
            <4>1. AheadOf(S, e, Len(items')) BY <2>6, <2>8, <3>2
            <4>2. Len(items') \in Nat BY <2>6
            <4> DEFINE R == Readable'
            <4>3. R \in SUBSET Event /\ IsFiniteSet(R) /\ S \in SUBSET R /\ e \in S
                BY <2>5, <2>7, <2>8
            <4> HIDE DEF R
            <4>4. AheadOf(R, e, Len(items')) BY <4>1, <4>2, <4>3, StillAhead
            <4> QED BY <4>4 DEF R
        <3> QED BY <3>1, <3>2
    <2> QED BY <2>1, <2>5, <2>8, <2>9 DEF NothingPassed
<1>5. CASE Close BY <1>5 DEF Close, NothingPassed
<1>6. CASE UNCHANGED vars
    <2>1. Readable' = Readable BY <1>6, SameEvents DEF vars, Readable
    <2> QED BY <1>6, <2>1 DEF vars, NothingPassed
<1> QED BY <1>1, <1>2, <1>3, <1>4, <1>5, <1>6 DEF Next

\* The step that reads the last page leaves out none of the opening events,
\* unless the page says that it is cut
LEMMA LoadedIsWhole ==
    ASSUME TypeOK, RoomLeft, NothingPassed, TimelineMissesNothing, [Next]_vars
    PROVE  TimelineMissesNothing'
<1>1. CASE SelectToolCalls
    <2> DEFINE S == modelCalls \cup ToolEvents
    <2>1. phase = "tools" /\ present' = present BY <1>1 DEF SelectToolCalls
    <2>2. /\ S \in SUBSET Event /\ IsFiniteSet(S)
          /\ items' \in Seq(Event) /\ ToSet(items) \subseteq ToSet(items')
          /\ \A e \in S : AheadOf(S, e, Len(items)) => e \in ToSet(items') \/ AheadOf(S, e, Len(items'))
          /\ total' = Cardinality(S)
        BY <1>1, PageIsRead
    <2>3. present \subseteq S /\ \A e \in present : e \in ToSet(items) \/ AheadOf(S, e, Len(items))
        BY <2>1 DEF NothingPassed, Readable
    <2> HIDE DEF S
    <2> SUFFICES ASSUME ~Truncated', NEW e \in present, e \notin ToSet(items') PROVE FALSE
        BY <2>1 DEF TimelineMissesNothing
    <2>4. AheadOf(S, e, Len(items')) /\ e \in S BY <2>2, <2>3
    <2>5. StrictOrder(EventOrder, S) BY <2>2, EventsAreOrdered
    <2>6. Rank(EventOrder, S, e) \in 0 .. Cardinality(S) - 1 BY <2>2, <2>4, <2>5, RankType
    <2>7. Cardinality(S) \in Nat /\ Len(items') \in Nat BY <2>2, FS_CardinalityType
    <2> QED BY <2>2, <2>4, <2>6, <2>7 DEF AheadOf, Truncated
<1>2. CASE Open \/ SelectModelCalls \/ Close
    BY <1>2 DEF Open, SelectModelCalls, Close, TimelineMissesNothing
<1>3. CASE (\E b \in Batches : Commit(b)) \/ UNCHANGED vars
    BY <1>3 DEF Commit, vars, TimelineMissesNothing, Truncated
<1> QED BY <1>1, <1>2, <1>3 DEF Next

\* The reading of a timeline keeps its invariant, whatever imports commit
\* between the pages and between the two statements of one
THEOREM ReadsInvariant == Spec => []ReadsInv
<1>1. Init => ReadsInv
    <2> SUFFICES ASSUME Init PROVE ReadsInv OBVIOUS
    <2>1. items \in Seq(Event) /\ total \in Nat BY DEF Init
    <2>2. IsFiniteSet({}) BY FS_EmptySet
    <2> QED BY <2>1, <2>2
        DEF Init, ReadsInv, TypeOK, CommittedOK, RoomLeft, SnapshotIsOld, NothingPassed, TimelineMissesNothing
<1>2. ReadsInv /\ [Next]_vars => ReadsInv'
    BY TypeIsKept, SnapshotIsKept, NothingIsPassed, LoadedIsWhole DEF ReadsInv
<1> QED BY <1>1, <1>2, PTL DEF Spec

\* Every variable keeps its type
THEOREM TypeCorrect == Spec => []TypeOK
BY ReadsInvariant, PTL DEF ReadsInv

\* Every event a session had when its page was opened is on the page once it is
\* loaded, or the page says that it was cut (timeline of
\* query_exploration.py, sessions.queries.ts): for any number of batches, any page size and any ceiling
THEOREM TimelinesAreWhole == Spec => []TimelineMissesNothing
BY ReadsInvariant, PTL DEF ReadsInv

--------------------------------------------------------------------------------
(* Sums over finite sets. Induction is over sets of sets: no operator is a *)
(* parameter of a theorem                                                  *)

\* A set of naturals that is not empty has a least element
LEMMA LeastNat ==
    ASSUME NEW T \in SUBSET Nat, T # {}
    PROVE  \E n \in T : \A m \in T : n <= m
<1> DEFINE F == {0 .. k : k \in T}
<1> DEFINE R == StrictSubsetOrdering(Nat)
<1>1. IsWellFoundedOn(R, FiniteSubsetsOf(Nat)) BY FS_StrictSubsetOrderingWellFounded
<1>2. F \subseteq FiniteSubsetsOf(Nat)
    <2>1. ASSUME NEW k \in T PROVE 0 .. k \in FiniteSubsetsOf(Nat)
        <3>1. IsFiniteSet(0 .. k) BY FS_Interval
        <3>2. 0 .. k \in SUBSET Nat OBVIOUS
        <3> QED BY <3>1, <3>2 DEF FiniteSubsetsOf
    <2> QED BY <2>1
<1>3. F # {} OBVIOUS
<1> HIDE DEF F, R
<1>4. \E x \in F : \A y \in F : ~(<<y, x>> \in R) BY <1>1, <1>2, <1>3, WFMin
<1>5. PICK n \in T : \A y \in F : ~(<<y, 0 .. n>> \in R) BY <1>4 DEF F
<1>6. \A m \in T : n <= m
    <2> SUFFICES ASSUME NEW m \in T, m < n PROVE FALSE OBVIOUS
    <2>1. 0 .. m \in F BY DEF F
    <2>2. <<0 .. m, 0 .. n>> \in R BY SMT DEF R, StrictSubsetOrdering
    <2> QED BY <2>1, <2>2, <1>5
<1> QED BY <1>6

\* Induction over the naturals, of the set of those that hold
LEMMA NatInduct ==
    ASSUME NEW P \in SUBSET Nat, 0 \in P, \A n \in P : n + 1 \in P
    PROVE  P = Nat
<1> SUFFICES ASSUME P # Nat PROVE FALSE OBVIOUS
<1>1. Nat \ P # {} OBVIOUS
<1>2. PICK n \in Nat \ P : \A m \in Nat \ P : n <= m BY <1>1, LeastNat
<1>3. n # 0 /\ n - 1 \in Nat /\ ~(n <= n - 1) BY <1>2
<1>4. n - 1 \in P BY <1>2, <1>3
<1>5. (n - 1) + 1 = n BY <1>3
<1> QED BY <1>2, <1>4, <1>5

\* Induction over a finite set, of the set of its subsets that hold
LEMMA SetInduct ==
    ASSUME NEW S, IsFiniteSet(S), NEW P, {} \in P,
           \A T \in SUBSET S : \A x \in S \ T : T \in P => T \cup {x} \in P
    PROVE  S \in P
<1> DEFINE Q == {n \in Nat : \A T \in SUBSET S : Cardinality(T) = n => T \in P}
<1>1. 0 \in Q BY FS_EmptySet, FS_Subset
<1>2. ASSUME NEW n \in Q PROVE n + 1 \in Q
    <2> SUFFICES ASSUME NEW T \in SUBSET S, Cardinality(T) = n + 1 PROVE T \in P OBVIOUS
    <2>1. IsFiniteSet(T) BY FS_Subset
    <2>2. T # {} BY <2>1, FS_EmptySet
    <2>3. PICK x \in T : TRUE BY <2>2
    <2>4. Cardinality(T \ {x}) = n
        <3>1. n \in Nat OBVIOUS
        <3>2. Cardinality(T \ {x}) = Cardinality(T) - 1 BY <2>1, FS_RemoveElement
        <3> QED BY <3>1, <3>2
    <2>5. T \ {x} \in P BY <2>4
    <2>6. (T \ {x}) \cup {x} = T OBVIOUS
    <2> QED BY <2>5, <2>6
<1> HIDE DEF Q
<1>3. Q = Nat
    <2>1. Q \in SUBSET Nat BY DEF Q
    <2> QED BY <1>1, <1>2, <2>1, NatInduct
<1>4. Cardinality(S) \in Nat BY FS_CardinalityType
<1> QED BY <1>3, <1>4 DEF Q

\* The element that the fold of the library takes next
ItsElement(s) == CHOOSE x \in s : TRUE

\* A sum, one element taken out
Unfolded(fun, g, s) == IF s = {} THEN 0 ELSE fun[ItsElement(s)] + g[s \ {ItsElement(s)}]

\* g sums fun over every subset of S
Adds(fun, S, g) == g = [s \in SUBSET S |-> Unfolded(fun, g, s)]

\* The fold of the library is such a function, on the subsets of its set
LEMMA SumIsChosen ==
    ASSUME NEW fun, NEW S
    PROVE  SumFunctionOnSet(fun, S) = (CHOOSE g : Adds(fun, S, g))[S]
BY DEF SumFunctionOnSet, FoldFunctionOnSet, MapThenFoldSet, Adds, Unfolded, ItsElement

\* There is such a function for every finite set
LEMMA SumsExist ==
    ASSUME NEW fun, NEW S, IsFiniteSet(S)
    PROVE  \E g : Adds(fun, S, g)
<1> DEFINE UpTo(g, n) == \A s \in SUBSET S : Cardinality(s) <= n => g[s] = Unfolded(fun, g, s)
<1> DEFINE P == {n \in Nat : \E g : UpTo(g, n)}
<1>0. \A s \in SUBSET S : IsFiniteSet(s) /\ Cardinality(s) \in Nat /\ (Cardinality(s) = 0 <=> s = {})
    BY FS_Subset, FS_CardinalityType, FS_EmptySet
<1>1. 0 \in P
    <2>1. UpTo([s \in SUBSET S |-> 0], 0) BY <1>0 DEF Unfolded
    <2> QED BY <2>1
<1>2. ASSUME NEW n \in P PROVE n + 1 \in P
    <2>1. PICK g : UpTo(g, n) OBVIOUS
    <2> DEFINE h == [s \in SUBSET S |-> Unfolded(fun, g, s)]
    <2>2. ASSUME NEW s \in SUBSET S, Cardinality(s) <= n + 1 PROVE h[s] = Unfolded(fun, h, s)
        <3>1. CASE s = {} BY <3>1 DEF Unfolded
        <3>2. CASE s # {}
            <4> DEFINE r == s \ {ItsElement(s)}
            <4>1. ItsElement(s) \in s BY <3>2 DEF ItsElement
            <4>2. r \in SUBSET S /\ Cardinality(r) = Cardinality(s) - 1 BY <4>1, <1>0, FS_RemoveElement
            <4>3. Cardinality(r) <= n BY <4>2, <2>2, <1>0
            <4>4. g[r] = h[r] BY <4>2, <4>3, <2>1
            <4> QED BY <4>4, <3>2 DEF Unfolded
        <3> QED BY <3>1, <3>2
    <2>3. UpTo(h, n + 1) BY <2>2
    <2> HIDE DEF UpTo
    <2> QED BY <2>3
<1> HIDE DEF P
<1>3. P = Nat
    <2>1. P \in SUBSET Nat BY DEF P
    <2> QED BY <1>1, <1>2, <2>1, NatInduct
<1>4. Cardinality(S) \in P BY <1>3, FS_CardinalityType
<1>5. PICK g : UpTo(g, Cardinality(S)) BY <1>4 DEF P
<1> DEFINE h == [s \in SUBSET S |-> Unfolded(fun, g, s)]
<1>6. \A s \in SUBSET S : Cardinality(s) <= Cardinality(S) BY FS_Subset
<1>7. \A s \in SUBSET S : h[s] = g[s] BY <1>5, <1>6
<1>8. ASSUME NEW s \in SUBSET S PROVE Unfolded(fun, g, s) = Unfolded(fun, h, s)
    <2>1. s \ {ItsElement(s)} \in SUBSET S OBVIOUS
    <2> QED BY <1>7, <2>1 DEF Unfolded
<1>9. Adds(fun, S, h) BY <1>8 DEF Adds
<1> QED BY <1>9

\* Two of them agree where both are defined
LEMMA SumsAgree ==
    ASSUME NEW f, NEW S, IsFiniteSet(S), NEW g, Adds(f, S, g),
           NEW e, NEW T, IsFiniteSet(T), NEW h, Adds(e, T, h),
           \A x \in S \cap T : f[x] = e[x]
    PROVE  \A s \in SUBSET (S \cap T) : g[s] = h[s]
<1> DEFINE P == {n \in Nat : \A s \in SUBSET (S \cap T) : Cardinality(s) = n => g[s] = h[s]}
<1>0. \A s \in SUBSET (S \cap T) : IsFiniteSet(s) /\ Cardinality(s) \in Nat /\ (Cardinality(s) = 0 <=> s = {})
    BY FS_Subset, FS_CardinalityType, FS_EmptySet
<1>1. \A s \in SUBSET (S \cap T) : g[s] = Unfolded(f, g, s) /\ h[s] = Unfolded(e, h, s)
    BY DEF Adds
<1>2. 0 \in P BY <1>0, <1>1 DEF Unfolded
<1>3. ASSUME NEW n \in P PROVE n + 1 \in P
    <2> SUFFICES ASSUME NEW s \in SUBSET (S \cap T), Cardinality(s) = n + 1 PROVE g[s] = h[s] OBVIOUS
    <2> DEFINE r == s \ {ItsElement(s)}
    <2>1. s # {} BY <1>0
    <2>2. ItsElement(s) \in s BY <2>1 DEF ItsElement
    <2>3. r \in SUBSET (S \cap T) /\ Cardinality(r) = n BY SMTT(30), <2>2, <1>0, FS_RemoveElement
    <2>4. g[r] = h[r] BY <2>3
    <2>5. f[ItsElement(s)] = e[ItsElement(s)] BY <2>2
    <2> QED BY <1>1, <2>1, <2>4, <2>5 DEF Unfolded
<1> HIDE DEF P
<1>4. P = Nat
    <2>1. P \in SUBSET Nat BY DEF P
    <2> QED BY <1>2, <1>3, <2>1, NatInduct
<1> QED BY <1>0, <1>4 DEF P

\* The empty sum is 0
LEMMA SumEmpty ==
    ASSUME NEW f
    PROVE  SumFunctionOnSet(f, {}) = 0
<1>1. \E g : Adds(f, {}, g) BY SumsExist, FS_EmptySet
<1> QED BY <1>1, SumIsChosen DEF Adds, Unfolded

\* A sum depends on nothing but the values of its set
LEMMA SumCongruent ==
    ASSUME NEW f, NEW e, NEW S, IsFiniteSet(S), \A x \in S : f[x] = e[x]
    PROVE  SumFunctionOnSet(f, S) = SumFunctionOnSet(e, S)
<1>1. PICK g : Adds(f, S, g) /\ SumFunctionOnSet(f, S) = g[S] BY SumsExist, SumIsChosen
<1>2. PICK h : Adds(e, S, h) /\ SumFunctionOnSet(e, S) = h[S] BY SumsExist, SumIsChosen
<1>3. g[S] = h[S] BY <1>1, <1>2, SumsAgree
<1> QED BY <1>1, <1>2, <1>3

\* The sum of a set that is not empty takes one element of it out
LEMMA SumOfSome ==
    ASSUME NEW f, NEW S, IsFiniteSet(S), S # {}
    PROVE  \E i \in S : SumFunctionOnSet(f, S) = f[i] + SumFunctionOnSet(f, S \ {i})
<1> DEFINE i == ItsElement(S)
<1> DEFINE T == S \ {i}
<1>1. PICK g : Adds(f, S, g) /\ SumFunctionOnSet(f, S) = g[S] BY SumsExist, SumIsChosen
<1>2. IsFiniteSet(T) BY FS_Subset
<1>3. PICK h : Adds(f, T, h) /\ SumFunctionOnSet(f, T) = h[T] BY <1>2, SumsExist, SumIsChosen
<1>4. g[T] = h[T]
    <2>1. T \in SUBSET (S \cap T) OBVIOUS
    <2> HIDE DEF T
    <2> QED BY <1>1, <1>2, <1>3, <2>1, SumsAgree
<1>5. g[S] = f[i] + g[T] BY <1>1 DEF Adds, Unfolded
<1>6. i \in S BY DEF ItsElement
<1> QED BY <1>1, <1>3, <1>4, <1>5, <1>6

\* A sum of integers is an integer, and of naturals a natural
LEMMA SumType ==
    ASSUME NEW f, NEW S, IsFiniteSet(S), NEW N, 0 \in N, \A a, b \in N : a + b \in N,
           \A x \in S : f[x] \in N
    PROVE  SumFunctionOnSet(f, S) \in N
<1> DEFINE P == {n \in Nat : \A T \in SUBSET S : Cardinality(T) = n => SumFunctionOnSet(f, T) \in N}
<1>0. \A T \in SUBSET S : IsFiniteSet(T) /\ Cardinality(T) \in Nat /\ (Cardinality(T) = 0 <=> T = {})
    BY FS_Subset, FS_CardinalityType, FS_EmptySet
<1>1. 0 \in P BY <1>0, SumEmpty
<1>2. ASSUME NEW n \in P PROVE n + 1 \in P
    <2> SUFFICES ASSUME NEW T \in SUBSET S, Cardinality(T) = n + 1
                 PROVE  SumFunctionOnSet(f, T) \in N
        OBVIOUS
    <2>1. PICK i \in T : SumFunctionOnSet(f, T) = f[i] + SumFunctionOnSet(f, T \ {i})
        BY <1>0, SumOfSome
    <2>2. T \ {i} \in SUBSET S /\ Cardinality(T \ {i}) = n BY <1>0, FS_RemoveElement
    <2>3. SumFunctionOnSet(f, T \ {i}) \in N BY <2>2
    <2>4. f[i] \in N OBVIOUS
    <2> QED BY <2>1, <2>3, <2>4
<1> HIDE DEF P
<1>3. P = Nat
    <2>1. P \in SUBSET Nat BY DEF P
    <2> QED BY <1>1, <1>2, <2>1, NatInduct
<1> QED BY <1>0, <1>3 DEF P

\* A sum of integers is an integer
LEMMA SumIsInt ==
    ASSUME NEW f, NEW S, IsFiniteSet(S), \A x \in S : f[x] \in Int
    PROVE  SumFunctionOnSet(f, S) \in Int
<1>1. 0 \in Int /\ \A a, b \in Int : a + b \in Int OBVIOUS
<1> QED BY <1>1, SumType

\* A sum of naturals is a natural
LEMMA SumIsNat ==
    ASSUME NEW f, NEW S, IsFiniteSet(S), \A x \in S : f[x] \in Nat
    PROVE  SumFunctionOnSet(f, S) \in Nat
<1>1. 0 \in Nat /\ \A a, b \in Nat : a + b \in Nat OBVIOUS
<1> QED BY <1>1, SumType

\* Any element may be the one that is taken out: the order does not matter
LEMMA SumRemove ==
    ASSUME NEW f, NEW S, IsFiniteSet(S), \A x \in S : f[x] \in Int, NEW x \in S
    PROVE  SumFunctionOnSet(f, S) = f[x] + SumFunctionOnSet(f, S \ {x})
<1> DEFINE P == {n \in Nat : \A T \in SUBSET S : Cardinality(T) = n =>
                    \A y \in T : SumFunctionOnSet(f, T) = f[y] + SumFunctionOnSet(f, T \ {y})}
<1>0. \A T \in SUBSET S : IsFiniteSet(T) /\ Cardinality(T) \in Nat /\ (Cardinality(T) = 0 <=> T = {})
    BY FS_Subset, FS_CardinalityType, FS_EmptySet
<1>1. 0 \in P BY <1>0
<1>2. ASSUME NEW n \in P PROVE n + 1 \in P
    <2> SUFFICES ASSUME NEW T \in SUBSET S, Cardinality(T) = n + 1, NEW y \in T
                 PROVE  SumFunctionOnSet(f, T) = f[y] + SumFunctionOnSet(f, T \ {y})
        OBVIOUS
    <2>1. PICK i \in T : SumFunctionOnSet(f, T) = f[i] + SumFunctionOnSet(f, T \ {i})
        BY <1>0, SumOfSome
    <2>2. CASE i = y BY <2>1, <2>2
    <2>3. CASE i # y
        <3>1. T \ {i} \in SUBSET S /\ T \ {y} \in SUBSET S OBVIOUS
        <3>2. Cardinality(T \ {i}) = n /\ Cardinality(T \ {y}) = n BY SMTT(30), <1>0, FS_RemoveElement
        <3>3. y \in T \ {i} /\ i \in T \ {y} BY <2>3
        <3>4. SumFunctionOnSet(f, T \ {i}) = f[y] + SumFunctionOnSet(f, (T \ {i}) \ {y})
            BY <3>1, <3>2, <3>3
        <3>5. SumFunctionOnSet(f, T \ {y}) = f[i] + SumFunctionOnSet(f, (T \ {y}) \ {i})
            BY <3>1, <3>2, <3>3
        <3> DEFINE R == (T \ {y}) \ {i}
        <3>6. (T \ {i}) \ {y} = R OBVIOUS
        <3>7. SumFunctionOnSet(f, R) \in Int
            <4>1. R \in SUBSET S OBVIOUS
            <4>2. IsFiniteSet(R) /\ \A z \in R : f[z] \in Int BY <4>1, <1>0
            <4> HIDE DEF R
            <4> QED BY <4>2, SumIsInt
        <3>8. f[i] \in Int /\ f[y] \in Int OBVIOUS
        <3> HIDE DEF R
        <3>9. SumFunctionOnSet(f, T) = f[i] + (f[y] + SumFunctionOnSet(f, R)) BY <2>1, <3>4, <3>6
        <3>10. SumFunctionOnSet(f, T \ {y}) = f[i] + SumFunctionOnSet(f, R) BY <3>5 DEF R
        <3>11. f[i] + (f[y] + SumFunctionOnSet(f, R)) = f[y] + (f[i] + SumFunctionOnSet(f, R))
            BY <3>7, <3>8
        <3> QED BY <3>9, <3>10, <3>11
    <2> QED BY <2>2, <2>3
<1> HIDE DEF P
<1>3. P = Nat
    <2>1. P \in SUBSET Nat BY DEF P
    <2> QED BY <1>1, <1>2, <2>1, NatInduct
<1> QED BY <1>0, <1>3 DEF P

\* A sum with one element more
LEMMA SumAdd ==
    ASSUME NEW f, NEW S, IsFiniteSet(S), NEW x, x \notin S, \A y \in S \cup {x} : f[y] \in Int
    PROVE  SumFunctionOnSet(f, S \cup {x}) = f[x] + SumFunctionOnSet(f, S)
<1>1. IsFiniteSet(S \cup {x}) BY FS_AddElement
<1>2. (S \cup {x}) \ {x} = S OBVIOUS
<1> QED BY <1>1, <1>2, SumRemove

\* Counting is summing ones
LEMMA SumOfOnes ==
    ASSUME NEW f, NEW S, IsFiniteSet(S), \A x \in S : f[x] = 1
    PROVE  SumFunctionOnSet(f, S) = Cardinality(S)
<1> DEFINE P == {T \in SUBSET S : SumFunctionOnSet(f, T) = Cardinality(T)}
<1>1. {} \in P BY SumEmpty, FS_EmptySet
<1>2. ASSUME NEW T \in SUBSET S, NEW x \in S \ T, T \in P PROVE T \cup {x} \in P
    <2>1. IsFiniteSet(T) /\ T \cup {x} \in SUBSET S BY FS_Subset
    <2>2. SumFunctionOnSet(f, T \cup {x}) = f[x] + SumFunctionOnSet(f, T) BY <2>1, SumAdd
    <2>3. Cardinality(T \cup {x}) = Cardinality(T) + 1 BY <2>1, FS_AddElement
    <2>4. Cardinality(T) \in Nat BY <2>1, FS_CardinalityType
    <2>5. SumFunctionOnSet(f, T) = Cardinality(T) BY <1>2
    <2>6. f[x] = 1 OBVIOUS
    <2> QED BY <2>1, <2>2, <2>3, <2>4, <2>5, <2>6
<1> HIDE DEF P
<1>3. S \in P BY <1>1, <1>2, SetInduct
<1> QED BY <1>3 DEF P

\* The sum over two disjoint sets is the sum of the two
LEMMA SumOfDisjoint ==
    ASSUME NEW f, NEW A, IsFiniteSet(A), \A x \in A : f[x] \in Int,
           NEW S \in SUBSET A, NEW R \in SUBSET A, S \cap R = {}
    PROVE  SumFunctionOnSet(f, S \cup R) = SumFunctionOnSet(f, S) + SumFunctionOnSet(f, R)
<1> DEFINE P == {T \in SUBSET R : SumFunctionOnSet(f, S \cup T)
                                    = SumFunctionOnSet(f, S) + SumFunctionOnSet(f, T)}
<1>0. ASSUME NEW T \in SUBSET A
      PROVE  IsFiniteSet(T) /\ SumFunctionOnSet(f, T) \in Int /\ \A x \in T : f[x] \in Int
    <2>1. IsFiniteSet(T) BY FS_Subset
    <2>2. \A x \in T : f[x] \in Int OBVIOUS
    <2> QED BY <2>1, <2>2, SumIsInt
<1>1. {} \in P
    <2>1. S \cup {} = S OBVIOUS
    <2> QED BY <2>1, <1>0, SumEmpty
<1>2. ASSUME NEW T \in SUBSET R, NEW x \in R \ T, T \in P PROVE T \cup {x} \in P
    <2> DEFINE U == S \cup T
    <2>1. /\ U \in SUBSET A /\ T \in SUBSET A /\ U \cup {x} \in SUBSET A /\ T \cup {x} \in SUBSET A
          /\ x \notin U /\ x \notin T /\ x \in A
        OBVIOUS
    <2>2. S \cup (T \cup {x}) = U \cup {x} OBVIOUS
    <2>3. SumFunctionOnSet(f, U) = SumFunctionOnSet(f, S) + SumFunctionOnSet(f, T) BY <1>2
    <2> HIDE DEF U
    <2>4. SumFunctionOnSet(f, U \cup {x}) = f[x] + SumFunctionOnSet(f, U)
        BY <2>1, <1>0, SumAdd
    <2>5. SumFunctionOnSet(f, T \cup {x}) = f[x] + SumFunctionOnSet(f, T)
        BY <2>1, <1>0, SumAdd
    <2>6. /\ f[x] \in Int /\ SumFunctionOnSet(f, S) \in Int /\ SumFunctionOnSet(f, T) \in Int
        BY <2>1, <1>0
    <2>7. SumFunctionOnSet(f, U \cup {x})
            = SumFunctionOnSet(f, S) + SumFunctionOnSet(f, T \cup {x})
        BY <2>3, <2>4, <2>5, <2>6
    <2> QED BY <2>2, <2>7
<1> HIDE DEF P
<1>3. IsFiniteSet(R) BY <1>0
<1>4. R \in P BY <1>1, <1>2, <1>3, SetInduct
<1> QED BY <1>4 DEF P

\* The elements of A that are at q
Fibre(A, at, q) == {x \in A : at[x] = q}

\* The elements of A that are somewhere in T
Over(A, at, T) == {x \in A : at[x] \in T}

\* The sum over groups of their sums is the sum over the elements
LEMMA SumOfFibres ==
    ASSUME NEW A, IsFiniteSet(A), NEW Q, IsFiniteSet(Q), NEW at, NEW w, NEW v,
           \A x \in A : w[x] \in Int,
           \A q \in Q : v[q] = SumFunctionOnSet(w, Fibre(A, at, q))
    PROVE  SumFunctionOnSet(v, Q) = SumFunctionOnSet(w, Over(A, at, Q))
<1> DEFINE P == {T \in SUBSET Q : SumFunctionOnSet(v, T) = SumFunctionOnSet(w, Over(A, at, T))}
<1>0. ASSUME NEW T \in SUBSET A PROVE IsFiniteSet(T) /\ SumFunctionOnSet(w, T) \in Int
    <2>1. IsFiniteSet(T) BY FS_Subset
    <2>2. \A x \in T : w[x] \in Int OBVIOUS
    <2> QED BY <2>1, <2>2, SumIsInt
<1>1. {} \in P
    <2>1. Over(A, at, {}) = {} BY DEF Over
    <2> QED BY <2>1, SumEmpty
<1>2. ASSUME NEW T \in SUBSET Q, NEW q \in Q \ T, T \in P PROVE T \cup {q} \in P
    <2>1. IsFiniteSet(T) /\ T \cup {q} \in SUBSET Q BY FS_Subset
    <2>2. \A r \in Q : v[r] \in Int
        <3> SUFFICES ASSUME NEW r \in Q PROVE v[r] \in Int OBVIOUS
        <3>1. Fibre(A, at, r) \in SUBSET A BY DEF Fibre
        <3>2. v[r] = SumFunctionOnSet(w, Fibre(A, at, r)) OBVIOUS
        <3> QED BY <3>1, <3>2, <1>0
    <2>3. SumFunctionOnSet(v, T \cup {q}) = v[q] + SumFunctionOnSet(v, T) BY <2>1, <2>2, SumAdd
    <2>4. v[q] = SumFunctionOnSet(w, Fibre(A, at, q)) OBVIOUS
    <2>5. SumFunctionOnSet(v, T) = SumFunctionOnSet(w, Over(A, at, T)) BY <1>2
    <2>6. /\ Over(A, at, T \cup {q}) = Over(A, at, T) \cup Fibre(A, at, q)
          /\ Over(A, at, T) \cap Fibre(A, at, q) = {}
        BY DEF Over, Fibre
    <2>7. Over(A, at, T) \in SUBSET A /\ Fibre(A, at, q) \in SUBSET A BY DEF Over, Fibre
    <2>8. SumFunctionOnSet(w, Over(A, at, T) \cup Fibre(A, at, q))
            = SumFunctionOnSet(w, Over(A, at, T)) + SumFunctionOnSet(w, Fibre(A, at, q))
        BY <2>6, <2>7, SumOfDisjoint
    <2>9. SumFunctionOnSet(w, Over(A, at, T)) \in Int /\ SumFunctionOnSet(w, Fibre(A, at, q)) \in Int
        BY <2>7, <1>0
    <2>10. SumFunctionOnSet(w, Over(A, at, T \cup {q}))
            = SumFunctionOnSet(w, Over(A, at, T)) + SumFunctionOnSet(w, Fibre(A, at, q))
        BY <2>6, <2>8
    <2>11. SumFunctionOnSet(v, T \cup {q})
            = SumFunctionOnSet(w, Fibre(A, at, q)) + SumFunctionOnSet(w, Over(A, at, T))
        BY <2>3, <2>4, <2>5
    <2>12. SumFunctionOnSet(v, T \cup {q}) = SumFunctionOnSet(w, Over(A, at, T \cup {q}))
        BY <2>9, <2>10, <2>11
    <2> QED BY <2>1, <2>12
<1> HIDE DEF P
<1>3. Q \in P BY <1>1, <1>2, SetInduct
<1> QED BY <1>3 DEF P

\* Smaller values make a smaller sum
LEMMA SumAtMost ==
    ASSUME NEW f, NEW e, NEW S, IsFiniteSet(S),
           \A x \in S : f[x] \in Int /\ e[x] \in Int /\ f[x] <= e[x]
    PROVE  SumFunctionOnSet(f, S) <= SumFunctionOnSet(e, S)
<1> DEFINE P == {T \in SUBSET S : SumFunctionOnSet(f, T) <= SumFunctionOnSet(e, T)}
<1>1. {} \in P BY SumEmpty
<1>2. ASSUME NEW T \in SUBSET S, NEW x \in S \ T, T \in P PROVE T \cup {x} \in P
    <2>1. IsFiniteSet(T) /\ T \cup {x} \in SUBSET S BY FS_Subset
    <2>2. SumFunctionOnSet(f, T \cup {x}) = f[x] + SumFunctionOnSet(f, T) BY <2>1, SumAdd
    <2>3. SumFunctionOnSet(e, T \cup {x}) = e[x] + SumFunctionOnSet(e, T) BY <2>1, SumAdd
    <2>4. SumFunctionOnSet(f, T) \in Int /\ SumFunctionOnSet(e, T) \in Int BY <2>1, SumIsInt
    <2>5. f[x] \in Int /\ e[x] \in Int /\ f[x] <= e[x] OBVIOUS
    <2>6. SumFunctionOnSet(f, T) <= SumFunctionOnSet(e, T) BY <1>2
    <2> QED BY <2>1, <2>2, <2>3, <2>4, <2>5, <2>6
<1> HIDE DEF P
<1>3. S \in P BY <1>1, <1>2, SetInduct
<1> QED BY <1>3 DEF P

\* Naturals that sum to 0 are all 0
LEMMA SumIsZero ==
    ASSUME NEW f, NEW S, IsFiniteSet(S), \A x \in S : f[x] \in Nat,
           SumFunctionOnSet(f, S) = 0, NEW x \in S
    PROVE  f[x] = 0
<1>1. SumFunctionOnSet(f, S) = f[x] + SumFunctionOnSet(f, S \ {x}) BY SumRemove
<1>2. IsFiniteSet(S \ {x}) BY FS_Subset
<1>3. SumFunctionOnSet(f, S \ {x}) \in Nat BY <1>2, SumIsNat
<1>4. f[x] \in Nat OBVIOUS
<1> QED BY <1>1, <1>3, <1>4

--------------------------------------------------------------------------------
(* What is unknown, and what is counted *)

\* count(column) is at most the number of rows, and 0 when nothing is known
LEMMA PresentType ==
    ASSUME NEW rows, NEW ids, IsFiniteSet(ids), NEW column
    PROVE  /\ IsFiniteSet(ids \cap Known(rows, column))
           /\ Present(rows, ids, column) \in Nat
           /\ Present(rows, ids, column) <= Cardinality(ids)
           /\ Present(rows, ids, column) = 0 <=> ids \cap Known(rows, column) = {}
<1> DEFINE K == ids \cap Known(rows, column)
<1>1. K \in SUBSET ids OBVIOUS
<1> HIDE DEF K
<1>2. IsFiniteSet(K) /\ Cardinality(K) <= Cardinality(ids) BY <1>1, FS_Subset
<1>3. Cardinality(K) \in Nat /\ (Cardinality(K) = 0 <=> K = {}) BY <1>2, FS_CardinalityType, FS_EmptySet
<1> QED BY <1>2, <1>3 DEF K, Present

\* Nothing contributed: sum(column) is null
LEMMA NothingKnown ==
    ASSUME NEW rows, NEW ids, IsFiniteSet(ids), NEW column, Present(rows, ids, column) = 0
    PROVE  SumOf(rows, ids, column) = Null
BY PresentType DEF SumOf

\* sum(column) is null when nothing contributed, and only then
LEMMA SomethingKnown ==
    ASSUME NEW rows, NEW ids, IsFiniteSet(ids), NEW column,
           \A row \in ids : row \in DOMAIN rows /\ rows[row][column] \in OrNull(Int)
    PROVE  SumOf(rows, ids, column) = Null <=> Present(rows, ids, column) = 0
<1> DEFINE K == ids \cap Known(rows, column)
<1> DEFINE f == [row \in K |-> rows[row][column]]
<1>1. CASE K = {} BY <1>1, PresentType DEF SumOf
<1>2. CASE K # {}
    <2>1. IsFiniteSet(K) BY PresentType
    <2>2. \A row \in K : f[row] \in Int BY DEF Known, OrNull
    <2>3. SumOf(rows, ids, column) = SumFunction(f) BY <1>2 DEF SumOf
    <2>4. DOMAIN f = K OBVIOUS
    <2> HIDE DEF K, f
    <2>5. SumFunction(f) = SumFunctionOnSet(f, K) BY <2>4 DEF SumFunction, FoldFunction, SumFunctionOnSet
    <2>6. SumOf(rows, ids, column) # Null BY <2>1, <2>2, <2>3, <2>5, SumIsInt, RowsAssumption
    <2> QED BY <1>2, <2>6, PresentType DEF K
<1> QED BY <1>1, <1>2

\* The calls of a session are finitely many rows of their tables
CallsOK ==
    \A s \in Sessions :
        /\ ModelCallsOf(s) \in SUBSET DOMAIN ModelCallRow /\ IsFiniteSet(ModelCallsOf(s))
        /\ ToolCallsOf(s) \in SUBSET DOMAIN ToolCallRow /\ IsFiniteSet(ToolCallsOf(s))

\* They are, in every state the imports reach
LEMMA CallsType ==
    ASSUME CommittedOK
    PROVE  CallsOK
<1> SUFFICES ASSUME NEW s \in Sessions
             PROVE  /\ ModelCallsOf(s) \in SUBSET DOMAIN ModelCallRow /\ IsFiniteSet(ModelCallsOf(s))
                    /\ ToolCallsOf(s) \in SUBSET DOMAIN ToolCallRow /\ IsFiniteSet(ToolCallsOf(s))
    BY DEF CallsOK
<1>1. ModelCallsOf(s) \in SUBSET ModelCalls /\ ToolCallsOf(s) \in SUBSET ToolCalls
    BY DEF ModelCallsOf, ToolCallsOf
<1>2. IsFiniteSet(ModelCallsOf(s)) /\ IsFiniteSet(ToolCallsOf(s)) BY <1>1, RowsType, FS_Subset
<1> QED BY <1>1, <1>2, RowsType

\* The calls of a known status are some of the calls
LEMMA StatusCounts ==
    ASSUME NEW calls, IsFiniteSet(calls)
    PROVE  /\ Cardinality(calls) \in Nat /\ Cardinality(Failed(calls)) \in Nat
           /\ Cardinality(StatusKnown(calls)) \in Nat
           /\ Cardinality(StatusKnown(calls)) <= Cardinality(calls)
<1>1. StatusKnown(calls) \in SUBSET calls /\ Failed(calls) \in SUBSET calls
    BY DEF StatusKnown, Failed, WithStatus
<1>2. IsFiniteSet(StatusKnown(calls)) /\ IsFiniteSet(Failed(calls))
      /\ Cardinality(StatusKnown(calls)) <= Cardinality(calls)
    BY <1>1, FS_Subset
<1> QED BY <1>2, FS_CardinalityType

\* What the row of v_session_metrics says of one session
MetricsOK(row) ==
    /\ row.model_call_count \in Nat /\ row.token_records_present \in Nat
    /\ row.token_records_present <= row.model_call_count
    /\ row.input_tokens = Null <=> row.token_records_present = 0
    /\ row.input_tokens = Null => row.all_tokens = Null
    /\ row.tool_call_count \in Nat /\ row.tool_error_count \in Nat
    /\ row.tool_status_known_count \in Nat
    /\ row.tool_status_known_count <= row.tool_call_count

\* Every row of the view says so
LEMMA MetricsType ==
    ASSUME CommittedOK, NEW s \in Sessions
    PROVE  MetricsOK(SessionMetrics[s])
<1> DEFINE row == SessionMetrics[s]
<1>1. /\ row.model_call_count = Cardinality(ModelCallsOf(s))
      /\ row.input_tokens = InputTokens(s)
      /\ row.all_tokens = (IF Null \in {InputTokens(s), OutputTokens(s)} THEN Null
                           ELSE InputTokens(s) + OutputTokens(s))
      /\ row.token_records_present = Present(ModelCallRow, ModelCallsOf(s), "input_tokens")
      /\ row.tool_call_count = Cardinality(ToolCallsOf(s))
      /\ row.tool_error_count = Cardinality(Failed(ToolCallsOf(s)))
      /\ row.tool_status_known_count = Cardinality(StatusKnown(ToolCallsOf(s)))
    BY DEF SessionMetrics
<1>2. /\ ModelCallsOf(s) \in SUBSET DOMAIN ModelCallRow /\ IsFiniteSet(ModelCallsOf(s))
      /\ IsFiniteSet(ToolCallsOf(s))
    BY CallsType DEF CallsOK
<1>3. \A c \in ModelCallsOf(s) :
        c \in DOMAIN ModelCallRow /\ ModelCallRow[c]["input_tokens"] \in OrNull(Int)
    BY <1>2, RowsAssumption
<1>4. InputTokens(s) = Null <=> Present(ModelCallRow, ModelCallsOf(s), "input_tokens") = 0
    BY <1>2, <1>3, SomethingKnown DEF InputTokens
<1>5. Cardinality(ModelCallsOf(s)) \in Nat BY <1>2, FS_CardinalityType
<1> HIDE DEF row
<1>6. /\ row.model_call_count \in Nat /\ row.token_records_present \in Nat
      /\ row.token_records_present <= row.model_call_count
    BY <1>1, <1>2, <1>5, PresentType
<1>7. /\ row.tool_call_count \in Nat /\ row.tool_error_count \in Nat
      /\ row.tool_status_known_count \in Nat
      /\ row.tool_status_known_count <= row.tool_call_count
    BY <1>1, <1>2, StatusCounts
<1> QED BY <1>1, <1>4, <1>6, <1>7 DEF MetricsOK, row

\* The sessions in scope are finitely many sessions
LEMMA ScopeType ==
    ASSUME CommittedOK, NEW f
    PROVE  InScope(f) \in SUBSET Sessions /\ IsFiniteSet(InScope(f))
           /\ Cardinality(InScope(f)) \in Nat
<1>1. InScope(f) \in SUBSET Sessions BY DEF InScope
<1>2. IsFiniteSet(InScope(f)) BY <1>1, RowsType, FS_Subset
<1> QED BY <1>1, <1>2, FS_CardinalityType

\* coalesce(sum(column), 0) is the sum of the column
LEMMA CountsAreSums ==
    ASSUME NEW ids, NEW view, NEW column
    PROVE  LET f == [s \in ids |-> view[s][column]]
           IN  CountsOf(view, ids, column) = SumFunctionOnSet(f, ids)
<1> DEFINE f == [s \in ids |-> view[s][column]]
<1>1. CountsOf(view, ids, column) = SumFunction(f) /\ DOMAIN f = ids BY DEF CountsOf
<1> HIDE DEF f
<1>2. SumFunction(f) = SumFunctionOnSet(f, ids) BY <1>1 DEF SumFunction, FoldFunction, SumFunctionOnSet
<1> QED BY <1>1, <1>2 DEF f

\* The sum of a part is at most that of the whole, and 0 when each part is
LEMMA CountsCompare ==
    ASSUME NEW ids, IsFiniteSet(ids), NEW view, NEW column, NEW whole,
           \A s \in ids : /\ view[s][column] \in Nat /\ view[s][whole] \in Nat
                          /\ view[s][column] <= view[s][whole]
    PROVE  /\ CountsOf(view, ids, column) \in Nat
           /\ CountsOf(view, ids, column) <= CountsOf(view, ids, whole)
           /\ CountsOf(view, ids, column) = 0 => \A s \in ids : view[s][column] = 0
<1> DEFINE f == [s \in ids |-> view[s][column]]
<1> DEFINE g == [s \in ids |-> view[s][whole]]
<1>1. /\ CountsOf(view, ids, column) = SumFunctionOnSet(f, ids)
      /\ CountsOf(view, ids, whole) = SumFunctionOnSet(g, ids)
    BY CountsAreSums
<1>2. \A s \in ids : f[s] = view[s][column] /\ f[s] \in Nat /\ g[s] \in Nat /\ f[s] <= g[s] OBVIOUS
<1> HIDE DEF f, g
<1>3. SumFunctionOnSet(f, ids) \in Nat BY <1>2, SumIsNat
<1>4. SumFunctionOnSet(f, ids) <= SumFunctionOnSet(g, ids)
    <2>1. \A s \in ids : f[s] \in Int /\ g[s] \in Int /\ f[s] <= g[s] BY <1>2
    <2> QED BY <2>1, SumAtMost
<1>5. SumFunctionOnSet(f, ids) = 0 => \A s \in ids : f[s] = 0 BY <1>2, SumIsZero
<1> QED BY <1>1, <1>2, <1>3, <1>4, <1>5

\* No indicator is a zero that nobody measured (query_dashboard.py)
LEMMA IndicatorsOfOverview ==
    ASSUME CommittedOK, NEW f
    PROVE  IndicatorsAreHonest(Indicators(Overview(f)))
<1> DEFINE scope == InScope(f)
<1> DEFINE view == SessionMetrics
<1> DEFINE totals == Overview(f)
<1>1. scope \in SUBSET Sessions /\ IsFiniteSet(scope) /\ Cardinality(scope) \in Nat BY ScopeType
<1>2. DOMAIN view = Sessions BY DEF SessionMetrics
<1>3. \A s \in scope : MetricsOK(view[s]) BY <1>1, MetricsType
<1>4. /\ totals.session_count = Cardinality(scope)
      /\ totals.token_sessions = Cardinality({s \in scope : view[s].token_records_present > 0})
      /\ totals.avg_tokens_per_session = Average(view, scope, "all_tokens")
      /\ totals.avg_session_duration_ms = Average(SessionRow, scope, "duration")
      /\ totals.duration_present = Present(SessionRow, scope, "duration")
      /\ totals.tool_call_count = CountsOf(view, scope, "tool_call_count")
      /\ totals.tool_error_count = CountsOf(view, scope, "tool_error_count")
      /\ totals.tool_status_known_count = CountsOf(view, scope, "tool_status_known_count")
    BY DEF Overview, Totals
<1> HIDE DEF scope, view, totals
<1>5. UnknownIsNotZero(totals.avg_tokens_per_session, Coverage(totals.token_sessions, totals.session_count))
    <2> DEFINE counted == {s \in scope : view[s].token_records_present > 0}
    <2>1. counted \in SUBSET scope OBVIOUS
    <2>2. \A s \in scope : s \notin counted => view[s]["all_tokens"] = Null
        BY <1>3 DEF MetricsOK
    <2> HIDE DEF counted
    <2>3. IsFiniteSet(counted) /\ Cardinality(counted) <= Cardinality(scope) BY <1>1, <2>1, FS_Subset
    <2>4. ASSUME Cardinality(counted) = 0 PROVE Average(view, scope, "all_tokens") = Null
        <3>1. counted = {} BY <2>3, <2>4, FS_EmptySet
        <3>2. scope \cap Known(view, "all_tokens") = {} BY <2>2, <3>1 DEF Known
        <3>3. Present(view, scope, "all_tokens") = 0 BY <1>1, <3>2, PresentType
        <3> QED BY <3>3 DEF Average, Fraction
    <2> QED BY <1>4, <2>3, <2>4 DEF UnknownIsNotZero, Coverage, counted
<1>6. /\ UnknownIsNotZero(totals.avg_session_duration_ms,
                          Coverage(totals.duration_present, totals.session_count))
      /\ totals.avg_session_duration_ms # Null =>
            totals.avg_session_duration_ms.denominator = totals.duration_present
    <2> DEFINE known == Present(SessionRow, scope, "duration")
    <2>1. known \in Nat /\ known <= Cardinality(scope) BY <1>1, PresentType
    <2>2. Average(SessionRow, scope, "duration")
            = Fraction(SumOf(SessionRow, scope, "duration"), known)
        BY DEF Average
    <2> HIDE DEF known
    <2> QED BY <1>4, <2>1, <2>2 DEF UnknownIsNotZero, Coverage, Fraction, known
<1>7. UnknownIsNotZero(Fraction(totals.tool_error_count, totals.tool_status_known_count),
                       Coverage(totals.tool_status_known_count, totals.tool_call_count))
    <2>1. \A s \in scope : /\ view[s]["tool_status_known_count"] \in Nat
                           /\ view[s]["tool_call_count"] \in Nat
                           /\ view[s]["tool_status_known_count"] <= view[s]["tool_call_count"]
        BY <1>3 DEF MetricsOK
    <2>2. CountsOf(view, scope, "tool_status_known_count") <= CountsOf(view, scope, "tool_call_count")
        BY <1>1, <2>1, CountsCompare
    <2> QED BY <1>4, <2>2 DEF UnknownIsNotZero, Coverage, Fraction
<1>8. Fraction(totals.tool_error_count, totals.tool_status_known_count) # Null =>
        Fraction(totals.tool_error_count, totals.tool_status_known_count).denominator
            = totals.tool_status_known_count
    BY DEF Fraction
<1> DEFINE shown == Indicators(totals)
<1>9. /\ DOMAIN shown = {"session_count", "avg_tokens_per_session", "avg_session_duration_ms",
                          "tool_error_rate"}
      /\ shown["avg_tokens_per_session"] = Indicator(totals.avg_tokens_per_session,
                                                   totals.token_sessions, totals.session_count)
      /\ shown["avg_session_duration_ms"] = Indicator(totals.avg_session_duration_ms,
                                                    totals.duration_present, totals.session_count)
      /\ shown["tool_error_rate"] =
            Indicator(Fraction(totals.tool_error_count, totals.tool_status_known_count),
                      totals.tool_status_known_count, totals.tool_call_count)
    BY DEF Indicators
<1> HIDE DEF shown
<1>10. \A value, contributing, all :
            /\ Indicator(value, contributing, all).value = value
            /\ Indicator(value, contributing, all).coverage = Coverage(contributing, all)
            /\ Indicator(value, contributing, all).coverage.present = contributing
    BY DEF Indicator, Coverage
<1>11. \A key \in DOMAIN shown \ {"session_count"} :
            UnknownIsNotZero(shown[key].value, shown[key].coverage)
    BY <1>5, <1>6, <1>7, <1>9, <1>10
<1>12. OverWhatIsKnown(shown["avg_session_duration_ms"]) /\ OverWhatIsKnown(shown["tool_error_rate"])
    BY <1>6, <1>8, <1>9, <1>10 DEF OverWhatIsKnown
<1>13. IndicatorsAreHonest(shown) BY <1>11, <1>12 DEF IndicatorsAreHonest
<1> QED BY <1>13 DEF shown, totals

\* Nor are the tokens of a day
LEMMA ActivityIsHonest ==
    ASSUME CommittedOK, NEW f, NEW p \in ActivityPoints(f)
    PROVE  UnknownIsNotZero(p.input_tokens, p.coverage)
<1> DEFINE view == SessionMetrics
<1> DEFINE dated == {s \in InScope(f) : Dated(s)}
<1>1. PICK group \in {DayAndSource(s) : s \in dated} :
        p = ActivityPoint({s \in dated : DayAndSource(s) = group}, group[1], group[2], view)
    BY DEF ActivityPoints, PointsPerDay
<1> DEFINE ids == {s \in dated : DayAndSource(s) = group}
<1>2. ids \in SUBSET InScope(f) OBVIOUS
<1>3. ids \in SUBSET Sessions /\ IsFiniteSet(ids) BY <1>2, ScopeType, FS_Subset
<1>4. /\ p.input_tokens = SumOf(view, ids, "input_tokens")
      /\ p.coverage.present = CountsOf(view, ids, "token_records_present")
      /\ p.coverage.total = CountsOf(view, ids, "model_call_count")
    BY <1>1 DEF ActivityPoint, Coverage
<1>5. \A s \in ids : MetricsOK(view[s]) BY <1>3, MetricsType
<1> HIDE DEF ids, view
<1>6. \A s \in ids : /\ view[s]["token_records_present"] \in Nat
                     /\ view[s]["model_call_count"] \in Nat
                     /\ view[s]["token_records_present"] <= view[s]["model_call_count"]
                     /\ view[s]["token_records_present"] = 0 => view[s]["input_tokens"] = Null
    BY <1>5 DEF MetricsOK
<1>7. /\ CountsOf(view, ids, "token_records_present") <= CountsOf(view, ids, "model_call_count")
      /\ CountsOf(view, ids, "token_records_present") = 0 =>
            \A s \in ids : view[s]["token_records_present"] = 0
    BY <1>3, <1>6, CountsCompare
<1>8. ASSUME CountsOf(view, ids, "token_records_present") = 0
      PROVE  SumOf(view, ids, "input_tokens") = Null
    BY <1>6, <1>7, <1>8 DEF SumOf, Known
<1> QED BY <1>4, <1>7, <1>8 DEF UnknownIsNotZero

\* The calls a chart groups
ToolsCharted(f) == {c \in ToolCalls : Charted(ToolCallRow[c], "tool", f.tool, InScope(f))}

ModelsCharted(f) == {c \in ModelCalls : Charted(ModelCallRow[c], "model", f.model, InScope(f))}

\* They are finitely many rows of their tables
LEMMA ChartedType ==
    ASSUME CommittedOK, NEW f
    PROVE  /\ ToolsCharted(f) \in SUBSET DOMAIN ToolCallRow /\ IsFiniteSet(ToolsCharted(f))
           /\ ModelsCharted(f) \in SUBSET DOMAIN ModelCallRow /\ IsFiniteSet(ModelsCharted(f))
<1>1. ToolsCharted(f) \in SUBSET ToolCalls /\ ModelsCharted(f) \in SUBSET ModelCalls
    BY DEF ToolsCharted, ModelsCharted
<1>2. IsFiniteSet(ToolsCharted(f)) /\ IsFiniteSet(ModelsCharted(f)) BY <1>1, RowsType, FS_Subset
<1> QED BY <1>1, <1>2, RowsType

\* The calls that share the point of a call
ToolGroup(f, c) == {d \in ToolsCharted(f) : GroupOf(ToolCallRow[d], "tool") = GroupOf(ToolCallRow[c], "tool")}

ModelGroup(f, c) ==
    {d \in ModelsCharted(f) : GroupOf(ModelCallRow[d], "model") = GroupOf(ModelCallRow[c], "model")}

\* The point of a call
ToolPointOf(f, c) ==
    ToolPoint(ToolGroup(f, c), ToolCallRow[c].tool, SessionRow[ToolCallRow[c].session].source)

ModelPointOf(f, c) ==
    ModelPoint(ModelGroup(f, c), ModelCallRow[c].model, SessionRow[ModelCallRow[c].session].source)

\* The points of a chart are those of its calls
LEMMA PointsOfCalls ==
    ASSUME NEW f
    PROVE  /\ ToolPoints(f) = {ToolPointOf(f, c) : c \in ToolsCharted(f)}
           /\ ModelPoints(f) = {ModelPointOf(f, c) : c \in ModelsCharted(f)}
<1>1. ToolPoints(f) = PointsPerTool(ToolsCharted(f))
    BY DEF ToolPoints, ToolPointsIn, ToolsCharted
<1>2. ModelPoints(f) = PointsPerModel(ModelsCharted(f))
    BY DEF ModelPoints, ModelPointsIn, ModelsCharted
<1>3. \A c : /\ GroupOf(ToolCallRow[c], "tool")[1] = ToolCallRow[c].tool
             /\ GroupOf(ToolCallRow[c], "tool")[2] = SessionRow[ToolCallRow[c].session].source
             /\ GroupOf(ModelCallRow[c], "model")[1] = ModelCallRow[c].model
             /\ GroupOf(ModelCallRow[c], "model")[2] = SessionRow[ModelCallRow[c].session].source
    BY DEF GroupOf
<1>4. PointsPerTool(ToolsCharted(f)) = {ToolPointOf(f, c) : c \in ToolsCharted(f)}
    <2> DEFINE S == ToolsCharted(f)
    <2> DEFINE G(c) == GroupOf(ToolCallRow[c], "tool")
    <2> DEFINE At(group) == ToolPoint({c \in S : G(c) = group}, group[1], group[2])
    <2>1. PointsPerTool(S) = {At(group) : group \in {G(c) : c \in S}} BY DEF PointsPerTool
    <2>2. \A c \in S : At(G(c)) = ToolPointOf(f, c) BY <1>3 DEF ToolPointOf, ToolGroup
    <2> HIDE DEF S, G, At
    <2>3. {At(group) : group \in {G(c) : c \in S}} = {At(G(c)) : c \in S} OBVIOUS
    <2>4. {At(G(c)) : c \in S} = {ToolPointOf(f, c) : c \in S} BY <2>2
    <2> QED BY <2>1, <2>3, <2>4 DEF S
<1>5. PointsPerModel(ModelsCharted(f)) = {ModelPointOf(f, c) : c \in ModelsCharted(f)}
    <2> DEFINE S == ModelsCharted(f)
    <2> DEFINE G(c) == GroupOf(ModelCallRow[c], "model")
    <2> DEFINE At(group) == ModelPoint({c \in S : G(c) = group}, group[1], group[2])
    <2>1. PointsPerModel(S) = {At(group) : group \in {G(c) : c \in S}} BY DEF PointsPerModel
    <2>2. \A c \in S : At(G(c)) = ModelPointOf(f, c) BY <1>3 DEF ModelPointOf, ModelGroup
    <2> HIDE DEF S, G, At
    <2>3. {At(group) : group \in {G(c) : c \in S}} = {At(G(c)) : c \in S} OBVIOUS
    <2>4. {At(G(c)) : c \in S} = {ModelPointOf(f, c) : c \in S} BY <2>2
    <2> QED BY <2>1, <2>3, <2>4 DEF S
<1> QED BY <1>1, <1>2, <1>4, <1>5

\* The calls of a point are finitely many
LEMMA GroupsType ==
    ASSUME CommittedOK, NEW f, NEW c
    PROVE  /\ ToolGroup(f, c) \in SUBSET ToolsCharted(f) /\ IsFiniteSet(ToolGroup(f, c))
           /\ ModelGroup(f, c) \in SUBSET ModelsCharted(f) /\ IsFiniteSet(ModelGroup(f, c))
<1>1. ToolGroup(f, c) \in SUBSET ToolsCharted(f) /\ ModelGroup(f, c) \in SUBSET ModelsCharted(f)
    BY DEF ToolGroup, ModelGroup
<1> QED BY <1>1, ChartedType, FS_Subset

\* What the point of a tool says of its calls
LEMMA ToolPointFields ==
    ASSUME NEW f, NEW c
    PROVE  LET p == ToolPointOf(f, c)
               calls == ToolGroup(f, c)
           IN  /\ p.of = [tool |-> ToolCallRow[c].tool,
                          source |-> SessionRow[ToolCallRow[c].session].source]
               /\ p.sessions = {ToolCallRow[d].session : d \in calls}
               /\ p.call_count = Cardinality(calls)
               /\ p.error_count = Cardinality(Failed(calls))
               /\ p.error_ratio = Fraction(Cardinality(Failed(calls)), Cardinality(StatusKnown(calls)))
               /\ p.coverage.present = Cardinality(StatusKnown(calls))
               /\ p.coverage.total = Cardinality(calls)
BY DEF ToolPointOf, ToolPoint, Coverage

\* What the point of a model says of its calls
LEMMA ModelPointFields ==
    ASSUME NEW f, NEW c
    PROVE  LET p == ModelPointOf(f, c)
               calls == ModelGroup(f, c)
           IN  /\ p.of = [model |-> ModelCallRow[c].model,
                          source |-> SessionRow[ModelCallRow[c].session].source]
               /\ p.sessions = {ModelCallRow[d].session : d \in calls}
               /\ p.call_count = Cardinality(calls)
               /\ p.input_tokens = SumOf(ModelCallRow, calls, "input_tokens")
               /\ p.output_tokens = SumOf(ModelCallRow, calls, "output_tokens")
               /\ p.coverage.present = Present(ModelCallRow, calls, "input_tokens")
               /\ p.coverage.total = Cardinality(calls)
               /\ p.cache_read_tokens = SumOf(ModelCallRow, calls, "cache")
               /\ p.cache_coverage.present = Present(ModelCallRow, calls, "cache")
               /\ p.cache_coverage.total = Cardinality(calls)
BY DEF ModelPointOf, ModelPoint, Coverage

\* The error rate of a tool whose calls tell no status is null
LEMMA ToolsAreHonest ==
    ASSUME CommittedOK, NEW f, NEW p \in ToolPoints(f)
    PROVE  UnknownIsNotZero(p.error_ratio, p.coverage)
<1>1. PICK c \in ToolsCharted(f) : p = ToolPointOf(f, c) BY PointsOfCalls
<1> DEFINE calls == ToolGroup(f, c)
<1>2. /\ p.error_ratio = Fraction(Cardinality(Failed(calls)), Cardinality(StatusKnown(calls)))
      /\ p.coverage.present = Cardinality(StatusKnown(calls))
      /\ p.coverage.total = Cardinality(calls)
    BY <1>1, ToolPointFields
<1>3. IsFiniteSet(calls) BY GroupsType
<1> HIDE DEF calls
<1>4. Cardinality(StatusKnown(calls)) <= Cardinality(calls) BY <1>3, StatusCounts
<1> QED BY <1>2, <1>4 DEF UnknownIsNotZero, Fraction

\* The tokens of a model, read or cached, are null when no call reports them
LEMMA ModelsAreHonest ==
    ASSUME CommittedOK, NEW f, NEW p \in ModelPoints(f)
    PROVE  /\ UnknownIsNotZero(p.input_tokens, p.coverage)
           /\ UnknownIsNotZero(p.cache_read_tokens, p.cache_coverage)
           /\ p.cache_read_tokens = Null <=> p.cache_coverage.present = 0
           /\ p.cache_coverage.present \in Nat
<1>1. PICK c \in ModelsCharted(f) : p = ModelPointOf(f, c) BY PointsOfCalls
<1> DEFINE calls == ModelGroup(f, c)
<1>2. /\ p.input_tokens = SumOf(ModelCallRow, calls, "input_tokens")
      /\ p.coverage.present = Present(ModelCallRow, calls, "input_tokens")
      /\ p.coverage.total = Cardinality(calls)
      /\ p.cache_read_tokens = SumOf(ModelCallRow, calls, "cache")
      /\ p.cache_coverage.present = Present(ModelCallRow, calls, "cache")
      /\ p.cache_coverage.total = Cardinality(calls)
    BY ZenonT(40), <1>1, ModelPointFields
<1>3. IsFiniteSet(calls) /\ calls \in SUBSET DOMAIN ModelCallRow BY GroupsType, ChartedType
<1> HIDE DEF calls
<1>4. \A d \in calls : d \in DOMAIN ModelCallRow /\ ModelCallRow[d]["cache"] \in OrNull(Int)
    BY <1>3, RowsAssumption
<1>5. p.cache_read_tokens = Null <=> p.cache_coverage.present = 0
    BY <1>2, <1>3, <1>4, SomethingKnown
<1>6. /\ Present(ModelCallRow, calls, "input_tokens") <= Cardinality(calls)
      /\ Present(ModelCallRow, calls, "cache") <= Cardinality(calls)
      /\ Present(ModelCallRow, calls, "cache") \in Nat
    BY <1>3, PresentType
<1>7. Present(ModelCallRow, calls, "input_tokens") = 0 =>
        SumOf(ModelCallRow, calls, "input_tokens") = Null
    BY <1>3, NothingKnown
<1> QED BY <1>2, <1>5, <1>6, <1>7 DEF UnknownIsNotZero

\* Under a filter on the source, every point is of that source
LEMMA FilteredSource ==
    ASSUME NEW f, f.source # Null, NEW p \in ModelPoints(f)
    PROVE  p.of.source = f.source
<1>1. PICK c \in ModelsCharted(f) : p = ModelPointOf(f, c) BY PointsOfCalls
<1>2. p.of.source = SessionRow[ModelCallRow[c].session].source
    <2>1. p.of = [model |-> ModelCallRow[c].model,
                  source |-> SessionRow[ModelCallRow[c].session].source]
        BY <1>1, ModelPointFields
    <2> QED BY <2>1
<1>3. ModelCallRow[c].session \in InScope(f) BY DEF ModelsCharted, Charted
<1>4. SessionRow[ModelCallRow[c].session]["source"] = f["source"]
    BY <1>3 DEF InScope, SessionPredicates
<1> QED BY <1>2, <1>4

\* A source that says nothing of the cache beside one that does is warned of
LEMMA CacheIsSaid ==
    ASSUME CommittedOK, NEW f, SomeSourceIsSilent(ModelPoints(f))
    PROVE  CacheWarning(f, ModelPoints(f))
<1> DEFINE points == ModelPoints(f)
<1> DEFINE reporting == SourcesOf({p \in points : p.cache_coverage.present > 0})
<1>1. PICK p \in points : p.cache_read_tokens # Null BY DEF SomeSourceIsSilent
<1>2. PICK source \in SourcesOf(points) :
        \A q \in points : q.of.source = source => q.cache_read_tokens = Null
    BY DEF SomeSourceIsSilent
<1>3. \A q \in points : /\ q.cache_read_tokens = Null <=> q.cache_coverage.present = 0
                        /\ q.cache_coverage.present \in Nat
    BY ModelsAreHonest
<1>4. p.of.source \in reporting BY <1>1, <1>3 DEF SourcesOf
<1>5. source \notin reporting
    <2> SUFFICES ASSUME NEW q \in points, q.cache_coverage.present > 0, q.of.source = source
                 PROVE  FALSE
        BY DEF SourcesOf
    <2>1. q.cache_read_tokens = Null BY <1>2
    <2> QED BY <1>3, <2>1
<1>6. f.source = Null
    <2> SUFFICES ASSUME f.source # Null PROVE FALSE OBVIOUS
    <2>1. PICK q \in points : q.of.source = source BY DEF SourcesOf
    <2>2. p.of.source = f.source /\ q.of.source = f.source BY <2>1, FilteredSource
    <2> QED BY <1>4, <1>5, <2>1, <2>2
<1> HIDE DEF points, reporting
<1>7. f.source = Null /\ reporting # {} /\ SourcesOf(points) \ reporting # {}
    BY <1>2, <1>4, <1>5, <1>6
<1> QED BY <1>7 DEF CacheWarning, points, reporting

\* No published value is a zero that nobody measured
LEMMA HonestWhenCommitted == CommittedOK => NeverAConfidentZero
BY IndicatorsOfOverview, ActivityIsHonest, ToolsAreHonest, ModelsAreHonest, CacheIsSaid
   DEF NeverAConfidentZero

\* What the sources did not say is never published as a zero: for any tables
\* that imports fill, any filters and any batches (overview of
\* query_dashboard.py, points of routers/metrics.py)
THEOREM UnknownsStayUnknown == Spec => []NeverAConfidentZero
<1>1. ReadsInv => NeverAConfidentZero BY HonestWhenCommitted DEF ReadsInv, TypeOK
<1> QED BY <1>1, ReadsInvariant, PTL

--------------------------------------------------------------------------------
(* A chart point replayed on the list of sessions *)

\* The list of a set holds the set
LEMMA ListedIsOfSet ==
    ASSUME NEW R, NEW S, IsFiniteSet(S), StrictOrder(R, S)
    PROVE  ToSet(Listed(R, S)) = S
<1> DEFINE list == Listed(R, S)
<1>1. list \in Seq(S) /\ Len(list) = Cardinality(S)
      /\ \A x \in S : list[Rank(R, S, x) + 1] = x
    BY ListedRanks
<1>2. \A x \in S : Rank(R, S, x) \in 0 .. Cardinality(S) - 1 BY RankType
<1>3. Cardinality(S) \in Nat BY FS_CardinalityType
<1> HIDE DEF list
<1>4. DOMAIN list = 1 .. Cardinality(S) /\ \A i \in DOMAIN list : list[i] \in S BY <1>1
<1>5. \A x \in S : Rank(R, S, x) + 1 \in DOMAIN list BY <1>2, <1>3, <1>4
<1>6. ToSet(list) = S BY <1>1, <1>4, <1>5 DEF ToSet
<1> QED BY <1>6 DEF list

\* The ids of sessions
SessionId == DOMAIN SessionRow

\* ListedBefore, as a set of pairs
SessionOrder == {pair \in SessionId \X SessionId : ListedBefore(pair[1], pair[2])}

\* The list of sessions orders them strictly and entirely, the undated ones too
LEMMA SessionsAreOrdered ==
    ASSUME NEW S \in SUBSET SessionId
    PROVE  StrictOrder(SessionOrder, S)
<1>1. \A s \in S : s \in Nat /\ SessionRow[s].started \in Nat \cup {Null}
    <2>1. DOMAIN SessionRow \subseteq Nat BY RowsAssumption
    <2>2. \A s \in DOMAIN SessionRow : SessionRow[s].started \in OrNull(Nat) BY RowsAssumption
    <2> QED BY <2>1, <2>2 DEF OrNull, SessionId
<1>2. Null \notin Nat BY RowsAssumption
<1>3. ASSUME NEW s \in S, NEW t \in S PROVE <<s, t>> \in SessionOrder <=> ListedBefore(s, t)
    BY DEF SessionOrder
<1>4. \A s \in S : ~ListedBefore(s, s) BY <1>1, <1>2 DEF ListedBefore, Dated
<1>5. \A s, t, u \in S : ListedBefore(s, t) /\ ListedBefore(t, u) => ListedBefore(s, u)
    BY <1>1, <1>2 DEF ListedBefore, Dated
<1>6. \A s, t \in S : s = t \/ ListedBefore(s, t) \/ ListedBefore(t, s)
    BY <1>1, <1>2 DEF ListedBefore, Dated
<1> QED BY <1>3, <1>4, <1>5, <1>6 DEF StrictOrder

\* The list of sessions shows the sessions in scope
LEMMA ListShowsScope ==
    ASSUME CommittedOK, NEW f
    PROVE  ToSet(SessionList(f)) = InScope(f)
<1> DEFINE S == InScope(f)
<1>1. S \in SUBSET SessionId /\ IsFiniteSet(S) BY ScopeType, RowsType DEF SessionId
<1>2. SessionList(f) = Ordered(S, ListedBefore) BY DEF SessionList
<1> HIDE DEF S
<1>3. ASSUME NEW x \in S PROVE {y \in S : ListedBefore(y, x)} = Before(SessionOrder, S, x)
    BY <1>1 DEF Before, SessionOrder
<1> DEFINE Choice(n) == CHOOSE x \in S : Cardinality({y \in S : ListedBefore(y, x)}) = n - 1
<1> DEFINE Ranked(n) == CHOOSE x \in S : Rank(SessionOrder, S, x) = n - 1
<1>4. \A n \in 1 .. Cardinality(S) : Choice(n) = Ranked(n) BY <1>3 DEF Rank
<1>5. SessionList(f) = [n \in 1 .. Cardinality(S) |-> Choice(n)] BY <1>2 DEF Ordered
<1>6. Listed(SessionOrder, S) = [n \in 1 .. Cardinality(S) |-> Ranked(n)] BY DEF Listed
<1> HIDE DEF Choice, Ranked
<1>7. SessionList(f) = Listed(SessionOrder, S) BY <1>4, <1>5, <1>6
<1> QED BY <1>1, <1>7, SessionsAreOrdered, ListedIsOfSet DEF S

\* Each column of a replayed filter is that of the point, if it says one
LEMMA ReplayedColumns ==
    ASSUME NEW f, DOMAIN f = FilterColumns, NEW p, NEW column \in FilterColumns
    PROVE  Replay(f, p)[column] =
             IF column \in DOMAIN p.of /\ p.of[column] # Null THEN p.of[column] ELSE f[column]
BY DEF Replay

\* What a filter asks of a session, column by column
LEMMA ScopeByColumn ==
    ASSUME NEW f, NEW s
    PROVE  s \in InScope(f) <=>
            /\ s \in Sessions
            /\ f["source"] # Null => SessionRow[s].source = f["source"]
            /\ f["agent"] # Null => SessionRow[s].agent = f["agent"]
            /\ f["run"] # Null => SessionRow[s].run = f["run"]
            /\ f["outcome"] # Null => SessionRow[s].outcome = f["outcome"]
            /\ InPeriod(s, f["from"], f["to"])
            /\ f["model"] # Null => UsesModel(s, f["model"])
            /\ f["tool"] # Null => UsesTool(s, f["tool"])
BY DEF InScope, SessionPredicates

\* An instant is within the bounds of its day
LEMMA DayHoldsItsInstants ==
    ASSUME NEW s \in Nat
    PROVE  /\ s \div DayLength \in Nat
           /\ (s \div DayLength) * DayLength <= s
           /\ s <= ((s \div DayLength) + 1) * DayLength
<1> DEFINE d == s \div DayLength
<1>1. DayLength \in Nat /\ DayLength > 0 BY PagesAssumption
<1>2. d \in Nat /\ s = d * DayLength + (s % DayLength) /\ s % DayLength \in 0 .. DayLength - 1 BY <1>1
<1> HIDE DEF d
<1>3. d * DayLength \in Nat /\ (d + 1) * DayLength = d * DayLength + DayLength BY <1>1, <1>2
<1> QED BY <1>1, <1>2, <1>3 DEF d

\* The sessions of a day are in the period the point replays
LEMMA ActivityReplays ==
    ASSUME CommittedOK, NEW f, DOMAIN f = FilterColumns, NEW p \in ActivityPoints(f)
    PROVE  p.sessions \subseteq InScope(Replay(f, p))
<1> DEFINE dated == {s \in InScope(f) : Dated(s)}
<1>1. PICK group \in {DayAndSource(s) : s \in dated} :
        p = ActivityPoint({s \in dated : DayAndSource(s) = group}, group[1], group[2], SessionMetrics)
    BY DEF ActivityPoints, PointsPerDay
<1>2. /\ p.of = [source |-> group[2], from |-> group[1] * DayLength, to |-> (group[1] + 1) * DayLength]
      /\ p.sessions = {s \in dated : DayAndSource(s) = group}
    BY <1>1 DEF ActivityPoint, DayBounds
<1> SUFFICES ASSUME NEW s \in dated, DayAndSource(s) = group PROVE s \in InScope(Replay(f, p))
    BY <1>2
<1>3. s \in InScope(f) /\ Dated(s) /\ s \in DOMAIN SessionRow BY ScopeType, RowsType
<1>4. SessionRow[s].started \in Nat BY <1>3, RowsAssumption DEF Dated, OrNull
<1>5. group[1] = SessionRow[s].started \div DayLength /\ group[2] = SessionRow[s].source
    BY DEF DayAndSource, DayOf
<1>6. /\ group[1] \in Nat /\ group[1] * DayLength <= SessionRow[s].started
      /\ SessionRow[s].started <= (group[1] + 1) * DayLength
    BY <1>4, <1>5, DayHoldsItsInstants
<1> DEFINE g == Replay(f, p)
<1> DEFINE from == group[1] * DayLength
<1> DEFINE to == (group[1] + 1) * DayLength
<1>7. from \in Int /\ to \in Int /\ Null \notin Int BY <1>6, PagesAssumption, RowsAssumption
<1>8. p.of = [source |-> group[2], from |-> from, to |-> to] BY <1>2
<1> HIDE DEF g, from, to
<1>9. DOMAIN p.of = {"source", "from", "to"} BY <1>8
<1>10. \A column \in FilterColumns \ {"source", "from", "to"} : g[column] = f[column]
    BY <1>9, ReplayedColumns DEF g
<1>11. g["from"] = from /\ g["to"] = to
    <2>1. /\ {"from", "to"} \subseteq FilterColumns /\ {"from", "to"} \subseteq DOMAIN p.of
          /\ p.of["from"] = from /\ p.of["to"] = to
        BY <1>8, <1>9 DEF FilterColumns
    <2>2. from # Null /\ to # Null BY <1>7
    <2>3. g["from"] = p.of["from"] BY <2>1, <2>2, ReplayedColumns DEF g
    <2>4. g["to"] = p.of["to"] BY <2>1, <2>2, ReplayedColumns DEF g
    <2> QED BY <2>1, <2>3, <2>4
<1>12. g["source"] # Null => g["source"] = SessionRow[s].source
    <2>1. SessionRow[s].source # Null BY <1>3, RowsAssumption
    <2>2. "source" \in FilterColumns /\ "source" \in DOMAIN p.of /\ p.of["source"] = group[2]
        BY <1>8, <1>9 DEF FilterColumns
    <2>3. g["source"] = IF "source" \in DOMAIN p.of /\ p.of["source"] # Null THEN p.of["source"] ELSE f["source"]
        BY <2>2, ReplayedColumns DEF g
    <2>4. group[2] # Null BY <1>5, <2>1
    <2> QED BY <1>5, <2>2, <2>3, <2>4
<1>13. InPeriod(s, g["from"], g["to"]) BY <1>3, <1>6, <1>11 DEF InPeriod, from, to
<1>14. /\ g["agent"] = f["agent"] /\ g["run"] = f["run"] /\ g["outcome"] = f["outcome"]
       /\ g["model"] = f["model"] /\ g["tool"] = f["tool"]
    BY <1>10 DEF FilterColumns
<1>15. s \in InScope(g) BY <1>3, <1>12, <1>13, <1>14, ScopeByColumn
<1> QED BY <1>15 DEF g

\* A point of calls or of a run names its source: no other column of a session
\* changes
LEMMA ReplayOfPoint ==
    ASSUME NEW f, DOMAIN f = FilterColumns, NEW p, NEW column \in {"tool", "model", "run"},
           NEW value, NEW source, source # Null,
           DOMAIN p.of = {column, "source"}, p.of[column] = value, p.of["source"] = source
    PROVE  /\ Replay(f, p)["source"] = source
           /\ Replay(f, p)[column] = IF value # Null THEN value ELSE f[column]
           /\ \A other \in FilterColumns \ {column, "source"} : Replay(f, p)[other] = f[other]
BY ReplayedColumns DEF FilterColumns

\* A session in scope has the source the filter asks for
LEMMA SourceOfScope ==
    ASSUME NEW f, NEW s \in InScope(f), f["source"] # Null
    PROVE  SessionRow[s].source = f["source"]
BY ScopeByColumn

\* The sessions of a tool are those that used it, in the source of the point
LEMMA ToolsReplay ==
    ASSUME CommittedOK, NEW f, DOMAIN f = FilterColumns, NEW p \in ToolPoints(f)
    PROVE  p.sessions = InScope(Replay(f, p))
<1>1. PICK c \in ToolsCharted(f) : p = ToolPointOf(f, c) BY PointsOfCalls
<1> DEFINE tool == ToolCallRow[c].tool
<1> DEFINE source == SessionRow[ToolCallRow[c].session].source
<1> DEFINE g == Replay(f, p)
<1>2. p.of = [tool |-> tool, source |-> source]
      /\ p.sessions = {ToolCallRow[d].session : d \in ToolGroup(f, c)}
    BY <1>1, ToolPointFields
<1>3. c \in DOMAIN ToolCallRow /\ ToolCallRow[c].session \in InScope(f)
      /\ (f["tool"] # Null => ToolCallRow[c]["tool"] = f["tool"])
    BY ChartedType DEF ToolsCharted, Charted
<1>4. tool # Null /\ source # Null BY <1>3, RowsAssumption, ScopeType, RowsType
<1>5. \A d : d \in ToolGroup(f, c) <=>
        /\ d \in ToolCalls /\ ToolCallRow[d].session \in InScope(f)
        /\ ToolCallRow[d]["tool"] = tool /\ SessionRow[ToolCallRow[d].session].source = source
    BY <1>3 DEF ToolGroup, ToolsCharted, Charted, GroupOf
<1>6. f["source"] # Null => source = f["source"] BY <1>3, SourceOfScope
<1> HIDE DEF tool, source, g
<1>7. DOMAIN p.of = {"tool", "source"} /\ p.of["tool"] = tool /\ p.of["source"] = source BY <1>2
<1>8. /\ g["source"] = source /\ g["tool"] = tool
      /\ \A other \in FilterColumns \ {"tool", "source"} : g[other] = f[other]
    BY <1>4, <1>7, ReplayOfPoint DEF g
<1>9. /\ g["agent"] = f["agent"] /\ g["run"] = f["run"] /\ g["outcome"] = f["outcome"]
      /\ g["model"] = f["model"] /\ g["from"] = f["from"] /\ g["to"] = f["to"]
    BY <1>8 DEF FilterColumns
<1>10. ASSUME NEW d \in ToolGroup(f, c) PROVE ToolCallRow[d].session \in InScope(g)
    <2> DEFINE s == ToolCallRow[d].session
    <2>1. s \in InScope(f) /\ SessionRow[s].source = source /\ d \in ToolCalls
          /\ ToolCallRow[d]["tool"] = tool
        BY <1>5
    <2>2. UsesTool(s, tool) BY <2>1 DEF UsesTool, ToolCallsOf
    <2> HIDE DEF s
    <2>3. s \in InScope(g) BY <1>8, <1>9, <2>1, <2>2, ScopeByColumn
    <2> QED BY <2>3 DEF s
<1>11. ASSUME NEW s \in InScope(g) PROVE \E d \in ToolGroup(f, c) : ToolCallRow[d].session = s
    <2>1. s \in Sessions /\ SessionRow[s].source = source /\ UsesTool(s, tool)
        BY <1>4, <1>8, ScopeByColumn
    <2>2. PICK d \in ToolCallsOf(s) : ToolCallRow[d].tool = tool BY <2>1 DEF UsesTool
    <2>3. d \in ToolCalls /\ ToolCallRow[d].session = s BY DEF ToolCallsOf
    <2>4. f["tool"] # Null => f["tool"] = tool BY <1>3 DEF tool
    <2>5. s \in InScope(f) BY <1>6, <1>8, <1>9, <2>1, <2>4, ScopeByColumn
    <2>6. d \in ToolGroup(f, c) BY <1>5, <2>1, <2>2, <2>3, <2>5
    <2> QED BY <2>3, <2>6
<1>12. p.sessions = InScope(g) BY <1>2, <1>10, <1>11
<1> QED BY <1>12 DEF g

\* So are those of a model that is known; of an unknown one, they are among
\* those of its source
LEMMA ModelsReplay ==
    ASSUME CommittedOK, NEW f, DOMAIN f = FilterColumns, NEW p \in ModelPoints(f)
    PROVE  /\ p.sessions \subseteq InScope(Replay(f, p))
           /\ p.of.model # Null => p.sessions = InScope(Replay(f, p))
<1>1. PICK c \in ModelsCharted(f) : p = ModelPointOf(f, c) BY PointsOfCalls
<1> DEFINE model == ModelCallRow[c].model
<1> DEFINE source == SessionRow[ModelCallRow[c].session].source
<1> DEFINE g == Replay(f, p)
<1>2. p.of = [model |-> model, source |-> source]
      /\ p.sessions = {ModelCallRow[d].session : d \in ModelGroup(f, c)}
    BY <1>1, ModelPointFields
<1>3. c \in DOMAIN ModelCallRow /\ ModelCallRow[c].session \in InScope(f)
      /\ (f["model"] # Null => ModelCallRow[c]["model"] = f["model"])
    BY ChartedType DEF ModelsCharted, Charted
<1>4. source # Null BY <1>3, RowsAssumption, ScopeType, RowsType
<1>5. \A d : d \in ModelGroup(f, c) <=>
        /\ d \in ModelCalls /\ ModelCallRow[d].session \in InScope(f)
        /\ ModelCallRow[d]["model"] = model /\ SessionRow[ModelCallRow[d].session].source = source
    BY <1>3 DEF ModelGroup, ModelsCharted, Charted, GroupOf
<1>6. f["source"] # Null => source = f["source"] BY <1>3, SourceOfScope
<1>7. f["model"] # Null => model = f["model"] BY <1>3
<1> HIDE DEF model, source, g
<1>8. DOMAIN p.of = {"model", "source"} /\ p.of["model"] = model /\ p.of["source"] = source BY <1>2
<1>9. /\ g["source"] = source /\ g["model"] = model
      /\ \A other \in FilterColumns \ {"model", "source"} : g[other] = f[other]
    BY <1>4, <1>7, <1>8, ReplayOfPoint DEF g
<1>10. /\ g["agent"] = f["agent"] /\ g["run"] = f["run"] /\ g["outcome"] = f["outcome"]
       /\ g["tool"] = f["tool"] /\ g["from"] = f["from"] /\ g["to"] = f["to"]
    BY <1>9 DEF FilterColumns
<1>11. ASSUME NEW d \in ModelGroup(f, c) PROVE ModelCallRow[d].session \in InScope(g)
    <2> DEFINE s == ModelCallRow[d].session
    <2>1. s \in InScope(f) /\ SessionRow[s].source = source /\ d \in ModelCalls
          /\ ModelCallRow[d]["model"] = model
        BY <1>5
    <2>2. UsesModel(s, model) BY <2>1 DEF UsesModel, ModelCallsOf
    <2> HIDE DEF s
    <2>3. s \in InScope(g) BY <1>9, <1>10, <2>1, <2>2, ScopeByColumn
    <2> QED BY <2>3 DEF s
<1>12. ASSUME model # Null, NEW s \in InScope(g)
       PROVE  \E d \in ModelGroup(f, c) : ModelCallRow[d].session = s
    <2>1. s \in Sessions /\ SessionRow[s].source = source /\ UsesModel(s, model)
        BY <1>4, <1>9, <1>12, ScopeByColumn
    <2>2. PICK d \in ModelCallsOf(s) : ModelCallRow[d].model = model BY <2>1 DEF UsesModel
    <2>3. d \in ModelCalls /\ ModelCallRow[d].session = s BY DEF ModelCallsOf
    <2>4. s \in InScope(f) BY <1>6, <1>7, <1>9, <1>10, <2>1, ScopeByColumn
    <2>5. d \in ModelGroup(f, c) BY <1>5, <2>1, <2>2, <2>3, <2>4
    <2> QED BY <2>3, <2>5
<1>13. p.sessions \subseteq InScope(g) /\ (model # Null => p.sessions = InScope(g))
    BY <1>2, <1>11, <1>12
<1> QED BY <1>8, <1>13 DEF g

\* The sessions of a run are those the list shows for it
LEMMA RunsReplay ==
    ASSUME CommittedOK, NEW f, DOMAIN f = FilterColumns, NEW p \in QualityPoints(f)
    PROVE  p.sessions = InScope(Replay(f, p))
<1>1. PICK r \in QualityRuns(f) :
        p = [of |-> [run |-> r, source |-> RunSource[r]],
             sessions |-> {s \in InScope(f) : SessionRow[s].run = r}]
    BY DEF QualityPoints
<1> DEFINE g == Replay(f, p)
<1> DEFINE source == RunSource[r]
<1>2. /\ DOMAIN p.of = {"run", "source"} /\ p.of["run"] = r /\ p.of["source"] = source
      /\ p.sessions = {s \in InScope(f) : SessionRow[s].run = r}
    BY <1>1
<1>3. r \in DOMAIN RunSource /\ (f["source"] # Null => source = f["source"])
      /\ (f["run"] # Null => r = f["run"])
    BY DEF QualityRuns
<1>4. r # Null /\ source # Null BY <1>3, RunsAssumption, RowsAssumption
<1>5. \A s \in Sessions : SessionRow[s].run = r => SessionRow[s].source = source
    BY RowsType, RunsAssumption
<1> HIDE DEF g, source
<1>6. /\ g["source"] = source /\ g["run"] = r
      /\ \A other \in FilterColumns \ {"run", "source"} : g[other] = f[other]
    BY <1>2, <1>4, ReplayOfPoint DEF g
<1>7. /\ g["agent"] = f["agent"] /\ g["model"] = f["model"] /\ g["outcome"] = f["outcome"]
      /\ g["tool"] = f["tool"] /\ g["from"] = f["from"] /\ g["to"] = f["to"]
    BY <1>6 DEF FilterColumns
<1>8. ASSUME NEW s PROVE s \in InScope(g) <=> s \in InScope(f) /\ SessionRow[s].run = r
    BY <1>3, <1>4, <1>5, <1>6, <1>7, ScopeByColumn
<1>9. p.sessions = InScope(g) BY <1>2, <1>8
<1> QED BY <1>9 DEF g

\* Every kind of point replays
LEMMA PointsReplayWhenCommitted == CommittedOK => PointsReplay
<1> SUFFICES ASSUME CommittedOK, NEW f \in Filters
             PROVE  /\ \A p \in ActivityPoints(f) \cup ModelPoints(f) : p.sessions \subseteq Shown(f, p)
                    /\ \A p \in ToolPoints(f) \cup QualityPoints(f) : p.sessions = Shown(f, p)
                    /\ \A p \in ModelPoints(f) : p.of.model # Null => p.sessions = Shown(f, p)
    BY DEF PointsReplay
<1>1. DOMAIN f = FilterColumns BY FiltersAssumption
<1>2. \A p : Shown(f, p) = InScope(Replay(f, p)) BY ListShowsScope DEF Shown
<1>3. \A p \in ActivityPoints(f) : p.sessions \subseteq Shown(f, p) BY <1>1, <1>2, ActivityReplays
<1>4. \A p \in ModelPoints(f) : /\ p.sessions \subseteq Shown(f, p)
                                /\ p.of.model # Null => p.sessions = Shown(f, p)
    BY <1>1, <1>2, ModelsReplay
<1>5. \A p \in ToolPoints(f) : p.sessions = Shown(f, p) BY <1>1, <1>2, ToolsReplay
<1>6. \A p \in QualityPoints(f) : p.sessions = Shown(f, p) BY <1>1, <1>2, RunsReplay
<1> QED BY <1>3, <1>4, <1>5, <1>6

\* The filters of a chart point, replayed on the list of sessions, show the
\* sessions behind it: for any tables, filters and batches (point_filters of
\* dto/dashboard.py)
THEOREM ChartsReplay == Spec => []PointsReplay
<1>1. ReadsInv => PointsReplay BY PointsReplayWhenCommitted DEF ReadsInv, TypeOK
<1> QED BY <1>1, ReadsInvariant, PTL

--------------------------------------------------------------------------------
(* A sum over groups is the sum over all *)

\* Groups have as many elements as the set they divide
LEMMA CountOfFibres ==
    ASSUME NEW A, IsFiniteSet(A), NEW Q, IsFiniteSet(Q), NEW at, \A x \in A : at[x] \in Q,
           NEW v, \A q \in Q : v[q] = Cardinality(Fibre(A, at, q))
    PROVE  SumFunctionOnSet(v, Q) = Cardinality(A)
<1> DEFINE ones == [x \in A |-> 1]
<1>1. \A x \in A : ones[x] = 1 /\ ones[x] \in Int OBVIOUS
<1> HIDE DEF ones
<1>2. ASSUME NEW q \in Q PROVE v[q] = SumFunctionOnSet(ones, Fibre(A, at, q))
    <2> DEFINE F == Fibre(A, at, q)
    <2>1. F \in SUBSET A /\ v[q] = Cardinality(F) BY DEF Fibre
    <2> HIDE DEF F
    <2>2. IsFiniteSet(F) /\ \A x \in F : ones[x] = 1 BY <1>1, <2>1, FS_Subset
    <2>3. SumFunctionOnSet(ones, F) = Cardinality(F) BY <2>2, SumOfOnes
    <2> QED BY <2>1, <2>3 DEF F
<1>3. SumFunctionOnSet(v, Q) = SumFunctionOnSet(ones, Over(A, at, Q))
    BY <1>1, <1>2, SumOfFibres
<1>4. Over(A, at, Q) = A BY DEF Over
<1>5. SumFunctionOnSet(ones, A) = Cardinality(A) BY <1>1, SumOfOnes
<1> QED BY <1>3, <1>4, <1>5

\* sum(column), by the values of any function that agrees with the rows
LEMMA SumOfKnown ==
    ASSUME NEW rows, NEW ids, IsFiniteSet(ids), NEW column, NEW w,
           \A row \in ids : w[row] = rows[row][column]
    PROVE  SumOf(rows, ids, column) = IF ids \cap Known(rows, column) = {} THEN Null
                                      ELSE SumFunctionOnSet(w, ids \cap Known(rows, column))
<1> DEFINE K == ids \cap Known(rows, column)
<1> DEFINE f == [row \in K |-> rows[row][column]]
<1>1. IsFiniteSet(K) BY PresentType
<1>2. SumOf(rows, ids, column) = IF K = {} THEN Null ELSE SumFunction(f) BY DEF SumOf
<1>3. DOMAIN f = K /\ \A row \in K : f[row] = w[row] OBVIOUS
<1> HIDE DEF K, f
<1>4. SumFunction(f) = SumFunctionOnSet(f, K) BY <1>3 DEF SumFunction, FoldFunction, SumFunctionOnSet
<1>5. SumFunctionOnSet(f, K) = SumFunctionOnSet(w, K) BY <1>1, <1>3, SumCongruent
<1> QED BY <1>2, <1>4, <1>5 DEF K

\* Where v is not null
NotNull(v, Q) == {q \in Q : v[q] # Null}

\* A sum of sums: null where every one is
SumNotNull(v, Q) == IF NotNull(v, Q) = {} THEN Null ELSE SumFunctionOnSet(v, NotNull(v, Q))

\* A measure summed over groups, skipping the groups where it is null, is the
\* measure of all the rows: null when it is null in all of them
LEMMA MeasureAddsUp ==
    ASSUME NEW rows, NEW A, IsFiniteSet(A), NEW column,
           \A x \in A : x \in DOMAIN rows /\ rows[x][column] \in OrNull(Int),
           NEW Q, IsFiniteSet(Q), NEW at, \A x \in A : at[x] \in Q,
           NEW v, \A q \in Q : v[q] = SumOf(rows, Fibre(A, at, q), column)
    PROVE  SumOf(rows, A, column) = SumNotNull(v, Q)
<1> DEFINE K == A \cap Known(rows, column)
<1> DEFINE w == [x \in A |-> rows[x][column]]
<1> DEFINE N == NotNull(v, Q)
<1>1. IsFiniteSet(K) BY PresentType
<1>2. K \subseteq A /\ \A x \in K : w[x] \in Int BY DEF Known, OrNull
<1>3. \A x \in A : w[x] = rows[x][column] OBVIOUS
<1>4. SumOf(rows, A, column) = IF K = {} THEN Null ELSE SumFunctionOnSet(w, K)
    <2> HIDE DEF w
    <2> QED BY <1>3, SumOfKnown
<1>5. ASSUME NEW q \in Q
      PROVE  /\ Fibre(K, at, q) \in SUBSET K
             /\ v[q] = IF Fibre(K, at, q) = {} THEN Null ELSE SumFunctionOnSet(w, Fibre(K, at, q))
    <2> DEFINE F == Fibre(A, at, q)
    <2>1. F \in SUBSET A /\ F \cap Known(rows, column) = Fibre(K, at, q) /\ v[q] = SumOf(rows, F, column)
        BY DEF Fibre
    <2> HIDE DEF F, w
    <2>2. IsFiniteSet(F) /\ \A x \in F : w[x] = rows[x][column] BY <1>3, <2>1, FS_Subset
    <2>3. SumOf(rows, F, column) = IF F \cap Known(rows, column) = {} THEN Null
                                   ELSE SumFunctionOnSet(w, F \cap Known(rows, column))
        BY <2>2, SumOfKnown
    <2>4. Fibre(K, at, q) \in SUBSET K BY DEF Fibre
    <2> QED BY <2>1, <2>3, <2>4
<1> HIDE DEF w, K
<1>6. ASSUME NEW q \in Q PROVE q \in N <=> Fibre(K, at, q) # {}
    <2> DEFINE F == Fibre(K, at, q)
    <2>1. F \in SUBSET K /\ v[q] = IF F = {} THEN Null ELSE SumFunctionOnSet(w, F) BY <1>5
    <2> HIDE DEF F
    <2>2. IsFiniteSet(F) /\ \A x \in F : w[x] \in Int BY <1>1, <1>2, <2>1, FS_Subset
    <2>3. SumFunctionOnSet(w, F) # Null BY <2>2, SumIsInt, RowsAssumption
    <2> QED BY <2>1, <2>3 DEF NotNull, F
<1>7. N \in SUBSET Q BY DEF NotNull
<1>8. Over(K, at, N) = K
    <2> HIDE DEF N
    <2> QED BY <1>2, <1>6 DEF Over, Fibre
<1>9. N = {} <=> K = {}
    <2> HIDE DEF N
    <2> QED BY <1>2, <1>6, <1>7, <1>8 DEF Over, Fibre
<1>10. SumFunctionOnSet(v, N) = SumFunctionOnSet(w, K)
    <2> HIDE DEF N
    <2>1. IsFiniteSet(N) BY <1>7, FS_Subset
    <2>2. \A q \in N : v[q] = SumFunctionOnSet(w, Fibre(K, at, q)) BY <1>5, <1>6, <1>7
    <2>3. SumFunctionOnSet(v, N) = SumFunctionOnSet(w, Over(K, at, N))
        BY <1>1, <1>2, <2>1, <2>2, SumOfFibres
    <2> QED BY <1>8, <2>3
<1> QED BY <1>4, <1>9, <1>10 DEF SumNotNull

--------------------------------------------------------------------------------
(* The calls in scope, by session and by point *)

\* The calls of the sessions in scope, of any model or tool
ModelCallsIn(f) == {c \in ModelCalls : ModelCallRow[c].session \in InScope(f)}

ToolCallsIn(f) == {c \in ToolCalls : ToolCallRow[c].session \in InScope(f)}

\* They are finitely many rows of their tables
LEMMA CallsInType ==
    ASSUME CommittedOK, NEW f
    PROVE  /\ ModelCallsIn(f) \in SUBSET DOMAIN ModelCallRow /\ IsFiniteSet(ModelCallsIn(f))
           /\ ToolCallsIn(f) \in SUBSET DOMAIN ToolCallRow /\ IsFiniteSet(ToolCallsIn(f))
<1>1. ModelCallsIn(f) \in SUBSET ModelCalls /\ ToolCallsIn(f) \in SUBSET ToolCalls
    BY DEF ModelCallsIn, ToolCallsIn
<1>2. IsFiniteSet(ModelCallsIn(f)) /\ IsFiniteSet(ToolCallsIn(f)) BY <1>1, RowsType, FS_Subset
<1> QED BY <1>1, <1>2, RowsType

\* Without a filter on its own column, a chart groups all of them
LEMMA UnfilteredCalls ==
    ASSUME NEW f
    PROVE  /\ f.model = Null => ModelsCharted(f) = ModelCallsIn(f)
           /\ f.tool = Null => ToolsCharted(f) = ToolCallsIn(f)
BY DEF ModelsCharted, ToolsCharted, ModelCallsIn, ToolCallsIn, Charted

\* The session of each call
ModelSession(f) == [c \in ModelCallsIn(f) |-> ModelCallRow[c].session]

ToolSession(f) == [c \in ToolCallsIn(f) |-> ToolCallRow[c].session]

\* The calls of a session are those that are at it
LEMMA CallsBySession ==
    ASSUME NEW f, NEW s \in InScope(f)
    PROVE  /\ Fibre(ModelCallsIn(f), ModelSession(f), s) = ModelCallsOf(s)
           /\ Fibre(ToolCallsIn(f), ToolSession(f), s) = ToolCallsOf(s)
BY DEF Fibre, ModelCallsIn, ToolCallsIn, ModelSession, ToolSession, ModelCallsOf, ToolCallsOf

\* The point of each call
ModelAt(f) == [c \in ModelsCharted(f) |-> ModelPointOf(f, c)]

ToolAt(f) == [c \in ToolsCharted(f) |-> ToolPointOf(f, c)]

\* A point of models has the calls that are at it, and two points differ
LEMMA CallsByModelPoint ==
    ASSUME NEW f, NEW c \in ModelsCharted(f)
    PROVE  Fibre(ModelsCharted(f), ModelAt(f), ModelPointOf(f, c)) = ModelGroup(f, c)
<1>1. ASSUME NEW d \in ModelsCharted(f), ModelPointOf(f, d) = ModelPointOf(f, c)
      PROVE  d \in ModelGroup(f, c)
    <2>1. /\ ModelPointOf(f, d).of = [model |-> ModelCallRow[d].model,
                                      source |-> SessionRow[ModelCallRow[d].session].source]
          /\ ModelPointOf(f, c).of = [model |-> ModelCallRow[c].model,
                                      source |-> SessionRow[ModelCallRow[c].session].source]
        BY ModelPointFields
    <2>2. /\ ModelCallRow[d].model = ModelCallRow[c].model
          /\ SessionRow[ModelCallRow[d].session].source = SessionRow[ModelCallRow[c].session].source
        BY <1>1, <2>1
    <2> QED BY <2>2 DEF ModelGroup, GroupOf
<1>2. ASSUME NEW d \in ModelGroup(f, c) PROVE d \in ModelsCharted(f) /\ ModelPointOf(f, d) = ModelPointOf(f, c)
    <2>1. d \in ModelsCharted(f) /\ GroupOf(ModelCallRow[d], "model") = GroupOf(ModelCallRow[c], "model")
        BY DEF ModelGroup
    <2>2. ModelGroup(f, d) = ModelGroup(f, c) BY <2>1 DEF ModelGroup
    <2>3. /\ ModelCallRow[d].model = ModelCallRow[c].model
          /\ SessionRow[ModelCallRow[d].session].source = SessionRow[ModelCallRow[c].session].source
        BY <2>1 DEF GroupOf
    <2> QED BY <2>1, <2>2, <2>3 DEF ModelPointOf
<1>3. ModelGroup(f, c) \subseteq ModelsCharted(f) BY DEF ModelGroup
<1> QED BY <1>1, <1>2, <1>3 DEF Fibre, ModelAt

\* So has a point of tools
LEMMA CallsByToolPoint ==
    ASSUME NEW f, NEW c \in ToolsCharted(f)
    PROVE  Fibre(ToolsCharted(f), ToolAt(f), ToolPointOf(f, c)) = ToolGroup(f, c)
<1>1. ASSUME NEW d \in ToolsCharted(f), ToolPointOf(f, d) = ToolPointOf(f, c)
      PROVE  d \in ToolGroup(f, c)
    <2>1. /\ ToolPointOf(f, d).of = [tool |-> ToolCallRow[d].tool,
                                     source |-> SessionRow[ToolCallRow[d].session].source]
          /\ ToolPointOf(f, c).of = [tool |-> ToolCallRow[c].tool,
                                     source |-> SessionRow[ToolCallRow[c].session].source]
        BY ToolPointFields
    <2>2. /\ ToolCallRow[d].tool = ToolCallRow[c].tool
          /\ SessionRow[ToolCallRow[d].session].source = SessionRow[ToolCallRow[c].session].source
        BY <1>1, <2>1
    <2> QED BY <2>2 DEF ToolGroup, GroupOf
<1>2. ASSUME NEW d \in ToolGroup(f, c) PROVE d \in ToolsCharted(f) /\ ToolPointOf(f, d) = ToolPointOf(f, c)
    <2>1. d \in ToolsCharted(f) /\ GroupOf(ToolCallRow[d], "tool") = GroupOf(ToolCallRow[c], "tool")
        BY DEF ToolGroup
    <2>2. ToolGroup(f, d) = ToolGroup(f, c) BY <2>1 DEF ToolGroup
    <2>3. /\ ToolCallRow[d].tool = ToolCallRow[c].tool
          /\ SessionRow[ToolCallRow[d].session].source = SessionRow[ToolCallRow[c].session].source
        BY <2>1 DEF GroupOf
    <2> QED BY <2>1, <2>2, <2>3 DEF ToolPointOf
<1>3. ToolGroup(f, c) \subseteq ToolsCharted(f) BY DEF ToolGroup
<1> QED BY <1>1, <1>2, <1>3 DEF Fibre, ToolAt

\* A chart has finitely many points
LEMMA PointsAreFinite ==
    ASSUME CommittedOK, NEW f
    PROVE  IsFiniteSet(ModelPoints(f)) /\ IsFiniteSet(ToolPoints(f))
<1>1. ModelPoints(f) = {ModelAt(f)[c] : c \in ModelsCharted(f)} BY PointsOfCalls DEF ModelAt
<1>2. ToolPoints(f) = {ToolAt(f)[c] : c \in ToolsCharted(f)} BY PointsOfCalls DEF ToolAt
<1> QED BY <1>1, <1>2, ChartedType, ImageIsFinite

\* The total of the points counts each point once
LEMMA CountOverIsSum ==
    ASSUME NEW points, NEW column
    PROVE  CountOver(points, column) = SumFunctionOnSet([p \in points |-> p[column]], points)
<1> DEFINE v == [p \in points |-> p[column]]
<1>1. CountOver(points, column) = SumFunction(v) /\ DOMAIN v = points BY DEF CountOver
<1> HIDE DEF v
<1>2. SumFunction(v) = SumFunctionOnSet(v, points) BY <1>1 DEF SumFunction, FoldFunction, SumFunctionOnSet
<1> QED BY <1>1, <1>2 DEF v

\* The total of a measure skips the points where it is null
LEMMA SumOverIsSum ==
    ASSUME NEW points, IsFiniteSet(points), NEW column
    PROVE  SumOver(points, column) = SumNotNull([p \in points |-> p[column]], points)
<1> DEFINE v == [p \in points |-> p[column]]
<1> DEFINE N == {q \in points : q[column] # Null}
<1> DEFINE u == [p \in N |-> p[column]]
<1>1. SumOver(points, column) = IF \A p \in points : p[column] = Null THEN Null ELSE SumFunction(u)
    BY DEF SumOver
<1>2. N = NotNull(v, points) /\ ((\A p \in points : p[column] = Null) <=> N = {}) BY DEF NotNull
<1>3. DOMAIN u = N /\ (\A p \in N : u[p] = v[p]) /\ N \in SUBSET points OBVIOUS
<1> HIDE DEF u, v, N
<1>4. SumFunction(u) = SumFunctionOnSet(u, N) BY <1>3 DEF SumFunction, FoldFunction, SumFunctionOnSet
<1>5. IsFiniteSet(N) BY <1>3, FS_Subset
<1>6. SumFunctionOnSet(u, N) = SumFunctionOnSet(v, N) BY <1>3, <1>5, SumCongruent
<1> QED BY <1>1, <1>2, <1>4, <1>6 DEF SumNotNull, v

\* So does the total of the overview, over the rows of the view
LEMMA SumOfView ==
    ASSUME NEW view, NEW ids, IsFiniteSet(ids), ids \subseteq DOMAIN view, NEW column
    PROVE  SumOf(view, ids, column) = SumNotNull([s \in ids |-> view[s][column]], ids)
<1> DEFINE v == [s \in ids |-> view[s][column]]
<1>1. \A s \in ids : v[s] = view[s][column] OBVIOUS
<1>2. NotNull(v, ids) = ids \cap Known(view, column) BY DEF NotNull, Known
<1> HIDE DEF v
<1>3. SumOf(view, ids, column) = IF ids \cap Known(view, column) = {} THEN Null
                                 ELSE SumFunctionOnSet(v, ids \cap Known(view, column))
    BY <1>1, SumOfKnown
<1> QED BY <1>2, <1>3 DEF SumNotNull, v

\* A point of models sums the calls that are at it
LEMMA PointOfEachModel ==
    ASSUME NEW f, NEW p \in ModelPoints(f)
    PROVE  LET calls == Fibre(ModelsCharted(f), ModelAt(f), p)
           IN  /\ p["call_count"] = Cardinality(calls)
               /\ p["input_tokens"] = SumOf(ModelCallRow, calls, "input_tokens")
               /\ p["output_tokens"] = SumOf(ModelCallRow, calls, "output_tokens")
<1>1. PICK c \in ModelsCharted(f) : p = ModelPointOf(f, c) BY PointsOfCalls
<1>2. Fibre(ModelsCharted(f), ModelAt(f), p) = ModelGroup(f, c) BY <1>1, CallsByModelPoint
<1> DEFINE calls == ModelGroup(f, c)
<1>3. /\ p.call_count = Cardinality(calls)
      /\ p.input_tokens = SumOf(ModelCallRow, calls, "input_tokens")
      /\ p.output_tokens = SumOf(ModelCallRow, calls, "output_tokens")
    BY ZenonT(40), <1>1, ModelPointFields
<1> HIDE DEF calls
<1> QED BY <1>2, <1>3 DEF calls

\* A row of the view sums the calls of its session
LEMMA RowOfEachSession ==
    ASSUME NEW f, NEW s \in InScope(f)
    PROVE  LET calls == Fibre(ModelCallsIn(f), ModelSession(f), s)
               tools == Fibre(ToolCallsIn(f), ToolSession(f), s)
           IN  /\ SessionMetrics[s]["model_call_count"] = Cardinality(calls)
               /\ SessionMetrics[s]["input_tokens"] = SumOf(ModelCallRow, calls, "input_tokens")
               /\ SessionMetrics[s]["output_tokens"] = SumOf(ModelCallRow, calls, "output_tokens")
               /\ SessionMetrics[s]["tool_call_count"] = Cardinality(tools)
               /\ SessionMetrics[s]["tool_error_count"] = Cardinality(Failed(tools))
<1>1. s \in Sessions BY DEF InScope
<1>2. /\ Fibre(ModelCallsIn(f), ModelSession(f), s) = ModelCallsOf(s)
      /\ Fibre(ToolCallsIn(f), ToolSession(f), s) = ToolCallsOf(s)
    BY CallsBySession
<1>3. /\ SessionMetrics[s]["model_call_count"] = Cardinality(ModelCallsOf(s))
      /\ SessionMetrics[s]["input_tokens"] = InputTokens(s)
      /\ SessionMetrics[s]["output_tokens"] = OutputTokens(s)
      /\ SessionMetrics[s]["tool_call_count"] = Cardinality(ToolCallsOf(s))
      /\ SessionMetrics[s]["tool_error_count"] = Cardinality(Failed(ToolCallsOf(s)))
    BY <1>1 DEF SessionMetrics
<1> QED BY <1>2, <1>3 DEF InputTokens, OutputTokens

\* Tokens by model and tokens by session are those of the calls in scope
LEMMA ModelTokensAddUp ==
    ASSUME CommittedOK, NEW f, f.model = Null, NEW column \in {"input_tokens", "output_tokens"}
    PROVE  SumOver(ModelPoints(f), column) = SumOf(SessionMetrics, InScope(f), column)
<1> DEFINE A == ModelCallsIn(f)
<1> DEFINE Q == ModelPoints(f)
<1> DEFINE S == InScope(f)
<1> DEFINE v == [p \in Q |-> p[column]]
<1> DEFINE u == [s \in S |-> SessionMetrics[s][column]]
<1>1. IsFiniteSet(A) /\ \A c \in A : c \in DOMAIN ModelCallRow /\ ModelCallRow[c][column] \in OrNull(Int)
    <2>1. A \in SUBSET DOMAIN ModelCallRow /\ IsFiniteSet(A) BY CallsInType
    <2>2. \A c \in DOMAIN ModelCallRow : ModelCallRow[c][column] \in OrNull(Int) BY RowsAssumption
    <2> QED BY <2>1, <2>2
<1>2. ModelsCharted(f) = A BY UnfilteredCalls
<1>3. IsFiniteSet(Q) BY PointsAreFinite
<1>4. IsFiniteSet(S) /\ S \subseteq DOMAIN SessionMetrics BY ScopeType DEF SessionMetrics
<1>5. \A c \in A : ModelAt(f)[c] \in Q BY <1>2, PointsOfCalls DEF ModelAt
<1>6. \A c \in A : ModelSession(f)[c] \in S BY DEF ModelSession, ModelCallsIn
<1>7. \A p \in Q : v[p] = SumOf(ModelCallRow, Fibre(A, ModelAt(f), p), column)
    BY <1>2, PointOfEachModel
<1>8. \A s \in S : u[s] = SumOf(ModelCallRow, Fibre(A, ModelSession(f), s), column)
    BY RowOfEachSession
<1>9. SumOver(Q, column) = SumNotNull(v, Q) BY <1>3, SumOverIsSum
<1>10. SumOf(SessionMetrics, S, column) = SumNotNull(u, S) BY <1>4, SumOfView
<1> HIDE DEF A, Q, S, u, v
<1>11. SumOf(ModelCallRow, A, column) = SumNotNull(v, Q) BY <1>1, <1>3, <1>5, <1>7, MeasureAddsUp
<1>12. SumOf(ModelCallRow, A, column) = SumNotNull(u, S) BY <1>1, <1>4, <1>6, <1>8, MeasureAddsUp
<1> QED BY <1>9, <1>10, <1>11, <1>12 DEF Q, S

\* The calls by model and by session are the calls in scope
LEMMA ModelCountsAddUp ==
    ASSUME CommittedOK, NEW f, f.model = Null
    PROVE  CountOver(ModelPoints(f), "call_count") = CountsOf(SessionMetrics, InScope(f), "model_call_count")
<1> DEFINE A == ModelCallsIn(f)
<1> DEFINE Q == ModelPoints(f)
<1> DEFINE S == InScope(f)
<1> DEFINE v == [p \in Q |-> p["call_count"]]
<1> DEFINE u == [s \in S |-> SessionMetrics[s]["model_call_count"]]
<1>1. IsFiniteSet(A) BY CallsInType
<1>2. ModelsCharted(f) = A BY UnfilteredCalls
<1>3. IsFiniteSet(Q) BY PointsAreFinite
<1>4. IsFiniteSet(S) BY ScopeType
<1>5. \A c \in A : ModelAt(f)[c] \in Q BY <1>2, PointsOfCalls DEF ModelAt
<1>6. \A c \in A : ModelSession(f)[c] \in S BY DEF ModelSession, ModelCallsIn
<1>7. \A p \in Q : v[p] = Cardinality(Fibre(A, ModelAt(f), p)) BY <1>2, PointOfEachModel
<1>8. \A s \in S : u[s] = Cardinality(Fibre(A, ModelSession(f), s)) BY RowOfEachSession
<1>9. CountOver(Q, "call_count") = SumFunctionOnSet(v, Q) BY CountOverIsSum
<1>10. CountsOf(SessionMetrics, S, "model_call_count") = SumFunctionOnSet(u, S) BY CountsAreSums
<1> HIDE DEF A, Q, S, u, v
<1>11. SumFunctionOnSet(v, Q) = Cardinality(A) BY <1>1, <1>3, <1>5, <1>7, CountOfFibres
<1>12. SumFunctionOnSet(u, S) = Cardinality(A) BY <1>1, <1>4, <1>6, <1>8, CountOfFibres
<1> QED BY <1>9, <1>10, <1>11, <1>12 DEF Q, S

\* The overview totals the rows of the view
LEMMA TotalsOfOverview ==
    ASSUME NEW f
    PROVE  /\ Overview(f).model_call_count = CountsOf(SessionMetrics, InScope(f), "model_call_count")
           /\ Overview(f).tool_call_count = CountsOf(SessionMetrics, InScope(f), "tool_call_count")
           /\ Overview(f).tool_error_count = CountsOf(SessionMetrics, InScope(f), "tool_error_count")
           /\ Overview(f).input_tokens = SumOf(SessionMetrics, InScope(f), "input_tokens")
           /\ Overview(f).output_tokens = SumOf(SessionMetrics, InScope(f), "output_tokens")
BY DEF Overview, Totals

\* The chart of models accounts for the overview
LEMMA ModelsAreAddedUp ==
    ASSUME CommittedOK, NEW f, f.model = Null
    PROVE  ModelsAddUp(ModelPoints(f), Overview(f))
BY ModelTokensAddUp, ModelCountsAddUp, TotalsOfOverview DEF ModelsAddUp

\* A point of tools counts the calls that are at it
LEMMA PointOfEachTool ==
    ASSUME NEW f, NEW p \in ToolPoints(f)
    PROVE  LET calls == Fibre(ToolsCharted(f), ToolAt(f), p)
           IN  p["call_count"] = Cardinality(calls) /\ p["error_count"] = Cardinality(Failed(calls))
<1>1. PICK c \in ToolsCharted(f) : p = ToolPointOf(f, c) BY PointsOfCalls
<1>2. Fibre(ToolsCharted(f), ToolAt(f), p) = ToolGroup(f, c) BY <1>1, CallsByToolPoint
<1> DEFINE calls == ToolGroup(f, c)
<1>3. p.call_count = Cardinality(calls) /\ p.error_count = Cardinality(Failed(calls))
    BY <1>1 DEF ToolPointOf, ToolPoint
<1> HIDE DEF calls
<1> QED BY <1>2, <1>3 DEF calls

\* The failed calls of a group are the group of the failed calls
LEMMA FailedInFibre ==
    ASSUME NEW A, NEW at, NEW q
    PROVE  Failed(Fibre(A, at, q)) = Fibre(Failed(A), at, q)
BY DEF Failed, WithStatus, Fibre

\* The calls by tool and by session are the calls in scope
LEMMA ToolCountsAddUp ==
    ASSUME CommittedOK, NEW f, f.tool = Null
    PROVE  CountOver(ToolPoints(f), "call_count") = CountsOf(SessionMetrics, InScope(f), "tool_call_count")
<1> DEFINE A == ToolCallsIn(f)
<1> DEFINE Q == ToolPoints(f)
<1> DEFINE S == InScope(f)
<1> DEFINE v == [p \in Q |-> p["call_count"]]
<1> DEFINE u == [s \in S |-> SessionMetrics[s]["tool_call_count"]]
<1>1. IsFiniteSet(A) BY CallsInType
<1>2. ToolsCharted(f) = A BY UnfilteredCalls
<1>3. IsFiniteSet(Q) BY PointsAreFinite
<1>4. IsFiniteSet(S) BY ScopeType
<1>5. \A c \in A : ToolAt(f)[c] \in Q BY <1>2, PointsOfCalls DEF ToolAt
<1>6. \A c \in A : ToolSession(f)[c] \in S BY DEF ToolSession, ToolCallsIn
<1>7. \A p \in Q : v[p] = Cardinality(Fibre(A, ToolAt(f), p)) BY <1>2, PointOfEachTool
<1>8. \A s \in S : u[s] = Cardinality(Fibre(A, ToolSession(f), s)) BY RowOfEachSession
<1>9. CountOver(Q, "call_count") = SumFunctionOnSet(v, Q) BY CountOverIsSum
<1>10. CountsOf(SessionMetrics, S, "tool_call_count") = SumFunctionOnSet(u, S) BY CountsAreSums
<1> HIDE DEF A, Q, S, u, v
<1>11. SumFunctionOnSet(v, Q) = Cardinality(A) BY <1>1, <1>3, <1>5, <1>7, CountOfFibres
<1>12. SumFunctionOnSet(u, S) = Cardinality(A) BY <1>1, <1>4, <1>6, <1>8, CountOfFibres
<1> QED BY <1>9, <1>10, <1>11, <1>12 DEF Q, S

\* So are the failed ones
LEMMA ToolErrorsAddUp ==
    ASSUME CommittedOK, NEW f, f.tool = Null
    PROVE  CountOver(ToolPoints(f), "error_count") = CountsOf(SessionMetrics, InScope(f), "tool_error_count")
<1> DEFINE A == ToolCallsIn(f)
<1> DEFINE E == Failed(A)
<1> DEFINE Q == ToolPoints(f)
<1> DEFINE S == InScope(f)
<1> DEFINE v == [p \in Q |-> p["error_count"]]
<1> DEFINE u == [s \in S |-> SessionMetrics[s]["tool_error_count"]]
<1>1. E \in SUBSET A /\ IsFiniteSet(E)
    <2>1. IsFiniteSet(A) BY CallsInType
    <2>2. E \in SUBSET A BY DEF Failed, WithStatus
    <2> QED BY <2>1, <2>2, FS_Subset
<1>2. ToolsCharted(f) = A BY UnfilteredCalls
<1>3. IsFiniteSet(Q) BY PointsAreFinite
<1>4. IsFiniteSet(S) BY ScopeType
<1>5. \A c \in A : ToolAt(f)[c] \in Q BY <1>2, PointsOfCalls DEF ToolAt
<1>6. \A c \in A : ToolSession(f)[c] \in S BY DEF ToolSession, ToolCallsIn
<1>7. \A p \in Q : v[p] = Cardinality(Failed(Fibre(A, ToolAt(f), p))) BY <1>2, PointOfEachTool
<1>8. \A s \in S : u[s] = Cardinality(Failed(Fibre(A, ToolSession(f), s))) BY RowOfEachSession
<1>9. CountOver(Q, "error_count") = SumFunctionOnSet(v, Q) BY CountOverIsSum
<1>10. CountsOf(SessionMetrics, S, "tool_error_count") = SumFunctionOnSet(u, S) BY CountsAreSums
<1> HIDE DEF A, Q, S, u, v
<1>11. /\ \A p \in Q : v[p] = Cardinality(Fibre(E, ToolAt(f), p))
       /\ \A s \in S : u[s] = Cardinality(Fibre(E, ToolSession(f), s))
    BY <1>7, <1>8, FailedInFibre
<1> HIDE DEF E
<1>12. (\A c \in E : ToolAt(f)[c] \in Q) /\ (\A c \in E : ToolSession(f)[c] \in S) BY <1>1, <1>5, <1>6
<1>13. SumFunctionOnSet(v, Q) = Cardinality(E) BY <1>1, <1>3, <1>11, <1>12, CountOfFibres
<1>14. SumFunctionOnSet(u, S) = Cardinality(E) BY <1>1, <1>4, <1>11, <1>12, CountOfFibres
<1> QED BY <1>9, <1>10, <1>13, <1>14 DEF Q, S

\* The chart of tools accounts for the overview
LEMMA ToolsAreAddedUp ==
    ASSUME CommittedOK, NEW f, f.tool = Null
    PROVE  ToolsAddUp(ToolPoints(f), Overview(f))
BY ToolCountsAddUp, ToolErrorsAddUp, TotalsOfOverview DEF ToolsAddUp

\* The sessions in scope that have a date
DatedIn(f) == {s \in InScope(f) : Dated(s)}

\* Those of the day and source of a session
DayGroup(f, s) == {t \in DatedIn(f) : DayAndSource(t) = DayAndSource(s)}

\* The point of a session
DayPoint(f, s) == ActivityPoint(DayGroup(f, s), DayOf(s), SessionRow[s].source, SessionMetrics)

DayAt(f) == [s \in DatedIn(f) |-> DayPoint(f, s)]

\* Two days that begin at one instant are one day
LEMMA DaysAreTheirs ==
    ASSUME NEW d \in Nat, NEW e \in Nat, d * DayLength = e * DayLength
    PROVE  d = e
<1>1. DayLength \in Nat /\ DayLength > 0 BY PagesAssumption
<1>2. (d * DayLength) \div DayLength = d /\ (e * DayLength) \div DayLength = e BY <1>1
<1> QED BY <1>2

\* The points of the activity are those of the dated sessions
LEMMA PointsOfDays ==
    ASSUME NEW f
    PROVE  ActivityPoints(f) = {DayAt(f)[s] : s \in DatedIn(f)}
<1> DEFINE S == DatedIn(f)
<1> DEFINE view == SessionMetrics
<1> DEFINE G(s) == DayAndSource(s)
<1> DEFINE At(group) == ActivityPoint({t \in S : G(t) = group}, group[1], group[2], view)
<1>1. ActivityPoints(f) = {At(group) : group \in {G(s) : s \in S}}
    BY DEF ActivityPoints, PointsPerDay, DatedIn
<1>2. \A s \in S : At(G(s)) = DayPoint(f, s)
    <2>1. \A s : G(s)[1] = DayOf(s) /\ G(s)[2] = SessionRow[s].source BY DEF DayAndSource
    <2> QED BY <2>1 DEF DayPoint, DayGroup
<1> HIDE DEF S, G, At
<1>3. {At(group) : group \in {G(s) : s \in S}} = {At(G(s)) : s \in S} OBVIOUS
<1>4. {At(G(s)) : s \in S} = {DayPoint(f, s) : s \in S} BY <1>2
<1> QED BY <1>1, <1>3, <1>4 DEF S, DayAt

\* A point of the activity counts the sessions that are at it
LEMMA SessionsByDay ==
    ASSUME CommittedOK, NEW f, NEW p \in ActivityPoints(f)
    PROVE  p["session_count"] = Cardinality(Fibre(DatedIn(f), DayAt(f), p))
<1>1. PICK s \in DatedIn(f) : p = DayPoint(f, s) BY PointsOfDays DEF DayAt
<1>2. \A t : DayPoint(f, t).of = [source |-> SessionRow[t].source, from |-> DayOf(t) * DayLength,
                                  to |-> (DayOf(t) + 1) * DayLength]
    BY DEF DayPoint, ActivityPoint, DayBounds
<1>3. \A t : DayPoint(f, t).of.source = SessionRow[t].source
             /\ DayPoint(f, t).of.from = DayOf(t) * DayLength
    <2> SUFFICES ASSUME NEW t
                 PROVE  /\ DayPoint(f, t).of.source = SessionRow[t].source
                        /\ DayPoint(f, t).of.from = DayOf(t) * DayLength
        OBVIOUS
    <2> DEFINE from == DayOf(t) * DayLength
    <2> DEFINE to == (DayOf(t) + 1) * DayLength
    <2>1. DayPoint(f, t).of = [source |-> SessionRow[t].source, from |-> from, to |-> to] BY <1>2
    <2> HIDE DEF from, to
    <2>2. DayPoint(f, t).of.source = SessionRow[t].source /\ DayPoint(f, t).of.from = from BY <2>1
    <2> QED BY <2>2 DEF from
<1>4. \A t \in DatedIn(f) : DayOf(t) \in Nat
    <2> SUFFICES ASSUME NEW t \in DatedIn(f) PROVE DayOf(t) \in Nat OBVIOUS
    <2>1. t \in DOMAIN SessionRow /\ Dated(t) BY ScopeType, RowsType DEF DatedIn
    <2>2. SessionRow[t].started \in Nat BY <2>1, RowsAssumption DEF Dated, OrNull
    <2> QED BY <2>2, DayHoldsItsInstants DEF DayOf
<1>5. ASSUME NEW t \in DatedIn(f), DayPoint(f, t) = DayPoint(f, s) PROVE t \in DayGroup(f, s)
    <2>1. SessionRow[t].source = SessionRow[s].source /\ DayOf(t) * DayLength = DayOf(s) * DayLength
        BY <1>3, <1>5
    <2>2. DayOf(t) \in Nat /\ DayOf(s) \in Nat BY <1>4
    <2>3. DayOf(t) = DayOf(s) BY <2>1, <2>2, DaysAreTheirs
    <2> QED BY <2>1, <2>3 DEF DayGroup, DayAndSource
<1>6. ASSUME NEW t \in DayGroup(f, s) PROVE t \in DatedIn(f) /\ DayPoint(f, t) = DayPoint(f, s)
    <2>1. t \in DatedIn(f) /\ DayAndSource(t) = DayAndSource(s) BY DEF DayGroup
    <2>2. DayGroup(f, t) = DayGroup(f, s) BY <2>1 DEF DayGroup
    <2>3. DayOf(t) = DayOf(s) /\ SessionRow[t].source = SessionRow[s].source BY <2>1 DEF DayAndSource
    <2> QED BY <2>1, <2>2, <2>3 DEF DayPoint
<1>7. Fibre(DatedIn(f), DayAt(f), p) = DayGroup(f, s)
    <2>1. DayGroup(f, s) \subseteq DatedIn(f) BY DEF DayGroup
    <2> QED BY <1>1, <1>5, <1>6, <2>1 DEF Fibre, DayAt
<1>8. p.session_count = Cardinality(DayGroup(f, s)) BY <1>1 DEF DayPoint, ActivityPoint
<1> QED BY <1>7, <1>8

\* The days and the undated sessions make all the sessions in scope
LEMMA SessionsAddUp ==
    ASSUME CommittedOK, NEW f
    PROVE  CountOver(ActivityPoints(f), "session_count")
             + Cardinality({s \in InScope(f) : ~Dated(s)}) = Cardinality(InScope(f))
<1> DEFINE S == InScope(f)
<1> DEFINE D == DatedIn(f)
<1> DEFINE U == {s \in S : ~Dated(s)}
<1> DEFINE Q == ActivityPoints(f)
<1> DEFINE v == [p \in Q |-> p["session_count"]]
<1>1. IsFiniteSet(S) BY ScopeType
<1>2. D \in SUBSET S /\ U \in SUBSET S /\ D \cup U = S /\ D \cap U = {} BY DEF DatedIn
<1>3. Q = {DayAt(f)[s] : s \in D} BY PointsOfDays
<1>4. \A p \in Q : v[p] = Cardinality(Fibre(D, DayAt(f), p)) BY SessionsByDay
<1>5. CountOver(Q, "session_count") = SumFunctionOnSet(v, Q) BY CountOverIsSum
<1> HIDE DEF S, D, U, Q, v
<1>6. IsFiniteSet(D) /\ IsFiniteSet(U) BY <1>1, <1>2, FS_Subset
<1>7. IsFiniteSet(Q) BY <1>3, <1>6, ImageIsFinite
<1>8. \A s \in D : DayAt(f)[s] \in Q BY <1>3
<1>9. SumFunctionOnSet(v, Q) = Cardinality(D) BY <1>4, <1>6, <1>7, <1>8, CountOfFibres
<1>10. Cardinality(S) = Cardinality(D) + Cardinality(U) - Cardinality(D \cap U) BY <1>2, <1>6, FS_Union
<1>11. Cardinality(D \cap U) = 0 BY <1>2, FS_EmptySet
<1>12. Cardinality(D) \in Nat /\ Cardinality(U) \in Nat BY <1>6, FS_CardinalityType
<1>13. SumFunctionOnSet(v, Q) + Cardinality(U) = Cardinality(S) BY <1>9, <1>10, <1>11, <1>12
<1> QED BY <1>5, <1>13 DEF Q, U, S

\* Every chart accounts for the overview
LEMMA AddsUpWhenCommitted == CommittedOK => VolumetryAddsUp
BY ModelsAreAddedUp, ToolsAreAddedUp, SessionsAddUp DEF VolumetryAddsUp

\* The charts account for every call and session of the overview under the same
\* filters, once: for any tables that imports fill (views of revision 0002,
\* read_models/sql.py)
THEOREM VolumetryIsKept == Spec => []VolumetryAddsUp
<1>1. ReadsInv => VolumetryAddsUp BY AddsUpWhenCommitted DEF ReadsInv, TypeOK
<1> QED BY <1>1, ReadsInvariant, PTL
==================================================================================
