---------------------------- MODULE DeskProofs ----------------------------
(***************************************************************************)
(* Theorems about Positions, for any requests, prices, quantities and      *)
(* number of positions; about Assistant, for any pages, reports, keys,     *)
(* provider rows and chains; and about PerformanceReport, for any          *)
(* recommendations, labels, closes, horizons and sizes of a page.          *)
(***************************************************************************)
EXTENDS Positions, Assistant, PerformanceReport, ListsProofs, SequenceTheorems, TLAPS

Shape ==
  /\ book \in Seq(Row)
  /\ pc \in [Request -> {"new", "saving", "pricing", "done"}]
  /\ use = [q \in Request |-> use[q]]
  /\ overtaken \subseteq Request

(* An edit between its read and its save names a row, which is open unless a close came between. *)
EditInv(q) ==
  pc[q] = "saving" =>
    /\ use[q].id \in DOMAIN book /\ use[q].row \in Row /\ ~use[q].row.closed
    /\ book[use[q].id].closed => q \in overtaken

BookInv ==
  /\ Shape
  /\ \A q \in Request : EditInv(q)

LEMMA InitBook == BookInit => BookInv
<1> SUFFICES ASSUME BookInit PROVE BookInv
  OBVIOUS
<1>1. <<>> \in Seq(Row)
  OBVIOUS
<1>2. QED
  BY <1>1 DEF BookInit, BookInv, Shape, EditInv

(* What a request that begins leaves behind, whether it changes the book or starts an edit. *)
LEMMA BegunInv ==
  ASSUME BookInv, NEW q \in Request, pc[q] = "new",
         NEW there \in {"saving", "done"}, Goto(q, there),
         book' \in Seq(Row), DOMAIN book \subseteq DOMAIN book',
         overtaken \subseteq overtaken', overtaken' \subseteq Request,
         use' = [r \in Request |-> use'[r]], \A r \in Request \ {q} : use'[r] = use[r],
         \A r \in Writing : book'[use[r].id].closed =>
                            book[use[r].id].closed \/ r \in overtaken',
         there = "saving" => /\ use'[q].id \in DOMAIN book /\ use'[q].row \in Row
                             /\ ~use'[q].row.closed /\ ~book'[use'[q].id].closed
  PROVE  BookInv'
<1>1. pc' = [pc EXCEPT ![q] = there]
  BY DEF Goto
<1>2. Shape'
  BY <1>1 DEF BookInv, Shape
<1>3. EditInv(q)'
  BY <1>1 DEF BookInv, Shape, EditInv
<1>4. ASSUME NEW r \in Request \ {q}, pc'[r] = "saving" PROVE EditInv(r)'
  <2>1. pc[r] = "saving" /\ use'[r] = use[r] /\ r \in Writing
    BY <1>1, <1>4 DEF BookInv, Shape, Writing
  <2>2. QED
    BY <2>1 DEF BookInv, EditInv
<1>5. \A r \in Request \ {q} : EditInv(r)'
  BY <1>4 DEF EditInv
<1>6. QED
  BY <1>2, <1>3, <1>5 DEF BookInv

LEMMA CreateInv == ASSUME BookInv, NEW q \in Request, Create(q) PROVE BookInv'
<1>1. PICK c \in Cost, n \in Quantity :
        book' = Append(book, [cost |-> c, qty |-> n, closed |-> FALSE])
  BY DEF Create
<1>2. [cost |-> c, qty |-> n, closed |-> FALSE] \in Row /\ book \in Seq(Row)
  BY PositionsAssumption DEF BookInv, Shape, Row
<1>3. /\ book' \in Seq(Row) /\ DOMAIN book \subseteq DOMAIN book'
      /\ \A i \in DOMAIN book : book'[i] = book[i]
  BY <1>1, <1>2
<1>4. \A r \in Writing : use[r].id \in DOMAIN book
  BY DEF BookInv, EditInv, Writing
<1>5. pc[q] = "new" /\ Goto(q, "done") /\ use' = use /\ overtaken' = overtaken
  BY DEF Create
<1>6. QED
  BY <1>3, <1>4, <1>5, BegunInv DEF BookInv, Shape

LEMMA UpdateInv == ASSUME BookInv, NEW q \in Request, Update(q) PROVE BookInv'
<1>1. PICK i \in Open, c \in Cost \cup {Leave}, n \in Quantity \cup {Leave} :
        use' = [use EXCEPT ![q] =
          [id |-> i, row |-> [cost   |-> IF c = Leave THEN book[i].cost ELSE c,
                              qty    |-> IF n = Leave THEN book[i].qty ELSE n,
                              closed |-> FALSE]]]
  BY DEF Update
<1>2. i \in DOMAIN book /\ ~book[i].closed /\ book[i] \in Row
  BY DEF Open, BookInv, Shape
<1>3. /\ use'[q].id = i /\ use'[q].row \in Row /\ ~use'[q].row.closed
      /\ \A r \in Request \ {q} : use'[r] = use[r]
  BY <1>1, <1>2, PositionsAssumption DEF BookInv, Shape, Row
<1>4. use' = [r \in Request |-> use'[r]]
  BY <1>1 DEF BookInv, Shape
<1>5. pc[q] = "new" /\ Goto(q, "saving") /\ book' = book /\ overtaken' = overtaken
  BY DEF Update
<1>6. QED
  BY <1>2, <1>3, <1>4, <1>5, BegunInv DEF BookInv, Shape

LEMMA CloseInv == ASSUME BookInv, NEW q \in Request, Close(q) PROVE BookInv'
<1>1. PICK i \in Open : /\ book' = [book EXCEPT ![i].closed = TRUE]
                       /\ overtaken' = overtaken \cup {e \in Writing : use[e].id = i}
  BY DEF Close
<1>2. i \in DOMAIN book /\ book \in Seq(Row) /\ book[i] \in Row
  BY DEF Open, BookInv, Shape
<1>3. [book[i] EXCEPT !.closed = TRUE] \in Row
  BY <1>2 DEF Row
<1>4. book' \in Seq(Row) /\ DOMAIN book \subseteq DOMAIN book'
  BY <1>1, <1>2, <1>3
<1>5. ASSUME NEW r \in Writing, book'[use[r].id].closed
      PROVE  book[use[r].id].closed \/ r \in overtaken'
  BY <1>1, <1>2, <1>5
<1>6. overtaken \subseteq overtaken' /\ overtaken' \subseteq Request
  BY <1>1 DEF BookInv, Shape, Writing
<1>7. pc[q] = "new" /\ Goto(q, "done") /\ use' = use
  BY DEF Close
<1>8. QED
  BY <1>4, <1>5, <1>6, <1>7, BegunInv DEF BookInv, Shape

(* A save leaves an open row behind, whoever else is about to save it. *)
LEMMA SaveInv == ASSUME BookInv, NEW q \in Request, Save(q) PROVE BookInv'
<1>1. /\ pc[q] = "saving" /\ book' = [book EXCEPT ![use[q].id] = use[q].row]
      /\ pc' = [pc EXCEPT ![q] = "done"] /\ use' = use /\ overtaken' = overtaken
  BY DEF Save, Goto
<1>2. use[q].id \in DOMAIN book /\ use[q].row \in Row /\ book \in Seq(Row)
  BY <1>1 DEF BookInv, Shape, EditInv
<1>3. book' \in Seq(Row) /\ DOMAIN book' = DOMAIN book
  BY <1>1, <1>2
<1>4. Shape'
  BY <1>1, <1>3 DEF BookInv, Shape
<1>5. ASSUME NEW r \in Request, pc'[r] = "saving" PROVE EditInv(r)'
  <2>1. pc[r] = "saving" /\ use[r].id \in DOMAIN book /\ EditInv(r)
    BY <1>1, <1>5 DEF BookInv, Shape, EditInv
  <2>2. book'[use[r].id].closed => book[use[r].id].closed
    BY <1>1, <1>2, <2>1 DEF BookInv, EditInv
  <2>3. QED
    BY <1>1, <1>3, <2>1, <2>2 DEF EditInv
<1>6. \A r \in Request : EditInv(r)'
  BY <1>5 DEF EditInv
<1>7. QED
  BY <1>4, <1>6 DEF BookInv

LEMMA NextBook == BookInv /\ [BookNext]_bookVars => BookInv'
<1> SUFFICES ASSUME BookInv, [BookNext]_bookVars PROVE BookInv'
  OBVIOUS
<1>1. CASE UNCHANGED bookVars
  BY <1>1 DEF bookVars, BookInv, Shape, EditInv
<1>2. ASSUME NEW q \in Request, List(q) \/ Quote(q) \/ Respond(q) PROVE BookInv'
  <2>1. /\ UNCHANGED <<book, use, overtaken>>
        /\ pc' = pc \/ pc' = [pc EXCEPT ![q] = "pricing"] \/ pc' = [pc EXCEPT ![q] = "done"]
    BY <1>2 DEF List, Quote, Respond, Goto
  <2>2. Shape'
    BY <2>1 DEF BookInv, Shape
  <2>3. \A r \in Request : pc'[r] = "saving" => pc[r] = "saving"
    BY <2>1 DEF BookInv, Shape
  <2>4. \A r \in Request : EditInv(r)'
    BY <2>1, <2>3 DEF BookInv, EditInv
  <2>5. QED
    BY <2>2, <2>4 DEF BookInv
<1>3. QED
  BY <1>1, <1>2, CreateInv, UpdateInv, SaveInv, CloseInv DEF BookNext

(* The inductive invariant. *)
THEOREM Invariance == BookSpec => []BookInv
BY InitBook, NextBook, PTL DEF BookSpec

(* The open rows from the newest to the oldest are rows of the book. *)
LEMMA ListedRows ==
  ASSUME BookInv
  PROVE  [k \in 1..Cardinality(Open) |->
            book[CHOOSE i \in Open : Cardinality({j \in Open : j > i}) = k - 1]] \in Seq(Row)
<1> DEFINE n == Cardinality(Open)
           place(k) == CHOOSE i \in Open : Cardinality({j \in Open : j > i}) = k - 1
<1>1. Open \in SUBSET Nat /\ IsFiniteSet(Open) /\ \A i \in Open : book[i] \in Row
  <2>1. Open \subseteq 1..Len(book) /\ Len(book) \in Nat /\ \A i \in Open : book[i] \in Row
    BY DEF BookInv, Shape, Open
  <2>2. IsFiniteSet(1..Len(book))
    BY <2>1, FS_Interval
  <2>3. IsFiniteSet(Open)
    BY <2>1, <2>2, FS_Subset
  <2>4. QED
    BY <2>1, <2>3
<1>2. n \in Nat
  BY <1>1, FS_CardinalityType
<1>3. ASSUME NEW k \in 1..n PROVE \E i \in Open : Cardinality({j \in Open : j > i}) = k - 1
  <2> DEFINE m == n - k + 1
  <2>1. m \in 1..n
    BY <1>2
  <2>2. PICK i \in Open : Cardinality({j \in Open : j <= i}) = m
    BY <1>1, <2>1, NthExists
  <2>3. /\ {j \in Open : j <= i} \in SUBSET Open /\ {j \in Open : j > i} \in SUBSET Open
        /\ {j \in Open : j <= i} \cup {j \in Open : j > i} = Open
        /\ {j \in Open : j <= i} \cap {j \in Open : j > i} = {}
    <3>1. i \in Nat /\ \A j \in Open : j \in Nat
      BY <1>1
    <3>2. \A j \in Open : (j <= i \/ j > i) /\ ~(j <= i /\ j > i)
      BY <3>1
    <3>3. QED
      BY <3>2, Zenon
  <2>4. IsFiniteSet({j \in Open : j <= i}) /\ IsFiniteSet({j \in Open : j > i})
    BY <1>1, <2>3, FS_Subset
  <2>5. /\ n = Cardinality({j \in Open : j <= i}) + Cardinality({j \in Open : j > i})
        /\ Cardinality({j \in Open : j > i}) \in Nat
    <3> DEFINE A == {j \in Open : j <= i}
               B == {j \in Open : j > i}
    <3>1. Cardinality(A) \in Nat /\ Cardinality(B) \in Nat /\ Cardinality({}) = 0
      BY <2>4, FS_CardinalityType, FS_EmptySet
    <3>2. Cardinality(A \cup B) = Cardinality(A) + Cardinality(B) - Cardinality(A \cap B)
      BY <2>4, FS_Union
    <3>3. A \cup B = Open /\ A \cap B = {}
      BY <2>3
    <3> HIDE DEF A, B
    <3>4. Cardinality(Open) = Cardinality(A) + Cardinality(B)
      BY <3>1, <3>2, <3>3
    <3>5. QED
      BY <3>1, <3>4 DEF A, B
  <2>6. QED
    BY <1>2, <2>2, <2>5
<1>4. \A k \in 1..n : place(k) \in Open
  BY <1>3
<1> HIDE DEF n, place
<1>5. [k \in 1..n |-> book[place(k)]] \in Seq(Row)
  <2>1. [k \in 1..n |-> book[place(k)]] \in [1..n -> Row]
    BY <1>1, <1>4
  <2>2. QED
    BY <1>2, <2>1 DEF Seq
<1>6. QED
  BY <1>5 DEF n, place

(* What BookInv does not say of the types. *)
BookTypes ==
  /\ Len(book) <= MaxPosition
  /\ rows \in [Request -> Seq(Row)]
  /\ \A q \in Request : use[q].id \in 0..Len(book)

(* Every variable of the positions keeps its type. *)
THEOREM BookTypeCorrect == BookSpec => []BookTypeOK
<1>1. BookInit => BookTypes
  BY PositionsAssumption DEF BookInit, BookTypes, NoRow
<1>2. BookInv /\ BookTypes /\ [BookNext]_bookVars => BookTypes'
  <2> SUFFICES ASSUME BookInv, BookTypes, [BookNext]_bookVars PROVE BookTypes'
    OBVIOUS
  <2>1. book \in Seq(Row) /\ Len(book) \in Nat /\ MaxPosition \in Nat
    BY PositionsAssumption DEF BookInv, Shape
  <2>2. ASSUME NEW q \in Request, Create(q) PROVE BookTypes'
    <3>1. PICK c \in Cost, m \in Quantity :
            book' = Append(book, [cost |-> c, qty |-> m, closed |-> FALSE])
      BY <2>2 DEF Create
    <3>2. [cost |-> c, qty |-> m, closed |-> FALSE] \in Row
      BY PositionsAssumption DEF Row
    <3>3. Len(book') = Len(book) + 1
      BY <2>1, <3>1, <3>2
    <3>4. Len(book) < MaxPosition /\ use' = use /\ rows' = rows
      BY <2>2 DEF Create
    <3>5. QED
      BY <2>1, <3>3, <3>4 DEF BookTypes
  <2>3. ASSUME NEW q \in Request, Update(q) PROVE BookTypes'
    <3>1. book' = book /\ rows' = rows
      BY <2>3 DEF Update
    <3>2. PICK i \in Open : \E row : use' = [use EXCEPT ![q] = [id |-> i, row |-> row]]
      BY <2>3 DEF Update
    <3>3. i \in 0..Len(book)
      BY <2>1 DEF Open
    <3>4. \A r \in Request : use'[r].id = i \/ use'[r].id = use[r].id
      BY <3>2 DEF BookInv, Shape
    <3>5. QED
      BY <3>1, <3>3, <3>4 DEF BookTypes
  <2>4. ASSUME NEW q \in Request, Save(q) \/ Close(q) PROVE BookTypes'
    <3>1. rows' = rows /\ use' = use
          /\ \E i, row : book' = [book EXCEPT ![i] = row]
      BY <2>4 DEF Save, Close
    <3>2. Len(book') = Len(book)
      BY <2>1, <3>1
    <3>3. QED
      BY <3>1, <3>2 DEF BookTypes
  <2>5. ASSUME NEW q \in Request, List(q) PROVE BookTypes'
    <3>1. book' = book /\ use' = use
      BY <2>5 DEF List
    <3>2. rows' \in [Request -> Seq(Row)]
      BY <2>5, ListedRows DEF List, BookTypes
    <3>3. QED
      BY <3>1, <3>2 DEF BookTypes
  <2>6. CASE (\E q \in Request : Quote(q) \/ Respond(q)) \/ UNCHANGED bookVars
    BY <2>6 DEF Quote, Respond, bookVars, BookTypes
  <2>7. QED
    BY <2>2, <2>3, <2>4, <2>5, <2>6 DEF BookNext
<1>3. BookInv /\ BookTypes => BookTypeOK
  BY DEF BookInv, Shape, BookTypes, BookTypeOK
<1>4. QED
  BY <1>1, <1>2, <1>3, Invariance, PTL DEF BookSpec

(***************************************************************************)
(* A closed position is opened again only by the save of an edit that had  *)
(* read it before it was closed, and no save touches another position than *)
(* its edit has read.                                                      *)
(***************************************************************************)
THEOREM OwnRowOnly == BookSpec => EditsOwnPosition
<1> DEFINE Right(i) == \/ book'[i] = [book[i] EXCEPT !.closed = TRUE]
                       \/ \E q \in Writing : pc'[q] # pc[q] /\ use[q].id = i
                                             /\ (book[i].closed => q \in overtaken)
<1>1. ASSUME BookInv, [BookNext]_bookVars, NEW i \in DOMAIN book, book'[i] # book[i] PROVE Right(i)
  <2>1. PICK q \in Request : Create(q) \/ Save(q) \/ Close(q)
    BY <1>1 DEF BookNext, bookVars, Update, List, Quote, Respond
  <2>2. book \in Seq(Row)
    BY <1>1 DEF BookInv, Shape
  <2>3. ASSUME Create(q) PROVE FALSE
    <3>1. PICK c \in Cost, n \in Quantity :
            book' = Append(book, [cost |-> c, qty |-> n, closed |-> FALSE])
      BY <2>3 DEF Create
    <3>2. QED
      BY <1>1, <2>2, <3>1
  <2>4. CASE Close(q)
    <3>1. PICK k \in Open : book' = [book EXCEPT ![k].closed = TRUE]
      BY <2>4 DEF Close
    <3>2. k = i /\ book'[i] = [book[i] EXCEPT !.closed = TRUE]
      BY <1>1, <2>2, <3>1
    <3>3. QED
      BY <3>2
  <2>5. CASE Save(q)
    <3>1. /\ pc[q] = "saving" /\ pc' = [pc EXCEPT ![q] = "done"]
          /\ book' = [book EXCEPT ![use[q].id] = use[q].row]
      BY <2>5 DEF Save, Goto
    <3>2. use[q].id = i
      BY <1>1, <2>2, <3>1
    <3>3. pc'[q] # pc[q] /\ q \in Writing
      BY <1>1, <3>1 DEF BookInv, Shape, Writing
    <3>4. book[i].closed => q \in overtaken
      BY <1>1, <3>1, <3>2 DEF BookInv, EditInv
    <3>5. QED
      BY <3>2, <3>3, <3>4
  <2>6. QED
    BY <2>1, <2>3, <2>4, <2>5
<1> DEFINE Own == \A i \in DOMAIN book : book'[i] # book[i] => Right(i)
<1>2. BookInv /\ [BookNext]_bookVars => [Own]_bookVars
  BY <1>1, Zenon
<1>3. QED
  BY <1>2, Invariance, PTL DEF BookSpec, EditsOwnPosition

----------------------------------------------------------------------------
(* The settings pages, the chain and the reports *)

(* The rows that are stored or that a page displays. *)
KnownRows == table \cup UNION {Range(shown[p]) : p \in Page}

(* Ids are not given twice: what has one id is one row, wherever it is. *)
IdInv ==
  /\ \A a, b \in KnownRows : a.id = b.id => a = b
  /\ \A a \in KnownRows : a.id < rowId

(* Until two requests cross, at most one page has a request under way. *)
TakesTurns ==
  \/ \A p \in Page : view[p] = "booting"
  \/ /\ \A p \in Page : view[p] # "booting"
     /\ ~crossed => \A p, o \in Page : view[p] # "idle" /\ view[o] # "idle" => p = o

Agrees == table # {} => \E s \in Listings : provider = ChainOf(Entries(s))

(* Between the write of a page and its swap the table is what the page asked for. *)
ChainInv ==
  /\ IsFiniteSet(table)
  /\ \A p \in Page : view[p] = "applying legacy" => legacy # {}
  /\ legacy = {} /\ ~crossed =>
       /\ \A p \in Page : view[p] = "swapping" /\ table # {} =>
            \E s \in Listings : Entries(s) = Entries(asked[p])
       /\ ~unread /\ (\A p \in Page : view[p] # "swapping") => Agrees

ReportInv(r) ==
  /\ wrote[r].at = "idle" => wrote[r] = Idle
  /\ wrote[r].at = "naming" => wrote[r].by # 0
  /\ wrote[r].at \in {"persisting", "done"} /\ wrote[r].alive /\ wrote[r].by = 0 =>
       wrote[r].next > Len(wrote[r].chain)

HasEntry(p) == view[p] = "saving legacy" => asked[p] # <<>>

AssistInv ==
  /\ AssistTypeOK
  /\ IdInv
  /\ KeptKeyIsShown
  /\ TakesTurns
  /\ ChainInv
  /\ \A p \in Page : HasEntry(p)
  /\ \A r \in Report : ReportInv(r)

(* A listing of a finite set has its elements, and is empty only of the empty set. *)
LEMMA ListingOf ==
  ASSUME NEW T, IsFiniteSet(T), NEW s \in SetToSeqs(T)
  PROVE  s \in Seq(T) /\ Range(s) \subseteq T /\ (s = <<>> => T = {})
<1>1. Cardinality(T) \in Nat
  BY FS_CardinalityType
<1>2. s \in [1..Cardinality(T) -> T]
  BY DEF SetToSeqs
<1>3. s \in Seq(T)
  BY <1>1, <1>2
<1>4. s = <<>> => Cardinality(T) = 0
  BY <1>1, <1>2
<1>5. QED
  BY <1>3, <1>4, FS_EmptySet DEF Range

(* A sequence without repetitions is a listing of its range. *)
LEMMA ListingOfRange ==
  ASSUME NEW R, NEW s \in Seq(R), \A i, j \in 1..Len(s) : s[i] = s[j] => i = j
  PROVE  s \in SetToSeqs(Range(s)) /\ IsFiniteSet(Range(s))
<1>1. IsList(s) /\ Len(s) \in Nat /\ s \in [1..Len(s) -> Range(s)]
  <2>1. IsList(s)
    BY SeqIsList
  <2>2. QED
    BY <2>1, ListFacts DEF Range
<1>2. IsFiniteSet(Range(s)) /\ Cardinality(Range(s)) = Len(s)
  BY <1>1, DistinctCount
<1>3. QED
  BY <1>1, <1>2 DEF SetToSeqs

LEMMA EntriesType ==
  ASSUME NEW R, \A x \in R : x.entry \in Entry, NEW s \in Seq(R)
  PROVE  Entries(s) \in Seq(Entry)
<1>1. Len(s) \in Nat /\ DOMAIN s = 1..Len(s) /\ \A i \in 1..Len(s) : s[i].entry \in Entry
  BY LenProperties, ElementOfSeq
<1>2. Entries(s) = [i \in 1..Len(s) |-> s[i].entry]
  BY <1>1 DEF Entries
<1>3. Entries(s) \in [1..Len(s) -> Entry]
  BY <1>1, <1>2
<1>4. QED
  BY <1>1, <1>3

LEMMA ChainType ==
  ASSUME NEW es \in Seq(Entry)
  PROVE  ChainOf(es) \in Seq(Client)
<1> DEFINE K == {i \in DOMAIN es : es[i].enabled /\ Buildable(es[i])}
           u == Sublist(es, K)
<1>1. IsList(es) /\ K \in SUBSET DOMAIN es
  BY SeqIsList
<1>2. IsList(u)
  BY <1>1, SublistIsList
<1>3. ASSUME NEW k \in DOMAIN u PROVE u[k] \in Entry
  <2>1. PICK i \in K : u[k] = es[i]
    BY <1>1, <1>3, SublistElement
  <2>2. QED
    BY <2>1, LenProperties, ElementOfSeq
<1>4. ChainOf(es) = [i \in DOMAIN u |-> [kind |-> u[i].kind, key |-> u[i].key]]
  BY DEF ChainOf
<1> HIDE DEF u
<1>5. Len(u) \in Nat /\ DOMAIN u = 1..Len(u)
  BY <1>2, ListFacts
<1>6. ChainOf(es) \in [1..Len(u) -> Client]
  BY <1>3, <1>4, <1>5 DEF Entry, Client
<1>7. QED
  BY <1>5, <1>6

(* What a page can send about a row it shows, and about a new one. *)
LEMMA FieldFacts ==
  ASSUME NEW p \in Page, Range(shown[p]) \subseteq ProviderRow, NEW f \in Fields(p)
  PROVE  /\ f.kind \in {"mock", "remote"} /\ f.enabled \in BOOLEAN
         /\ f.kept \in Key \cup {NoKey} /\ f.key \in Key \cup {NoKey}
         /\ f.kept # NoKey => f.keep /\ f.key = NoKey
         /\ f.kept # NoKey => \E row \in Range(shown[p]) : f.id = row.id /\ f.kept = row.entry.key
<1> DEFINE A == {Keeping(row, on) : row \in Range(shown[p]), on \in BOOLEAN}
           B == {Fresh("remote", k) : k \in Key}
           C == {Fresh("mock", NoKey)}
<1>1. CASE f \in A
  <2>1. PICK row \in Range(shown[p]), on \in BOOLEAN : f = Keeping(row, on)
    BY <1>1
  <2>2. row.entry \in Entry
    BY DEF ProviderRow
  <2>3. QED
    BY <2>1, <2>2 DEF Keeping, Entry
<1>2. CASE f \in B
  <2>1. PICK k \in Key : f = Fresh("remote", k)
    BY <1>2
  <2>2. QED
    BY <2>1 DEF Fresh
<1>3. CASE f \in C
  <2>1. f = Fresh("mock", NoKey)
    BY <1>3
  <2>2. QED
    BY <2>1 DEF Fresh
<1>4. Fields(p) = A \cup B \cup C
  BY DEF Fields
<1> HIDE DEF A, B, C
<1>5. QED
  BY <1>1, <1>2, <1>3, <1>4

LEMMA SecretType ==
  ASSUME NEW f, f.key \in Key \cup {NoKey}, NEW prior \in SUBSET ProviderRow
  PROVE  SecretOf(f, prior) \in Key \cup {NoKey}
<1>1. CASE f.keep /\ \E row \in prior : row.id = f.id
  <2>1. (CHOOSE row \in prior : row.id = f.id) \in prior
    BY <1>1
  <2>2. QED
    BY <1>1, <2>1 DEF SecretOf, ProviderRow, Entry
<1>2. CASE ~(f.keep /\ \E row \in prior : row.id = f.id)
  BY <1>2 DEF SecretOf
<1>3. QED
  BY <1>1, <1>2

LEMMA InputsType ==
  ASSUME NEW p \in Page, NEW inputs \in Inputs(p)
  PROVE  inputs \in Seq(Fields(p))
<1> DEFINE F == Fields(p)
<1> HIDE DEF F
<1>1. \/ inputs = <<>>
      \/ \E f \in F : inputs = <<f>>
      \/ \E f, g \in F : inputs = <<f, g>>
  BY DEF Inputs, F
<1>2. ASSUME NEW f \in F, NEW g \in F PROVE <<f>> \in Seq(F) /\ <<f, g>> \in Seq(F)
  OBVIOUS
<1>3. <<>> \in Seq(F)
  OBVIOUS
<1>4. QED
  BY <1>1, <1>2, <1>3, Zenon DEF F

(* The rows a page's request becomes, from id n on. *)
Stored(n, a) ==
  [i \in DOMAIN a |-> [id |-> n + i - 1, priority |-> i - 1, entry |-> a[i].entry]]

LEMMA StoredFacts ==
  ASSUME NEW n \in 1..(MaxId + 1), NEW a \in Seq(Asked), n + Len(a) <= MaxId + 1
  PROVE  /\ Stored(n, a) \in Seq(ProviderRow) /\ Len(Stored(n, a)) = Len(a) /\ Len(a) \in Nat
         /\ \A i \in 1..Len(a) : /\ Stored(n, a)[i].id = n + i - 1
                                 /\ Stored(n, a)[i].priority = i - 1
         /\ Entries(Stored(n, a)) = Entries(a)
         /\ {[id |-> n + i - 1, priority |-> i - 1, entry |-> a[i].entry] : i \in DOMAIN a}
              = Range(Stored(n, a))
<1>1. Len(a) \in Nat /\ DOMAIN a = 1..Len(a) /\ \A i \in 1..Len(a) : a[i] \in Asked
  BY LenProperties, ElementOfSeq
<1>2. /\ DOMAIN Stored(n, a) = 1..Len(a)
      /\ \A i \in 1..Len(a) :
           Stored(n, a)[i] = [id |-> n + i - 1, priority |-> i - 1, entry |-> a[i].entry]
  BY <1>1 DEF Stored
<1>3. Stored(n, a) \in [1..Len(a) -> ProviderRow]
  <2>1. ASSUME NEW i \in 1..Len(a)
        PROVE  [id |-> n + i - 1, priority |-> i - 1, entry |-> a[i].entry] \in ProviderRow
    <3>1. a[i].entry \in Entry /\ n + i - 1 \in 1..MaxId /\ i - 1 \in Nat
      BY <1>1, MaxIdAssumption DEF Asked
    <3>2. QED
      BY <3>1 DEF ProviderRow
  <2>2. QED
    BY <1>1, <2>1 DEF Stored
<1>4. Stored(n, a) \in Seq(ProviderRow) /\ Len(Stored(n, a)) = Len(a)
  BY <1>1, <1>3
<1>5. Entries(Stored(n, a)) = Entries(a)
  BY <1>1, <1>2 DEF Entries
<1>6. {[id |-> n + i - 1, priority |-> i - 1, entry |-> a[i].entry] : i \in DOMAIN a}
        = Range(Stored(n, a))
  BY <1>1, <1>2 DEF Range
<1>7. QED
  BY <1>1, <1>2, <1>4, <1>5, <1>6

(* What SaveChain asks for. *)
Wish(inputs, prior) ==
  [i \in DOMAIN inputs |->
     [kept  |-> inputs[i].kept,
      entry |-> [kind |-> inputs[i].kind, key |-> SecretOf(inputs[i], prior),
                 enabled |-> inputs[i].enabled]]]

LEMMA WishType ==
  ASSUME NEW p \in Page, Range(shown[p]) \subseteq ProviderRow, NEW inputs \in Inputs(p),
         NEW prior \in SUBSET ProviderRow
  PROVE  Wish(inputs, prior) \in Seq(Asked)
<1>1. inputs \in Seq(Fields(p))
  BY InputsType
<1> DEFINE F == Fields(p)
<1> HIDE DEF F
<1>2. Len(inputs) \in Nat /\ DOMAIN inputs = 1..Len(inputs) /\ \A i \in 1..Len(inputs) : inputs[i] \in F
  BY <1>1, LenProperties, ElementOfSeq DEF F
<1>3. ASSUME NEW i \in 1..Len(inputs) PROVE Wish(inputs, prior)[i] \in Asked
  <2>1. inputs[i] \in Fields(p)
    BY <1>2 DEF F
  <2>2. /\ inputs[i].kind \in {"mock", "remote"} /\ inputs[i].enabled \in BOOLEAN
        /\ inputs[i].kept \in Key \cup {NoKey} /\ inputs[i].key \in Key \cup {NoKey}
    BY <2>1, FieldFacts
  <2>3. SecretOf(inputs[i], prior) \in Key \cup {NoKey}
    BY <2>2, SecretType
  <2>4. QED
    BY <1>2, <2>2, <2>3 DEF Wish, Asked, Entry
<1>4. Wish(inputs, prior) \in [1..Len(inputs) -> Asked]
  BY <1>2, <1>3 DEF Wish
<1>5. QED
  BY <1>2, <1>4

(* The older route: what it writes. *)
LEMMA LegacyType ==
  ASSUME AssistTypeOK, NEW p \in Page, SaveLegacy(p)
  PROVE  /\ asked' \in [Page -> Seq(Asked)]
         /\ \A w \in Range(asked'[p]) : w.kept = NoKey
         /\ \A o \in Page \ {p} : asked'[o] = asked[o]
<1>1. PICK e \in Entry : asked' = [asked EXCEPT ![p] = <<[kept |-> NoKey, entry |-> e]>>]
  <2>1. PICK in \in Older :
          LET stored == IF legacy = {} THEN NoKey ELSE (CHOOSE e \in legacy : TRUE).key
              entry == IF in.keep /\ in.entry.key = NoKey
                       THEN [in.entry EXCEPT !.key = stored] ELSE in.entry
          IN asked' = [asked EXCEPT ![p] = <<[kept |-> NoKey, entry |-> entry]>>]
    BY DEF SaveLegacy
  <2> DEFINE stored == IF legacy = {} THEN NoKey ELSE (CHOOSE e \in legacy : TRUE).key
             entry == IF in.keep /\ in.entry.key = NoKey
                      THEN [in.entry EXCEPT !.key = stored] ELSE in.entry
  <2>2. stored \in Key \cup {NoKey}
    <3>1. legacy # {} => (CHOOSE e \in legacy : TRUE) \in legacy
      OBVIOUS
    <3>2. QED
      BY <3>1 DEF AssistTypeOK, Entry
  <2>3. in.entry \in Entry
    BY OlderAssumption
  <2> HIDE DEF stored
  <2>4. entry \in Entry
    BY <2>2, <2>3 DEF Entry
  <2>5. asked' = [asked EXCEPT ![p] = <<[kept |-> NoKey, entry |-> entry]>>]
    BY <2>1 DEF stored
  <2>6. QED
    BY <2>4, <2>5
<1> DEFINE x == [kept |-> NoKey, entry |-> e]
<1>2. x \in Asked /\ x.kept = NoKey
  BY DEF Asked
<1> HIDE DEF x
<1>3. <<x>> \in Seq(Asked) /\ \A w \in Range(<<x>>) : w = x
  BY <1>2 DEF Range
<1>4. asked \in [Page -> Seq(Asked)] /\ asked' = [asked EXCEPT ![p] = <<x>>]
  BY <1>1 DEF AssistTypeOK, x
<1>5. QED
  BY <1>2, <1>3, <1>4

LEMMA AssistInitType == AssistInit => AssistTypeOK
<1> SUFFICES ASSUME AssistInit PROVE AssistTypeOK
  OBVIOUS
<1>1. legacy \subseteq Entry /\ Cardinality(legacy) <= 1
  <2> DEFINE e == [kind |-> "mock", key |-> NoKey, enabled |-> TRUE]
  <2>1. e \in Entry
    BY DEF Entry
  <2> HIDE DEF e
  <2>2. legacy = {} \/ legacy = {e}
    BY DEF AssistInit, e
  <2>3. Cardinality({}) = 0 /\ Cardinality({e}) = 1
    BY FS_EmptySet, FS_Singleton
  <2>4. QED
    BY <2>1, <2>2, <2>3
<1>2. \A S : <<>> \in Seq(S)
  OBVIOUS
<1>3. Idle \in Progress
  BY <1>2 DEF Idle, Progress
<1>4. table \subseteq ProviderRow /\ rowId \in 1..(MaxId + 1)
  BY MaxIdAssumption DEF AssistInit
<1>5. shown \in [Page -> Seq(ProviderRow)] /\ asked \in [Page -> Seq(Asked)]
  BY <1>2 DEF AssistInit
<1>6. wrote \in [Report -> Progress] /\ provider \in Seq(Client)
  BY <1>3, ConfigAssumption DEF AssistInit
<1>7. QED
  BY <1>1, <1>4, <1>5, <1>6 DEF AssistInit, AssistTypeOK

LEMMA LoadType ==
  ASSUME AssistTypeOK, IsFiniteSet(table), LoadChainOnStart
  PROVE  AssistTypeOK'
<1>1. ASSUME NEW e \in legacy, rowId <= MaxId
      PROVE  Migrated(e) \in ProviderRow /\ ChainOf(<<e>>) \in Seq(Client)
  <2>1. e \in Entry /\ rowId \in 1..(MaxId + 1)
    BY <1>1 DEF AssistTypeOK
  <2>2. <<e>> \in Seq(Entry) /\ rowId \in 1..MaxId
    BY <1>1, <2>1, MaxIdAssumption
  <2>3. QED
    BY <2>1, <2>2, ChainType DEF Migrated, ProviderRow
<1>2. ASSUME NEW found \in Listings PROVE ChainOf(Entries(found)) \in Seq(Client)
  <2>1. found \in Seq(table)
    BY <1>2, ListingOf DEF Listings
  <2>2. \A x \in table : x.entry \in Entry
    BY DEF AssistTypeOK, ProviderRow
  <2>3. Entries(found) \in Seq(Entry)
    BY <2>1, <2>2, EntriesType
  <2>4. QED
    BY <2>3, ChainType
<1>3. /\ table' \subseteq ProviderRow /\ rowId' \in 1..(MaxId + 1)
      /\ provider' \in Seq(Client) /\ unread' \in BOOLEAN
  <2>1. CASE provider' = ConfigChain /\ unread' = TRUE /\ UNCHANGED <<table, rowId>>
    BY <2>1, ConfigAssumption DEF AssistTypeOK
  <2>2. ASSUME NEW found \in Listings, Loaded(found), unread' = FALSE
        PROVE  /\ table' \subseteq ProviderRow /\ rowId' \in 1..(MaxId + 1)
               /\ provider' \in Seq(Client)
    <3>1. CASE provider' = ChainOf(Entries(found)) /\ UNCHANGED <<table, rowId>>
      BY <3>1, <1>2 DEF AssistTypeOK
    <3>2. CASE /\ rowId <= MaxId /\ rowId' = rowId + 1
               /\ \E e \in legacy : table' = {Migrated(e)} /\ provider' = ChainOf(<<e>>)
      <4>0. rowId \in 1..(MaxId + 1)
        BY DEF AssistTypeOK
      <4>1. rowId' \in 1..(MaxId + 1)
        BY <3>2, <4>0, MaxIdAssumption
      <4>2. PICK e \in legacy : table' = {Migrated(e)} /\ provider' = ChainOf(<<e>>)
        BY <3>2
      <4>3. QED
        BY <3>2, <4>1, <4>2, <1>1
    <3>3. CASE provider' = ConfigChain /\ UNCHANGED <<table, rowId>>
      BY <3>3, ConfigAssumption DEF AssistTypeOK
    <3>4. QED
      BY <2>2, <3>1, <3>2, <3>3 DEF Loaded
  <2>3. QED
    BY <2>1, <2>2 DEF LoadChainOnStart
<1>4. wrote' \in [Report -> Progress]
  <2>1. \A S : <<>> \in Seq(S)
    OBVIOUS
  <2>2. Idle \in Progress
    BY <2>1 DEF Idle, Progress
  <2>3. wrote' = [r \in Report |-> IF wrote[r].at = "done" THEN wrote[r] ELSE Idle]
    BY DEF LoadChainOnStart
  <2>4. QED
    BY <2>2, <2>3 DEF AssistTypeOK
<1>5. asked' \in [Page -> Seq(Asked)]
  BY DEF LoadChainOnStart
<1>6. QED
  BY <1>3, <1>4, <1>5 DEF LoadChainOnStart, AssistTypeOK

LEMMA PageType ==
  ASSUME AssistTypeOK, IsFiniteSet(table), NEW p \in Page,
         \/ GetProviders(p)
         \/ \E inputs \in Inputs(p) : SaveChain(p, inputs)
         \/ Replace(p) \/ ReplaceFails(p) \/ Swap(p) \/ LoadProviderRows(p) \/ Migrate(p)
         \/ SaveLegacy(p) \/ WriteLegacy(p) \/ ApplyLegacy(p),
         HasEntry(p)
  PROVE  AssistTypeOK'
<1> DEFINE none == [asked EXCEPT ![p] = <<>>]
           blank == [shown EXCEPT ![p] = <<>>]
<1>0. none \in [Page -> Seq(Asked)] /\ blank \in [Page -> Seq(ProviderRow)]
  <2>1. \A S : <<>> \in Seq(S)
    OBVIOUS
  <2>2. QED
    BY <2>1 DEF AssistTypeOK
<1> HIDE DEF none, blank
<1>1. CASE GetProviders(p)
  BY <1>1 DEF GetProviders, Enter, Turn, AssistTypeOK
<1>2. ASSUME NEW inputs \in Inputs(p), SaveChain(p, inputs) PROVE AssistTypeOK'
  <2>1. PICK prior \in {table} \cup {{}} :
          /\ asked' = [asked EXCEPT ![p] = Wish(inputs, prior)]
          /\ Enter(p, "replacing")
          /\ UNCHANGED <<table, rowId, legacy, provider, shown, unread, wrote, reports>>
    BY <1>2 DEF SaveChain, Wish
  <2>2. prior \in SUBSET ProviderRow /\ Range(shown[p]) \subseteq ProviderRow
    <3>1. table \subseteq ProviderRow /\ shown[p] \in Seq(ProviderRow)
      BY DEF AssistTypeOK
    <3>2. QED
      BY <2>1, <3>1 DEF Range
  <2>3. Wish(inputs, prior) \in Seq(Asked)
    BY <2>2, WishType
  <2>4. QED
    BY <2>1, <2>3 DEF Enter, Turn, AssistTypeOK
<1>3. CASE Replace(p)
  <2>1. rowId \in 1..(MaxId + 1) /\ asked[p] \in Seq(Asked) /\ rowId + Len(asked[p]) <= MaxId + 1
    BY <1>3 DEF Replace, AssistTypeOK
  <2>2. /\ Stored(rowId, asked[p]) \in Seq(ProviderRow) /\ Len(asked[p]) \in Nat
        /\ table' = Range(Stored(rowId, asked[p]))
    BY <1>3, <2>1, StoredFacts DEF Replace
  <2>3. table' \subseteq ProviderRow
    BY <2>2 DEF Range
  <2>4. rowId' \in 1..(MaxId + 1)
    BY <1>3, <2>1, <2>2, MaxIdAssumption DEF Replace
  <2>5. QED
    BY <1>3, <2>3, <2>4 DEF Replace, Turn, AssistTypeOK
<1>4. CASE ReplaceFails(p)
  BY <1>0, <1>4 DEF ReplaceFails, Turn, AssistTypeOK, none
<1>5. CASE Swap(p)
  <2>1. \A x \in Asked : x.entry \in Entry
    BY DEF Asked
  <2>2. Entries(asked[p]) \in Seq(Entry)
    BY <2>1, EntriesType DEF AssistTypeOK
  <2>3. ChainOf(Entries(asked[p])) \in Seq(Client)
    BY <2>2, ChainType
  <2>4. QED
    BY <1>0, <1>5, <2>3 DEF Swap, Turn, AssistTypeOK, none
<1>6. CASE LoadProviderRows(p)
  <2>1. shown' \in [Page -> Seq(ProviderRow)]
    <3>1. CASE shown' = shown
      BY <3>1 DEF AssistTypeOK
    <3>2. ASSUME NEW s \in Listings, shown' = [shown EXCEPT ![p] = s] PROVE shown' \in [Page -> Seq(ProviderRow)]
      <4>1. s \in Seq(table)
        BY ListingOf DEF Listings
      <4>2. s \in Seq(ProviderRow)
        BY <4>1, SeqMonotonic DEF AssistTypeOK
      <4>3. QED
        BY <3>2, <4>2 DEF AssistTypeOK
    <3>3. QED
      BY <1>6, <3>1, <3>2 DEF LoadProviderRows
  <2>2. QED
    BY <1>6, <2>1 DEF LoadProviderRows, Turn, AssistTypeOK
<1>7. CASE Migrate(p)
  <2>1. CASE UNCHANGED <<table, rowId>> /\ shown' = [shown EXCEPT ![p] = <<>>]
    BY <1>0, <1>7, <2>1 DEF Migrate, Turn, AssistTypeOK, blank
  <2>2. ASSUME NEW e \in legacy, rowId <= MaxId, rowId' = rowId + 1,
               table' = table \cup {Migrated(e)}, shown' = [shown EXCEPT ![p] = <<Migrated(e)>>]
        PROVE  AssistTypeOK'
    <3>0. e \in Entry /\ rowId \in 1..(MaxId + 1)
      BY <2>2 DEF AssistTypeOK
    <3>1. Migrated(e) \in ProviderRow /\ rowId' \in 1..(MaxId + 1)
      BY <2>2, <3>0, MaxIdAssumption DEF Migrated, ProviderRow
    <3>2. <<Migrated(e)>> \in Seq(ProviderRow)
      BY <3>1
    <3>3. shown' \in [Page -> Seq(ProviderRow)] /\ table' \subseteq ProviderRow
      BY <2>2, <3>1, <3>2 DEF AssistTypeOK
    <3>4. QED
      BY <1>7, <3>1, <3>3 DEF Migrate, Turn, AssistTypeOK
  <2>3. QED
    BY <1>7, <2>1, <2>2 DEF Migrate
<1>8. CASE SaveLegacy(p)
  <2>1. asked' \in [Page -> Seq(Asked)]
    BY <1>8, LegacyType
  <2>2. /\ Enter(p, "saving legacy")
        /\ UNCHANGED <<table, rowId, legacy, provider, shown, unread, wrote, reports>>
    BY <1>8 DEF SaveLegacy
  <2>3. QED
    BY <2>1, <2>2 DEF Enter, Turn, AssistTypeOK
<1>9. CASE WriteLegacy(p)
  <2>1. CASE legacy' = {asked[p][1].entry} /\ Turn(p, "applying legacy") /\ UNCHANGED asked
    <3>1. asked[p] \in Seq(Asked) /\ asked[p] # <<>>
      BY <1>9 DEF WriteLegacy, AssistTypeOK, HasEntry
    <3>2. asked[p][1] \in Asked
      BY <3>1
    <3>3. legacy' \subseteq Entry /\ Cardinality(legacy') <= 1
      <4> DEFINE e == asked[p][1].entry
      <4>1. e \in Entry
        BY <3>2 DEF Asked
      <4> HIDE DEF e
      <4>2. legacy' = {e} /\ Cardinality({e}) = 1
        BY <2>1, FS_Singleton DEF e
      <4>3. QED
        BY <4>1, <4>2
    <3>4. QED
      BY <1>9, <2>1, <3>3 DEF WriteLegacy, Turn, AssistTypeOK
  <2>2. CASE Turn(p, "idle") /\ asked' = none /\ UNCHANGED legacy
    BY <1>0, <1>9, <2>2 DEF WriteLegacy, Turn, AssistTypeOK
  <2>3. QED
    BY <1>9, <2>1, <2>2 DEF WriteLegacy, none
<1>10. CASE ApplyLegacy(p)
  <2>1. \A x \in Asked : x.entry \in Entry
    BY DEF Asked
  <2>2. Entries(asked[p]) \in Seq(Entry)
    BY <2>1, EntriesType DEF AssistTypeOK
  <2>3. ChainOf(Entries(asked[p])) \in Seq(Client)
    BY <2>2, ChainType
  <2>4. QED
    BY <1>0, <1>10, <2>3 DEF ApplyLegacy, Turn, AssistTypeOK, none
<1>11. QED
  BY <1>1, <1>2, <1>3, <1>4, <1>5, <1>6, <1>7, <1>8, <1>9, <1>10

(* The report's own steps: their type, and what they are through with. *)
LEMMA ReportStep ==
  ASSUME AssistTypeOK, NEW r \in Report, \A o \in Report : ReportInv(o),
         Generate(r) \/ Ask(r) \/ Expire(r) \/ NameProvider(r) \/ PersistReport(r)
  PROVE  AssistTypeOK' /\ (\A o \in Report : ReportInv(o)') /\ UNCHANGED settings
<1> DEFINE w == wrote[r]
<1>1. w \in Progress /\ ReportInv(r) /\ provider \in Seq(Client)
  BY DEF AssistTypeOK
<1>2. UNCHANGED settings /\ reports' \subseteq Report
  BY DEF Generate, Ask, Expire, NameProvider, PersistReport, AssistTypeOK
<1> DEFINE Fits(v) == /\ v \in Progress
                      /\ v.at = "idle" => v = Idle
                      /\ v.at = "naming" => v.by # 0
                      /\ v.at \in {"persisting", "done"} /\ v.alive /\ v.by = 0 => v.next > Len(v.chain)
<1>3. ASSUME NEW v, wrote' = [wrote EXCEPT ![r] = v], Fits(v)
      PROVE  AssistTypeOK' /\ (\A o \in Report : ReportInv(o)')
  <2>1. wrote \in [Report -> Progress]
    BY DEF AssistTypeOK
  <2>2. wrote'[r] = v /\ \A o \in Report \ {r} : wrote'[o] = wrote[o]
    BY <1>3, <2>1
  <2>3. wrote' \in [Report -> Progress]
    BY <1>3, <2>1
  <2>4. AssistTypeOK'
    BY <1>2, <2>3 DEF AssistTypeOK, settings
  <2>5. ReportInv(r)'
    BY <1>3, <2>2 DEF ReportInv
  <2>6. \A o \in Report \ {r} : ReportInv(o)'
    BY <2>2 DEF ReportInv
  <2>7. QED
    BY <2>4, <2>5, <2>6
<1>4. CASE Generate(r)
  <2> DEFINE v == [w EXCEPT !.chain = provider, !.at = IF provider = <<>> THEN "persisting" ELSE "asking"]
  <2>1. wrote' = [wrote EXCEPT ![r] = v] /\ w.at = "idle"
    BY <1>4 DEF Generate, AssistTypeOK
  <2>2. w = Idle
    BY <1>1, <2>1 DEF ReportInv
  <2>3. v \in Progress
    BY <1>1 DEF Progress
  <2>4. v.at \in {"persisting", "asking"} /\ v.next = 1 /\ v.chain = provider
    BY <1>1, <2>2 DEF Progress, Idle
  <2>5. v.at = "persisting" => Len(v.chain) = 0
    BY <1>1, <2>4 DEF Progress
  <2> HIDE DEF v
  <2>6. Fits(v)
    BY <2>3, <2>4, <2>5
  <2>7. QED
    BY <1>2, <1>3, <2>1, <2>6
<1>5. CASE Ask(r)
  <2> DEFINE answered == [w EXCEPT !.by = w.next, !.at = "naming"]
             failed == [w EXCEPT !.next = @ + 1,
                                 !.at = IF w.next < Len(w.chain) THEN "asking" ELSE "persisting"]
  <2>1. wrote' = [wrote EXCEPT ![r] = answered] \/ wrote' = [wrote EXCEPT ![r] = failed]
    BY <1>5 DEF Ask, AssistTypeOK
  <2>2. Fits(answered)
    BY <1>1 DEF Progress
  <2>3. Fits(failed)
    <3>1. Len(w.chain) \in Nat /\ w.next \in Nat \ {0}
      BY <1>1, LenProperties DEF Progress
    <3>2. failed \in Progress
      <4>1. w.next + 1 \in Nat \ {0}
        BY <3>1
      <4>2. ASSUME NEW n \in Nat \ {0}, NEW at \in {"asking", "persisting"}
            PROVE  [w EXCEPT !.next = n, !.at = at] \in Progress
        BY <1>1 DEF Progress
      <4>3. QED
        BY <4>1, <4>2
    <3>3. /\ failed.at \in {"asking", "persisting"} /\ failed.next = w.next + 1 /\ failed.chain = w.chain
          /\ failed.at = "persisting" => ~(w.next < Len(w.chain))
      BY <1>1 DEF Progress
    <3> HIDE DEF failed
    <3>4. QED
      BY <3>1, <3>2, <3>3
  <2>4. QED
    BY <1>2, <1>3, <2>1, <2>2, <2>3
<1>6. CASE Expire(r)
  <2> DEFINE v == [w EXCEPT !.alive = FALSE, !.at = IF @ = "asking" THEN "persisting" ELSE @]
  <2>1. wrote' = [wrote EXCEPT ![r] = v] /\ w.at \in {"asking", "naming", "persisting"}
    BY <1>6 DEF Expire, AssistTypeOK
  <2>2. v \in Progress /\ v.alive = FALSE /\ v.at # "idle" /\ (v.at = "naming" => v.by # 0)
    BY <1>1, <2>1 DEF Progress, ReportInv
  <2>3. QED
    BY <1>2, <1>3, <2>1, <2>2
<1>7. CASE NameProvider(r)
  <2> DEFINE v == [w EXCEPT !.label = provider, !.at = "persisting"]
  <2>1. wrote' = [wrote EXCEPT ![r] = v] /\ w.at = "naming"
    BY <1>7 DEF NameProvider, AssistTypeOK
  <2>2. v \in Progress /\ v.by # 0 /\ v.at = "persisting"
    BY <1>1, <2>1 DEF Progress, ReportInv
  <2>3. QED
    BY <1>2, <1>3, <2>1, <2>2
<1>8. CASE PersistReport(r)
  <2> DEFINE v == [w EXCEPT !.at = "done"]
  <2>1. wrote' = [wrote EXCEPT ![r] = v] /\ w.at = "persisting"
    BY <1>8 DEF PersistReport, AssistTypeOK
  <2>2. Fits(v)
    BY <1>1, <2>1 DEF Progress, ReportInv
  <2>3. QED
    BY <1>2, <1>3, <2>1, <2>2
<1>9. QED
  BY <1>2, <1>4, <1>5, <1>6, <1>7, <1>8

(* Ids: whatever is stored anew has the next ids. *)
LEMMA IdsKept ==
  ASSUME IdInv, rowId \in Nat, rowId' \in Nat, rowId' >= rowId, NEW fresh,
         KnownRows' \subseteq KnownRows \cup fresh, KnownRows \subseteq ProviderRow,
         \A a \in fresh : a.id \in rowId..(rowId' - 1),
         \A a, b \in fresh : a.id = b.id => a = b
  PROVE  IdInv'
<1>1. \A a \in KnownRows : a.id \in Nat
  BY DEF ProviderRow
<1>2. ASSUME NEW a \in KnownRows \cup fresh, NEW b \in KnownRows \cup fresh, a.id = b.id PROVE a = b
  BY <1>1, <1>2 DEF IdInv
<1>3. ASSUME NEW a \in KnownRows \cup fresh PROVE a.id < rowId'
  BY <1>1, <1>3 DEF IdInv
<1>4. QED
  BY <1>2, <1>3 DEF IdInv

LEMMA KnownType ==
  ASSUME AssistTypeOK
  PROVE  KnownRows \subseteq ProviderRow /\ rowId \in Nat
<1>1. ASSUME NEW p \in Page PROVE Range(shown[p]) \subseteq ProviderRow
  <2>1. shown[p] \in Seq(ProviderRow)
    BY DEF AssistTypeOK
  <2>2. QED
    BY <2>1 DEF Range
<1>2. table \subseteq ProviderRow
  BY DEF AssistTypeOK
<1>3. rowId \in Nat
  <2>1. rowId \in 1..(MaxId + 1)
    BY DEF AssistTypeOK
  <2>2. QED
    BY <2>1, MaxIdAssumption
<1>4. QED
  BY <1>1, <1>2, <1>3 DEF KnownRows

(* One row is stored, or none, and the pages show what they did or what is stored. *)
LEMMA MigratedIds ==
  ASSUME AssistTypeOK, IdInv, NEW e \in legacy, rowId' = rowId + 1,
         KnownRows' \subseteq KnownRows \cup {Migrated(e)}
  PROVE  IdInv'
<1>1. rowId \in Nat /\ KnownRows \subseteq ProviderRow
  BY KnownType
<1>2. Migrated(e).id = rowId
  BY DEF Migrated
<1> DEFINE fresh == {Migrated(e)}
<1>3. /\ \A a \in fresh : a.id \in rowId..(rowId' - 1)
      /\ \A a, b \in fresh : a.id = b.id => a = b
  BY <1>1, <1>2
<1> HIDE DEF fresh
<1>4. KnownRows' \subseteq KnownRows \cup fresh
  BY DEF fresh
<1>5. rowId' \in Nat /\ rowId' >= rowId
  BY <1>1
<1>6. QED
  BY <1>1, <1>3, <1>4, <1>5, IdsKept

LEMMA SameIds ==
  ASSUME AssistTypeOK, IdInv, rowId' = rowId, KnownRows' \subseteq KnownRows
  PROVE  IdInv'
<1>1. rowId \in Nat /\ KnownRows \subseteq ProviderRow
  BY KnownType
<1> DEFINE fresh == {}
<1>2. /\ KnownRows' \subseteq KnownRows \cup fresh
      /\ \A a \in fresh : a.id \in rowId..(rowId' - 1)
      /\ \A a, b \in fresh : a.id = b.id => a = b
  OBVIOUS
<1> HIDE DEF fresh
<1>3. rowId' \in Nat /\ rowId' >= rowId
  BY <1>1
<1>4. QED
  BY <1>1, <1>2, <1>3, IdsKept

LEMMA IdsStep ==
  ASSUME AssistInv, AssistNext
  PROVE  IdInv'
<1>1. AssistTypeOK /\ IdInv /\ IsFiniteSet(table)
  BY DEF AssistInv, ChainInv
<1>2. CASE UNCHANGED <<table, rowId, shown>>
  <2>1. KnownRows' \subseteq KnownRows /\ rowId' = rowId
    BY <1>2 DEF KnownRows
  <2>2. QED
    BY <1>1, <2>1, SameIds
<1>3. CASE LoadChainOnStart
  <2>1. UNCHANGED shown
    BY <1>3 DEF LoadChainOnStart
  <2>2. CASE UNCHANGED <<table, rowId>>
    BY <1>2, <2>1, <2>2
  <2>3. ASSUME NEW e \in legacy, rowId' = rowId + 1, table' = {Migrated(e)} PROVE IdInv'
    <3>1. KnownRows' \subseteq KnownRows \cup {Migrated(e)}
      BY <2>1, <2>3 DEF KnownRows
    <3>2. QED
      BY <1>1, <2>3, <3>1, MigratedIds
  <2>4. QED
    BY <1>3, <2>2, <2>3 DEF LoadChainOnStart, Loaded
<1>4. ASSUME NEW p \in Page, Replace(p) PROVE IdInv'
  <2> DEFINE a == asked[p]
             fresh == Range(Stored(rowId, a))
  <2>1. rowId \in 1..(MaxId + 1) /\ a \in Seq(Asked) /\ rowId + Len(a) <= MaxId + 1
    BY <1>1, <1>4 DEF Replace, AssistTypeOK
  <2>2. /\ Len(a) \in Nat /\ table' = fresh /\ Len(Stored(rowId, a)) = Len(a)
        /\ Stored(rowId, a) \in Seq(ProviderRow)
        /\ \A i \in 1..Len(a) : Stored(rowId, a)[i].id = rowId + i - 1
    BY <1>4, <2>1, StoredFacts DEF Replace
  <2>3. rowId' = rowId + Len(a) /\ shown' = shown
    BY <1>4 DEF Replace
  <2>4. KnownRows' \subseteq KnownRows \cup fresh
    BY <2>2, <2>3 DEF KnownRows
  <2>5. \A x \in fresh : \E i \in 1..Len(a) : x = Stored(rowId, a)[i]
    BY <2>2 DEF Range
  <2> HIDE DEF a
  <2>6. \A x \in fresh : x.id \in rowId..(rowId' - 1)
    BY <2>1, <2>2, <2>3, <2>5
  <2>7. ASSUME NEW x \in fresh, NEW y \in fresh, x.id = y.id PROVE x = y
    <3>1. PICK i \in 1..Len(a), j \in 1..Len(a) : x = Stored(rowId, a)[i] /\ y = Stored(rowId, a)[j]
      BY <2>5
    <3>2. rowId + i - 1 = rowId + j - 1 /\ rowId \in Nat
      BY <1>1, <2>2, <2>7, <3>1, KnownType
    <3>3. i = j
      BY <2>2, <3>2
    <3>4. QED
      BY <3>1, <3>3
  <2> HIDE DEF fresh
  <2>8. rowId \in Nat /\ rowId' \in Nat /\ rowId' >= rowId
    BY <2>1, <2>2, <2>3
  <2>9. QED
    BY <1>1, <2>4, <2>6, <2>7, <2>8, IdsKept, KnownType
<1>5. ASSUME NEW p \in Page, LoadProviderRows(p) PROVE IdInv'
  <2>1. UNCHANGED <<table, rowId>>
    BY <1>5 DEF LoadProviderRows
  <2>2. CASE shown' = shown
    BY <1>2, <2>1, <2>2
  <2>3. ASSUME NEW s \in Listings, shown' = [shown EXCEPT ![p] = s] PROVE IdInv'
    <3>1. Range(s) \subseteq table
      BY <1>1, ListingOf DEF Listings
    <3>2. \A o \in Page : Range(shown'[o]) \subseteq KnownRows
      BY <1>1, <2>3, <3>1 DEF KnownRows, AssistTypeOK
    <3>3. KnownRows' \subseteq KnownRows
      BY <2>1, <3>2 DEF KnownRows
    <3>4. QED
      BY <1>1, <2>1, <3>3, SameIds
  <2>4. QED
    BY <1>5, <2>2, <2>3 DEF LoadProviderRows
<1>6. ASSUME NEW p \in Page, Migrate(p) PROVE IdInv'
  <2>1. CASE UNCHANGED <<table, rowId>> /\ shown' = [shown EXCEPT ![p] = <<>>]
    <3>1. Range(<<>>) = {}
      BY DEF Range
    <3>2. \A o \in Page : Range(shown'[o]) \subseteq KnownRows
      BY <1>1, <2>1, <3>1 DEF KnownRows, AssistTypeOK
    <3>3. KnownRows' \subseteq KnownRows
      BY <2>1, <3>2 DEF KnownRows
    <3>4. QED
      BY <1>1, <2>1, <3>3, SameIds
  <2>2. ASSUME NEW e \in legacy, rowId' = rowId + 1,
               table' = table \cup {Migrated(e)}, shown' = [shown EXCEPT ![p] = <<Migrated(e)>>]
        PROVE  IdInv'
    <3>1. Range(<<Migrated(e)>>) = {Migrated(e)}
      BY DEF Range
    <3>2. \A o \in Page : Range(shown'[o]) \subseteq KnownRows \cup {Migrated(e)}
      BY <1>1, <2>2, <3>1 DEF KnownRows, AssistTypeOK
    <3>3. KnownRows' \subseteq KnownRows \cup {Migrated(e)}
      BY <2>2, <3>2 DEF KnownRows
    <3>4. QED
      BY <1>1, <2>2, <3>3, MigratedIds
  <2>3. QED
    BY <1>6, <2>1, <2>2 DEF Migrate
<1>7. ASSUME NEW p \in Page,
             \/ GetProviders(p)
             \/ \E inputs \in Inputs(p) : SaveChain(p, inputs)
             \/ ReplaceFails(p) \/ Swap(p)
             \/ SaveLegacy(p) \/ WriteLegacy(p) \/ ApplyLegacy(p)
      PROVE  UNCHANGED <<table, rowId, shown>>
  BY <1>7 DEF GetProviders, SaveChain, ReplaceFails, Swap, SaveLegacy, WriteLegacy, ApplyLegacy
<1>8. ASSUME NEW r \in Report,
             Generate(r) \/ Ask(r) \/ Expire(r) \/ NameProvider(r) \/ PersistReport(r)
      PROVE  UNCHANGED <<table, rowId, shown>>
  BY <1>8 DEF Generate, Ask, Expire, NameProvider, PersistReport, settings
<1>9. QED
  BY <1>2, <1>3, <1>4, <1>5, <1>6, <1>7, <1>8 DEF AssistNext

(* A kept secret is found under the id of the row that showed it, or not at all. *)
LEMMA WishKeeps ==
  ASSUME AssistTypeOK, IdInv, NEW p \in Page, NEW inputs \in Inputs(p), NEW prior \in {table, {}},
         \A w \in Range(Wish(inputs, prior)) : w.entry.enabled => Buildable(w.entry),
         NEW w \in Range(Wish(inputs, prior)),
         w.kept # NoKey, w.entry.enabled, w.entry.kind = "remote"
  PROVE  w.entry.key = w.kept
<1> DEFINE F == Fields(p)
<1>1. inputs \in Seq(F)
  BY InputsType
<1> HIDE DEF F
<1>2. DOMAIN inputs = 1..Len(inputs) /\ \A i \in 1..Len(inputs) : inputs[i] \in F
  BY <1>1, LenProperties, ElementOfSeq
<1>3. PICK f \in F : w = [kept  |-> f.kept,
                          entry |-> [kind |-> f.kind, key |-> SecretOf(f, prior), enabled |-> f.enabled]]
  BY <1>2 DEF Wish, Range
<1>4. Range(shown[p]) \subseteq ProviderRow /\ Range(shown[p]) \subseteq KnownRows
  BY KnownType DEF KnownRows
<1>5. PICK row \in Range(shown[p]) : f.id = row.id /\ f.kept = row.entry.key
  <2>1. f.kept # NoKey
    BY <1>3
  <2>2. QED
    BY <1>4, <2>1, FieldFacts DEF F
<1>6. f.keep /\ f.key = NoKey
  <2>1. f.kept # NoKey
    BY <1>3
  <2>2. QED
    BY <1>4, <2>1, FieldFacts DEF F
<1>7. CASE \E o \in prior : o.id = f.id
  <2> DEFINE found == CHOOSE o \in prior : o.id = f.id
  <2>1. found \in prior /\ found.id = f.id
    BY <1>7
  <2>2. SecretOf(f, prior) = found.entry.key
    BY <1>6, <1>7 DEF SecretOf
  <2> HIDE DEF found
  <2>3. found \in KnownRows /\ row \in KnownRows
    BY <1>4, <2>1 DEF KnownRows
  <2>4. found = row
    BY <1>5, <2>1, <2>3 DEF IdInv
  <2>5. QED
    BY <1>3, <1>5, <2>2, <2>4
<1>8. CASE ~\E o \in prior : o.id = f.id
  <2>1. SecretOf(f, prior) = NoKey
    BY <1>6, <1>8 DEF SecretOf
  <2>2. ~Buildable(w.entry)
    BY <1>3, <2>1 DEF Buildable
  <2>3. QED
    BY <2>2
<1>9. QED
  BY <1>7, <1>8

LEMMA KeptStep ==
  ASSUME AssistInv, AssistNext
  PROVE  KeptKeyIsShown'
<1>1. AssistTypeOK /\ IdInv /\ KeptKeyIsShown /\ asked \in [Page -> Seq(Asked)]
  BY DEF AssistInv, AssistTypeOK
<1> DEFINE Kept(a) == \A w \in Range(a) :
               w.kept # NoKey /\ w.entry.enabled /\ w.entry.kind = "remote" => w.entry.key = w.kept
<1>2. Kept(<<>>) /\ \A p \in Page : Kept(asked[p])
  BY <1>1 DEF Range, KeptKeyIsShown
<1>3. KeptKeyIsShown' <=> \A p \in Page : Kept(asked'[p])
  BY DEF KeptKeyIsShown
<1> HIDE DEF Kept
<1>4. CASE asked' = asked
  BY <1>2, <1>3, <1>4
<1>5. ASSUME NEW p \in Page, asked' = [asked EXCEPT ![p] = <<>>] PROVE KeptKeyIsShown'
  BY <1>1, <1>2, <1>3, <1>5
<1>6. CASE LoadChainOnStart
  BY <1>2, <1>3, <1>6 DEF LoadChainOnStart
<1>7. ASSUME NEW p \in Page, NEW inputs \in Inputs(p), SaveChain(p, inputs) PROVE KeptKeyIsShown'
  <2>1. PICK prior \in {table, {}} :
          /\ \A w \in Range(Wish(inputs, prior)) : w.entry.enabled => Buildable(w.entry)
          /\ asked' = [asked EXCEPT ![p] = Wish(inputs, prior)]
    BY <1>7 DEF SaveChain, Wish
  <2>2. Kept(Wish(inputs, prior))
    BY <1>1, <2>1, WishKeeps DEF Kept
  <2>3. QED
    BY <1>1, <1>2, <1>3, <2>1, <2>2
<1>8. ASSUME NEW p \in Page, SaveLegacy(p) PROVE KeptKeyIsShown'
  <2>1. /\ \A w \in Range(asked'[p]) : w.kept = NoKey
        /\ \A o \in Page \ {p} : asked'[o] = asked[o]
    BY <1>1, <1>8, LegacyType
  <2>2. Kept(asked'[p])
    BY <2>1 DEF Kept
  <2>3. QED
    BY <1>2, <1>3, <2>1, <2>2
<1>9. ASSUME NEW p \in Page,
             ReplaceFails(p) \/ Swap(p) \/ WriteLegacy(p) \/ ApplyLegacy(p)
      PROVE  asked' = asked \/ asked' = [asked EXCEPT ![p] = <<>>]
  BY <1>9 DEF ReplaceFails, Swap, WriteLegacy, ApplyLegacy
<1>10. ASSUME NEW p \in Page, GetProviders(p) \/ Replace(p) \/ LoadProviderRows(p) \/ Migrate(p)
       PROVE  asked' = asked
  BY <1>10 DEF GetProviders, Replace, LoadProviderRows, Migrate
<1>11. ASSUME NEW r \in Report,
              Generate(r) \/ Ask(r) \/ Expire(r) \/ NameProvider(r) \/ PersistReport(r)
       PROVE  asked' = asked
  BY <1>11 DEF Generate, Ask, Expire, NameProvider, PersistReport, settings
<1>12. QED
  BY <1>4, <1>5, <1>6, <1>7, <1>8, <1>9, <1>10, <1>11 DEF AssistNext

(* A page's step: it moves alone as long as nothing has crossed. *)
Moves(p, there) ==
  /\ Turn(p, there) /\ there # "booting"
  /\ \/ view[p] \notin {"booting", "idle"} /\ crossed' = crossed
     \/ view[p] = "idle" /\ crossed' = (crossed \/ \E o \in Page \ {p} : view[o] # "idle")

LEMMA PageMoves ==
  ASSUME NEW p \in Page
  PROVE  /\ GetProviders(p) => Moves(p, "listing")
         /\ (\E inputs \in Inputs(p) : SaveChain(p, inputs)) => Moves(p, "replacing")
         /\ Replace(p) => Moves(p, "swapping")
         /\ ReplaceFails(p) => Moves(p, "idle")
         /\ Swap(p) => Moves(p, "listing")
         /\ LoadProviderRows(p) => Moves(p, "idle") \/ (table = {} /\ Moves(p, "migrating"))
         /\ Migrate(p) => Moves(p, "idle")
         /\ SaveLegacy(p) => Moves(p, "saving legacy")
         /\ WriteLegacy(p) => Moves(p, "idle") \/ (legacy' # {} /\ Moves(p, "applying legacy"))
         /\ ApplyLegacy(p) => Moves(p, "idle")
<1>1. GetProviders(p) => Moves(p, "listing")
  BY DEF GetProviders, Enter, Moves
<1>2. (\E inputs \in Inputs(p) : SaveChain(p, inputs)) => Moves(p, "replacing")
  BY DEF SaveChain, Enter, Moves
<1>3. Replace(p) => Moves(p, "swapping")
  BY DEF Replace, Moves
<1>4. ReplaceFails(p) => Moves(p, "idle")
  BY DEF ReplaceFails, Moves
<1>5. Swap(p) => Moves(p, "listing")
  BY DEF Swap, Moves
<1>6. LoadProviderRows(p) => Moves(p, "idle") \/ (table = {} /\ Moves(p, "migrating"))
  BY DEF LoadProviderRows, Moves
<1>7. Migrate(p) => Moves(p, "idle")
  BY DEF Migrate, Moves
<1>8. SaveLegacy(p) => Moves(p, "saving legacy")
  BY DEF SaveLegacy, Enter, Moves
<1>9. WriteLegacy(p) => Moves(p, "idle") \/ (legacy' # {} /\ Moves(p, "applying legacy"))
  BY DEF WriteLegacy, Moves
<1>10. ApplyLegacy(p) => Moves(p, "idle")
  BY DEF ApplyLegacy, Moves
<1>11. QED
  BY <1>1, <1>2, <1>3, <1>4, <1>5, <1>6, <1>7, <1>8, <1>9, <1>10

LEMMA Alone ==
  ASSUME AssistTypeOK, TakesTurns, NEW p \in Page, NEW there, Moves(p, there)
  PROVE  /\ TakesTurns'
         /\ view'[p] = there /\ \A o \in Page \ {p} : view'[o] = view[o]
         /\ ~crossed' => ~crossed /\ \A o \in Page \ {p} : view[o] = "idle"
<1>1. DOMAIN view = Page /\ crossed \in BOOLEAN
  BY DEF AssistTypeOK
<1>2. view' = [view EXCEPT ![p] = there] /\ there # "booting"
  BY DEF Moves, Turn
<1>3. view'[p] = there /\ \A o \in Page \ {p} : view'[o] = view[o]
  BY <1>1, <1>2
<1>4. view[p] # "booting"
  BY DEF Moves
<1>5. /\ \A o \in Page : view[o] # "booting"
      /\ ~crossed => \A q, o \in Page : view[q] # "idle" /\ view[o] # "idle" => q = o
  BY <1>4 DEF TakesTurns
<1>6. ~crossed' => ~crossed /\ \A o \in Page \ {p} : view[o] = "idle"
  <2>1. CASE view[p] \notin {"booting", "idle"} /\ crossed' = crossed
    BY <1>5, <2>1
  <2>2. CASE view[p] = "idle" /\ crossed' = (crossed \/ \E o \in Page \ {p} : view[o] # "idle")
    BY <2>2
  <2>3. QED
    BY <2>1, <2>2 DEF Moves
<1>7. TakesTurns'
  BY <1>2, <1>3, <1>5, <1>6 DEF TakesTurns
<1>8. QED
  BY <1>3, <1>6, <1>7

(* A step that leaves table and chain alone, of a page that has nothing to swap. *)
LEMMA CalmStep ==
  ASSUME AssistTypeOK, TakesTurns, ChainInv, NEW p \in Page, NEW there, Moves(p, there),
         view[p] # "swapping", there # "swapping", there # "applying legacy",
         UNCHANGED <<table, legacy, provider, unread>>
  PROVE  ChainInv'
<1>1. /\ view'[p] = there /\ \A o \in Page \ {p} : view'[o] = view[o]
      /\ ~crossed' => ~crossed /\ \A o \in Page \ {p} : view[o] = "idle"
  BY Alone
<1>2. Agrees' <=> Agrees
  BY DEF Agrees, Listings
<1>3. IsFiniteSet(table)' /\ \A o \in Page : view'[o] = "applying legacy" => legacy' # {}
  BY <1>1 DEF ChainInv
<1>4. ASSUME legacy' = {}, ~crossed'
      PROVE  /\ \A o \in Page : view'[o] # "swapping"
             /\ ~unread' => Agrees'
  BY <1>1, <1>2, <1>4 DEF ChainInv
<1>5. QED
  BY <1>3, <1>4 DEF ChainInv

(* Where the older route was used, nothing is promised. *)
LEMMA LegacyStep ==
  ASSUME ChainInv, legacy' # {}, IsFiniteSet(table')
  PROVE  ChainInv'
BY DEF ChainInv

LEMMA ReplaceStep ==
  ASSUME AssistTypeOK, TakesTurns, ChainInv, NEW p \in Page, Replace(p)
  PROVE  ChainInv'
<1> DEFINE a == asked[p]
           s == Stored(rowId, a)
<1>1. rowId \in 1..(MaxId + 1) /\ a \in Seq(Asked) /\ rowId + Len(a) <= MaxId + 1
  BY DEF Replace, AssistTypeOK
<1>2. /\ s \in Seq(ProviderRow) /\ Len(s) = Len(a) /\ Len(a) \in Nat
      /\ \A i \in 1..Len(a) : s[i].id = rowId + i - 1 /\ s[i].priority = i - 1
      /\ Entries(s) = Entries(a) /\ table' = Range(s)
  BY <1>1, StoredFacts DEF Replace
<1> HIDE DEF s
<1>3. \A i, j \in 1..Len(s) : s[i] = s[j] => i = j
  BY <1>2
<1>4. s \in SetToSeqs(Range(s)) /\ IsFiniteSet(Range(s))
  BY <1>2, <1>3, ListingOfRange
<1>5. s \in Listings'
  <2>1. DOMAIN s = 1..Len(a)
    BY <1>2
  <2>2. \A i, j \in DOMAIN s : i < j => s[i].priority <= s[j].priority
    BY <1>2, <2>1
  <2>3. QED
    BY <1>2, <1>4, <2>2 DEF Listings
<1>6. /\ view'[p] = "swapping" /\ \A o \in Page \ {p} : view'[o] = view[o]
      /\ ~crossed' => ~crossed /\ \A o \in Page \ {p} : view[o] = "idle"
  BY PageMoves, Alone
<1>7. asked' = asked /\ legacy' = legacy
  BY DEF Replace
<1>8. \A o \in Page : view'[o] = "applying legacy" => legacy' # {}
  BY <1>6, <1>7 DEF ChainInv
<1>9. ASSUME ~crossed', NEW o \in Page, view'[o] = "swapping"
      PROVE  \E l \in Listings' : Entries(l) = Entries(asked'[o])
  BY <1>2, <1>5, <1>6, <1>7, <1>9
<1>10. IsFiniteSet(table')
  BY <1>2, <1>4
<1>11. QED
  BY <1>6, <1>8, <1>9, <1>10 DEF ChainInv, Entries

LEMMA SwapStep ==
  ASSUME AssistTypeOK, TakesTurns, ChainInv, NEW p \in Page, Swap(p)
  PROVE  ChainInv'
<1>1. /\ view'[p] = "listing" /\ \A o \in Page \ {p} : view'[o] = view[o]
      /\ ~crossed' => ~crossed /\ \A o \in Page \ {p} : view[o] = "idle"
  BY PageMoves, Alone
<1>2. /\ view[p] = "swapping" /\ UNCHANGED <<table, legacy>>
      /\ provider' = ChainOf(Entries(asked[p]))
  BY DEF Swap
<1>3. Listings' = Listings
  BY <1>2 DEF Listings
<1>4. ASSUME legacy' = {}, ~crossed' PROVE (\A o \in Page : view'[o] # "swapping") /\ Agrees'
  <2>1. table # {} => \E s \in Listings : Entries(s) = Entries(asked[p])
    BY <1>1, <1>2, <1>4 DEF ChainInv
  <2>2. table' # {} => \E s \in Listings' : provider' = ChainOf(Entries(s))
    BY <1>2, <1>3, <2>1
  <2>3. Agrees'
    BY <2>2 DEF Agrees, Entries, ChainOf, Buildable
  <2>4. QED
    BY <1>1, <1>4, <2>3
<1>5. IsFiniteSet(table') /\ \A o \in Page : view'[o] = "applying legacy" => legacy' # {}
  BY <1>1, <1>2 DEF ChainInv
<1>6. QED
  BY <1>4, <1>5 DEF ChainInv

LEMMA LoadStep ==
  ASSUME AssistTypeOK, ChainInv, LoadChainOnStart
  PROVE  ChainInv' /\ TakesTurns'
<1>1. view' = [p \in Page |-> "idle"] /\ legacy' = legacy
  BY DEF LoadChainOnStart
<1>2. TakesTurns'
  BY <1>1 DEF TakesTurns, LoadChainOnStart
<1>3. IsFiniteSet(table')
  <2>1. table' = table \/ \E e \in legacy : table' = {Migrated(e)}
    BY DEF LoadChainOnStart, Loaded
  <2>2. \A x : IsFiniteSet({x})
    BY FS_Singleton
  <2>3. QED
    BY <2>1, <2>2 DEF ChainInv
<1>4. ASSUME legacy = {}, ~unread' PROVE Agrees'
  <2>1. PICK found \in Listings : Loaded(found)
    BY <1>4 DEF LoadChainOnStart
  <2>2. found = <<>> => table = {}
    BY <2>1, ListingOf DEF Listings, ChainInv
  <2>3. CASE table = {}
    <3>1. table' = {}
      BY <1>4, <2>1, <2>3 DEF Loaded
    <3>2. QED
      BY <3>1 DEF Agrees
  <2>4. CASE table # {}
    <3>1. table' = table /\ provider' = ChainOf(Entries(found))
      BY <1>4, <2>1, <2>2, <2>4 DEF Loaded
    <3>2. Listings' = Listings
      BY <3>1 DEF Listings
    <3>3. \E s \in Listings' : provider' = ChainOf(Entries(s))
      BY <2>1, <3>1, <3>2
    <3>4. QED
      BY <3>3 DEF Agrees, Entries, ChainOf, Buildable
  <2>5. QED
    BY <2>3, <2>4
<1>5. QED
  BY <1>1, <1>2, <1>3, <1>4 DEF ChainInv

(* Every step keeps turns and chain. *)
LEMMA ChainStep ==
  ASSUME AssistInv, AssistNext
  PROVE  TakesTurns' /\ ChainInv'
<1>1. AssistTypeOK /\ TakesTurns /\ ChainInv /\ IsFiniteSet(table)
  BY DEF AssistInv, ChainInv
<1>2. ASSUME UNCHANGED settings PROVE TakesTurns' /\ ChainInv'
  BY <1>1, <1>2 DEF settings, TakesTurns, ChainInv, Agrees, Listings
<1>3. CASE LoadChainOnStart
  BY <1>1, <1>3, LoadStep
<1>4. ASSUME NEW p \in Page,
             \/ GetProviders(p)
             \/ \E inputs \in Inputs(p) : SaveChain(p, inputs)
             \/ SaveLegacy(p)
             \/ ReplaceFails(p)
             \/ LoadProviderRows(p)
      PROVE  TakesTurns' /\ ChainInv'
  <2>1. PICK there \in {"listing", "replacing", "saving legacy", "idle", "migrating"} : Moves(p, there)
    BY <1>4, PageMoves
  <2>2. view[p] # "swapping" /\ UNCHANGED <<table, legacy, provider, unread>>
    BY <1>4 DEF GetProviders, SaveChain, SaveLegacy, ReplaceFails, LoadProviderRows, Enter
  <2>3. QED
    BY <1>1, <2>1, <2>2, Alone, CalmStep
<1>5. ASSUME NEW p \in Page, Replace(p) PROVE TakesTurns' /\ ChainInv'
  BY <1>1, <1>5, PageMoves, Alone, ReplaceStep
<1>6. ASSUME NEW p \in Page, Swap(p) PROVE TakesTurns' /\ ChainInv'
  BY <1>1, <1>6, PageMoves, Alone, SwapStep
<1>7. ASSUME NEW p \in Page, Migrate(p) PROVE TakesTurns' /\ ChainInv'
  <2>1. Moves(p, "idle") /\ view[p] = "migrating" /\ UNCHANGED <<legacy, provider, unread>>
    BY <1>7, PageMoves DEF Migrate
  <2>2. TakesTurns'
    BY <1>1, <2>1, Alone
  <2>3. CASE table' = table
    BY <1>1, <2>1, <2>3, CalmStep, <2>2
  <2>4. ASSUME NEW e \in legacy, table' = table \cup {Migrated(e)} PROVE ChainInv'
    <3>1. IsFiniteSet(table')
      BY <1>1, <2>4, FS_AddElement
    <3>2. legacy' # {}
      BY <2>1, <2>4
    <3>3. QED
      BY <1>1, <3>1, <3>2, LegacyStep
  <2>5. QED
    BY <1>7, <2>2, <2>3, <2>4 DEF Migrate
<1>8. ASSUME NEW p \in Page, WriteLegacy(p) PROVE TakesTurns' /\ ChainInv'
  <2>1. view[p] = "saving legacy" /\ UNCHANGED <<table, provider, unread>>
    BY <1>8 DEF WriteLegacy
  <2>2. PICK there \in {"idle", "applying legacy"} : Moves(p, there)
    BY <1>8, PageMoves
  <2>3. TakesTurns'
    BY <1>1, <2>2, Alone
  <2>4. CASE legacy' # {}
    BY <1>1, <2>1, <2>3, <2>4, LegacyStep
  <2>5. CASE legacy' = {}
    <3>1. Moves(p, "idle") /\ legacy' = legacy
      BY <1>8, <2>5, PageMoves DEF WriteLegacy
    <3>2. QED
      BY <1>1, <2>1, <2>3, <3>1, CalmStep
  <2>6. QED
    BY <2>4, <2>5
<1>9. ASSUME NEW p \in Page, ApplyLegacy(p) PROVE TakesTurns' /\ ChainInv'
  <2>1. view[p] = "applying legacy" /\ UNCHANGED <<table, legacy>> /\ Moves(p, "idle")
    BY <1>9, PageMoves DEF ApplyLegacy
  <2>2. legacy' # {} /\ IsFiniteSet(table')
    BY <1>1, <2>1 DEF ChainInv
  <2>3. QED
    BY <1>1, <2>1, <2>2, Alone, LegacyStep
<1>10. ASSUME NEW r \in Report,
              Generate(r) \/ Ask(r) \/ Expire(r) \/ NameProvider(r) \/ PersistReport(r)
       PROVE  UNCHANGED settings
  BY <1>10 DEF Generate, Ask, Expire, NameProvider, PersistReport
<1>11. QED
  BY <1>2, <1>3, <1>4, <1>5, <1>6, <1>7, <1>8, <1>9, <1>10 DEF AssistNext

LEMMA EntryStep ==
  ASSUME AssistInv, AssistNext
  PROVE  (\A p \in Page : HasEntry(p))'
<1>1. AssistTypeOK /\ \A p \in Page : HasEntry(p)
  BY DEF AssistInv
<1>2. CASE UNCHANGED <<view, asked>>
  BY <1>1, <1>2 DEF HasEntry
<1>3. CASE LoadChainOnStart
  BY <1>3 DEF LoadChainOnStart, HasEntry
<1>4. ASSUME NEW p \in Page, NEW there, view' = [view EXCEPT ![p] = there],
             \A o \in Page \ {p} : asked'[o] = asked[o],
             there = "saving legacy" => asked'[p] # <<>>
      PROVE  (\A o \in Page : HasEntry(o))'
  <2>1. view'[p] = there /\ \A o \in Page \ {p} : view'[o] = view[o]
    BY <1>1, <1>4 DEF AssistTypeOK
  <2>2. HasEntry(p)'
    BY <1>4, <2>1 DEF HasEntry
  <2>3. \A o \in Page \ {p} : HasEntry(o)'
    BY <1>1, <1>4, <2>1 DEF HasEntry
  <2>4. QED
    BY <2>2, <2>3
<1>5. ASSUME NEW p \in Page,
             \/ GetProviders(p)
             \/ \E inputs \in Inputs(p) : SaveChain(p, inputs)
             \/ Replace(p) \/ ReplaceFails(p) \/ Swap(p) \/ LoadProviderRows(p) \/ Migrate(p)
             \/ WriteLegacy(p) \/ ApplyLegacy(p)
      PROVE  (\A o \in Page : HasEntry(o))'
  <2>1. asked \in [Page -> Seq(Asked)]
    BY <1>1 DEF AssistTypeOK
  <2>2. \E there : there # "saving legacy" /\ view' = [view EXCEPT ![p] = there]
    BY <1>5 DEF GetProviders, SaveChain, Enter, Turn, Replace, ReplaceFails, Swap, LoadProviderRows,
                Migrate, WriteLegacy, ApplyLegacy
  <2>3. \A o \in Page \ {p} : asked'[o] = asked[o]
    BY <1>5, <2>1 DEF GetProviders, SaveChain, Replace, ReplaceFails, Swap, LoadProviderRows,
                      Migrate, WriteLegacy, ApplyLegacy
  <2>4. QED
    BY <1>4, <2>2, <2>3
<1>6. ASSUME NEW p \in Page, SaveLegacy(p) PROVE (\A o \in Page : HasEntry(o))'
  <2>1. view' = [view EXCEPT ![p] = "saving legacy"] /\ \A o \in Page \ {p} : asked'[o] = asked[o]
    BY <1>1, <1>6, LegacyType DEF SaveLegacy, Enter, Turn
  <2>2. asked'[p] # <<>>
    <3>1. PICK x : asked' = [asked EXCEPT ![p] = <<x>>]
      BY <1>6 DEF SaveLegacy
    <3>2. asked'[p] = <<x>>
      BY <1>1, <3>1 DEF AssistTypeOK
    <3>3. QED
      BY <3>2
  <2>3. QED
    BY <1>4, <2>1, <2>2
<1>7. ASSUME NEW r \in Report,
             Generate(r) \/ Ask(r) \/ Expire(r) \/ NameProvider(r) \/ PersistReport(r)
      PROVE  UNCHANGED <<view, asked>>
  BY <1>7 DEF Generate, Ask, Expire, NameProvider, PersistReport, settings
<1>8. QED
  BY <1>2, <1>3, <1>5, <1>6, <1>7 DEF AssistNext

LEMMA InitAssist == AssistInit => AssistInv
<1> SUFFICES ASSUME AssistInit PROVE AssistInv
  OBVIOUS
<1>1. AssistTypeOK
  BY AssistInitType
<1>2. KnownRows = {}
  BY DEF AssistInit, KnownRows, Range
<1>3. IdInv
  BY <1>2 DEF IdInv
<1>4. KeptKeyIsShown
  BY DEF AssistInit, KeptKeyIsShown, Range
<1>5. TakesTurns /\ \A p \in Page : HasEntry(p)
  BY DEF AssistInit, TakesTurns, HasEntry
<1>6. ChainInv
  BY FS_EmptySet DEF AssistInit, ChainInv, Agrees
<1>7. \A r \in Report : ReportInv(r)
  BY DEF AssistInit, ReportInv, Idle
<1>8. QED
  BY <1>1, <1>3, <1>4, <1>5, <1>6, <1>7 DEF AssistInv

LEMMA NextAssist == AssistInv /\ [AssistNext]_assistVars => AssistInv'
<1> SUFFICES ASSUME AssistInv, [AssistNext]_assistVars PROVE AssistInv'
  OBVIOUS
<1>1. CASE UNCHANGED assistVars
  <2>1. AssistTypeOK' /\ (\A r \in Report : ReportInv(r))' /\ (\A p \in Page : HasEntry(p))'
    BY <1>1 DEF assistVars, settings, AssistInv, AssistTypeOK, ReportInv, HasEntry
  <2>2. IdInv' /\ KeptKeyIsShown'
    BY <1>1 DEF assistVars, settings, AssistInv, IdInv, KnownRows, KeptKeyIsShown
  <2>3. TakesTurns' /\ ChainInv'
    BY <1>1 DEF assistVars, settings, AssistInv, TakesTurns, ChainInv, Agrees, Listings
  <2>4. QED
    BY <2>1, <2>2, <2>3 DEF AssistInv
<1>2. CASE AssistNext
  <2>1. IdInv' /\ KeptKeyIsShown' /\ TakesTurns' /\ ChainInv' /\ (\A p \in Page : HasEntry(p))'
    BY <1>2, IdsStep, KeptStep, ChainStep, EntryStep
  <2>2. AssistTypeOK /\ IsFiniteSet(table) /\ (\A p \in Page : HasEntry(p)) /\ \A r \in Report : ReportInv(r)
    BY DEF AssistInv, ChainInv
  <2>3. AssistTypeOK' /\ (\A r \in Report : ReportInv(r))'
    <3>1. CASE LoadChainOnStart
      <4>1. AssistTypeOK'
        BY <2>2, <3>1, LoadType
      <4>2. \A r \in Report : wrote'[r] = IF wrote[r].at = "done" THEN wrote[r] ELSE Idle
        BY <3>1 DEF LoadChainOnStart
      <4>3. Idle.at = "idle"
        BY DEF Idle
      <4>4. QED
        BY <2>2, <4>1, <4>2, <4>3 DEF ReportInv
    <3>2. ASSUME NEW p \in Page,
                 \/ GetProviders(p)
                 \/ \E inputs \in Inputs(p) : SaveChain(p, inputs)
                 \/ Replace(p) \/ ReplaceFails(p) \/ Swap(p) \/ LoadProviderRows(p) \/ Migrate(p)
                 \/ SaveLegacy(p) \/ WriteLegacy(p) \/ ApplyLegacy(p)
          PROVE  AssistTypeOK' /\ (\A r \in Report : ReportInv(r))'
      <4>1. AssistTypeOK'
        BY <2>2, <3>2, PageType
      <4>2. wrote' = wrote
        BY <3>2 DEF GetProviders, SaveChain, Replace, ReplaceFails, Swap, LoadProviderRows, Migrate,
                    SaveLegacy, WriteLegacy, ApplyLegacy
      <4>3. QED
        BY <2>2, <4>1, <4>2 DEF ReportInv
    <3>3. ASSUME NEW r \in Report,
                 Generate(r) \/ Ask(r) \/ Expire(r) \/ NameProvider(r) \/ PersistReport(r)
          PROVE  AssistTypeOK' /\ (\A o \in Report : ReportInv(o))'
      BY <2>2, <3>3, ReportStep
    <3>4. QED
      BY <1>2, <3>1, <3>2, <3>3 DEF AssistNext
  <2>4. QED
    BY <2>1, <2>3 DEF AssistInv
<1>3. QED
  BY <1>1, <1>2

(* The inductive invariant of the settings pages and the reports. *)
THEOREM AssistInvariance == AssistSpec => []AssistInv
BY InitAssist, NextAssist, PTL DEF AssistSpec

(* Every variable of the settings pages and the reports keeps its type. *)
THEOREM AssistTypeCorrect == AssistSpec => []AssistTypeOK
<1>1. AssistInv => AssistTypeOK
  BY DEF AssistInv
<1>2. QED
  BY <1>1, AssistInvariance, PTL

(***************************************************************************)
(* A page that keeps a stored secret (KeepKey) never switches the provider *)
(* on with another one, whatever other pages replace and whatever read     *)
(* fails behind its back.                                                  *)
(***************************************************************************)
THEOREM SecretsStay == AssistSpec => []KeptKeyIsShown
<1>1. AssistInv => KeptKeyIsShown
  BY DEF AssistInv
<1>2. QED
  BY <1>1, AssistInvariance, PTL

(***************************************************************************)
(* Where the older route was never used, the live chain is what the table  *)
(* has whenever no request is under way and none overlapped since the last *)
(* start.                                                                  *)
(***************************************************************************)
THEOREM ChainAgrees == AssistSpec => []LiveIsTable
<1>1. AssistInv => LiveIsTable
  BY DEF AssistInv, ChainInv, LiveIsTable, Quiet, Agrees
<1>2. QED
  BY <1>1, AssistInvariance, PTL

(***************************************************************************)
(* A report whose context lives goes without a narrative only when every   *)
(* backend of the chain it began with has been asked.                      *)
(***************************************************************************)
THEOREM ReportsAskAll == AssistSpec => []FallsThrough
<1>1. AssistInv => FallsThrough
  BY DEF AssistInv, ReportInv, FallsThrough
<1>2. QED
  BY <1>1, AssistInvariance, PTL

----------------------------------------------------------------------------
(* The report on the returns *)

(* A drop from a price, in units of 1/Unit, rounded down. *)
DropFrom(a, v) == ((a - v) * Unit) \div a

LEMMA DropBounds ==
  ASSUME NEW a \in Nat \ {0}, NEW v \in Int
  PROVE  /\ DropFrom(a, v) \in Int
         /\ a * DropFrom(a, v) <= (a - v) * Unit /\ (a - v) * Unit < a * (DropFrom(a, v) + 1)
<1> DEFINE x == (a - v) * Unit
<1>1. x \in Int
  BY ReportAssumption
<1>2. DropFrom(a, v) = x \div a
  BY DEF DropFrom
<1> HIDE DEF x
<1>3. x \div a \in Int /\ a * (x \div a) <= x /\ x < a * (x \div a) + a
  BY <1>1
<1>4. a * (x \div a + 1) = a * (x \div a) + a
  BY <1>3
<1>5. QED
  BY <1>2, <1>3, <1>4 DEF x

LEMMA TimesMonotone ==
  ASSUME NEW a \in Int, NEW b \in Int, NEW c \in Nat, a <= b
  PROVE  a * c <= b * c
<1>1. (b - a) * c >= 0
  BY b - a >= 0
<1>2. (b - a) * c = b * c - a * c
  OBVIOUS
<1>3. QED
  BY <1>1, <1>2

(* From the same price, the drop is the larger the higher the peak. *)
LEMMA DropMonotone ==
  ASSUME NEW a \in Nat \ {0}, NEW b \in Nat \ {0}, NEW v \in Nat, a <= b, v <= b
  PROVE  DropFrom(b, v) \in Nat /\ DropFrom(a, v) <= DropFrom(b, v)
<1> DEFINE p == DropFrom(b, v)
           q == DropFrom(a, v)
           u == Unit
<1>1. /\ p \in Int /\ b * p <= (b - v) * u /\ (b - v) * u < b * (p + 1)
      /\ q \in Int /\ a * q <= (a - v) * u
  <2>1. v \in Int
    OBVIOUS
  <2>2. \A c \in Nat \ {0} : /\ DropFrom(c, v) \in Int
                            /\ c * DropFrom(c, v) <= (c - v) * Unit
                            /\ (c - v) * Unit < c * (DropFrom(c, v) + 1)
    BY <2>1, DropBounds
  <2>3. QED
    BY <2>2, Zenon
<1>2. u \in Nat \ {0}
  BY ReportAssumption
<1> HIDE DEF p, q, u
<1>3. /\ (b - v) * u = b * u - v * u /\ (a - v) * u = a * u - v * u
      /\ b * u \in Int /\ a * u \in Int /\ v * u \in Nat
  BY <1>2
<1>4. p \in Nat
  <2>1. (b - v) * u >= 0
    BY <1>2, b - v \in Nat
  <2>2. ASSUME p + 1 <= 0 PROVE FALSE
    <3>1. (p + 1) * b <= 0 * b
      BY <1>1, <2>2, TimesMonotone
    <3>2. b * (p + 1) <= 0
      BY <1>1, <3>1
    <3> DEFINE y == b * (p + 1)
               z == (b - v) * u
    <3>3. y \in Int /\ z \in Int /\ z < y /\ y <= 0 /\ z >= 0
      BY <1>1, <1>2, <2>1, <3>2
    <3> HIDE DEF y, z
    <3>4. QED
      BY <3>3
  <2>3. QED
    BY <1>1, <2>2
(* With u - q = d: d * a covers v * u but d * b does not, although b is not less. *)
<1>5. ASSUME p < q PROVE FALSE
  <2> DEFINE d == u - q
  <2>1. d \in Int /\ d * a >= v * u
    <3>1. d * a = a * u - a * q
      BY <1>1, <1>2
    <3>2. a * q \in Int /\ a * q <= a * u - v * u
      BY <1>1, <1>3
    <3>3. QED
      BY <1>1, <1>2, <1>3, <3>1, <3>2
  <2>2. d * b < v * u
    <3>1. (p + 1) * b <= q * b
      BY <1>1, <1>5, TimesMonotone
    <3>2. d * b = b * u - q * b /\ q * b \in Int /\ (p + 1) * b = b * (p + 1) /\ b * (p + 1) \in Int
      BY <1>1, <1>2
    <3>3. b * u - v * u < b * (p + 1)
      BY <1>1, <1>3
    <3>4. QED
      BY <1>3, <3>1, <3>2, <3>3
  <2>3. d \in Nat
    <3>1. ASSUME d + 1 <= 0 PROVE FALSE
      <4>1. (d + 1) * a <= 0 * a
        BY <2>1, <3>1, TimesMonotone
      <4>2. (d + 1) * a = d * a + a /\ d * a \in Int
        BY <2>1
      <4> HIDE DEF d
      <4>3. QED
        BY <1>3, <2>1, <4>1, <4>2
    <3> HIDE DEF d
    <3>2. QED
      BY <2>1, <3>1
  <2>4. a * d <= b * d
    BY <2>3, TimesMonotone
  <2> HIDE DEF d
  <2>5. d * a = a * d /\ d * b = b * d /\ a * d \in Int /\ b * d \in Int
    BY <2>1
  <2>6. QED
    BY <1>3, <2>1, <2>2, <2>4, <2>5
<1>6. QED
  BY <1>1, <1>4, <1>5 DEF p, q

Peaks == [peak : Nat \ {0}, worst : Nat]

LEMMA MaxOfTwo ==
  ASSUME NEW x \in Int, NEW y \in Int
  PROVE  Max({x, y}) \in {x, y} /\ Max({x, y}) >= x /\ Max({x, y}) >= y
<1>1. \E m \in {x, y} : \A z \in {x, y} : m >= z
  <2>1. CASE x >= y
    BY <2>1
  <2>2. CASE ~(x >= y)
    BY <2>2
  <2>3. QED
    BY <2>1, <2>2
<1>2. Max({x, y}) \in {x, y} /\ \A z \in {x, y} : Max({x, y}) >= z
  BY <1>1 DEF Max
<1>3. QED
  BY <1>2

LEMMA DipFacts ==
  ASSUME NEW acc \in Peaks, NEW v \in Nat
  PROVE  /\ Dip(acc, v) \in Peaks
         /\ Dip(acc, v).peak \in {acc.peak, v} /\ Dip(acc, v).peak >= acc.peak /\ Dip(acc, v).peak >= v
         /\ Dip(acc, v).worst \in {acc.worst, DropFrom(Dip(acc, v).peak, v)}
         /\ Dip(acc, v).worst >= acc.worst /\ Dip(acc, v).worst >= DropFrom(Dip(acc, v).peak, v)
<1> DEFINE a == Max({acc.peak, v})
           d == DropFrom(a, v)
           w == Max({acc.worst, d})
<1>1. acc.peak \in Nat \ {0} /\ acc.worst \in Nat
  BY DEF Peaks
<1>2. a \in {acc.peak, v} /\ a >= acc.peak /\ a >= v /\ a \in Nat \ {0}
  <2>1. acc.peak \in Int /\ v \in Int
    BY <1>1
  <2>2. a \in {acc.peak, v} /\ a >= acc.peak /\ a >= v
    BY <2>1, MaxOfTwo
  <2> HIDE DEF a
  <2>3. QED
    BY <1>1, <2>2
<1>3. Dip(acc, v) = [peak |-> a, worst |-> w]
  BY DEF Dip, DropFrom
<1> HIDE DEF a
<1>4. d \in Nat
  BY <1>2, DropMonotone
<1>5. w \in {acc.worst, d} /\ w >= acc.worst /\ w >= d
  <2>1. acc.worst \in Int /\ d \in Int
    BY <1>1, <1>4
  <2> HIDE DEF d
  <2>2. QED
    BY <2>1, MaxOfTwo
<1> HIDE DEF w
<1>6. w \in Nat
  BY <1>1, <1>4, <1>5
<1>7. Dip(acc, v).peak = a /\ Dip(acc, v).worst = w
  BY <1>3
<1>8. Dip(acc, v) \in Peaks
  BY <1>2, <1>3, <1>6 DEF Peaks
<1>9. QED
  BY <1>2, <1>5, <1>7, <1>8 DEF d

(* The loop of MaxDrawdown, one price after the other. *)
LEMMA DipSteps ==
  ASSUME NEW path, NEW n \in Nat, DOMAIN path = 1..n, \A i \in 1..n : path[i] \in Nat,
         NEW base \in Peaks
  PROVE  \E acc \in [0..n -> Peaks] :
           /\ acc[0] = base /\ \A k \in 1..n : acc[k] = Dip(acc[k - 1], path[k])
           /\ FoldLeft(Dip, base, path) = acc[n]
<1> DEFINE iter == CHOOSE g : g = [T \in SUBSET (1..n) |->
                                     IF T = {} THEN base ELSE Dip(g[T \ {Max(T)}], path[Max(T)])]
           op == [p \in Peaks \X (1..n) |-> Dip(p[1], path[p[2]])]
<1>1. FoldLeft(Dip, base, path) = iter[1..n]
  BY DEF FoldLeft, MapThenFoldSet
<1>2. op \in [Peaks \X (1..n) -> Peaks]
  <2>1. ASSUME NEW p \in Peaks \X (1..n) PROVE Dip(p[1], path[p[2]]) \in Peaks
    BY DipFacts
  <2>2. QED
    BY <2>1
<1>3. \E g : g = [T \in SUBSET (1..n) |->
                    IF T = {} THEN base ELSE Dip(g[T \ {Max(T)}], path[Max(T)])]
  <2> HIDE DEF op
  <2>1. PICK g \in [SUBSET (1..n) -> Peaks] : g = FoldedUp(op, base, g, n)
    <3>1. \A b \in Peaks, m \in Nat : \A o \in [Peaks \X (1..m) -> Peaks] :
            \E g \in [SUBSET (1..m) -> Peaks] : g = FoldedUp(o, b, g, m)
      BY FoldExists
    <3>2. QED
      BY <1>2, <3>1
  <2>2. ASSUME NEW T \in SUBSET (1..n)
        PROVE  g[T] = IF T = {} THEN base ELSE Dip(g[T \ {Max(T)}], path[Max(T)])
    <3>1. CASE T = {}
      BY <2>1, <3>1 DEF FoldedUp
    <3>2. CASE T # {}
      <4>1. Max(T) \in 1..n /\ T \ {Max(T)} \in SUBSET (1..n)
        BY <3>2, MaxOfNumbers
      <4>2. g[T] = op[<<g[T \ {Max(T)}], Max(T)>>]
        BY <2>1, <3>2 DEF FoldedUp
      <4>3. g[T \ {Max(T)}] \in Peaks
        BY <4>1
      <4>4. \A a \in Peaks, k \in 1..n : op[<<a, k>>] = Dip(a, path[k])
        BY DEF op
      <4>5. QED
        BY <3>2, <4>1, <4>2, <4>3, <4>4
    <3>3. QED
      BY <3>1, <3>2
  <2>3. g = [T \in SUBSET (1..n) |-> g[T]]
    OBVIOUS
  <2>4. g = [T \in SUBSET (1..n) |->
               IF T = {} THEN base ELSE Dip(g[T \ {Max(T)}], path[Max(T)])]
    BY <2>2, <2>3
  <2>5. QED
    BY <2>4
<1>4. iter = [T \in SUBSET (1..n) |->
                IF T = {} THEN base ELSE Dip(iter[T \ {Max(T)}], path[Max(T)])]
  BY <1>3
<1> HIDE DEF iter, op
<1> DEFINE acc == [k \in 0..n |-> iter[1..k]]
<1>5. acc[0] = base
  BY <1>4
<1>6. ASSUME NEW k \in 1..n PROVE acc[k] = Dip(acc[k - 1], path[k])
  <2>1. /\ 1..k \in SUBSET (1..n) /\ 1..k # {} /\ Max(1..k) = k /\ (1..k) \ {k} = 1..(k - 1)
        /\ k - 1 \in 0..n /\ k \in 0..n
    BY MaxUpTo
  <2>2. iter[1..k] = Dip(iter[(1..k) \ {Max(1..k)}], path[Max(1..k)])
    BY <1>4, <2>1
  <2>3. QED
    BY <2>1, <2>2
<1> DEFINE B == {k \in 0..n : acc[k] \in Peaks}
<1>7. \A k \in 0..n : k \in B
  <2>1. 0 \in B
    BY <1>5
  <2>2. ASSUME NEW k \in 1..n, k - 1 \in B PROVE k \in B
    <3>1. acc[k - 1] \in Peaks /\ path[k] \in Nat /\ k \in 0..n
      BY <2>2
    <3>2. acc[k] \in Peaks
      BY <1>6, <3>1, DipFacts
    <3>3. QED
      BY <3>1, <3>2
  <2> HIDE DEF B
  <2>3. QED
    BY <2>1, <2>2, StepUp
<1>8. acc \in [0..n -> Peaks] /\ FoldLeft(Dip, base, path) = acc[n]
  BY <1>1, <1>7
<1> HIDE DEF acc
<1>9. QED
  BY <1>5, <1>6, <1>8

(* The loop finds the worst drop from any price to any later one. *)
LEMMA WorstFound ==
  ASSUME NEW path, NEW n \in Nat \ {0}, DOMAIN path = 1..n, \A i \in 1..n : path[i] \in Nat,
         path[1] > 0,
         NEW worst, worst = FoldLeft(Dip, [peak |-> path[1], worst |-> 0], path).worst
  PROVE  /\ worst \in Nat
         /\ \E i \in 1..n : path[i] > 0 /\ \E j \in i..n : worst = DropFrom(path[i], path[j])
         /\ \A i \in 1..n : path[i] > 0 => \A j \in i..n : DropFrom(path[i], path[j]) <= worst
<1> DEFINE base == [peak |-> path[1], worst |-> 0]
<1>1. base \in Peaks /\ path[1] \in Nat \ {0} /\ 1 \in 1..n
  BY DEF Peaks
<1>2. PICK acc \in [0..n -> Peaks] :
        /\ acc[0] = base /\ \A k \in 1..n : acc[k] = Dip(acc[k - 1], path[k])
        /\ FoldLeft(Dip, base, path) = acc[n]
  <2> HIDE DEF base
  <2>1. n \in Nat
    OBVIOUS
  <2>2. \A b \in Peaks : \E acc \in [0..n -> Peaks] :
           /\ acc[0] = b /\ \A k \in 1..n : acc[k] = Dip(acc[k - 1], path[k])
           /\ FoldLeft(Dip, b, path) = acc[n]
    BY <2>1, DipSteps
  <2>3. QED
    BY <1>1, <2>2
<1>3. \A k \in 0..n : acc[k].peak \in Nat \ {0} /\ acc[k].worst \in Nat
  BY DEF Peaks
<1> DEFINE Seen(k) ==
             /\ \E i \in 1..n : (i <= k \/ i = 1) /\ acc[k].peak = path[i]
             /\ \A i \in 1..k : path[i] <= acc[k].peak
             /\ \E i \in 1..n : path[i] > 0 /\ \E j \in i..n : acc[k].worst = DropFrom(path[i], path[j])
             /\ \A i \in 1..k : path[i] > 0 => \A j \in i..k : DropFrom(path[i], path[j]) <= acc[k].worst
           B == {k \in 0..n : Seen(k)}
<1>4. Seen(0)
  <2>1. acc[0].peak = path[1] /\ acc[0].worst = 0
    BY <1>2
  <2>2. DropFrom(path[1], path[1]) = 0
    <3>1. (path[1] - path[1]) * Unit = 0 /\ 0 \div path[1] = 0
      BY <1>1, ReportAssumption
    <3>2. QED
      BY <3>1 DEF DropFrom
  <2>3. 1 \in 1..n
    OBVIOUS
  <2>4. QED
    BY <1>1, <2>1, <2>2, <2>3
<1>5. ASSUME NEW k \in 1..n, Seen(k - 1) PROVE Seen(k)
  <2> DEFINE a == acc[k - 1]
             b == acc[k]
             v == path[k]
  <2>1. k - 1 \in 0..n /\ k \in 0..n /\ a \in Peaks /\ b \in Peaks /\ v \in Nat /\ b = Dip(a, v)
    BY <1>2
  <2>2. /\ b.peak \in {a.peak, v} /\ b.peak >= a.peak /\ b.peak >= v
        /\ b.worst \in {a.worst, DropFrom(b.peak, v)}
        /\ b.worst >= a.worst /\ b.worst >= DropFrom(b.peak, v)
    BY <2>1, DipFacts
  <2>3. a.peak \in Nat \ {0} /\ b.peak \in Nat \ {0} /\ a.worst \in Nat /\ b.worst \in Nat
    BY <1>3, <2>1
  <2>4. PICK m \in 1..n : m <= k /\ b.peak = path[m]
    <3>1. PICK i \in 1..n : i <= k /\ a.peak = path[i]
      BY <1>5
    <3>2. k \in 1..n /\ k <= k
      OBVIOUS
    <3>3. QED
      BY <2>2, <3>1, <3>2
  <2>5. ASSUME NEW i \in 1..k PROVE path[i] <= b.peak
    <3>1. CASE i = k
      BY <2>2, <3>1
    <3>2. CASE i # k
      <4>1. i \in 1..(k - 1) /\ path[i] \in Nat
        BY <3>2
      <4>2. path[i] <= a.peak
        BY <1>5, <4>1
      <4>3. QED
        BY <2>2, <2>3, <4>1, <4>2
    <3>3. QED
      BY <3>1, <3>2
  <2>6. \E i \in 1..n : path[i] > 0 /\ \E j \in i..n : b.worst = DropFrom(path[i], path[j])
    <3>1. CASE b.worst = a.worst
      BY <1>5, <3>1
    <3>2. CASE b.worst = DropFrom(b.peak, v)
      <4>1. path[m] > 0 /\ k \in m..n
        BY <2>3, <2>4
      <4>2. b.worst = DropFrom(path[m], path[k])
        BY <2>4, <3>2
      <4> HIDE DEF a, b, v
      <4>3. QED
        BY <4>1, <4>2
    <3>3. QED
      BY <2>2, <3>1, <3>2
  <2>7. ASSUME NEW i \in 1..k, path[i] > 0, NEW j \in i..k
        PROVE  DropFrom(path[i], path[j]) <= b.worst
    <3>1. CASE j = k
      <4>1. path[i] \in Nat \ {0} /\ path[i] <= b.peak
        BY <2>5, <2>7
      <4>2. DropFrom(b.peak, v) \in Nat /\ DropFrom(path[i], v) <= DropFrom(b.peak, v)
        BY <2>1, <2>2, <2>3, <4>1, DropMonotone
      <4>3. DropFrom(path[i], v) \in Int
        <5>1. path[i] \in Nat \ {0} /\ v \in Int
          BY <2>1, <4>1
        <5> HIDE DEF v
        <5>2. QED
          BY <5>1, DropBounds
      <4> HIDE DEF b, a
      <4>4. QED
        BY <2>2, <2>3, <3>1, <4>2, <4>3
    <3>2. CASE j # k
      <4>1. i \in 1..(k - 1) /\ j \in i..(k - 1)
        BY <3>2
      <4>2. DropFrom(path[i], path[j]) <= a.worst
        BY <1>5, <2>7, <4>1
      <4>3. path[i] \in Nat \ {0} /\ path[j] \in Int
        BY <2>7, <4>1
      <4>4. DropFrom(path[i], path[j]) \in Int
        BY <4>3, DropBounds
      <4> HIDE DEF a, b
      <4>5. QED
        BY <2>2, <2>3, <4>2, <4>4
    <3>3. QED
      BY <3>1, <3>2
  <2>8. \E i \in 1..n : (i <= k \/ i = 1) /\ b.peak = path[i]
    BY <2>4
  <2>9. QED
    BY <2>5, <2>6, <2>7, <2>8
<1> HIDE DEF Seen
<1>6. n \in B
  <2>1. 0 \in B
    BY <1>4
  <2>2. ASSUME NEW k \in 1..n, k - 1 \in B PROVE k \in B
    BY <1>5, <2>2
  <2> HIDE DEF B
  <2>3. \A k \in 0..n : k \in B
    BY <2>1, <2>2, StepUp
  <2>4. QED
    BY <2>3
<1>7. Seen(n)
  BY <1>6
<1>8. worst = acc[n].worst /\ acc[n].worst \in Nat
  BY <1>2, <1>3
<1>9. QED
  BY <1>7, <1>8 DEF Seen

(* Of f, over S: the sum and the number of what is known. *)
KnownIn(f, S) == {r \in S : f[r] # Nil}
SumKnown(f, S) == [sum |-> TotalOf(f, KnownIn(f, S)), n |-> Cardinality(KnownIn(f, S))]
Sums == [sum : Int, n : Nat]

LEMMA SumKnownFacts ==
  ASSUME NEW S, IsFiniteSet(S), NEW f, \A r \in S : f[r] \in Int \cup {Nil}
  PROVE  /\ IsFiniteSet(KnownIn(f, S)) /\ Cardinality(KnownIn(f, S)) \in Nat
         /\ \A r \in KnownIn(f, S) : f[r] \in Int
         /\ SumKnown(f, S) \in Sums
<1>1. IsFiniteSet(KnownIn(f, S))
  BY FS_Subset DEF KnownIn
<1>2. Cardinality(KnownIn(f, S)) \in Nat
  BY <1>1, FS_CardinalityType
<1>3. \A r \in KnownIn(f, S) : f[r] \in Int
  BY DEF KnownIn
<1>4. TotalOf(f, KnownIn(f, S)) \in Int
  BY <1>1, <1>3, TotalInt
<1>5. QED
  BY <1>1, <1>2, <1>3, <1>4 DEF SumKnown, Sums

LEMMA PlusType ==
  ASSUME NEW acc \in Sums, NEW x \in Int \cup {Nil}
  PROVE  Plus(acc, x) \in Sums
BY DEF Plus, Sums

LEMMA PlusKnown ==
  ASSUME NEW S, IsFiniteSet(S), NEW f, NEW y, y \notin S,
         \A r \in S \cup {y} : f[r] \in Int \cup {Nil}
  PROVE  Plus(SumKnown(f, S), f[y]) = SumKnown(f, S \cup {y})
<1> DEFINE T == S \cup {y}
<1>1. IsFiniteSet(T)
  BY FS_AddElement
<1>2. CASE f[y] = Nil
  <2>1. KnownIn(f, T) = KnownIn(f, S)
    BY <1>2 DEF KnownIn
  <2>2. QED
    BY <1>2, <2>1 DEF Plus, SumKnown
<1>3. CASE f[y] # Nil
  <2>1. y \in KnownIn(f, T) /\ KnownIn(f, T) \ {y} = KnownIn(f, S)
    BY <1>3 DEF KnownIn
  <2>2. /\ IsFiniteSet(KnownIn(f, T)) /\ Cardinality(KnownIn(f, T)) \in Nat
        /\ \A r \in KnownIn(f, T) : f[r] \in Int
    <3>1. \A r \in T : f[r] \in Int \cup {Nil}
      OBVIOUS
    <3> HIDE DEF T
    <3>2. QED
      BY <1>1, <3>1, SumKnownFacts
  <2> DEFINE K == KnownIn(f, T)
  <2>3. TotalOf(f, K) = f[y] + TotalOf(f, K \ {y}) /\ Cardinality(K \ {y}) = Cardinality(K) - 1
    <3> HIDE DEF K
    <3>1. QED
      BY <2>1, <2>2, TotalTake, FS_RemoveElement DEF K
  <2>4. TotalOf(f, K \ {y}) \in Int /\ f[y] \in Int
    <3>1. IsFiniteSet(K \ {y}) /\ \A r \in K \ {y} : f[r] \in Int
      BY <2>2, FS_Subset
    <3>2. QED
      BY <2>1, <2>2, <3>1, TotalInt
  <2>5. K \ {y} = KnownIn(f, S)
    BY <2>1
  <2>6. Plus(SumKnown(f, S), f[y]) =
          [sum |-> TotalOf(f, KnownIn(f, S)) + f[y], n |-> Cardinality(KnownIn(f, S)) + 1]
    BY <1>3 DEF Plus, SumKnown
  <2> HIDE DEF K
  <2>7. /\ TotalOf(f, KnownIn(f, S)) + f[y] = TotalOf(f, K)
        /\ Cardinality(KnownIn(f, S)) + 1 = Cardinality(K)
    <3>1. TotalOf(f, K) = f[y] + TotalOf(f, KnownIn(f, S)) /\ TotalOf(f, KnownIn(f, S)) \in Int
      BY <2>3, <2>4, <2>5
    <3>2. Cardinality(KnownIn(f, S)) = Cardinality(K) - 1 /\ Cardinality(K) \in Nat
      BY <2>2, <2>3, <2>5 DEF K
    <3>3. QED
      BY <2>4, <3>1, <3>2
  <2>8. QED
    BY <2>6, <2>7 DEF K, SumKnown
<1>4. QED
  BY <1>2, <1>3

LEMMA MeanOfKnown ==
  ASSUME NEW S, IsFiniteSet(S), NEW f, \A r \in S : f[r] \in Int \cup {Nil},
         NEW h, DOMAIN h = S, \A r \in S : h[r] = f[r]
  PROVE  Mean(SumKnown(f, S)) = MeanOf(h)
<1> DEFINE K == KnownIn(f, S)
<1>1. IsFiniteSet(K) /\ Cardinality(K) \in Nat
  BY SumKnownFacts
<1>2. {r \in DOMAIN h : h[r] # Nil} = K /\ \A r \in K : h[r] = f[r]
  BY DEF KnownIn
<1>3. SumKnown(f, S) = [sum |-> TotalOf(f, K), n |-> Cardinality(K)]
  BY DEF SumKnown
<1> HIDE DEF K
<1>4. SumFunctionOnSet(h, K) = TotalOf(f, K)
  <2>1. TotalOf(h, K) = TotalOf(f, K)
    BY <1>1, <1>2, TotalSame
  <2>2. QED
    BY <2>1 DEF SumFunctionOnSet, TotalOf
<1>5. Cardinality(K) > 0 <=> K # {}
  BY <1>1, FS_EmptySet
<1>6. MeanOf(h) = IF K = {} THEN Nil ELSE [sum |-> TotalOf(f, K), n |-> Cardinality(K)]
  BY <1>2, <1>4 DEF MeanOf
<1>7. QED
  BY <1>3, <1>5, <1>6 DEF Mean

----------------------------------------------------------------------------

FigureTypes ==
  /\ labels \in [Rec -> SUBSET Label]
  /\ closes \in [Rec -> {<<>>} \cup [1..Farthest -> ClosePrice \cup {Nil}]]
  /\ size \in Size

ReturnOf(k) == [r \in HasSnapshot |-> TReturn(closes[r][k])]
WinOf == [r \in HasSnapshot |-> Win(TReturn(closes[r][Farthest]))]
DropOf == [r \in HasSnapshot |-> MaxDrawdown(<<EntryPrice>> \o Known(closes[r]))]

AccumOf(S) ==
  [count    |-> Cardinality(S),
   returns  |-> [k \in 1..Farthest |-> SumKnown(ReturnOf(k), S)],
   wins     |-> SumKnown(WinOf, S),
   drawdown |-> SumKnown(DropOf, S)]

(* The path of a snapshot: the entry and the closes that are known. *)
LEMMA PathFacts ==
  ASSUME FigureTypes, NEW r \in HasSnapshot, NEW path, path = <<EntryPrice>> \o Known(closes[r])
  PROVE  /\ Len(path) \in Nat \ {0} /\ DOMAIN path = 1..Len(path) /\ path[1] = EntryPrice
         /\ \A i \in 1..Len(path) : path[i] \in Nat
<1> DEFINE c == closes[r]
           k == Known(c)
<1>1. c \in [1..Farthest -> ClosePrice \cup {Nil}] /\ Farthest \in Nat
  BY ReportAssumption DEF FigureTypes, HasSnapshot
<1>2. IsList(c)
  BY <1>1, ListOf
<1> HIDE DEF c
<1>3. IsList(k) /\ \A i \in DOMAIN k : k[i] \in Nat
  <2> DEFINE K == {i \in DOMAIN c : c[i] # Nil}
  <2>1. k = Sublist(c, K) /\ K \in SUBSET DOMAIN c
    BY DEF Known
  <2>2. \A i \in K : c[i] \in Nat
    BY <1>1, ReportAssumption
  <2> HIDE DEF k, K
  <2>3. IsList(k)
    BY <1>2, <2>1, SublistIsList
  <2>4. ASSUME NEW i \in DOMAIN k PROVE k[i] \in Nat
    <3>1. \E j \in K : Sublist(c, K)[i] = c[j]
      BY <1>2, <2>1, <2>4, SublistElement
    <3>2. QED
      BY <2>1, <2>2, <3>1
  <2>5. QED
    BY <2>3, <2>4
<1>4. path = <<EntryPrice>> \o k
  BY DEF c
<1> HIDE DEF k
<1>5. k \in Seq(Nat)
  BY <1>3 DEF IsList, Range
<1>6. path \in Seq(Nat) /\ Len(path) = 1 + Len(k) /\ Len(k) \in Nat /\ path[1] = EntryPrice
  <2> DEFINE one == <<EntryPrice>>
  <2>1. one \in Seq(Nat) /\ Len(one) = 1 /\ one[1] = EntryPrice
    BY ReportAssumption
  <2> HIDE DEF one
  <2>2. /\ one \o k \in Seq(Nat) /\ Len(one \o k) = Len(one) + Len(k)
        /\ \A i \in 1..(Len(one) + Len(k)) :
             (one \o k)[i] = IF i <= Len(one) THEN one[i] ELSE k[i - Len(one)]
    BY <1>5, <2>1, ConcatProperties
  <2>3. Len(k) \in Nat
    BY <1>5
  <2>4. 1 \in 1..(Len(one) + Len(k))
    BY <2>1, <2>3
  <2>5. path = one \o k
    BY <1>4 DEF one
  <2>6. (one \o k)[1] = EntryPrice
    BY <2>1, <2>2, <2>4
  <2>7. Len(path) = 1 + Len(k) /\ path \in Seq(Nat) /\ path[1] = EntryPrice
    BY <2>1, <2>2, <2>5, <2>6, Zenon
  <2>8. QED
    BY <2>3, <2>7
<1>7. QED
  BY <1>6

LEMMA DropIsWorst ==
  ASSUME FigureTypes, NEW r \in HasSnapshot
  PROVE  /\ Columns(r).drawdown = WorstDrop(r) /\ DropOf[r] = WorstDrop(r)
         /\ WorstDrop(r) \in Int \cup {Nil}
<1> DEFINE path == <<EntryPrice>> \o Known(closes[r])
           n == Len(path)
           D == UNION {{DropFrom(path[i], path[j]) : j \in i..n} : i \in {k \in DOMAIN path : path[k] > 0}}
<1>1. /\ n \in Nat \ {0} /\ DOMAIN path = 1..n /\ path[1] \in Nat \ {0}
      /\ \A i \in 1..n : path[i] \in Nat
  <2> HIDE DEF path
  <2>1. QED
    BY PathFacts, ReportAssumption DEF path
<1>2. WorstDrop(r) = IF n < 2 THEN Nil ELSE Max(D)
  BY DEF WorstDrop, DropFrom
<1>3. MaxDrawdown(path) = IF n < 2 THEN Nil
                          ELSE FoldLeft(Dip, [peak |-> path[1], worst |-> 0], path).worst
  BY DEF MaxDrawdown
<1>4. Columns(r).drawdown = MaxDrawdown(path) /\ DropOf[r] = MaxDrawdown(path)
  BY DEF Columns, DropOf
<1> HIDE DEF path, n
<1> DEFINE worst == FoldLeft(Dip, [peak |-> path[1], worst |-> 0], path).worst
<1>5. /\ worst \in Nat
      /\ \E i \in 1..n : path[i] > 0 /\ \E j \in i..n : worst = DropFrom(path[i], path[j])
      /\ \A i \in 1..n : path[i] > 0 => \A j \in i..n : DropFrom(path[i], path[j]) <= worst
  <2>1. path[1] > 0
    BY <1>1
  <2>2. QED
    BY <1>1, <2>1, WorstFound
<1> HIDE DEF worst
<1>6. worst \in D
  BY <1>1, <1>5
<1>7. ASSUME NEW d \in D PROVE d \in Int /\ d <= worst
  <2>1. PICK i \in 1..n : path[i] > 0 /\ \E j \in i..n : d = DropFrom(path[i], path[j])
    BY <1>1
  <2>2. PICK j \in i..n : d = DropFrom(path[i], path[j])
    BY <2>1
  <2>3. path[i] \in Nat \ {0} /\ path[j] \in Int
    BY <1>1, <2>1
  <2>4. d \in Int
    BY <2>2, <2>3, DropBounds
  <2>5. QED
    BY <1>5, <2>1, <2>2, <2>4
<1> HIDE DEF D
<1>8. Max(D) = worst
  <2>1. worst \in D /\ \A y \in D : worst >= y
    BY <1>5, <1>6, <1>7
  <2>2. \A x \in D : (\A y \in D : x >= y) => x = worst
    BY <1>5, <1>6, <1>7
  <2>3. QED
    BY <2>1, <2>2 DEF Max
<1>9. QED
  BY <1>2, <1>3, <1>4, <1>5, <1>8 DEF worst

LEMMA Snapshots ==
  ASSUME FigureTypes
  PROVE  /\ IsFiniteSet(HasSnapshot) /\ HasSnapshot \subseteq Rec
         /\ \A r \in HasSnapshot : closes[r] \in [1..Farthest -> ClosePrice \cup {Nil}]
BY ReportAssumption, FS_Subset DEF FigureTypes, HasSnapshot

LEMMA FigureValues ==
  ASSUME FigureTypes, NEW r \in HasSnapshot
  PROVE  /\ \A k \in 1..Farthest : ReturnOf(k)[r] \in Int \cup {Nil}
         /\ WinOf[r] \in Int \cup {Nil} /\ DropOf[r] \in Int \cup {Nil}
<1>1. closes[r] \in [1..Farthest -> ClosePrice \cup {Nil}] /\ Farthest \in 1..Farthest
  BY Snapshots, ReportAssumption
<1>2. ASSUME NEW k \in 1..Farthest PROVE TReturn(closes[r][k]) \in Int \cup {Nil}
  <2>1. closes[r][k] \in Nat \cup {Nil}
    BY <1>1, ReportAssumption
  <2>2. QED
    BY <2>1, ReportAssumption DEF TReturn
<1>3. WinOf[r] \in Int \cup {Nil}
  <2>1. WinOf[r] = Win(TReturn(closes[r][Farthest]))
    BY DEF WinOf
  <2>2. QED
    BY <2>1 DEF Win
<1>4. DropOf[r] \in Int \cup {Nil}
  BY DropIsWorst
<1>5. QED
  BY <1>2, <1>3, <1>4 DEF ReturnOf

Accums == [count : Int, returns : [1..Farthest -> Sums], wins : Sums, drawdown : Sums]

LEMMA AddIs ==
  ASSUME NEW acc, NEW r \in HasSnapshot
  PROVE  Add(acc, r) = [count    |-> acc.count + 1,
                        returns  |-> [k \in 1..Farthest |-> Plus(acc.returns[k], ReturnOf(k)[r])],
                        wins     |-> Plus(acc.wins, WinOf[r]),
                        drawdown |-> Plus(acc.drawdown, DropOf[r])]
<1> DEFINE c == Columns(r)
<1>1. /\ \A k \in 1..Farthest : c.returns[k] = ReturnOf(k)[r]
      /\ c.drawdown = DropOf[r]
  BY DEF Columns, ReturnOf, DropOf
<1>2. Win(c.returns[Farthest]) = WinOf[r]
  <2>1. Farthest \in 1..Farthest
    BY ReportAssumption
  <2>2. c.returns[Farthest] = TReturn(closes[r][Farthest])
    BY <1>1, <2>1 DEF ReturnOf
  <2>3. QED
    BY <2>2 DEF WinOf
<1>3. Add(acc, r) = [count    |-> acc.count + 1,
                     returns  |-> [k \in 1..Farthest |-> Plus(acc.returns[k], c.returns[k])],
                     wins     |-> Plus(acc.wins, Win(c.returns[Farthest])),
                     drawdown |-> Plus(acc.drawdown, c.drawdown)]
  BY DEF Add
<1> HIDE DEF c
<1>4. [k \in 1..Farthest |-> Plus(acc.returns[k], c.returns[k])] =
        [k \in 1..Farthest |-> Plus(acc.returns[k], ReturnOf(k)[r])]
  BY <1>1
<1>5. QED
  BY <1>1, <1>2, <1>3, <1>4

LEMMA AddType ==
  ASSUME FigureTypes, NEW acc \in Accums, NEW r \in HasSnapshot
  PROVE  Add(acc, r) \in Accums
<1>1. /\ acc.count \in Int /\ acc.returns \in [1..Farthest -> Sums] /\ acc.wins \in Sums
      /\ acc.drawdown \in Sums
  BY DEF Accums
<1>2. Plus(acc.wins, WinOf[r]) \in Sums /\ Plus(acc.drawdown, DropOf[r]) \in Sums
  BY <1>1, FigureValues, PlusType
<1>3. [k \in 1..Farthest |-> Plus(acc.returns[k], ReturnOf(k)[r])] \in [1..Farthest -> Sums]
  <2>1. ASSUME NEW k \in 1..Farthest PROVE Plus(acc.returns[k], ReturnOf(k)[r]) \in Sums
    <3>1. acc.returns[k] \in Sums /\ ReturnOf(k)[r] \in Int \cup {Nil}
      BY <1>1, FigureValues
    <3>2. QED
      BY <3>1, PlusType
  <2>2. QED
    BY <2>1
<1>4. QED
  BY <1>1, <1>2, <1>3, AddIs DEF Accums

LEMMA AddOne ==
  ASSUME FigureTypes, NEW S \in SUBSET HasSnapshot, NEW r \in HasSnapshot \ S
  PROVE  Add(AccumOf(S), r) = AccumOf(S \cup {r})
<1> DEFINE T == S \cup {r}
<1>1. IsFiniteSet(S) /\ \A x \in T : x \in HasSnapshot
  BY Snapshots, FS_Subset
<1>2. Cardinality(S) + 1 = Cardinality(T)
  BY <1>1, FS_AddElement, FS_CardinalityType
<1>3. ASSUME NEW k \in 1..Farthest
      PROVE  Plus(SumKnown(ReturnOf(k), S), ReturnOf(k)[r]) = SumKnown(ReturnOf(k), T)
  <2>1. \A x \in T : ReturnOf(k)[x] \in Int \cup {Nil}
    BY <1>1, FigureValues
  <2>2. QED
    BY <1>1, <2>1, PlusKnown
<1>4. Plus(SumKnown(WinOf, S), WinOf[r]) = SumKnown(WinOf, T)
  <2>1. \A x \in T : WinOf[x] \in Int \cup {Nil}
    BY <1>1, FigureValues
  <2>2. QED
    BY <1>1, <2>1, PlusKnown
<1>5. Plus(SumKnown(DropOf, S), DropOf[r]) = SumKnown(DropOf, T)
  <2>1. \A x \in T : DropOf[x] \in Int \cup {Nil}
    BY <1>1, FigureValues
  <2>2. QED
    BY <1>1, <2>1, PlusKnown
<1> DEFINE a == AccumOf(S)
<1>6. /\ a.count = Cardinality(S) /\ a.wins = SumKnown(WinOf, S) /\ a.drawdown = SumKnown(DropOf, S)
      /\ \A k \in 1..Farthest : a.returns[k] = SumKnown(ReturnOf(k), S)
  BY DEF AccumOf
<1>7. Add(a, r) = [count    |-> a.count + 1,
                   returns  |-> [k \in 1..Farthest |-> Plus(a.returns[k], ReturnOf(k)[r])],
                   wins     |-> Plus(a.wins, WinOf[r]),
                   drawdown |-> Plus(a.drawdown, DropOf[r])]
  BY AddIs
<1> HIDE DEF a, T
<1>8. [k \in 1..Farthest |-> Plus(a.returns[k], ReturnOf(k)[r])] =
        [k \in 1..Farthest |-> SumKnown(ReturnOf(k), T)]
  BY <1>3, <1>6
<1>9. Add(a, r) = AccumOf(T)
  BY <1>2, <1>4, <1>5, <1>6, <1>7, <1>8 DEF AccumOf
<1>10. QED
  BY <1>9 DEF a, T

(* The walk over the snapshots of a group has counted and added up all of them. *)
LEMMA WalkAdds ==
  ASSUME FigureTypes, NEW S \in SUBSET HasSnapshot
  PROVE  FoldLeft(Add, EmptyAccum, SetToSeq(S)) = AccumOf(S)
<1> DEFINE s == SetToSeq(S)
           n == Cardinality(S)
           iter == CHOOSE g : g = [T \in SUBSET (1..n) |->
                                     IF T = {} THEN EmptyAccum
                                     ELSE Add(g[T \ {Max(T)}], s[Max(T)])]
           op == [p \in Accums \X (1..n) |-> Add(p[1], s[p[2]])]
<1>1. /\ IsFiniteSet(S) /\ n \in Nat /\ DOMAIN s = 1..n /\ \A i \in 1..n : s[i] \in S
      /\ \A i, j \in 1..n : s[i] = s[j] => i = j
      /\ \A a \in S : \E i \in 1..n : s[i] = a
  <2>1. IsFiniteSet(S)
    BY Snapshots, FS_Subset
  <2>2. SetToSeq(S) \in SetToSeqs(S)
    BY <2>1, SetToSeqList
  <2>3. QED
    BY <2>1, <2>2, OnceEach
<1> HIDE DEF s, n
<1>2. FoldLeft(Add, EmptyAccum, s) = iter[1..n]
  BY <1>1 DEF FoldLeft, MapThenFoldSet
<1>3. \A i \in 1..n : s[i] \in HasSnapshot
  BY <1>1
<1>4. op \in [Accums \X (1..n) -> Accums]
  <2>1. ASSUME NEW p \in Accums \X (1..n) PROVE Add(p[1], s[p[2]]) \in Accums
    BY <1>3, AddType
  <2>2. QED
    BY <2>1
<1>5. EmptyAccum \in Accums /\ EmptyAccum = AccumOf({})
  <2>1. \A f : SumKnown(f, {}) = Nothing
    <3>1. ASSUME NEW f PROVE SumKnown(f, {}) = Nothing
      <4>1. KnownIn(f, {}) = {}
        BY DEF KnownIn
      <4>2. TotalOf(f, {}) = 0 /\ Cardinality({}) = 0
        BY FS_EmptySet, TotalStep
      <4>3. QED
        BY <4>1, <4>2 DEF SumKnown, Nothing
    <3>2. QED
      BY <3>1
  <2>2. Nothing \in Sums
    BY DEF Nothing, Sums
  <2>3. Cardinality({}) = 0
    BY FS_EmptySet
  <2>4. EmptyAccum \in Accums
    BY <2>2 DEF EmptyAccum, Accums
  <2>5. EmptyAccum = AccumOf({})
    BY <2>1, <2>3 DEF EmptyAccum, AccumOf
  <2>6. QED
    BY <2>4, <2>5
<1>6. \E g : g = [T \in SUBSET (1..n) |->
                    IF T = {} THEN EmptyAccum ELSE Add(g[T \ {Max(T)}], s[Max(T)])]
  <2> HIDE DEF op
  <2>1. PICK g \in [SUBSET (1..n) -> Accums] : g = FoldedUp(op, EmptyAccum, g, n)
    <3>1. \A b \in Accums, m \in Nat : \A o \in [Accums \X (1..m) -> Accums] :
            \E g \in [SUBSET (1..m) -> Accums] : g = FoldedUp(o, b, g, m)
      BY FoldExists
    <3>2. QED
      BY <1>1, <1>4, <1>5, <3>1
  <2>2. ASSUME NEW T \in SUBSET (1..n)
        PROVE  g[T] = IF T = {} THEN EmptyAccum ELSE Add(g[T \ {Max(T)}], s[Max(T)])
    <3>1. CASE T = {}
      BY <2>1, <3>1 DEF FoldedUp
    <3>2. CASE T # {}
      <4>1. Max(T) \in 1..n /\ T \ {Max(T)} \in SUBSET (1..n)
        BY <1>1, <3>2, MaxOfNumbers
      <4>2. g[T] = op[<<g[T \ {Max(T)}], Max(T)>>]
        BY <2>1, <3>2 DEF FoldedUp
      <4>3. g[T \ {Max(T)}] \in Accums
        BY <4>1
      <4>4. \A a \in Accums, k \in 1..n : op[<<a, k>>] = Add(a, s[k])
        BY DEF op
      <4>5. QED
        BY <3>2, <4>1, <4>2, <4>3, <4>4
    <3>3. QED
      BY <3>1, <3>2
  <2>3. g = [T \in SUBSET (1..n) |-> g[T]]
    OBVIOUS
  <2>4. g = [T \in SUBSET (1..n) |->
               IF T = {} THEN EmptyAccum ELSE Add(g[T \ {Max(T)}], s[Max(T)])]
    BY <2>2, <2>3
  <2>5. QED
    BY <2>4
<1>7. iter = [T \in SUBSET (1..n) |->
                IF T = {} THEN EmptyAccum ELSE Add(iter[T \ {Max(T)}], s[Max(T)])]
  BY <1>6
<1> HIDE DEF iter, op
<1> DEFINE taken(k) == {s[i] : i \in 1..k}
           B == {k \in 0..n : iter[1..k] = AccumOf(taken(k))}
<1>8. 0 \in B
  <2>1. iter[1..0] = EmptyAccum
    BY <1>7
  <2>2. taken(0) = {}
    OBVIOUS
  <2>3. 0 \in 0..n
    BY <1>1
  <2>4. iter[1..0] = AccumOf(taken(0))
    BY <1>5, <2>1, <2>2, Zenon
  <2> HIDE DEF taken
  <2>5. QED
    BY <2>3, <2>4, Zenon
<1>9. ASSUME NEW k \in 1..n, k - 1 \in B PROVE k \in B
  <2>1. /\ 1..k \in SUBSET (1..n) /\ 1..k # {} /\ Max(1..k) = k /\ (1..k) \ {k} = 1..(k - 1)
        /\ k - 1 \in 0..n /\ k \in 0..n
    <3>1. n \in Nat
      BY <1>1
    <3>2. k \in Nat \ {0} /\ k <= n
      BY <3>1
    <3> HIDE DEF B
    <3>3. Max(1..k) = k /\ (1..k) \ {k} = 1..(k - 1)
      BY <3>2, MaxUpTo
    <3>4. 1 \in 1..k
      BY <3>2
    <3>5. QED
      BY <3>1, <3>2, <3>3, <3>4
  <2>2. iter[1..k] = Add(iter[1..(k - 1)], s[k])
    BY <1>7, <2>1
  <2>3. taken(k) = taken(k - 1) \cup {s[k]}
    BY <1>1, <2>1
  <2>4. taken(k - 1) \in SUBSET HasSnapshot /\ s[k] \in HasSnapshot \ taken(k - 1)
    BY <1>1, <1>3, <2>1
  <2>5. iter[1..(k - 1)] = AccumOf(taken(k - 1))
    BY <1>9
  <2> HIDE DEF taken
  <2>6. Add(AccumOf(taken(k - 1)), s[k]) = AccumOf(taken(k - 1) \cup {s[k]})
    BY <2>4, AddOne
  <2>7. QED
    BY <2>1, <2>2, <2>3, <2>5, <2>6
<1>10. n \in B
  <2> HIDE DEF B
  <2>1. \A k \in 0..n : k \in B
    BY <1>1, <1>8, <1>9, StepUp
  <2>2. QED
    BY <1>1, <2>1
<1>11. taken(n) = S
  BY <1>1
<1>12. QED
  BY <1>2, <1>10, <1>11 DEF s

----------------------------------------------------------------------------

GroupOf(key) == {r \in HasSnapshot : key \in GroupKeys(r)}

LEMMA AccumIs ==
  ASSUME FigureTypes, NEW key
  PROVE  Accum(key) = AccumOf(GroupOf(key))
<1>1. GroupOf(key) \in SUBSET HasSnapshot
  BY DEF GroupOf
<1>2. Accum(key) = FoldLeft(Add, EmptyAccum, SetToSeq(GroupOf(key)))
  BY DEF Accum, GroupOf
<1>3. QED
  BY <1>1, <1>2, WalkAdds

(* A row, an order and a page as they are to be, without the walks that compute them. *)
TrueRow(key) ==
  [key      |-> key,
   count    |-> Cardinality(GroupOf(key)),
   returns  |-> [k \in 1..Farthest |-> Mean(SumKnown(ReturnOf(k), GroupOf(key)))],
   winRate  |-> Mean(SumKnown(WinOf, GroupOf(key))),
   drawdown |-> Mean(SumKnown(DropOf, GroupOf(key)))]

Ahead(a, b) ==
  \/ Cardinality(GroupOf(a)) > Cardinality(GroupOf(b))
  \/ Cardinality(GroupOf(a)) = Cardinality(GroupOf(b)) /\ a < b

Orders == {q \in SetToSeqs(Keys) : \A i, j \in DOMAIN q : i < j => Ahead(q[i], q[j])}
Order  == First(Orders)

Cut(n) == Min({n * size, Cardinality(Keys)})
TruePage(n) == [i \in 1..(Cut(n) - Cut(n - 1)) |-> TrueRow(Order[Cut(n - 1) + i])]

LEMMA RowIs ==
  ASSUME FigureTypes, NEW key
  PROVE  RowOf(key) = TrueRow(key) /\ Count(key) = Cardinality(GroupOf(key))
<1> DEFINE acc == Accum(key)
           S == GroupOf(key)
<1>1. acc = AccumOf(S)
  BY AccumIs
<1>2. RowOf(key) = [key |-> key, count |-> acc.count,
                    returns |-> [k \in 1..Farthest |-> Mean(acc.returns[k])],
                    winRate |-> Mean(acc.wins), drawdown |-> Mean(acc.drawdown)]
  BY DEF RowOf
<1>3. Count(key) = acc.count
  BY DEF Count
<1> HIDE DEF acc, S
<1>4. /\ acc.count = Cardinality(S) /\ acc.wins = SumKnown(WinOf, S) /\ acc.drawdown = SumKnown(DropOf, S)
      /\ \A k \in 1..Farthest : acc.returns[k] = SumKnown(ReturnOf(k), S)
  BY <1>1 DEF AccumOf
<1>5. [k \in 1..Farthest |-> Mean(acc.returns[k])] =
        [k \in 1..Farthest |-> Mean(SumKnown(ReturnOf(k), S))]
  BY <1>4
<1>6. QED
  BY <1>2, <1>3, <1>4, <1>5 DEF TrueRow, S

LEMMA KeysFacts ==
  ASSUME FigureTypes
  PROVE  /\ IsFiniteSet(Keys) /\ Keys \subseteq Nat /\ Cardinality(Keys) \in Nat
         /\ \A r \in HasSnapshot : GroupKeys(r) \subseteq Keys /\ IsFiniteSet(GroupKeys(r))
         /\ \A key \in Keys : IsFiniteSet(GroupOf(key)) /\ Cardinality(GroupOf(key)) \in Nat
<1>1. \A r \in HasSnapshot : r \in Rec
  BY DEF HasSnapshot
<1>2. ASSUME NEW r \in HasSnapshot
      PROVE  GroupKeys(r) \subseteq Label \cup {0} /\ GroupKeys(r) \subseteq Keys
  BY <1>1 DEF GroupKeys, Ungrouped, FigureTypes, Keys
<1>3. IsFiniteSet(Label \cup {0})
  BY ReportAssumption, FS_AddElement
<1>4. Keys \subseteq Label \cup {0}
  BY <1>2 DEF Keys
<1>5. IsFiniteSet(Keys) /\ Cardinality(Keys) \in Nat
  BY <1>3, <1>4, FS_Subset, FS_CardinalityType
<1>6. \A r \in HasSnapshot : IsFiniteSet(GroupKeys(r))
  BY <1>2, <1>3, FS_Subset
<1>7. ASSUME NEW key \in Keys PROVE IsFiniteSet(GroupOf(key)) /\ Cardinality(GroupOf(key)) \in Nat
  <2>1. GroupOf(key) \subseteq HasSnapshot
    BY DEF GroupOf
  <2>2. QED
    BY <2>1, Snapshots, FS_Subset, FS_CardinalityType
<1>8. QED
  BY <1>2, <1>4, <1>5, <1>6, <1>7, ReportAssumption

LEMMA OrderFacts ==
  ASSUME FigureTypes
  PROVE  /\ IsList(Order) /\ Len(Order) = Cardinality(Keys) /\ DOMAIN Order = 1..Cardinality(Keys)
         /\ \A i \in 1..Cardinality(Keys) : Order[i] \in Keys
         /\ \A i, j \in 1..Cardinality(Keys) : Order[i] = Order[j] => i = j
         /\ \A key \in Keys : \E i \in 1..Cardinality(Keys) : Order[i] = key
         /\ \A i, j \in 1..Cardinality(Keys) : i < j => Ahead(Order[i], Order[j])
<1> DEFINE Less == {p \in Keys \X Keys : Ahead(p[1], p[2])}
<1>1. \A a, b \in Keys : <<a, b>> \in Less <=> Ahead(a, b)
  OBVIOUS
<1>2. \A key \in Keys : key \in Nat /\ Cardinality(GroupOf(key)) \in Nat
  BY KeysFacts
<1>3. \A a, b \in Keys : a # b => (Ahead(a, b) <=> ~Ahead(b, a))
  BY <1>2 DEF Ahead
<1>4. \A a \in Keys : ~Ahead(a, a)
  BY <1>2 DEF Ahead
<1>5. \A a, b, c \in Keys : Ahead(a, b) /\ Ahead(b, c) => Ahead(a, c)
  BY <1>2 DEF Ahead
<1> HIDE DEF Less
<1>6. \E s \in SetToSeqs(Keys) : \A i, j \in DOMAIN s : i < j => <<s[i], s[j]>> \in Less
  <2>1. IsFiniteSet(Keys)
    BY KeysFacts
  <2>2. /\ \A a, b \in Keys : a # b => (<<a, b>> \in Less <=> <<b, a>> \notin Less)
        /\ \A a \in Keys : <<a, a>> \notin Less
        /\ \A a, b, c \in Keys : <<a, b>> \in Less /\ <<b, c>> \in Less => <<a, c>> \in Less
    BY <1>1, <1>3, <1>4, <1>5
  <2>3. QED
    BY <2>1, <2>2, SortedExists
<1>7. Orders # {}
  <2>1. PICK s \in SetToSeqs(Keys) : \A i, j \in DOMAIN s : i < j => <<s[i], s[j]>> \in Less
    BY <1>6
  <2>2. \A i \in DOMAIN s : s[i] \in Keys
    BY DEF SetToSeqs
  <2>3. \A i, j \in DOMAIN s : i < j => Ahead(s[i], s[j])
    BY <1>1, <2>1, <2>2
  <2>4. QED
    BY <2>3 DEF Orders
<1>8. Order \in Orders
  BY <1>7 DEF Order, First
<1>9. Order \in SetToSeqs(Keys) /\ \A i, j \in DOMAIN Order : i < j => Ahead(Order[i], Order[j])
  BY <1>8 DEF Orders
<1>10. QED
  BY <1>9, KeysFacts, OnceEach

LEMMA MinOfTwo ==
  ASSUME NEW x \in Int, NEW y \in Int
  PROVE  Min({x, y}) = IF x <= y THEN x ELSE y
<1>1. \E m \in {x, y} : \A z \in {x, y} : m <= z
  <2>1. CASE x <= y
    BY <2>1
  <2>2. CASE ~(x <= y)
    BY <2>2
  <2>3. QED
    BY <2>1, <2>2
<1>2. Min({x, y}) \in {x, y} /\ \A z \in {x, y} : Min({x, y}) <= z
  BY <1>1 DEF Min
<1>3. QED
  BY <1>2

LEMMA CutFacts ==
  ASSUME FigureTypes, NEW n \in Nat
  PROVE  /\ Cut(n) \in 0..Cardinality(Keys)
         /\ Cut(n) = IF n * size <= Cardinality(Keys) THEN n * size ELSE Cardinality(Keys)
         /\ size \in Nat \ {0} /\ n * size \in Nat
<1>1. size \in Nat \ {0}
  BY ReportAssumption DEF FigureTypes
<1>2. n * size \in Nat
  BY <1>1
<1>3. Cardinality(Keys) \in Nat
  BY KeysFacts
<1>4. Cut(n) = IF n * size <= Cardinality(Keys) THEN n * size ELSE Cardinality(Keys)
  BY <1>2, <1>3, MinOfTwo DEF Cut
<1>5. QED
  BY <1>1, <1>2, <1>3, <1>4

LEMMA CutSteps ==
  ASSUME FigureTypes, NEW n \in Nat \ {0}
  PROVE  /\ Cut(n - 1) \in 0..Cardinality(Keys) /\ Cut(n) \in 0..Cardinality(Keys)
         /\ Cut(n - 1) <= Cut(n) /\ Cut(0) = 0
         /\ Min({Cut(n - 1) + size, Cardinality(Keys)}) = Cut(n)
         /\ Cut(n - 1) = Cut(n) => Cut(n) = Cardinality(Keys)
<1> DEFINE N == Cardinality(Keys)
<1>1. n \in Nat /\ n - 1 \in Nat /\ 0 \in Nat /\ N \in Nat
  BY KeysFacts
<1>2. /\ Cut(n) \in 0..N /\ Cut(n) = (IF n * size <= N THEN n * size ELSE N)
      /\ size \in Nat \ {0} /\ n * size \in Nat
  BY <1>1, CutFacts
<1>3. /\ Cut(n - 1) \in 0..N
      /\ Cut(n - 1) = (IF (n - 1) * size <= N THEN (n - 1) * size ELSE N)
      /\ (n - 1) * size \in Nat
  BY <1>1, CutFacts
<1>4. Cut(0) = (IF 0 * size <= N THEN 0 * size ELSE N)
  BY <1>1, CutFacts
<1> HIDE DEF N
<1>5. (n - 1) * size + size = n * size /\ 0 * size = 0
  BY <1>1, <1>2
<1>6. Min({Cut(n - 1) + size, N}) = IF Cut(n - 1) + size <= N THEN Cut(n - 1) + size ELSE N
  BY <1>1, <1>2, <1>3, MinOfTwo
<1> DEFINE a == (n - 1) * size
           b == n * size
<1>7. a + size = b /\ a \in Nat /\ b \in Nat
  BY <1>2, <1>3, <1>5
<1>8. /\ Cut(n) = (IF b <= N THEN b ELSE N)
      /\ Cut(n - 1) = (IF a <= N THEN a ELSE N)
  BY <1>2, <1>3
<1> HIDE DEF a, b
<1>9. Cut(0) = 0
  BY <1>1, <1>4, <1>5
<1>10. /\ Cut(n - 1) <= Cut(n)
       /\ (IF Cut(n - 1) + size <= N THEN Cut(n - 1) + size ELSE N) = Cut(n)
       /\ Cut(n - 1) = Cut(n) => Cut(n) = N
  BY <1>1, <1>2, <1>7, <1>8
<1>11. QED
  BY <1>2, <1>3, <1>6, <1>9, <1>10 DEF N

LEMMA PageIs ==
  ASSUME FigureTypes, NEW n \in Nat \ {0}
  PROVE  PageAt(n) = TruePage(n)
<1> DEFINE Sorted == {q \in SetToSeqs(Keys) : \A i, j \in DOMAIN q : i < j => Before(q[i], q[j])}
<1>1. Sorted = Orders
  <2>1. \A a, b : Before(a, b) <=> Ahead(a, b)
    <3>1. ASSUME NEW a, NEW b PROVE Before(a, b) <=> Ahead(a, b)
      BY RowIs DEF Before, Ahead
    <3>2. QED
      BY <3>1
  <2>2. QED
    BY <2>1 DEF Orders
<1>2. SortedKeys = First(Sorted)
  BY DEF SortedKeys, First
<1>3. SortedKeys = Order
  BY <1>1, <1>2 DEF Order
<1>4. Len(SortedKeys) = Cardinality(Keys)
  BY <1>3, OrderFacts
<1> DEFINE offset == Min({(n - 1) * size, Len(SortedKeys)})
           end == Min({offset + size, Len(SortedKeys)})
<1>5. PageAt(n) = [i \in 1..(end - offset) |-> RowOf(SortedKeys[offset + i])]
  BY DEF PageAt
<1>6. offset = Cut(n - 1)
  BY <1>4 DEF Cut
<1>7. end = Cut(n)
  <2> HIDE DEF offset
  <2>1. QED
    BY <1>4, <1>6, CutSteps
<1> HIDE DEF offset, end
<1>8. PageAt(n) = [i \in 1..(Cut(n) - Cut(n - 1)) |-> RowOf(Order[Cut(n - 1) + i])]
  BY <1>3, <1>5, <1>6, <1>7
<1>9. \A i : RowOf(Order[Cut(n - 1) + i]) = TrueRow(Order[Cut(n - 1) + i])
  BY RowIs
<1>10. QED
  BY <1>8, <1>9 DEF TruePage

PagesInv == \A i \in 1..Len(pages) : pages[i] = TruePage(i)

(* What a client has seen are the pages of one report, whichever was asked for last. *)
FiguresInv == FigureTypes /\ IsList(pages) /\ PagesInv

LEMMA InitFigures == ReportInit => FiguresInv
<1> SUFFICES ASSUME ReportInit PROVE FiguresInv
  OBVIOUS
<1>1. FigureTypes
  BY DEF ReportInit, FigureTypes
<1>2. IsList(pages) /\ Len(pages) = 0
  BY EmptyList DEF ReportInit
<1>3. PagesInv
  BY <1>2 DEF PagesInv
<1>4. QED
  BY <1>1, <1>2, <1>3 DEF FiguresInv

LEMMA SameReport ==
  ASSUME UNCHANGED <<labels, closes, size>>
  PROVE  \A n : TruePage(n)' = TruePage(n)
<1>1. HasSnapshot' = HasSnapshot /\ \A r : GroupKeys(r)' = GroupKeys(r)
  BY DEF HasSnapshot, GroupKeys
<1>2. Keys' = Keys /\ \A key : GroupOf(key)' = GroupOf(key)
  BY <1>1 DEF Keys, GroupOf
<1>3. WinOf' = WinOf /\ DropOf' = DropOf /\ \A k : ReturnOf(k)' = ReturnOf(k)
  BY <1>1 DEF WinOf, DropOf, ReturnOf
<1>4. \A key : TrueRow(key)' = TrueRow(key)
  BY <1>2, <1>3 DEF TrueRow
<1>5. Orders' = Orders
  <2>1. \A a, b : Ahead(a, b)' = Ahead(a, b)
    BY <1>2 DEF Ahead
  <2>2. QED
    BY <1>2, <2>1 DEF Orders
<1>6. Order' = Order
  BY <1>5 DEF Order
<1>7. \A n : Cut(n)' = Cut(n)
  BY <1>2 DEF Cut
<1>8. QED
  BY <1>4, <1>6, <1>7 DEF TruePage

LEMMA NextPageInv ==
  ASSUME FiguresInv, NextPage
  PROVE  FiguresInv'
<1> DEFINE n == Len(pages)
           page == PageAt(n + 1)
<1>1. FigureTypes /\ IsList(pages) /\ n \in Nat /\ UNCHANGED <<labels, closes, size>>
  BY ListFacts DEF FiguresInv, NextPage
<1>2. pages' = Append(pages, page)
  BY DEF NextPage
<1>3. page = TruePage(n + 1)
  BY <1>1, PageIs
<1> HIDE DEF page
<1>4. /\ IsList(pages') /\ Len(pages') = n + 1 /\ pages'[n + 1] = page
      /\ \A i \in 1..n : pages'[i] = pages[i]
  <2> DEFINE U == Range(pages) \cup {page}
  <2>1. pages \in Seq(U) /\ page \in U
    BY <1>1 DEF IsList
  <2> HIDE DEF U
  <2>2. /\ Append(pages, page) \in Seq(U) /\ Len(Append(pages, page)) = n + 1
        /\ Append(pages, page)[n + 1] = page
        /\ \A i \in 1..n : Append(pages, page)[i] = pages[i]
    BY <2>1
  <2>3. IsList(Append(pages, page))
    BY <2>2, SeqIsList
  <2>4. QED
    BY <1>2, <2>2, <2>3
<1>5. \A k : TruePage(k)' = TruePage(k)
  BY <1>1, SameReport
<1>6. PagesInv'
  <2>1. ASSUME NEW i \in 1..Len(pages') PROVE pages'[i] = TruePage(i)
    <3>1. i \in 1..n \/ i = n + 1
      BY <1>1, <1>4
    <3>2. CASE i \in 1..n
      BY <1>4, <3>2 DEF FiguresInv, PagesInv
    <3>3. CASE i = n + 1
      BY <1>3, <1>4, <3>3
    <3>4. QED
      BY <3>1, <3>2, <3>3
  <2>2. QED
    BY <1>5, <2>1 DEF PagesInv
<1>7. FigureTypes'
  BY <1>1 DEF FigureTypes
<1>8. QED
  BY <1>4, <1>6, <1>7 DEF FiguresInv

LEMMA SaveSnapshotInv ==
  ASSUME FiguresInv, NEW r \in Rec, SaveSnapshot(r)
  PROVE  FiguresInv'
<1>1. PICK c \in [1..Farthest -> ClosePrice \cup {Nil}] : closes' = [closes EXCEPT ![r] = c]
  BY DEF SaveSnapshot
<1>2. FigureTypes'
  BY <1>1 DEF SaveSnapshot, FiguresInv, FigureTypes
<1>3. IsList(pages') /\ Len(pages') = 0
  BY EmptyList DEF SaveSnapshot
<1>4. PagesInv'
  BY <1>3 DEF PagesInv
<1>5. QED
  BY <1>2, <1>3, <1>4 DEF FiguresInv

(* The pages a client has been shown are those of the report as it is, in their order. *)
THEOREM FiguresInvariance == ReportSpec => []FiguresInv
<1>1. FiguresInv /\ [ReportNext]_figureVars => FiguresInv'
  <2> SUFFICES ASSUME FiguresInv, [ReportNext]_figureVars PROVE FiguresInv'
    OBVIOUS
  <2>1. CASE NextPage
    BY <2>1, NextPageInv
  <2>2. ASSUME NEW r \in Rec, SaveSnapshot(r) PROVE FiguresInv'
    BY <2>2, SaveSnapshotInv
  <2>3. CASE UNCHANGED figureVars
    <3>1. UNCHANGED <<labels, closes, size>> /\ pages' = pages
      BY <2>3 DEF figureVars
    <3>2. \A k : TruePage(k)' = TruePage(k)
      BY <3>1, SameReport
    <3>3. FigureTypes' /\ PagesInv'
      BY <3>1, <3>2 DEF FiguresInv, FigureTypes, PagesInv
    <3>4. QED
      BY <3>1, <3>3 DEF FiguresInv
  <2>4. QED
    BY <2>1, <2>2, <2>3 DEF ReportNext
<1>2. QED
  BY <1>1, InitFigures, PTL DEF ReportSpec

(* All the rows on the pages, from the first on. *)
LEMMA RowsAre ==
  ASSUME FiguresInv
  PROVE  /\ RowsShown = [i \in 1..Cut(Len(pages)) |-> TrueRow(Order[i])]
         /\ Cut(Len(pages)) \in 0..Cardinality(Keys)
         /\ AtEnd => Cut(Len(pages)) = Cardinality(Keys)
<1> DEFINE n == Len(pages)
           N == Cardinality(Keys)
           row == [i \in 1..N |-> TrueRow(Order[i])]
           e == [k \in 0..n |-> Cut(k)]
<1>1. FigureTypes /\ IsList(pages) /\ n \in Nat /\ \A k \in 1..n : pages[k] = TruePage(k)
  BY ListFacts DEF FiguresInv, PagesInv
<1>2. ASSUME NEW k \in 0..n PROVE Cut(k) \in 0..N
  BY <1>1, CutFacts
<1>3. N \in Nat
  BY <1>1, KeysFacts
<1>4. Cut(0) = 0
  <2>1. 1 \in Nat \ {0}
    OBVIOUS
  <2>2. QED
    BY <1>1, <2>1, CutSteps
<1>5. ASSUME NEW k \in 1..n
      PROVE  /\ Cut(k - 1) <= Cut(k) /\ Cut(k - 1) \in 0..N /\ Cut(k) \in 0..N
             /\ k - 1 \in 0..n /\ k \in 0..n
             /\ Cut(k - 1) = Cut(k) => Cut(k) = N
             /\ pages[k] = [i \in 1..(Cut(k) - Cut(k - 1)) |-> row[Cut(k - 1) + i]]
  <2>1. k \in Nat \ {0}
    BY <1>1
  <2>2. /\ Cut(k - 1) <= Cut(k) /\ Cut(k - 1) \in 0..N /\ Cut(k) \in 0..N
        /\ Cut(k - 1) = Cut(k) => Cut(k) = N
    BY <1>1, <2>1, CutSteps
  <2>3. ASSUME NEW i \in 1..(Cut(k) - Cut(k - 1))
        PROVE  row[Cut(k - 1) + i] = TrueRow(Order[Cut(k - 1) + i])
    <3>1. Cut(k - 1) + i \in 1..N
      BY <1>3, <2>2
    <3>2. QED
      BY <3>1
  <2> HIDE DEF row
  <2>4. pages[k] = [i \in 1..(Cut(k) - Cut(k - 1)) |-> row[Cut(k - 1) + i]]
    BY <1>1, <2>3 DEF TruePage
  <2>5. k - 1 \in 0..n /\ k \in 0..n
    BY <1>1
  <2>6. QED
    BY <2>2, <2>4, <2>5
<1>6. e \in [0..n -> Nat] /\ e[0] = 0 /\ e[n] = Cut(n)
  BY <1>1, <1>2, <1>4
<1>7. \A k \in 1..n : /\ e[k - 1] <= e[k]
                      /\ pages[k] = [i \in 1..(e[k] - e[k - 1]) |-> row[e[k - 1] + i]]
  <2> HIDE DEF row
  <2>1. \A k \in 1..n : e[k - 1] = Cut(k - 1) /\ e[k] = Cut(k)
    BY <1>5
  <2> HIDE DEF e
  <2>2. QED
    BY <1>5, <2>1
<1> HIDE DEF row, e
<1>8. RowsShown = [i \in 1..e[n] |-> row[i]]
  <2>1. IsList(pages) /\ e \in [0..Len(pages) -> Nat] /\ e[0] = 0
    BY <1>1, <1>6
  <2>2. \A k \in 1..Len(pages) :
          e[k - 1] <= e[k] /\ pages[k] = Piece(row, e[k - 1], e[k])
    BY <1>7 DEF Piece
  <2>3. FlattenSeq(pages) = [i \in 1..e[Len(pages)] |-> row[i]]
    BY <2>1, <2>2, FlatPieces, SMTT(60)
  <2>4. QED
    BY <2>3 DEF RowsShown
<1>9. \A i \in 1..Cut(n) : row[i] = TrueRow(Order[i])
  <2>1. Cut(n) \in 0..N
    BY <1>1, <1>2
  <2>2. \A i \in 1..Cut(n) : i \in 1..N
    BY <1>3, <2>1
  <2>3. QED
    BY <2>2 DEF row
<1>10. RowsShown = [i \in 1..Cut(n) |-> TrueRow(Order[i])]
  BY <1>6, <1>8, <1>9
<1>11. ASSUME AtEnd PROVE Cut(n) = N
  <2>1. n # 0 /\ pages[n] = <<>>
    BY <1>1, <1>11, ListFacts DEF AtEnd
  <2>2. n \in 1..n
    BY <1>1, <2>1
  <2>3. /\ Cut(n - 1) <= Cut(n) /\ Cut(n - 1) \in 0..N /\ Cut(n) \in 0..N
        /\ Cut(n - 1) = Cut(n) => Cut(n) = N
        /\ pages[n] = [i \in 1..(Cut(n) - Cut(n - 1)) |-> row[Cut(n - 1) + i]]
    BY <1>5, <2>2
  <2>4. DOMAIN pages[n] = 1..(Cut(n) - Cut(n - 1))
    BY <2>3
  <2>5. DOMAIN pages[n] = {}
    BY <2>1
  <2>6. Cut(n) = Cut(n - 1)
    <3>1. ASSUME Cut(n - 1) < Cut(n) PROVE FALSE
      <4>1. 1 \in 1..(Cut(n) - Cut(n - 1))
        BY <1>3, <2>3, <3>1
      <4>2. QED
        BY <2>4, <2>5, <4>1
    <3>2. QED
      BY <1>3, <2>3, <3>1
  <2>7. QED
    BY <2>3, <2>6
<1>12. QED
  BY <1>1, <1>2, <1>10, <1>11

----------------------------------------------------------------------------

LEMMA RowFacts ==
  ASSUME FiguresInv
  PROVE  /\ FigureTypes /\ Cardinality(Keys) \in Nat
         /\ DOMAIN RowsShown \subseteq 1..Cardinality(Keys)
         /\ AtEnd => DOMAIN RowsShown = 1..Cardinality(Keys)
         /\ \A i \in DOMAIN RowsShown :
              /\ RowsShown[i] = TrueRow(Order[i]) /\ RowsShown[i].key = Order[i]
              /\ RowsShown[i].count = Cardinality(GroupOf(Order[i]))
<1> DEFINE m == Cut(Len(pages))
           N == Cardinality(Keys)
<1>1. RowsShown = [i \in 1..m |-> TrueRow(Order[i])] /\ m \in 0..N /\ (AtEnd => m = N)
  BY RowsAre
<1>2. FigureTypes /\ N \in Nat
  BY KeysFacts DEF FiguresInv
<1> HIDE DEF m
<1>3. ASSUME NEW key PROVE TrueRow(key).key = key /\ TrueRow(key).count = Cardinality(GroupOf(key))
  BY DEF TrueRow
<1>4. \A i \in 1..m : RowsShown[i] = TrueRow(Order[i])
  BY <1>1
<1>5. DOMAIN RowsShown = 1..m
  BY <1>1
<1> HIDE DEF N
<1>6. 1..m \subseteq 1..N
  BY <1>1, <1>2
<1>7. QED
  BY <1>1, <1>2, <1>3, <1>4, <1>5, <1>6 DEF N

(* As many positions hold a key of r as r has keys. *)
LEMMA PlacesOf ==
  ASSUME FigureTypes, NEW r \in HasSnapshot
  PROVE  Cardinality({i \in 1..Cardinality(Keys) : Order[i] \in GroupKeys(r)})
           = Max({1, Cardinality(labels[r])})
<1> DEFINE N == Cardinality(Keys)
           P == {i \in 1..N : Order[i] \in GroupKeys(r)}
           place == [i \in P |-> Order[i]]
<1>1. /\ N \in Nat /\ GroupKeys(r) \subseteq Keys /\ IsFiniteSet(GroupKeys(r))
  BY KeysFacts
<1>2. /\ \A i, j \in 1..N : Order[i] = Order[j] => i = j
      /\ \A key \in Keys : \E i \in 1..N : Order[i] = key
  BY OrderFacts
<1> HIDE DEF N
<1>3. place \in Injection(P, GroupKeys(r))
  BY <1>2 DEF Injection, IsInjective
<1>4. place \in Surjection(P, GroupKeys(r))
  <2>1. place \in [P -> GroupKeys(r)]
    OBVIOUS
  <2>2. ASSUME NEW key \in GroupKeys(r) PROVE \E i \in P : place[i] = key
    <3>1. PICK i \in 1..N : Order[i] = key
      BY <1>1, <1>2
    <3>2. i \in P /\ place[i] = key
      BY <3>1
    <3>3. QED
      BY <3>2
  <2> HIDE DEF place, P
  <2>3. QED
    BY <2>1, <2>2 DEF Surjection
<1>5. place \in Bijection(P, GroupKeys(r))
  <2> HIDE DEF place, P
  <2>1. QED
    BY <1>3, <1>4 DEF Bijection
<1>6. IsFiniteSet(P)
  BY <1>1, FS_Interval, FS_Subset, IsFiniteSet(1..N)
<1>7. Cardinality(P) = Cardinality(GroupKeys(r))
  <2> HIDE DEF place, P
  <2>1. QED
    BY <1>5, <1>6, FS_Bijection DEF ExistsBijection
<1>8. Cardinality(GroupKeys(r)) = Max({1, Cardinality(labels[r])})
  <2> DEFINE c == Cardinality(labels[r])
  <2>1. IsFiniteSet(labels[r])
    BY Snapshots, ReportAssumption, FS_Subset DEF FigureTypes
  <2>2. c \in Nat /\ (c = 0 <=> labels[r] = {})
    BY <2>1, FS_CardinalityType, FS_EmptySet
  <2>3. Max({1, c}) \in {1, c} /\ Max({1, c}) >= 1 /\ Max({1, c}) >= c
    <3>1. c \in Int /\ 1 \in Int
      BY <2>2
    <3> HIDE DEF c
    <3>2. QED
      BY <3>1, MaxOfTwo
  <2>4. Max({1, c}) = IF c = 0 THEN 1 ELSE c
    <3> HIDE DEF c
    <3>1. QED
      BY <2>2, <2>3
  <2>5. CASE labels[r] = {}
    <3>1. GroupKeys(r) = {Ungrouped}
      BY <2>5 DEF GroupKeys
    <3>2. Cardinality(GroupKeys(r)) = 1
      BY <3>1, FS_Singleton
    <3>3. QED
      BY <2>2, <2>4, <2>5, <3>2
  <2>6. CASE labels[r] # {}
    <3>1. GroupKeys(r) = labels[r]
      BY <2>6 DEF GroupKeys
    <3>2. QED
      BY <2>2, <2>4, <2>6, <3>1
  <2>7. QED
    BY <2>5, <2>6
<1>9. QED
  BY <1>7, <1>8 DEF N

LEMMA CountsAddUp ==
  ASSUME FiguresInv, AtEnd
  PROVE  SumFunction([i \in DOMAIN RowsShown |-> RowsShown[i].count]) =
           SumFunction([r \in HasSnapshot |-> Max({1, Cardinality(labels[r])})])
<1> DEFINE N == Cardinality(Keys)
           I == 1..N
           S == HasSnapshot
           f == [i \in DOMAIN RowsShown |-> RowsShown[i].count]
           h == [r \in HasSnapshot |-> Max({1, Cardinality(labels[r])})]
           G == [r \in HasSnapshot |-> {i \in I : Order[i] \in GroupKeys(r)}]
<1>1. /\ FigureTypes /\ N \in Nat /\ DOMAIN RowsShown = I
      /\ \A i \in I : RowsShown[i].count = Cardinality(GroupOf(Order[i]))
  BY RowFacts
<1>2. IsFiniteSet(S) /\ IsFiniteSet(I)
  BY <1>1, Snapshots, FS_Interval, IsFiniteSet(1..N)
<1>3. \A r \in S : G[r] \in SUBSET I
  OBVIOUS
<1>4. ASSUME NEW i \in I PROVE f[i] = Cardinality({r \in S : i \in G[r]})
  <2>1. {r \in S : i \in G[r]} = GroupOf(Order[i])
    BY DEF GroupOf
  <2>2. f[i] = Cardinality(GroupOf(Order[i]))
    BY <1>1
  <2>3. QED
    BY <2>1, <2>2
<1>5. ASSUME NEW r \in S PROVE h[r] = Cardinality(G[r])
  <2>1. Cardinality({i \in I : Order[i] \in GroupKeys(r)}) = Max({1, Cardinality(labels[r])})
    BY <1>1, PlacesOf
  <2>2. QED
    BY <2>1
<1>6. DOMAIN f = I /\ DOMAIN h = S
  BY <1>1
<1> HIDE DEF I, S, f, h, G
<1>7. TotalOf(f, I) = TotalOf(h, S)
  BY <1>2, <1>3, <1>4, <1>5, DoubleCount
<1>8. SumFunction(f) = TotalOf(f, I) /\ SumFunction(h) = TotalOf(h, S)
  BY <1>6 DEF SumFunction, SumFunctionOnSet, TotalOf
<1>9. SumFunction(f) = SumFunction(h)
  BY <1>7, <1>8
<1>10. QED
  BY <1>9 DEF f, h

LEMMA PagesCovered == ASSUME FiguresInv PROVE PagesCover
<1> SUFFICES ASSUME AtEnd PROVE PagesCover
  BY DEF PagesCover
<1> DEFINE N == Cardinality(Keys)
<1>1. /\ FigureTypes /\ N \in Nat /\ DOMAIN RowsShown = 1..N
      /\ \A i \in 1..N : /\ RowsShown[i].key = Order[i]
                         /\ RowsShown[i].count = Cardinality(GroupOf(Order[i]))
  BY RowFacts
<1>2. /\ \A i \in 1..N : Order[i] \in Keys
      /\ \A i, j \in 1..N : Order[i] = Order[j] => i = j
      /\ \A key \in Keys : \E i \in 1..N : Order[i] = key
      /\ \A i, j \in 1..N : i < j => Ahead(Order[i], Order[j])
  BY <1>1, OrderFacts
<1> HIDE DEF N
<1>3. ASSUME NEW r \in HasSnapshot, NEW l \in labels[r]
      PROVE  \E i \in DOMAIN RowsShown : RowsShown[i].key = l
  <2>1. l \in GroupKeys(r)
    BY DEF GroupKeys
  <2>2. l \in Keys
    BY <2>1 DEF Keys
  <2>3. QED
    BY <1>1, <1>2, <2>2
<1>4. ASSUME NEW i \in DOMAIN RowsShown, NEW j \in DOMAIN RowsShown, i < j
      PROVE  RowsShown[i].key # RowsShown[j].key /\ RowsShown[i].count >= RowsShown[j].count
  <2>1. /\ i \in 1..N /\ j \in 1..N /\ Order[i] \in Keys /\ Order[j] \in Keys
        /\ Ahead(Order[i], Order[j]) /\ Order[i] # Order[j]
    BY <1>1, <1>2, <1>4
  <2>2. Cardinality(GroupOf(Order[i])) \in Nat /\ Cardinality(GroupOf(Order[j])) \in Nat
    BY <1>1, <2>1, KeysFacts
  <2>3. Cardinality(GroupOf(Order[i])) >= Cardinality(GroupOf(Order[j]))
    BY <2>1, <2>2 DEF Ahead
  <2>4. QED
    BY <1>1, <2>1, <2>3
<1>5. SumFunction([i \in DOMAIN RowsShown |-> RowsShown[i].count]) =
        SumFunction([r \in HasSnapshot |-> Max({1, Cardinality(labels[r])})])
  BY CountsAddUp
<1>6. QED
  BY <1>3, <1>4, <1>5 DEF PagesCover

(* A row is over what is known of its group. *)
LEMMA RowOverKnown ==
  ASSUME FigureTypes, NEW key \in Keys, NEW row, row = TrueRow(key)
  PROVE  OverKnown(row)
<1> DEFINE S == GroupOf(key)
           recs == {r \in HasSnapshot : row.key \in labels[r] \/ (row.key = Ungrouped /\ labels[r] = {})}
           Return(k, r) == IF closes[r][k] = Nil THEN Nil ELSE closes[r][k] - EntryPrice
           Won(r) == IF closes[r][Farthest] = Nil THEN Nil
                     ELSE IF closes[r][Farthest] > EntryPrice THEN 1 ELSE 0
<1>1. /\ row.key = key /\ row.winRate = Mean(SumKnown(WinOf, S))
      /\ row.drawdown = Mean(SumKnown(DropOf, S))
      /\ \A k \in 1..Farthest : row.returns[k] = Mean(SumKnown(ReturnOf(k), S))
  BY DEF TrueRow
<1>2. recs = S
  <2>1. \A r \in HasSnapshot : key \in GroupKeys(r) <=>
                                 key \in labels[r] \/ (key = Ungrouped /\ labels[r] = {})
    BY DEF GroupKeys
  <2>2. QED
    BY <1>1, <2>1 DEF GroupOf
<1>3. IsFiniteSet(S) /\ S \subseteq HasSnapshot
  BY Snapshots, FS_Subset DEF GroupOf
<1> HIDE DEF recs, S
<1>4. ASSUME NEW k \in 1..Farthest
      PROVE  row.returns[k] = MeanOf([r \in recs |-> Return(k, r)])
  <2> DEFINE h == [r \in recs |-> Return(k, r)]
             f == ReturnOf(k)
  <2>1. \A r \in S : f[r] \in Int \cup {Nil}
    BY <1>3, FigureValues
  <2>2. DOMAIN h = S /\ \A r \in S : h[r] = f[r]
    BY <1>2, <1>3 DEF ReturnOf, TReturn
  <2> HIDE DEF h, f
  <2>3. Mean(SumKnown(f, S)) = MeanOf(h)
    BY <1>3, <2>1, <2>2, MeanOfKnown
  <2>4. QED
    BY <1>1, <2>3 DEF h, f
<1>5. row.winRate = MeanOf([r \in recs |-> Won(r)])
  <2> DEFINE h == [r \in recs |-> Won(r)]
  <2>1. \A r \in S : WinOf[r] \in Int \cup {Nil}
    BY <1>3, FigureValues
  <2>2. ASSUME NEW r \in S PROVE h[r] = WinOf[r]
    <3>1. closes[r][Farthest] \in Nat \cup {Nil}
      <4>1. Farthest \in 1..Farthest /\ ClosePrice \subseteq Nat
        BY ReportAssumption
      <4>2. closes[r] \in [1..Farthest -> ClosePrice \cup {Nil}]
        BY <1>3, Snapshots
      <4>3. QED
        BY <4>1, <4>2
    <3>2. h[r] = Won(r) /\ WinOf[r] = Win(TReturn(closes[r][Farthest]))
      BY <1>2, <1>3 DEF WinOf
    <3>3. Won(r) = Win(TReturn(closes[r][Farthest]))
      <4>1. CASE closes[r][Farthest] = Nil
        BY <4>1 DEF Win, TReturn
      <4>2. CASE closes[r][Farthest] # Nil
        <5>1. closes[r][Farthest] \in Nat /\ closes[r][Farthest] - EntryPrice # Nil
          BY <3>1, <4>2, ReportAssumption
        <5>2. QED
          BY <4>2, <5>1, ReportAssumption DEF Win, TReturn
      <4>3. QED
        BY <4>1, <4>2
    <3>4. QED
      BY <3>2, <3>3
  <2>3. DOMAIN h = S
    BY <1>2
  <2> HIDE DEF h
  <2>4. Mean(SumKnown(WinOf, S)) = MeanOf(h)
    BY <1>3, <2>1, <2>2, <2>3, MeanOfKnown
  <2>5. QED
    BY <1>1, <2>4 DEF h
<1>6. row.drawdown = MeanOf([r \in recs |-> WorstDrop(r)])
  <2> DEFINE h == [r \in recs |-> WorstDrop(r)]
  <2>1. \A r \in S : DropOf[r] \in Int \cup {Nil}
    BY <1>3, FigureValues
  <2>2. DOMAIN h = S /\ \A r \in S : h[r] = DropOf[r]
    BY <1>2, <1>3, DropIsWorst
  <2> HIDE DEF h
  <2>3. Mean(SumKnown(DropOf, S)) = MeanOf(h)
    BY <1>3, <2>1, <2>2, MeanOfKnown
  <2>4. QED
    BY <1>1, <2>3 DEF h
<1>7. QED
  BY <1>4, <1>5, <1>6 DEF OverKnown, recs

LEMMA FiguresAre == ASSUME FiguresInv PROVE FiguresTrue
<1>1. FigureTypes /\ \A i \in DOMAIN RowsShown : RowsShown[i] = TrueRow(Order[i]) /\ Order[i] \in Keys
  BY RowFacts, OrderFacts
<1>2. \A i \in DOMAIN RowsShown : OverKnown(RowsShown[i])
  BY <1>1, RowOverKnown
<1>3. \A r \in HasSnapshot : Columns(r).drawdown = WorstDrop(r)
  BY <1>1, DropIsWorst
<1>4. QED
  BY <1>2, <1>3 DEF FiguresTrue

(***************************************************************************)
(* For any recommendations, labels, closes and sizes of a page: who asks   *)
(* for the pages in turn until one is empty has seen every group once, the *)
(* largest first, and every recommendation in each group it belongs to.    *)
(***************************************************************************)
THEOREM ReportCovers == ReportSpec => []PagesCover
BY FiguresInvariance, PagesCovered, PTL

(***************************************************************************)
(* Whatever closes are known, a mean is over the recommendations for which *)
(* the figure is known, null when there is none, and a draw-down is the    *)
(* worst drop from a price to a later one.                                 *)
(***************************************************************************)
THEOREM ReportFigures == ReportSpec => []FiguresTrue
BY FiguresInvariance, FiguresAre, PTL
=============================================================================
