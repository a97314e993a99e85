------------------------- MODULE PerformanceReport -------------------------
(***************************************************************************)
(* GET /perf/aggregations: the returns on record, by strategy, stock or    *)
(* session tag, a page at a time, and the figures they are made of         *)
(* (perf/calculator.go).                                                   *)
(*                                                                         *)
(* Prices are whole numbers; returns are in units of 1/EntryPrice, draw-   *)
(* downs in units of 1/Unit, and a mean is its sum and its denominator, so *)
(* that sums are exact.                                                    *)
(***************************************************************************)
EXTENDS Integers, Lists

CONSTANTS
  Rec,        \* recommendations
  Label,      \* strategy codes, stock codes or tags: numbers, in their order
  EntryPrice, \* the entry price of every recommendation
  ClosePrice, \* closes
  Unit,       \* what a draw-down is counted in: fractions of the peak
  Size,       \* page sizes
  Farthest,   \* the number of horizons
  Nil         \* a close, a return or a figure that is not known

ASSUME ReportAssumption ==
  /\ IsFiniteSet(Rec) /\ IsFiniteSet(Label) /\ Label \subseteq Nat \ {0}
  /\ EntryPrice \in Nat \ {0} /\ ClosePrice \subseteq Nat /\ Unit \in Nat \ {0}
  /\ Size \subseteq Nat \ {0} /\ Farthest \in Nat \ {0}
  /\ Nil \notin Int

Ungrouped == 0

VARIABLES
  labels,   \* labels[r]: the values of what is grouped by, the empty ones left out
  closes,   \* closes[r]: the closes of the snapshot of r, <<>> when it has none
  size,     \* the page size a client asks for
  pages     \* the pages it was shown, none of them stale

figureVars == <<labels, closes, size, pages>>

(***************************************************************************)
(* A recommendation has one strategy and one stock, either of which may be *)
(* empty, or any number of tags.                                           *)
(***************************************************************************)
ReportInit ==
  /\ labels \in [Rec -> SUBSET Label]
  /\ closes = [r \in Rec |-> <<>>]
  /\ size \in Size
  /\ pages = <<>>

----------------------------------------------------------------------------
(* calculator.go *)

Known(c) == Sublist(c, {i \in DOMAIN c : c[i] # Nil})

TReturn(exit) == IF exit = Nil THEN Nil ELSE exit - EntryPrice

(* One step of the loop: the running peak and the worst drop from it. *)
Dip(acc, v) ==
  LET peak == Max({acc.peak, v})
  IN [peak |-> peak, worst |-> Max({acc.worst, ((peak - v) * Unit) \div peak})]

(* Mutant: the peak is not carried on. *)
MaxDrawdownFromEntry(path) ==
  IF Len(path) < 2 THEN Nil
  ELSE FoldLeft(LAMBDA acc, v : [Dip(acc, v) EXCEPT !.peak = EntryPrice],
                [peak |-> EntryPrice, worst |-> 0], path).worst

MaxDrawdown(path) ==
  IF Len(path) < 2 THEN Nil
  ELSE FoldLeft(Dip, [peak |-> path[1], worst |-> 0], path).worst

(* The columns the report reads of a snapshot. *)
Columns(r) ==
  [returns |-> [k \in 1..Farthest |-> TReturn(closes[r][k])],
   drawdown |-> MaxDrawdown(<<EntryPrice>> \o Known(closes[r]))]

----------------------------------------------------------------------------
(* aggregate *)

HasSnapshot == {r \in Rec : closes[r] # <<>>}

(* Mutant: one group for each recommendation. *)
OneGroupKey(r) == IF labels[r] = {} THEN {Ungrouped} ELSE {Min(labels[r])}

(* groupKeysFor *)
GroupKeys(r) == IF labels[r] = {} THEN {Ungrouped} ELSE labels[r]

Nothing == [sum |-> 0, n |-> 0]

EmptyAccum ==
  [count |-> 0, returns |-> [k \in 1..Farthest |-> Nothing], wins |-> Nothing, drawdown |-> Nothing]

(* Mutant: an unknown value counts as zero. *)
PlusZero(acc, x) == [sum |-> acc.sum + (IF x = Nil THEN 0 ELSE x), n |-> acc.n + 1]

(* A value that is known is added and counted. *)
Plus(acc, x) == IF x = Nil THEN acc ELSE [sum |-> acc.sum + x, n |-> acc.n + 1]

Win(x) == IF x = Nil THEN Nil ELSE IF x > 0 THEN 1 ELSE 0

(* groupAccum.add *)
Add(acc, r) ==
  LET c == Columns(r)
  IN [count    |-> acc.count + 1,
      returns  |-> [k \in 1..Farthest |-> Plus(acc.returns[k], c.returns[k])],
      wins     |-> Plus(acc.wins, Win(c.returns[Farthest])),
      drawdown |-> Plus(acc.drawdown, c.drawdown)]

(* The walk over the snapshots, for one group. *)
Accum(key) ==
  FoldLeft(Add, EmptyAccum, SetToSeq({r \in HasSnapshot : key \in GroupKeys(r)}))

Mean(acc) == IF acc.n > 0 THEN acc ELSE Nil

(* groupAccum.snapshot: a row of the answer. *)
RowOf(key) ==
  LET acc == Accum(key)
  IN [key      |-> key,
      count    |-> acc.count,
      returns  |-> [k \in 1..Farthest |-> Mean(acc.returns[k])],
      winRate  |-> Mean(acc.wins),
      drawdown |-> Mean(acc.drawdown)]

Keys == UNION {GroupKeys(r) : r \in HasSnapshot}

Count(key) == Accum(key).count

(* By count, the larger first, then by key. *)
Before(a, b) == Count(a) > Count(b) \/ (Count(a) = Count(b) /\ a < b)

SortedKeys ==
  CHOOSE s \in {q \in SetToSeqs(Keys) : \A i, j \in DOMAIN q : i < j => Before(q[i], q[j])} : TRUE

(* Mutant: the page number counts from zero. *)
PageAtZero(n) ==
  LET offset == Min({n * size, Len(SortedKeys)})
      end == Min({offset + size, Len(SortedKeys)})
  IN [i \in 1..(end - offset) |-> RowOf(SortedKeys[offset + i])]

(* The n-th page; one beyond the end is empty. *)
PageAt(n) ==
  LET offset == Min({(n - 1) * size, Len(SortedKeys)})
      end == Min({offset + size, Len(SortedKeys)})
  IN [i \in 1..(end - offset) |-> RowOf(SortedKeys[offset + i])]

AtEnd == pages # <<>> /\ pages[Len(pages)] = <<>>

(* Aggregations: the client asks for one page after the other. *)
NextPage ==
  /\ ~AtEnd
  /\ pages' = Append(pages, PageAt(Len(pages) + 1))
  /\ UNCHANGED <<labels, closes, size>>

(***************************************************************************)
(* A pass saves a snapshot, over the one there was if there was one.       *)
(* Bound: a client starts over when that happens between two pages.        *)
(***************************************************************************)
SaveSnapshot(r) ==
  /\ \E c \in [1..Farthest -> ClosePrice \cup {Nil}] : closes' = [closes EXCEPT ![r] = c]
  /\ pages' = <<>>
  /\ UNCHANGED <<labels, size>>

ReportNext == NextPage \/ \E r \in Rec : SaveSnapshot(r)

ReportSpec == ReportInit /\ [][ReportNext]_figureVars

----------------------------------------------------------------------------
(* Properties *)

RowsShown == FlattenSeq(pages)

(* The mean of f over what it is known for. *)
MeanOf(f) ==
  LET known == {r \in DOMAIN f : f[r] # Nil}
  IN IF known = {} THEN Nil ELSE [sum |-> SumFunctionOnSet(f, known), n |-> Cardinality(known)]

(***************************************************************************)
(* The pages up to the first empty one show every group that has a         *)
(* snapshot exactly once, the largest first; a recommendation with two     *)
(* tags is in two groups and one with none in UNGROUPED.                   *)
(***************************************************************************)
PagesCover ==
  AtEnd =>
    /\ \A r \in HasSnapshot : \A l \in labels[r] : \E i \in DOMAIN RowsShown : RowsShown[i].key = l
    /\ \A i, j \in DOMAIN RowsShown : i < j => /\ RowsShown[i].key # RowsShown[j].key
                                               /\ RowsShown[i].count >= RowsShown[j].count
    /\ SumFunction([i \in DOMAIN RowsShown |-> RowsShown[i].count]) =
         SumFunction([r \in HasSnapshot |-> Max({1, Cardinality(labels[r])})])

(* The worst drop from a price to a later one, entry and known closes taken together. *)
WorstDrop(r) ==
  LET path == <<EntryPrice>> \o Known(closes[r])
      Drop(i, j) == ((path[i] - path[j]) * Unit) \div path[i]
  IN IF Len(path) < 2 THEN Nil
     ELSE Max(UNION {{Drop(i, j) : j \in i..Len(path)} : i \in {k \in DOMAIN path : path[k] > 0}})

(* Every figure of a row is over the recommendations for which it is known. *)
OverKnown(row) ==
  LET recs == {r \in HasSnapshot : row.key \in labels[r] \/ (row.key = Ungrouped /\ labels[r] = {})}
      Return(k, r) == IF closes[r][k] = Nil THEN Nil ELSE closes[r][k] - EntryPrice
      Won(r) == IF closes[r][Farthest] = Nil THEN Nil
                ELSE IF closes[r][Farthest] > EntryPrice THEN 1 ELSE 0
  IN /\ \A k \in 1..Farthest : row.returns[k] = MeanOf([r \in recs |-> Return(k, r)])
     /\ row.winRate = MeanOf([r \in recs |-> Won(r)])
     /\ row.drawdown = MeanOf([r \in recs |-> WorstDrop(r)])

(***************************************************************************)
(* "null when no rec in the group has a known T+5 return, NOT 0.0": a      *)
(* figure is over the recommendations of the group for which it is known,  *)
(* null exactly when there is none; and a snapshot's draw-down is the      *)
(* worst one, however the prices moved.                                    *)
(***************************************************************************)
FiguresTrue ==
  /\ \A i \in DOMAIN RowsShown : OverKnown(RowsShown[i])
  /\ \A r \in HasSnapshot : Columns(r).drawdown = WorstDrop(r)
=============================================================================
