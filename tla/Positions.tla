------------------------------ MODULE Positions ------------------------------
(***************************************************************************)
(* The ledger of holdings (position.Service): requests that open, edit,    *)
(* close and list positions, in any interleaving.  An edit reads the row   *)
(* without locking it and saves all of its columns; a list reads the open  *)
(* rows and then asks for their quotes one by one.                         *)
(***************************************************************************)
EXTENDS Integers, FiniteSets, SequencesExt, FiniteSetsExt

CONSTANTS
  Request,     \* calls of the service
  Cost,        \* cost prices, 0 and less included
  Quantity,    \* quantities, 0 and less included
  Price,       \* prices a quote may have, 0 included
  MaxPosition  \* bound: positions ever opened

ASSUME PositionsAssumption == Cost \subseteq Int /\ Quantity \subseteq Int /\ MaxPosition \in Nat

Unpriced == -1  \* CurrentPrice nil; no quote has it
Leave    == 0   \* a nil field of UpdateInput

VARIABLES
  book,       \* the rows opened so far: [cost, qty, closed], by id
  pc,         \* pc[q]: where request q is
  use,        \* use[q]: the row q is editing, [id, row]
  rows,       \* rows[q]: what q's list has read, ids and rows
  views,      \* views[q]: the prices q has found, one per row so far
  answer,     \* answer[q]: the summary q was given
  overtaken   \* edits whose row was closed between their read and their save

bookVars == <<book, pc, use, rows, views, answer, overtaken>>

Row     == [cost : Int, qty : Int, closed : BOOLEAN]
NoRow   == [id |-> 0, row |-> [cost |-> 0, qty |-> 0, closed |-> FALSE]]
NoSum   == [count |-> 0, cost |-> 0, market |-> 0, pnl |-> 0, priced |-> 0]
Writing == {q \in Request : pc[q] = "saving"}

Goto(q, there) == pc' = [pc EXCEPT ![q] = there]

BookInit ==
  /\ book = <<>>
  /\ pc = [q \in Request |-> "new"]
  /\ use = [q \in Request |-> NoRow]
  /\ rows = [q \in Request |-> <<>>]
  /\ views = [q \in Request |-> <<>>]
  /\ answer = [q \in Request |-> NoSum]
  /\ overtaken = {}

Open == {i \in DOMAIN book : ~book[i].closed}

Create(q) ==
  /\ pc[q] = "new"
  /\ Len(book) < MaxPosition
  /\ \E c \in Cost, n \in Quantity :
       /\ c > 0 /\ n > 0
       /\ book' = Append(book, [cost |-> c, qty |-> n, closed |-> FALSE])
  /\ Goto(q, "done")
  /\ UNCHANGED <<use, rows, views, answer, overtaken>>

(* Mutant: closed rows are found too. *)
UpdateUnscoped(q) ==
  /\ pc[q] = "new"
  /\ \E i \in DOMAIN book, c \in Cost \cup {Leave}, n \in Quantity \cup {Leave} :
       /\ c >= 0 /\ n >= 0
       /\ use' = [use EXCEPT ![q] =
            [id |-> i, row |-> [cost   |-> IF c = Leave THEN book[i].cost ELSE c,
                                qty    |-> IF n = Leave THEN book[i].qty ELSE n,
                                closed |-> FALSE]]]
  /\ Goto(q, "saving")
  /\ UNCHANGED <<book, rows, views, answer, overtaken>>

(* Update, up to Save: First finds open rows only. *)
Update(q) ==
  /\ pc[q] = "new"
  /\ \E i \in Open, c \in Cost \cup {Leave}, n \in Quantity \cup {Leave} :
       /\ c >= 0 /\ n >= 0
       /\ use' = [use EXCEPT ![q] =
            [id |-> i, row |-> [cost   |-> IF c = Leave THEN book[i].cost ELSE c,
                                qty    |-> IF n = Leave THEN book[i].qty ELSE n,
                                closed |-> FALSE]]]
  /\ Goto(q, "saving")
  /\ UNCHANGED <<book, rows, views, answer, overtaken>>

(***************************************************************************)
(* Save writes every column.  When the row was closed meanwhile the UPDATE *)
(* finds none and gorm falls back to an upsert, which opens it again.      *)
(***************************************************************************)
Save(q) ==
  /\ pc[q] = "saving"
  /\ book' = [book EXCEPT ![use[q].id] = use[q].row]
  /\ Goto(q, "done")
  /\ UNCHANGED <<use, rows, views, answer, overtaken>>

Close(q) ==
  /\ pc[q] = "new"
  /\ \E i \in Open :
       /\ book' = [book EXCEPT ![i].closed = TRUE]
       /\ overtaken' = overtaken \cup {e \in Writing : use[e].id = i}
  /\ Goto(q, "done")
  /\ UNCHANGED <<use, rows, views, answer>>

(* List reads the open rows, newest first. *)
List(q) ==
  /\ pc[q] = "new"
  /\ rows' = [rows EXCEPT ![q] =
       [k \in 1..Cardinality(Open) |->
          book[CHOOSE i \in Open : Cardinality({j \in Open : j > i}) = k - 1]]]
  /\ Goto(q, "pricing")
  /\ UNCHANGED <<book, use, views, answer, overtaken>>

(* GetQuote for the next row; no quote, or none above 0, leaves it unpriced. *)
Quote(q) ==
  /\ pc[q] = "pricing"
  /\ Len(views[q]) < Len(rows[q])
  /\ \E p \in {x \in Price : x > 0} \cup {Unpriced} :
       views' = [views EXCEPT ![q] = Append(@, p)]
  /\ UNCHANGED <<book, pc, use, rows, answer, overtaken>>

Total(f(_), S) == MapThenSumSet(f, S)

Priced(q) == {i \in DOMAIN views[q] : views[q][i] # Unpriced}

(* Summarize with costOfPriced; the totals are nil if nothing is priced. *)
Summarize(q) ==
  LET cost(i) == rows[q][i].cost * rows[q][i].qty
      mv(i)   == views[q][i] * rows[q][i].qty
  IN [count  |-> Len(rows[q]),
      cost   |-> Total(cost, DOMAIN rows[q]),
      market |-> Total(mv, Priced(q)),
      pnl    |-> Total(mv, Priced(q)) - Total(cost, Priced(q)),
      priced |-> Cardinality(Priced(q))]

Respond(q) ==
  /\ pc[q] = "pricing"
  /\ Len(views[q]) = Len(rows[q])
  /\ answer' = [answer EXCEPT ![q] = Summarize(q)]
  /\ Goto(q, "done")
  /\ UNCHANGED <<book, use, rows, views, overtaken>>

BookNext == \E q \in Request :
  Create(q) \/ Update(q) \/ Save(q) \/ Close(q) \/ List(q) \/ Quote(q) \/ Respond(q)

BookSpec == BookInit /\ [][BookNext]_bookVars

----------------------------------------------------------------------------
(* Properties *)

BookTypeOK ==
  /\ book \in Seq(Row) /\ Len(book) <= MaxPosition
  /\ pc \in [Request -> {"new", "saving", "pricing", "done"}]
  /\ \A q \in Request : use[q].id \in 0..Len(book) /\ rows[q] \in Seq(Row)
  /\ overtaken \subseteq Request

(***************************************************************************)
(* "Closing a position soft-deletes it" (model/position.go), and an edit   *)
(* is of its own position: no save touches another row than its edit read, *)
(* and the only save that opens a closed row is one of an edit that had    *)
(* read this row before it was closed.                                     *)
(***************************************************************************)
EditsOwnPosition ==
  [][\A i \in DOMAIN book :
       book'[i] # book[i] =>
         \/ book'[i] = [book[i] EXCEPT !.closed = TRUE]
         \/ \E q \in Writing : pc'[q] # pc[q] /\ use[q].id = i
                               /\ (book[i].closed => q \in overtaken)]_bookVars
=============================================================================
