-------------------------- MODULE TradingCalendar --------------------------
(***************************************************************************)
(* calendar.Service: which days are trading days, by a table of holidays   *)
(* and a rule for the days the table has no row for.                       *)
(*                                                                         *)
(* lookup keeps what it has read.  For a day without a row it keeps        *)
(* [ok |-> FALSE], answers "no row" that once, and from the next time on   *)
(* hands the kept entry out as if it were a row that says "closed".        *)
(* Reads of the table do not fail here.                                    *)
(***************************************************************************)
EXTENDS Integers, FiniteSets, FiniteSetsExt

VARIABLES
  open,    \* the trading days: by their row, or else the weekdays
  tabled,  \* the days that have a row in trading_calendar
  missed   \* the cache: days found to have no row

calendarVars == <<open, tabled, missed>>

(* NewService: nothing is cached yet. *)
CalendarInit(Day, Tables) ==
  /\ open \in SUBSET Day
  /\ tabled \in Tables
  /\ missed = {}

(* What the first question about a day is answered, and every later one. *)
IsTradingDay(d) == d \in open /\ d \notin missed

(* lookup, for every day asked about. *)
Lookup(days) == missed' = missed \cup (days \ tabled)

(* The n-th of days, -1 if there are not so many. *)
Nth(days, n) ==
  LET nth == {d \in days : Cardinality({e \in days : e <= d}) = n}
  IN IF nth = {} THEN -1 ELSE Min(nth)

(* NextTradingDay n times over, from a day on; the days run to last. *)
After(from, n, last) == Nth({d \in (from + 1)..last : IsTradingDay(d)}, n)

(* The same, by the table and the rule alone. *)
TradingDayAfter(from, n) == Nth({d \in open : d > from}, n)
=============================================================================
