---------------------------- MODULE Performance ----------------------------
(***************************************************************************)
(* perf.Service: Backfill (at the start of the server and by cron) and     *)
(* Calculate (by hand) write one snapshot per recommendation, with the     *)
(* closes of the trading days T+n after it, read through GetKLine while    *)
(* running strategies read the same candles.                               *)
(***************************************************************************)
EXTENDS CandleCache, TradingCalendar, Sequences

CONSTANTS
  MaxRec,     \* recommendations are 1..MaxRec, in the order of their ids
  Job,        \* passes over recommendations
  Horizon,    \* the n of T+n, ascending
  Lookback,   \* days
  Tables,     \* what the calendar's table may have rows for: sets of days
  Fails       \* whether sources, database and contexts may fail

ASSUME PerformanceAssumption ==
  MaxRec \in Nat /\ Horizon \in Seq(Nat \ {0}) /\ Horizon # <<>> /\ Lookback \in Nat \ {0}
  /\ Fails \in BOOLEAN

Rec == 1..MaxRec
NoDay == -1
NoSnap == <<>>

VARIABLES
  date,     \* date[r]: the day of r, NoDay before it is made
  priced,   \* priced[r]: r has an entry price
  snap,     \* snap[r]: the closes of the snapshot of r, by horizon
  at,       \* at[j]: "idle", "walking", "fetching"
  kind,     \* kind[j]: "backfill" or "calculate"
  had,      \* had[j]: what had a snapshot when j began
  listed,   \* listed[j]: what the pass set out to compute
  todo,     \* todo[j]: what is left of it
  due,      \* due[j]: the T+n days of the recommendation under way
  got,      \* got[j]: their closes
  errs,     \* errs[j]: recommendations counted as errors
  swept     \* a backfill has ended in this half-day

perfVars == <<halfDay, traded, dayCache, open, tabled, missed, date, priced, snap, at, kind, had,
              listed, todo, due, got, errs, swept>>

world == <<halfDay, traded, open, tabled, date, priced>>
pass == <<at, kind, had, listed, todo, due, got, errs>>

PerfInit ==
  /\ CacheInit
  /\ CalendarInit(Day, Tables)
  /\ traded \subseteq open
  /\ 0 \in traded   \* bound: the first day is an ordinary one
  /\ date = [r \in Rec |-> NoDay]
  /\ priced = [r \in Rec |-> TRUE]
  /\ snap = [r \in Rec |-> NoSnap]
  /\ at = [j \in Job |-> "idle"]
  /\ kind = [j \in Job |-> "backfill"]
  /\ had = [j \in Job |-> {}]
  /\ listed = [j \in Job |-> {}]
  /\ todo = [j \in Job |-> {}]
  /\ due = [j \in Job |-> <<>>]
  /\ got = [j \in Job |-> <<>>]
  /\ errs = [j \in Job |-> {}]
  /\ swept = FALSE

MoveTo(j, there) == at' = [at EXCEPT ![j] = there]

Quiet == \A j \in Job : at[j] = "idle"

----------------------------------------------------------------------------
(* Outside: the clock, strategies that persist and read *)

(* A pass takes minutes.  Keys that have expired are dropped. *)
Elapse ==
  /\ halfDay < 2 * MaxDay + 1
  /\ Quiet
  /\ halfDay' = halfDay + 1
  /\ dayCache' = [d \in Day |-> IF dayCache[d].till < halfDay' THEN NoEntry ELSE dayCache[d]]
  /\ swept' = FALSE
  /\ UNCHANGED <<traded, calendarVars, date, priced, snap, pass>>

Persist(r) ==
  /\ date[r] = NoDay
  /\ \A q \in Rec : q < r => date[q] # NoDay
  /\ date' = [date EXCEPT ![r] = Today]
  /\ \E ok \in BOOLEAN : priced' = [priced EXCEPT ![r] = ok]
  /\ UNCHANGED <<halfDay, traded, dayCache, calendarVars, snap, pass, swept>>

Read(lo) ==
  /\ ReadRange(lo)
  /\ UNCHANGED <<calendarVars, date, priced, snap, pass, swept>>

----------------------------------------------------------------------------
(* A pass *)

Made == {r \in Rec : date[r] # NoDay}

(* "date >= now - lookback", where a date is its midnight. *)
InWindow == {r \in Made : Today - date[r] < Lookback}

Walk(j, how, recs) ==
  /\ at[j] = "idle"
  /\ MoveTo(j, "walking")
  /\ kind' = [kind EXCEPT ![j] = how]
  /\ had' = [had EXCEPT ![j] = {r \in Rec : snap[r] # NoSnap}]
  /\ listed' = [listed EXCEPT ![j] = recs]
  /\ todo' = [todo EXCEPT ![j] = recs]
  /\ UNCHANGED <<world, missed, dayCache, snap, due, got, errs, swept>>

(* Mutant: the query for what is already covered is left out. *)
BackfillAll(j) == Walk(j, "backfill", InWindow)

(* Recommendations that have a snapshot are skipped. *)
Backfill(j) == Walk(j, "backfill", {r \in InWindow : snap[r] = NoSnap})

(* POST /perf/calculate: one recommendation, or those of some days. *)
Calculate(j) ==
  \/ \E r \in Made : Walk(j, "calculate", {r})
  \/ \E from, to \in Day :
       from <= to /\ Walk(j, "calculate", {r \in Made : date[r] \in from..to})

(* Date order, then id order; dates grow with ids here. *)
Current(j) == Min(todo[j])

(* The T+n day of r by the table and the rule; NoDay beyond the bound. *)
TradingDay(r, n) == TradingDayAfter(date[r], n)

(* The days looked at to find it: those after r, up to the farthest found. *)
Scanned(r, far) == {d \in Day : d > date[r] /\ (far # NoDay => d <= far)}

(***************************************************************************)
(* ComputeOne: without an entry price it is an error.  With one, the T+n   *)
(* days are scanned for, each from where the one before was found.         *)
(***************************************************************************)
Compute(j) ==
  /\ at[j] = "walking"
  /\ todo[j] # {}
  /\ priced[Current(j)]
  /\ LET r == Current(j)
         days == [k \in DOMAIN Horizon |-> After(date[r], Horizon[k], MaxDay)]
     IN due' = [due EXCEPT ![j] = days] /\ Lookup(Scanned(r, days[Len(days)]))
  /\ MoveTo(j, "fetching")
  /\ UNCHANGED <<world, dayCache, snap, kind, had, listed, todo, got, errs, swept>>

(* The walk goes on after Current(j). *)
Advance(j) ==
  /\ todo' = [todo EXCEPT ![j] = @ \ {Current(j)}]
  /\ due' = [due EXCEPT ![j] = <<>>]
  /\ got' = [got EXCEPT ![j] = <<>>]
  /\ MoveTo(j, "walking")

(* Mutant: an error ends the loop. *)
RefuseRest(j) ==
  /\ at[j] = "walking"
  /\ todo[j] # {}
  /\ ~priced[Current(j)]
  /\ errs' = [errs EXCEPT ![j] = @ \cup {Current(j)}]
  /\ todo' = [todo EXCEPT ![j] = {}]
  /\ UNCHANGED <<world, missed, dayCache, snap, at, kind, had, listed, due, got, swept>>

Refuse(j) ==
  /\ at[j] = "walking"
  /\ todo[j] # {}
  /\ ~priced[Current(j)]
  /\ errs' = [errs EXCEPT ![j] = @ \cup {Current(j)}]
  /\ Advance(j)
  /\ UNCHANGED <<world, missed, dayCache, snap, kind, had, listed, swept>>

(* Mutant: the first candle that came back is taken. *)
CloseFirst(candles, d) ==
  IF candles = {} THEN NoCandle
  ELSE CHOOSE c \in candles : \A o \in candles : c.day <= o.day

(* fetchClose takes the candle of the day it asked for. *)
CloseOf(candles, d) ==
  IF \E c \in candles : c.day = d THEN CHOOSE c \in candles : c.day = d ELSE NoCandle

(* GetKLine for day d alone: from the cache, from a source, or not at all. *)
Fetch(j) ==
  /\ at[j] = "fetching"
  /\ Len(got[j]) < Len(Horizon)
  /\ LET d == due[j][Len(got[j]) + 1]
         Take(candles) == got' = [got EXCEPT ![j] = Append(@, CloseOf(candles, d))]
         Nothing == (d = NoDay \/ Fails \/ Fetches({d}, FALSE) = {})
     IN \/ d # NoDay /\ MayHit(d) /\ Take({dayCache[d].candle} \ {NoCandle}) /\ UNCHANGED dayCache
        \/ /\ d # NoDay /\ MayMiss(d)
           /\ \E candles \in Fetches({d}, FALSE) :
                Take(candles) /\ dayCache' = Stored({d}, candles)
        \/ Nothing /\ (d # NoDay => MayMiss(d)) /\ Take({}) /\ UNCHANGED dayCache
  /\ UNCHANGED <<world, missed, snap, at, kind, had, listed, todo, due, errs, swept>>

(***************************************************************************)
(* Save overwrites every close of the row it finds, unknown ones included. *)
(***************************************************************************)
Save(j) ==
  /\ at[j] = "fetching"
  /\ Len(got[j]) = Len(Horizon)
  /\ snap' = [snap EXCEPT ![Current(j)] = got[j]]
  /\ Advance(j)
  /\ UNCHANGED <<world, missed, dayCache, kind, had, listed, errs, swept>>

SaveFails(j) ==
  /\ Fails
  /\ at[j] = "fetching"
  /\ Len(got[j]) = Len(Horizon)
  /\ errs' = [errs EXCEPT ![j] = @ \cup {Current(j)}]
  /\ Advance(j)
  /\ UNCHANGED <<world, missed, dayCache, snap, kind, had, listed, swept>>

(* The pass is over and its counts are reported. *)
Forget(j) ==
  /\ MoveTo(j, "idle")
  /\ kind' = [kind EXCEPT ![j] = "backfill"]
  /\ had' = [had EXCEPT ![j] = {}]
  /\ listed' = [listed EXCEPT ![j] = {}]
  /\ todo' = [todo EXCEPT ![j] = {}]
  /\ due' = [due EXCEPT ![j] = <<>>]
  /\ got' = [got EXCEPT ![j] = <<>>]
  /\ errs' = [errs EXCEPT ![j] = {}]

Finish(j) ==
  /\ at[j] = "walking"
  /\ todo[j] = {}
  /\ Forget(j)
  /\ swept' = (swept \/ kind[j] = "backfill")
  /\ UNCHANGED <<world, missed, dayCache, snap>>

(* The context of the pass ends. *)
Cut(j) ==
  /\ Fails
  /\ at[j] # "idle"
  /\ Forget(j)
  /\ UNCHANGED <<world, missed, dayCache, snap, swept>>

PerfNext ==
  \/ Elapse
  \/ \E r \in Rec : Persist(r)
  \/ \E lo \in Day : Read(lo)
  \/ \E j \in Job :
       \/ Backfill(j) \/ Calculate(j)
       \/ Compute(j) \/ Refuse(j) \/ Fetch(j) \/ Save(j) \/ SaveFails(j)
       \/ Finish(j) \/ Cut(j)

PerfSpec == PerfInit /\ [][PerfNext]_perfVars

----------------------------------------------------------------------------
(* Properties *)

PerfTypeOK ==
  /\ halfDay \in 0..(2 * MaxDay + 1)
  /\ traded \subseteq open /\ open \subseteq Day
  /\ tabled \in Tables /\ missed \subseteq Day \ tabled
  /\ dayCache \in [Day -> [candle : Candles, till : Int]]
  /\ date \in [Rec -> Day \cup {NoDay}]
  /\ priced \in [Rec -> BOOLEAN]
  /\ snap \in [Rec -> Seq(Candles)]
  /\ at \in [Job -> {"idle", "walking", "fetching"}]
  /\ kind \in [Job -> {"backfill", "calculate"}]
  /\ had \in [Job -> SUBSET Rec]
  /\ listed \in [Job -> SUBSET Rec]
  /\ todo \in [Job -> SUBSET Rec]
  /\ errs \in [Job -> SUBSET Rec]
  /\ due \in [Job -> {<<>>} \cup [DOMAIN Horizon -> Day \cup {NoDay}]]
  /\ got \in [Job -> Seq(Candles)]
  /\ swept \in BOOLEAN

(***************************************************************************)
(* A close on record is that of the trading day it is recorded for, also   *)
(* when the stock did not trade that day, a holiday lies in between, or    *)
(* the sources sent the candle of another day along: as long as the table  *)
(* of the calendar has a row for every day.                                *)
(***************************************************************************)
ClosesOwnDay ==
  tabled = Day => \A r \in Rec : \A k \in DOMAIN snap[r] : snap[r][k] # NoCandle =>
    snap[r][k].day = TradingDay(r, Horizon[k]) /\ snap[r][k].day \in traded

(***************************************************************************)
(* "when the table is empty for a given date we fall back to the weekend   *)
(* rule" (trading_day.go): the T+n days looked for are those of the table  *)
(* and the rule, however often a day has been asked about before.          *)
(***************************************************************************)
FallsBackToRule ==
  \A j \in Job : \A k \in DOMAIN due[j] : due[j][k] = TradingDay(Current(j), Horizon[k])

(***************************************************************************)
(* "Per-rec compute errors are counted but don't abort the loop": when a   *)
(* pass has come to its end, every recommendation it set out with has a    *)
(* snapshot or is among the errors.                                        *)
(***************************************************************************)
PassCovers ==
  [][\A j \in Job : Finish(j) => \A r \in listed[j] : snap[r] # NoSnap \/ r \in errs[j]]_perfVars

(***************************************************************************)
(* "Idempotent: re-runs skip recs that already have a snapshot": a         *)
(* backfill changes no snapshot that was there when it began.              *)
(***************************************************************************)
BackfillAddsOnly ==
  [][\A r \in Rec : snap[r] # NoSnap /\ snap'[r] # snap[r] =>
       \E j \in Job : /\ at[j] = "fetching" /\ Current(j) = r
                      /\ kind[j] = "calculate" \/ r \notin had[j]]_perfVars

(***************************************************************************)
(* "The end-of-day schedule that walks every recommendation and            *)
(* (re-)computes its snapshot" (config.go): when a backfill after the      *)
(* close has ended and nothing has ever failed, the close of every T+n day *)
(* that is over is on record for every recommendation in the window.       *)
(***************************************************************************)
CloseRecorded ==
  swept /\ halfDay % 2 = 1 =>
    \A r \in InWindow : priced[r] => \A k \in DOMAIN Horizon :
      LET d == TradingDay(r, Horizon[k])
      IN d \in traded /\ d <= Today => snap[r] # NoSnap /\ snap[r][k] # NoCandle
=============================================================================
