------------------------- MODULE PerformanceProofs -------------------------
(***************************************************************************)
(* Theorems about Performance, for any recommendations, overlapping        *)
(* passes, horizons, holidays, halts and failures, and any number of days. *)
(***************************************************************************)
EXTENDS Performance, WellFoundedInduction, TLAPS

(* c is the candle of day d, if it is one at all. *)
Fits(c, d) == c # NoCandle => c.day = d /\ d \in traded

(* What a pass has found so far is of the days it looks for. *)
FetchInv(j) ==
  /\ todo[j] # {}
  /\ due[j] \in [DOMAIN Horizon -> Day \cup {NoDay}]
  /\ Len(got[j]) <= Len(Horizon)
  /\ tabled = Day => \A k \in DOMAIN Horizon : due[j][k] = TradingDay(Current(j), Horizon[k])
  /\ \A k \in 1..Len(got[j]) : Fits(got[j][k], due[j][k])

(* What a pass has left, and what became of the rest. *)
JobInv(j) ==
  /\ todo[j] \subseteq listed[j]
  /\ \A r \in listed[j] : date[r] # NoDay
  /\ kind[j] = "backfill" => todo[j] \cap had[j] = {}
  /\ \A r \in listed[j] \ todo[j] : snap[r] # NoSnap \/ r \in errs[j]
  /\ IF at[j] = "fetching" THEN FetchInv(j) ELSE got[j] = <<>>

SnapInv(r) ==
  /\ snap[r] # NoSnap => date[r] # NoDay
  /\ tabled = Day => \A k \in DOMAIN snap[r] : Fits(snap[r][k], TradingDay(r, Horizon[k]))

PerfInv ==
  /\ PerfTypeOK
  /\ \A d \in Day : Fits(dayCache[d].candle, d)
  /\ \A j \in Job : JobInv(j)
  /\ \A r \in Rec : SnapInv(r)

----------------------------------------------------------------------------
(* The operators the steps are built from *)

LEMMA LeastOf ==
  ASSUME NEW S \in SUBSET Nat, S # {}
  PROVE  Min(S) \in S
<1> DEFINE Less == {p \in Nat \X Nat : p[1] < p[2]}
<1>1. PICK x \in S : \A y \in S : ~(<<y, x>> \in Less)
  <2>1. IsWellFoundedOn(Less, Nat)
    BY NatLessThanWellFounded DEF OpToRel
  <2> HIDE DEF Less
  <2>2. QED
    BY <2>1, WFMin
<1>2. ASSUME NEW y \in S PROVE x <= y
  <2>1. x \in Nat /\ y \in Nat
    OBVIOUS
  <2>2. ~(y < x)
    BY <1>1, <2>1
  <2>3. QED
    BY <2>1, <2>2
<1>3. QED
  BY <1>2 DEF Min

LEMMA CurrentLeft ==
  ASSUME NEW j \in Job, todo[j] \in SUBSET Rec, todo[j] # {}
  PROVE  Current(j) \in todo[j] /\ Current(j) \in Rec
<1>1. todo[j] \in SUBSET Nat
  BY DEF Rec
<1>2. QED
  BY <1>1, LeastOf DEF Current

LEMMA NthDay ==
  ASSUME NEW days \in SUBSET Day, NEW n
  PROVE  Nth(days, n) \in Day \cup {NoDay}
<1> DEFINE nth == {d \in days : Cardinality({e \in days : e <= d}) = n}
<1>1. nth \subseteq days
  OBVIOUS
<1>2. Day \subseteq Nat
  BY MaxDayAssumption DEF Day
<1>3. nth \in SUBSET Nat /\ nth \subseteq Day
  <2> HIDE DEF nth
  <2> QED
    BY <1>1, <1>2
<1>4. CASE nth = {}
  BY <1>4 DEF Nth, NoDay
<1>5. CASE nth # {}
  BY <1>3, <1>5, LeastOf DEF Nth
<1>6. QED
  BY <1>4, <1>5

(* With a row for every day the days looked for are those of the table. *)
LEMMA AfterIsTradingDay ==
  ASSUME PerfInv, NEW r \in Rec, date[r] # NoDay, NEW n
  PROVE  /\ After(date[r], n, MaxDay) \in Day \cup {NoDay}
         /\ tabled = Day => After(date[r], n, MaxDay) = TradingDay(r, n)
<1>1. date[r] \in 0..MaxDay /\ MaxDay \in Nat /\ open \subseteq 0..MaxDay
  BY MaxDayAssumption DEF PerfInv, PerfTypeOK, Day
<1> DEFINE days == {d \in (date[r] + 1)..MaxDay : IsTradingDay(d)}
<1>2. days \in SUBSET Day
  BY <1>1 DEF Day
<1>3. After(date[r], n, MaxDay) = Nth(days, n)
  BY DEF After
<1>4. ASSUME tabled = Day PROVE days = {d \in open : d > date[r]}
  <2>1. missed = {}
    BY <1>4 DEF PerfInv, PerfTypeOK
  <2>2. \A d : IsTradingDay(d) <=> d \in open
    BY <2>1 DEF IsTradingDay
  <2>3. \A d \in Int : d \in (date[r] + 1)..MaxDay <=> d > date[r] /\ d <= MaxDay
    BY <1>1
  <2>4. \A d \in open : d \in Int /\ d <= MaxDay
    BY <1>1
  <2>5. ASSUME NEW d PROVE d \in days <=> d \in open /\ d > date[r]
    BY <2>2, <2>3, <2>4
  <2> HIDE DEF days
  <2>6. QED
    BY <2>5
<1> HIDE DEF days
<1>5. QED
  BY <1>2, <1>3, <1>4, NthDay DEF TradingDay, TradingDayAfter, PerfInv

LEMMA CandleFits ==
  ASSUME PerfInv, NEW d
  PROVE  /\ Fits(Candle(d), d) /\ Candle(d) \in Candles
         /\ Candle(d) # NoCandle => Candle(d).day = d /\ d \in Day
<1>1. CASE d \in traded /\ d <= Today
  <2>1. Candle(d) = [day |-> d, final |-> halfDay > 2 * d]
    BY <1>1 DEF Candle
  <2>2. d \in Day /\ (halfDay > 2 * d) \in BOOLEAN
    BY <1>1 DEF PerfInv, PerfTypeOK
  <2>3. QED
    BY <1>1, <2>1, <2>2 DEF Fits, Candles
<1>2. CASE ~(d \in traded /\ d <= Today)
  BY <1>2 DEF Candle, Fits, Candles
<1>3. QED
  BY <1>1, <1>2

(* Whatever comes back is the candle of its own day. *)
LEMMA FetchedFits ==
  ASSUME PerfInv, NEW missing, NEW partial,
         NEW candles \in Fetches(missing, partial), NEW c \in candles
  PROVE  c \in Candles /\ c # NoCandle /\ Fits(c, c.day)
<1>1. PICK days : c \in Known(days)
  BY DEF Fetches
<1>2. PICK d \in days : c = Candle(d) /\ c # NoCandle
  BY <1>1 DEF Known
<1>3. QED
  BY <1>2, CandleFits

LEMMA StoredFits ==
  ASSUME PerfInv, NEW missing, NEW candles
  PROVE  /\ Stored(missing, candles) \in [Day -> [candle : Candles, till : Int]]
         /\ \A d \in Day : Fits(Stored(missing, candles)[d].candle, d)
<1>1. ASSUME NEW d \in Day
      PROVE  /\ Stored(missing, candles)[d] \in [candle : Candles, till : Int]
             /\ Fits(Stored(missing, candles)[d].candle, d)
  <2>1. halfDay + TTL \in Int /\ NoCandle \in Candles /\ Fits(NoCandle, d)
    BY DEF PerfInv, PerfTypeOK, TTL, Candles, Fits
  <2>2. dayCache[d] \in [candle : Candles, till : Int] /\ Fits(dayCache[d].candle, d)
    BY DEF PerfInv, PerfTypeOK
  <2>3. Candle(d) \in Candles /\ Fits(Candle(d), d)
    BY CandleFits
  <2>4. QED
    BY <2>1, <2>2, <2>3 DEF Stored
<1>2. QED
  BY <1>1 DEF Stored

----------------------------------------------------------------------------
(* What a step does not disturb *)

(* Recommendations stay what they were, days too, and snapshots do not vanish. *)
Steady ==
  /\ UNCHANGED <<traded, open, tabled>>
  /\ \A r \in Rec : date[r] # NoDay => date'[r] = date[r]
  /\ \A r \in Rec : snap[r] # NoSnap => snap'[r] # NoSnap

LEMMA JobKept ==
  ASSUME PerfInv, Steady, NEW j \in Job,
         at'[j] = at[j], kind'[j] = kind[j], had'[j] = had[j], listed'[j] = listed[j],
         todo'[j] = todo[j], due'[j] = due[j], got'[j] = got[j], errs'[j] = errs[j]
  PROVE  JobInv(j)'
<1>1. JobInv(j) /\ listed[j] \in SUBSET Rec /\ todo[j] \in SUBSET Rec
  BY DEF PerfInv, PerfTypeOK
<1>2. /\ \A r \in listed[j] : date'[r] # NoDay
      /\ \A r \in listed[j] \ todo[j] : snap'[r] # NoSnap \/ r \in errs[j]
  BY <1>1 DEF JobInv, Steady
<1>3. ASSUME at[j] = "fetching" PROVE FetchInv(j)'
  <2>1. FetchInv(j)
    BY <1>1, <1>3 DEF JobInv
  <2>2. Current(j)' = Current(j) /\ Current(j) \in todo[j]
    BY <1>1, <2>1, CurrentLeft DEF Current, FetchInv
  <2>3. date'[Current(j)] = date[Current(j)]
    BY <1>1, <2>2 DEF Steady, JobInv
  <2>4. \A n : TradingDay(Current(j), n)' = TradingDay(Current(j), n)
    BY <2>2, <2>3 DEF TradingDay, TradingDayAfter, Steady
  <2>5. \A c, d : Fits(c, d)' = Fits(c, d)
    BY DEF Fits, Steady
  <2>6. QED
    BY <2>1, <2>4, <2>5 DEF FetchInv, Steady
<1>4. QED
  BY <1>1, <1>2, <1>3 DEF JobInv

LEMMA SnapKept ==
  ASSUME PerfInv, Steady, NEW r \in Rec, snap'[r] = snap[r]
  PROVE  SnapInv(r)'
<1>1. SnapInv(r)
  BY DEF PerfInv
<1>2. CASE snap[r] = NoSnap
  BY <1>2 DEF SnapInv, NoSnap
<1>3. CASE snap[r] # NoSnap
  <2>1. date'[r] = date[r] /\ date[r] # NoDay
    BY <1>1, <1>3 DEF Steady, SnapInv
  <2>2. \A n : TradingDay(r, n)' = TradingDay(r, n)
    BY <2>1 DEF TradingDay, TradingDayAfter, Steady
  <2>3. \A c, d : Fits(c, d)' = Fits(c, d)
    BY DEF Fits, Steady
  <2>4. QED
    BY <1>1, <2>1, <2>2, <2>3 DEF SnapInv, Steady
<1>4. QED
  BY <1>2, <1>3

LEMMA CacheKept ==
  ASSUME PerfInv, traded' = traded, dayCache' = dayCache
  PROVE  \A d \in Day : Fits(dayCache[d].candle, d)'
BY DEF PerfInv, Fits

(* A step of one pass that leaves the world, the cache and the snapshots alone. *)
LEMMA OneJob ==
  ASSUME PerfInv, UNCHANGED <<world, dayCache, snap>>, NEW j \in Job, PerfTypeOK', JobInv(j)',
         \A i \in Job \ {j} :
           /\ at'[i] = at[i] /\ kind'[i] = kind[i] /\ had'[i] = had[i] /\ listed'[i] = listed[i]
           /\ todo'[i] = todo[i] /\ due'[i] = due[i] /\ got'[i] = got[i] /\ errs'[i] = errs[i]
  PROVE  PerfInv'
<1>1. Steady /\ traded' = traded /\ dayCache' = dayCache /\ snap' = snap
  BY DEF Steady, world
<1>2. \A i \in Job : JobInv(i)'
  BY <1>1, JobKept
<1>3. \A r \in Rec : SnapInv(r)'
  BY <1>1, SnapKept
<1>4. \A d \in Day : Fits(dayCache[d].candle, d)'
  BY <1>1, CacheKept
<1>6. QED
  BY <1>2, <1>3, <1>4 DEF PerfInv
----------------------------------------------------------------------------
(* The invariant *)

LEMMA InitPerf == PerfInit => PerfInv
<1> SUFFICES ASSUME PerfInit PROVE PerfInv
  OBVIOUS
<1>1. PerfTypeOK
  <2>1. NoEntry \in [candle : Candles, till : Int]
    BY DEF NoEntry, Candles
  <2>2. NoSnap \in Seq(Candles) /\ <<>> \in Seq(Candles)
    BY DEF NoSnap
  <2>3. halfDay \in 0..(2 * MaxDay + 1)
    BY MaxDayAssumption DEF PerfInit, CacheInit
  <2>4. QED
    BY <2>1, <2>2, <2>3 DEF PerfInit, CacheInit, CalendarInit, PerfTypeOK
<1>2. \A d \in Day : Fits(dayCache[d].candle, d)
  BY DEF PerfInit, CacheInit, NoEntry, Fits
<1>3. \A j \in Job : JobInv(j)
  BY DEF PerfInit, JobInv
<1>4. \A r \in Rec : SnapInv(r)
  BY DEF PerfInit, SnapInv, NoSnap
<1>5. QED
  BY <1>1, <1>2, <1>3, <1>4 DEF PerfInv

(* Time passes, a strategy persists or reads: the passes do not notice. *)
LEMMA TickInv == ASSUME PerfInv, Elapse PROVE PerfInv'
<1>1. /\ halfDay' = halfDay + 1 /\ halfDay < 2 * MaxDay + 1 /\ MaxDay \in Nat
      /\ UNCHANGED <<traded, calendarVars, date, priced, snap, pass>> /\ swept' = FALSE
      /\ dayCache' = [d \in Day |-> IF dayCache[d].till < halfDay' THEN NoEntry ELSE dayCache[d]]
  BY MaxDayAssumption DEF Elapse, PerfInv
<1>2. Steady
  BY <1>1 DEF Steady, calendarVars
<1>3. ASSUME NEW d \in Day
      PROVE  dayCache'[d] \in [candle : Candles, till : Int] /\ Fits(dayCache'[d].candle, d)
  <2>1. dayCache[d] \in [candle : Candles, till : Int] /\ Fits(dayCache[d].candle, d)
    BY DEF PerfInv, PerfTypeOK
  <2>2. NoEntry \in [candle : Candles, till : Int] /\ Fits(NoEntry.candle, d)
    BY DEF NoEntry, Candles, Fits
  <2>3. dayCache'[d] \in {NoEntry, dayCache[d]}
    BY <1>1
  <2>4. QED
    BY <2>1, <2>2, <2>3
<1>4. PerfTypeOK'
  <2>1. halfDay' \in 0..(2 * MaxDay + 1)
    BY <1>1 DEF PerfInv, PerfTypeOK
  <2>2. dayCache' \in [Day -> [candle : Candles, till : Int]]
    BY <1>1, <1>3
  <2>3. swept' \in BOOLEAN
    BY <1>1
  <2>4. QED
    BY <1>1, <2>1, <2>2, <2>3 DEF PerfInv, PerfTypeOK, calendarVars, pass
<1>5. \A d \in Day : Fits(dayCache[d].candle, d)'
  BY <1>1, <1>3 DEF Fits
<1>6. \A j \in Job : JobInv(j)'
  BY <1>1, <1>2, JobKept DEF pass
<1>7. \A r \in Rec : SnapInv(r)'
  BY <1>1, <1>2, SnapKept
<1>9. QED
  BY <1>4, <1>5, <1>6, <1>7 DEF PerfInv

LEMMA PersistInv == ASSUME PerfInv, NEW r \in Rec, Persist(r) PROVE PerfInv'
<1>1. /\ date[r] = NoDay /\ date' = [date EXCEPT ![r] = Today]
      /\ \E ok \in BOOLEAN : priced' = [priced EXCEPT ![r] = ok]
      /\ UNCHANGED <<halfDay, traded, dayCache, calendarVars, snap, pass, swept>>
  BY DEF Persist
<1>2. Steady
  BY <1>1 DEF PerfInv, PerfTypeOK, Steady, calendarVars
<1>3. PerfTypeOK'
  <2>1. Today \in Day \cup {NoDay}
    <3>1. halfDay \in 0..(2 * MaxDay + 1) /\ MaxDay \in Nat
      BY MaxDayAssumption DEF PerfInv, PerfTypeOK
    <3>2. halfDay \div 2 \in 0..MaxDay
      BY <3>1
    <3>3. QED
      BY <3>2 DEF Today, Day
  <2>2. QED
    BY <1>1, <2>1 DEF PerfInv, PerfTypeOK, calendarVars, pass
<1>4. \A d \in Day : Fits(dayCache[d].candle, d)'
  BY <1>1, CacheKept
<1>5. \A j \in Job : JobInv(j)'
  BY <1>1, <1>2, JobKept DEF pass
<1>6. \A q \in Rec : SnapInv(q)'
  BY <1>1, <1>2, SnapKept
<1>8. QED
  BY <1>3, <1>4, <1>5, <1>6 DEF PerfInv

LEMMA ReadInv == ASSUME PerfInv, NEW lo \in Day, Read(lo) PROVE PerfInv'
<1>1. PICK missing, candles : dayCache' = Stored(missing, candles)
  BY DEF Read, ReadRange
<1>2. UNCHANGED <<halfDay, traded, calendarVars, date, priced, snap, pass, swept>>
  BY DEF Read, ReadRange
<1>3. Steady
  BY <1>2 DEF Steady, calendarVars
<1>4. PerfTypeOK'
  BY <1>1, <1>2, StoredFits DEF PerfInv, PerfTypeOK, calendarVars, pass
<1>5. \A d \in Day : Fits(dayCache[d].candle, d)'
  BY <1>1, <1>2, StoredFits DEF Fits
<1>6. \A j \in Job : JobInv(j)'
  BY <1>2, <1>3, JobKept DEF pass
<1>7. \A r \in Rec : SnapInv(r)'
  BY <1>2, <1>3, SnapKept
<1>9. QED
  BY <1>4, <1>5, <1>6, <1>7 DEF PerfInv
----------------------------------------------------------------------------
(* Steps of a pass *)

LEMMA WalkInv ==
  ASSUME PerfInv, NEW j \in Job, NEW how \in {"backfill", "calculate"}, NEW recs \in SUBSET Rec,
         \A r \in recs : date[r] # NoDay,
         how = "backfill" => \A r \in recs : snap[r] = NoSnap,
         Walk(j, how, recs)
  PROVE  PerfInv'
<1>1. /\ at[j] = "idle" /\ at' = [at EXCEPT ![j] = "walking"] /\ kind' = [kind EXCEPT ![j] = how]
      /\ had' = [had EXCEPT ![j] = {r \in Rec : snap[r] # NoSnap}]
      /\ listed' = [listed EXCEPT ![j] = recs] /\ todo' = [todo EXCEPT ![j] = recs]
      /\ UNCHANGED <<world, missed, dayCache, snap, due, got, errs, swept>>
  BY DEF Walk, MoveTo
<1>2. PerfTypeOK'
  BY <1>1 DEF PerfInv, PerfTypeOK, world
<1>3. JobInv(j)'
  <2>1. /\ at'[j] = "walking" /\ kind'[j] = how /\ had'[j] = {r \in Rec : snap[r] # NoSnap}
        /\ listed'[j] = recs /\ todo'[j] = recs
    BY <1>1 DEF PerfInv, PerfTypeOK
  <2>2. got'[j] = <<>> /\ date' = date
    BY <1>1 DEF PerfInv, JobInv, world
  <2>3. QED
    BY <2>1, <2>2 DEF JobInv
<1>4. QED
  BY <1>1, <1>2, <1>3, OneJob DEF PerfInv, PerfTypeOK

LEMMA BackfillInv == ASSUME PerfInv, NEW j \in Job, Backfill(j) PROVE PerfInv'
<1> DEFINE recs == {r \in InWindow : snap[r] = NoSnap}
<1>1. /\ recs \in SUBSET Rec /\ \A r \in recs : date[r] # NoDay /\ snap[r] = NoSnap
      /\ Walk(j, "backfill", recs)
  BY DEF Backfill, InWindow, Made
<1> HIDE DEF recs
<1>2. QED
  BY <1>1, WalkInv

LEMMA CalculateInv == ASSUME PerfInv, NEW j \in Job, Calculate(j) PROVE PerfInv'
<1>1. PICK recs \in SUBSET Made : Walk(j, "calculate", recs)
  BY DEF Calculate
<1>2. recs \in SUBSET Rec /\ \A r \in recs : date[r] # NoDay
  BY DEF Made
<1>3. QED
  BY <1>1, <1>2, WalkInv

LEMMA ComputeInv == ASSUME PerfInv, NEW j \in Job, Compute(j) PROVE PerfInv'
<1> DEFINE days == [k \in DOMAIN Horizon |-> After(date[Current(j)], Horizon[k], MaxDay)]
<1>1. /\ at[j] = "walking" /\ todo[j] # {} /\ due' = [due EXCEPT ![j] = days]
      /\ missed' = missed \cup (Scanned(Current(j), days[Len(days)]) \ tabled)
      /\ at' = [at EXCEPT ![j] = "fetching"]
      /\ UNCHANGED <<world, dayCache, snap, kind, had, listed, todo, got, errs, swept>>
  BY DEF Compute, Lookup, MoveTo
<1>2. /\ JobInv(j) /\ todo[j] \in SUBSET Rec /\ Current(j) \in todo[j]
      /\ date[Current(j)] # NoDay /\ Current(j) \in Rec
  BY <1>1, CurrentLeft DEF PerfInv, PerfTypeOK, JobInv
<1>3. /\ days \in [DOMAIN Horizon -> Day \cup {NoDay}]
      /\ tabled = Day => \A k \in DOMAIN Horizon : days[k] = TradingDay(Current(j), Horizon[k])
  BY <1>2, AfterIsTradingDay
<1> HIDE DEF days
<1>4. PerfTypeOK'
  <2>1. missed' \subseteq Day \ tabled
    BY <1>1 DEF PerfInv, PerfTypeOK, Scanned
  <2>2. due' \in [Job -> {<<>>} \cup [DOMAIN Horizon -> Day \cup {NoDay}]]
    BY <1>1, <1>3 DEF PerfInv, PerfTypeOK
  <2>3. QED
    BY <1>1, <2>1, <2>2 DEF PerfInv, PerfTypeOK, world
<1>5. JobInv(j)'
  <2>1. /\ at'[j] = "fetching" /\ due'[j] = days /\ got'[j] = <<>> /\ Current(j)' = Current(j)
        /\ \A n : TradingDay(Current(j), n)' = TradingDay(Current(j), n)
    BY <1>1, <1>2 DEF PerfInv, PerfTypeOK, JobInv, Current, TradingDay, TradingDayAfter, world
  <2>2. FetchInv(j)'
    <3>1. todo'[j] # {} /\ tabled' = tabled /\ Len(Horizon) >= 0
      BY <1>1, <1>2, PerformanceAssumption DEF world
    <3>2. Len(got'[j]) = 0
      BY <2>1
    <3>3. QED
      BY <1>3, <2>1, <3>1, <3>2 DEF FetchInv
  <2>3. QED
    BY <1>1, <1>2, <2>1, <2>2 DEF JobInv, world
<1>6. QED
  BY <1>1, <1>4, <1>5, OneJob DEF PerfInv, PerfTypeOK

(* A pass that leaves its current recommendation as an error. *)
LEMMA ErredInv ==
  ASSUME PerfInv, NEW j \in Job, todo[j] # {}, Advance(j),
         errs' = [errs EXCEPT ![j] = errs[j] \cup {Current(j)}],
         UNCHANGED <<world, missed, dayCache, snap, kind, had, listed, swept>>
  PROVE  PerfInv'
<1>1. /\ todo' = [todo EXCEPT ![j] = todo[j] \ {Current(j)}] /\ due' = [due EXCEPT ![j] = <<>>]
      /\ got' = [got EXCEPT ![j] = <<>>] /\ at' = [at EXCEPT ![j] = "walking"]
  BY DEF Advance, MoveTo
<1>2. JobInv(j) /\ todo[j] \in SUBSET Rec /\ Current(j) \in todo[j] /\ Current(j) \in Rec
  BY CurrentLeft DEF PerfInv, PerfTypeOK
<1>3. PerfTypeOK'
  <2>1. <<>> \in Seq(Candles)
    OBVIOUS
  <2>2. QED
    BY <1>1, <1>2, <2>1 DEF PerfInv, PerfTypeOK, world
<1>4. JobInv(j)'
  <2>1. /\ todo'[j] = todo[j] \ {Current(j)} /\ errs'[j] = errs[j] \cup {Current(j)}
        /\ got'[j] = <<>> /\ at'[j] = "walking"
    BY <1>1 DEF PerfInv, PerfTypeOK
  <2>2. QED
    BY <1>2, <2>1 DEF JobInv, world
<1>5. QED
  BY <1>1, <1>3, <1>4, OneJob DEF PerfInv, PerfTypeOK

LEMMA RefuseInv == ASSUME PerfInv, NEW j \in Job, Refuse(j) PROVE PerfInv'
BY ErredInv DEF Refuse

LEMMA SaveFailsInv == ASSUME PerfInv, NEW j \in Job, SaveFails(j) PROVE PerfInv'
<1>1. todo[j] # {}
  BY DEF SaveFails, PerfInv, JobInv, FetchInv
<1>2. QED
  BY <1>1, ErredInv DEF SaveFails

LEMMA ForgetInv ==
  ASSUME PerfInv, NEW j \in Job, Forget(j), UNCHANGED <<world, missed, dayCache, snap>>,
         swept' \in BOOLEAN
  PROVE  PerfInv'
<1>1. /\ at' = [at EXCEPT ![j] = "idle"] /\ kind' = [kind EXCEPT ![j] = "backfill"]
      /\ had' = [had EXCEPT ![j] = {}] /\ listed' = [listed EXCEPT ![j] = {}]
      /\ todo' = [todo EXCEPT ![j] = {}] /\ due' = [due EXCEPT ![j] = <<>>]
      /\ got' = [got EXCEPT ![j] = <<>>] /\ errs' = [errs EXCEPT ![j] = {}]
  BY DEF Forget, MoveTo
<1>2. PerfTypeOK'
  <2>1. <<>> \in Seq(Candles) /\ {} \in SUBSET Rec
    OBVIOUS
  <2>2. QED
    BY <1>1, <2>1 DEF PerfInv, PerfTypeOK, world
<1>3. JobInv(j)'
  <2>1. /\ at'[j] = "idle" /\ listed'[j] = {} /\ todo'[j] = {} /\ got'[j] = <<>>
    BY <1>1 DEF PerfInv, PerfTypeOK
  <2>2. QED
    BY <2>1 DEF JobInv
<1>4. QED
  BY <1>1, <1>2, <1>3, OneJob DEF PerfInv, PerfTypeOK
(* The candle a fetch takes is of the day it asked for. *)
LEMMA Taken ==
  ASSUME PerfInv, NEW j \in Job, Fetch(j), NEW d, d = due[j][Len(got[j]) + 1]
  PROVE  /\ \E c \in Candles : Fits(c, d) /\ got' = [got EXCEPT ![j] = Append(got[j], c)]
         /\ \/ dayCache' = dayCache
            \/ \E candles : dayCache' = Stored({d}, candles)
<1> DEFINE Take(candles) == got' = [got EXCEPT ![j] = Append(got[j], CloseOf(candles, d))]
<1>1. JobInv(j) /\ at[j] = "fetching" /\ Len(got[j]) < Len(Horizon)
  BY DEF Fetch, PerfInv
<1>2. d \in Day \cup {NoDay}
  <2>1. Len(got[j]) \in Nat /\ DOMAIN Horizon = 1..Len(Horizon)
    BY <1>1, PerformanceAssumption DEF PerfInv, PerfTypeOK
  <2>2. Len(got[j]) + 1 \in DOMAIN Horizon
    BY <1>1, <2>1
  <2>3. QED
    BY <1>1, <2>2 DEF JobInv, FetchInv
<1>3. \/ d # NoDay /\ Take({dayCache[d].candle} \ {NoCandle}) /\ dayCache' = dayCache
      \/ \E candles \in Fetches({d}, FALSE) : Take(candles) /\ dayCache' = Stored({d}, candles)
      \/ Take({}) /\ dayCache' = dayCache
  BY DEF Fetch
<1>4. ASSUME NEW candles, \A c \in candles : c \in Candles /\ Fits(c, c.day)
      PROVE  CloseOf(candles, d) \in Candles /\ Fits(CloseOf(candles, d), d)
  BY <1>4 DEF CloseOf, Fits, Candles
<1>5. CASE d # NoDay /\ Take({dayCache[d].candle} \ {NoCandle}) /\ dayCache' = dayCache
  <2> DEFINE hit == {dayCache[d].candle} \ {NoCandle}
  <2>1. dayCache[d].candle \in Candles /\ Fits(dayCache[d].candle, d)
    BY <1>2, <1>5 DEF PerfInv, PerfTypeOK
  <2>2. \A c \in hit : c \in Candles /\ Fits(c, c.day)
    BY <2>1 DEF Fits
  <2> HIDE DEF hit
  <2>3. CloseOf(hit, d) \in Candles /\ Fits(CloseOf(hit, d), d)
    BY <1>4, <2>2
  <2>4. QED
    BY <1>5, <2>3 DEF hit
<1>6. CASE \E candles \in Fetches({d}, FALSE) : Take(candles) /\ dayCache' = Stored({d}, candles)
  <2>1. PICK candles \in Fetches({d}, FALSE) : Take(candles) /\ dayCache' = Stored({d}, candles)
    BY <1>6
  <2>2. \A c \in candles : c \in Candles /\ Fits(c, c.day)
    BY FetchedFits
  <2>3. CloseOf(candles, d) \in Candles /\ Fits(CloseOf(candles, d), d)
    BY <1>4, <2>2
  <2>4. QED
    BY <2>1, <2>3
<1>7. CASE Take({}) /\ dayCache' = dayCache
  <2>1. CloseOf({}, d) \in Candles /\ Fits(CloseOf({}, d), d)
    BY <1>4
  <2>2. QED
    BY <1>7, <2>1
<1>8. QED
  BY <1>3, <1>5, <1>6, <1>7

LEMMA FetchKeeps == ASSUME PerfInv, NEW j \in Job, Fetch(j) PROVE PerfInv'
<1> DEFINE n == Len(got[j]) + 1
           d == due[j][n]
<1>1. /\ at[j] = "fetching" /\ Len(got[j]) < Len(Horizon)
      /\ UNCHANGED <<world, missed, snap, at, kind, had, listed, todo, due, errs, swept>>
  BY DEF Fetch
<1>2. PICK c \in Candles : Fits(c, d) /\ got' = [got EXCEPT ![j] = Append(got[j], c)]
  BY Taken
<1>3. \/ dayCache' = dayCache
      \/ \E candles : dayCache' = Stored({d}, candles)
  BY Taken
<1>4. /\ dayCache' \in [Day -> [candle : Candles, till : Int]]
      /\ \A e \in Day : Fits(dayCache'[e].candle, e)
  BY <1>3, StoredFits DEF PerfInv, PerfTypeOK
<1>5. Steady /\ \A b, e : Fits(b, e)' = Fits(b, e)
  BY <1>1 DEF Steady, world, Fits
<1>6. got[j] \in Seq(Candles) /\ got'[j] = Append(got[j], c)
  BY <1>2 DEF PerfInv, PerfTypeOK
<1>7. PerfTypeOK'
  <2>1. Append(got[j], c) \in Seq(Candles)
    BY <1>6
  <2>2. got' \in [Job -> Seq(Candles)]
    BY <1>2, <2>1 DEF PerfInv, PerfTypeOK
  <2>3. QED
    BY <1>1, <1>4, <2>2 DEF PerfInv, PerfTypeOK, world
<1>8. JobInv(j)'
  <2>1. JobInv(j) /\ FetchInv(j)
    BY <1>1 DEF PerfInv, JobInv
  <2>2. Len(got'[j]) = n /\ n <= Len(Horizon)
    BY <1>1, <1>6, PerformanceAssumption DEF PerfInv
  <2>3. ASSUME NEW k \in 1..Len(got'[j]) PROVE Fits(got'[j][k], due[j][k])
    BY <1>2, <1>6, <2>1, <2>2 DEF FetchInv
  <2>4. /\ Current(j)' = Current(j)
        /\ \A m : TradingDay(Current(j), m)' = TradingDay(Current(j), m)
    BY <1>1 DEF Current, TradingDay, TradingDayAfter, world
  <2>5. FetchInv(j)'
    BY <1>1, <1>5, <2>1, <2>2, <2>3, <2>4 DEF FetchInv, world
  <2>6. QED
    BY <1>1, <2>1, <2>5 DEF JobInv, world
<1>9. \A i \in Job \ {j} : JobInv(i)'
  BY <1>1, <1>2, <1>5, JobKept DEF PerfInv, PerfTypeOK
<1>10. \A r \in Rec : SnapInv(r)'
  BY <1>1, <1>5, SnapKept
<1>11. \A e \in Day : Fits(dayCache[e].candle, e)'
  BY <1>4, <1>5 DEF PerfInv
<1>12. QED
  BY <1>7, <1>8, <1>9, <1>10, <1>11 DEF PerfInv

LEMMA SaveKeeps == ASSUME PerfInv, NEW j \in Job, Save(j) PROVE PerfInv'
<1>1. /\ JobInv(j) /\ FetchInv(j)
      /\ Current(j) \in todo[j] /\ Current(j) \in Rec
  BY CurrentLeft DEF Save, PerfInv, PerfTypeOK, JobInv, FetchInv
<1>2. PICK r \in todo[j] : r = Current(j) /\ r \in Rec
  BY <1>1
<1>3. /\ at[j] = "fetching" /\ Len(got[j]) = Len(Horizon) /\ snap' = [snap EXCEPT ![r] = got[j]]
      /\ todo' = [todo EXCEPT ![j] = todo[j] \ {r}] /\ due' = [due EXCEPT ![j] = <<>>]
      /\ got' = [got EXCEPT ![j] = <<>>] /\ at' = [at EXCEPT ![j] = "walking"]
      /\ UNCHANGED <<world, missed, dayCache, kind, had, listed, errs, swept>>
  BY <1>2 DEF Save, Advance, MoveTo
<1>4. /\ JobInv(j) /\ FetchInv(j) /\ r \in todo[j] /\ r \in Rec
      /\ got[j] \in Seq(Candles) /\ date[r] # NoDay /\ r = Current(j)
  BY <1>1, <1>2 DEF PerfInv, PerfTypeOK, JobInv
<1>5. got[j] # NoSnap /\ DOMAIN got[j] = DOMAIN Horizon /\ DOMAIN got[j] = 1..Len(got[j])
  BY <1>3, <1>4, PerformanceAssumption DEF NoSnap
<1>6. Steady
  BY <1>3, <1>4, <1>5 DEF Steady, world, PerfInv, PerfTypeOK
<1>7. PerfTypeOK'
  <2>1. <<>> \in Seq(Candles)
    OBVIOUS
  <2>2. QED
    BY <1>3, <1>4, <2>1 DEF PerfInv, PerfTypeOK, world
<1>8. JobInv(j)'
  <2>1. /\ todo'[j] = todo[j] \ {r} /\ got'[j] = <<>> /\ at'[j] = "walking" /\ snap'[r] # NoSnap
    BY <1>3, <1>4, <1>5 DEF PerfInv, PerfTypeOK
  <2>2. \A q \in listed[j] \ (todo[j] \ {r}) : snap'[q] # NoSnap \/ q \in errs[j]
    BY <1>4, <1>6, <2>1 DEF JobInv, Steady, PerfInv, PerfTypeOK
  <2>3. QED
    BY <1>3, <1>4, <2>1, <2>2 DEF JobInv, world
<1>9. \A i \in Job \ {j} : JobInv(i)'
  BY <1>3, <1>6, JobKept DEF PerfInv, PerfTypeOK
<1>10. SnapInv(r)'
  <2>1. snap'[r] = got[j] /\ date' = date /\ tabled' = tabled
    BY <1>3, <1>4 DEF PerfInv, PerfTypeOK, world
  <2>2. ASSUME tabled = Day, NEW k \in DOMAIN got[j]
        PROVE  Fits(got[j][k], TradingDay(r, Horizon[k]))
    BY <1>4, <1>5, <2>2 DEF FetchInv
  <2>3. /\ \A n : TradingDay(r, n)' = TradingDay(r, n)
        /\ \A b, e : Fits(b, e)' = Fits(b, e)
    BY <1>3 DEF TradingDay, TradingDayAfter, Fits, world
  <2>4. QED
    BY <1>4, <2>1, <2>2, <2>3 DEF SnapInv
<1>11. \A q \in Rec \ {r} : SnapInv(q)'
  BY <1>3, <1>6, SnapKept DEF PerfInv, PerfTypeOK
<1>12. \A e \in Day : Fits(dayCache[e].candle, e)'
  BY <1>3, CacheKept DEF PerfInv, world
<1>13. QED
  BY <1>7, <1>8, <1>9, <1>10, <1>11, <1>12 DEF PerfInv
LEMMA NextPerf == PerfInv /\ [PerfNext]_perfVars => PerfInv'
<1> SUFFICES ASSUME PerfInv, [PerfNext]_perfVars PROVE PerfInv'
  OBVIOUS
<1>1. CASE UNCHANGED perfVars
  <2>1. /\ Steady /\ dayCache' = dayCache /\ traded' = traded /\ snap' = snap
        /\ UNCHANGED pass
    BY <1>1 DEF perfVars, Steady, pass
  <2>2. PerfTypeOK'
    BY <1>1 DEF perfVars, PerfInv, PerfTypeOK
  <2>3. \A j \in Job : JobInv(j)'
    BY <2>1, JobKept DEF pass
  <2>4. \A r \in Rec : SnapInv(r)'
    BY <2>1, SnapKept
  <2>5. \A d \in Day : Fits(dayCache[d].candle, d)'
    BY <2>1, CacheKept
  <2>6. QED
    BY <2>2, <2>3, <2>4, <2>5 DEF PerfInv
<1>2. ASSUME NEW j \in Job, Finish(j) \/ Cut(j) PROVE PerfInv'
  <2>1. swept' \in BOOLEAN
    BY <1>2 DEF Finish, Cut, PerfInv, PerfTypeOK
  <2>2. QED
    BY <1>2, <2>1, ForgetInv DEF Finish, Cut
<1>3. QED
  BY <1>1, <1>2, TickInv, PersistInv, ReadInv, BackfillInv, CalculateInv, ComputeInv, RefuseInv,
     FetchKeeps, SaveKeeps, SaveFailsInv DEF PerfNext

----------------------------------------------------------------------------
(* Theorems *)

(* The inductive invariant. *)
THEOREM Invariance == PerfSpec => []PerfInv
BY InitPerf, NextPerf, PTL DEF PerfSpec

(* Every variable of the passes, the cache and the calendar keeps its type. *)
THEOREM TypeCorrect == PerfSpec => []PerfTypeOK
<1>1. PerfInv => PerfTypeOK
  BY DEF PerfInv
<1>2. QED
  BY <1>1, Invariance, PTL

(***************************************************************************)
(* A close on record is that of the trading day it is recorded for, also   *)
(* across holidays, halts and days sent along, whichever passes and        *)
(* strategies filled the cache it was read through.                        *)
(***************************************************************************)
THEOREM OwnDays == PerfSpec => []ClosesOwnDay
<1>1. PerfInv => ClosesOwnDay
  BY DEF PerfInv, SnapInv, Fits, ClosesOwnDay
<1>2. QED
  BY <1>1, Invariance, PTL

(***************************************************************************)
(* A pass that comes to its end has dealt with every recommendation it set *)
(* out with, whatever failed on the way.                                   *)
(***************************************************************************)
THEOREM NoneForgotten == PerfSpec => PassCovers
<1>1. ASSUME PerfInv, NEW j \in Job, Finish(j), NEW r \in listed[j]
      PROVE  snap[r] # NoSnap \/ r \in errs[j]
  BY <1>1 DEF PerfInv, JobInv, Finish
<1> DEFINE Covered ==
             \A j \in Job : Finish(j) => \A r \in listed[j] : snap[r] # NoSnap \/ r \in errs[j]
<1>2. PerfInv => [Covered]_perfVars
  BY <1>1
<1>3. QED
  BY <1>2, Invariance, PTL DEF PassCovers

(***************************************************************************)
(* A backfill changes no snapshot that was there when it began, however    *)
(* long it waits and whatever other passes write meanwhile.                *)
(***************************************************************************)
THEOREM Idempotent == PerfSpec => BackfillAddsOnly
<1>1. ASSUME PerfInv, [PerfNext]_perfVars, NEW r \in Rec, snap'[r] # snap[r]
      PROVE  \E j \in Job : /\ at[j] = "fetching" /\ Current(j) = r
                            /\ kind[j] = "calculate" \/ r \notin had[j]
  <2>1. PICK j \in Job : Save(j)
    BY <1>1 DEF PerfNext, perfVars, Elapse, Persist, Read, pass, Backfill, Calculate, Walk, Compute,
                Refuse, Fetch, SaveFails, Finish, Cut
  <2>2. at[j] = "fetching" /\ snap' = [snap EXCEPT ![Current(j)] = got[j]]
    BY <2>1 DEF Save
  <2>3. Current(j) = r
    BY <1>1, <2>2 DEF PerfInv, PerfTypeOK
  <2>4. Current(j) \in todo[j]
    BY <1>1, <2>2, CurrentLeft DEF PerfInv, PerfTypeOK, JobInv, FetchInv
  <2>5. kind[j] = "calculate" \/ r \notin had[j]
    BY <1>1, <2>3, <2>4 DEF PerfInv, PerfTypeOK, JobInv
  <2>6. QED
    BY <2>2, <2>3, <2>5
<1> DEFINE AddsOnly == \A r \in Rec : snap[r] # NoSnap /\ snap'[r] # snap[r] =>
                         \E j \in Job : /\ at[j] = "fetching" /\ Current(j) = r
                                        /\ kind[j] = "calculate" \/ r \notin had[j]
<1>2. PerfInv /\ [PerfNext]_perfVars => [AddsOnly]_perfVars
  BY <1>1, Zenon
<1>3. QED
  BY <1>2, Invariance, PTL DEF PerfSpec, BackfillAddsOnly
=============================================================================
