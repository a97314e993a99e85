---------------------------- MODULE CandleCache ----------------------------
(***************************************************************************)
(* datasource.manager.GetKLine for the daily candles of one stock: a cache *)
(* with one key per day, under which a day without a candle is stored too, *)
(* in front of the sources.                                                *)
(*                                                                         *)
(* Time is counted in half-days: 2 * d is the time before the close of day *)
(* d, when its candle is still moving, 2 * d + 1 the time after it.  A     *)
(* call takes seconds and is one step.                                     *)
(***************************************************************************)
EXTENDS Integers, FiniteSets, FiniteSetsExt

CONSTANT MaxDay   \* bound: the last day

ASSUME MaxDayAssumption == MaxDay \in Nat

Day == 0..MaxDay
TTL == 2   \* CacheTTL, 24 hours

NoCandle == [day |-> -1, final |-> FALSE]
Candles == {NoCandle} \cup [day : Day, final : BOOLEAN]
NoEntry == [candle |-> NoCandle, till |-> -1]

VARIABLES
  halfDay,
  traded,   \* the days the stock trades: the others are holidays or halts
  dayCache  \* dayCache[d]: what is stored for day d, and till when

cacheVars == <<halfDay, traded, dayCache>>

Today == halfDay \div 2

CacheInit ==
  /\ halfDay = 0
  /\ traded \in SUBSET Day
  /\ dayCache = [d \in Day |-> NoEntry]

(* The candle of day d as the sources know it now. *)
Candle(d) ==
  IF d \in traded /\ d <= Today THEN [day |-> d, final |-> halfDay > 2 * d] ELSE NoCandle

(* A key may be read until it expires, some time in the half-day till. *)
MayHit(d)  == halfDay <= dayCache[d].till
MayMiss(d) == halfDay >= dayCache[d].till

Known(days) == {Candle(d) : d \in days} \ {NoCandle}

(* Every missing day is stored, as empty when no candle of it came back. *)
Stored(missing, candles) ==
  [d \in Day |->
     IF d \in missing
     THEN [candle |-> IF Candle(d) \in candles THEN Candle(d) ELSE NoCandle, till |-> halfDay + TTL]
     ELSE dayCache[d]]

(***************************************************************************)
(* One ranged call for everything between the first and the last missing   *)
(* day.  The adapters report an empty result as an error.  A window that   *)
(* starts during the day loses that day's candle, which is stamped         *)
(* midnight, in an adapter that filters by time; one that asks by date     *)
(* also returns the day the window ends with.                              *)
(***************************************************************************)
Fetches(missing, partial) ==
  LET span == Min(missing)..Max(missing)
      after == {Max(missing) + 1} \cap Day
      first == IF partial THEN {Min(missing)} ELSE {}
  IN {Known(span), Known(span \ first), Known(span \cup after)} \ {{}}

(***************************************************************************)
(* A data_source node reads the candles of the last days, down to day lo,  *)
(* whose window starts at the time of day it is now.                       *)
(***************************************************************************)
ReadRange(lo) ==
  /\ \E hit \in SUBSET {d \in lo..Today : MayHit(d)} :
       LET missing == (lo..Today) \ hit
       IN /\ \A d \in missing : MayMiss(d)
          /\ missing # {}
          /\ \E candles \in Fetches(missing, lo \in missing) : dayCache' = Stored(missing, candles)
  /\ UNCHANGED <<halfDay, traded>>
=============================================================================
