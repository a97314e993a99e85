-------------------------- MODULE MarketDataProofs --------------------------
(***************************************************************************)
(* Theorems about MarketData, for any callers, any chain of sources and    *)
(* any threshold, window, cooldown and time to live, as long as a call of  *)
(* a source is shorter than the cooldown.                                  *)
(***************************************************************************)
EXTENDS MarketData, ListsProofs

Shape ==
  /\ now \in Nat
  /\ breaker = [s \in Source |-> breaker[s]]
  /\ pc \in [Caller -> {"idle", "asking", "calling", "storing"}]
  /\ idx \in [Caller -> 1..(Len(Chain) + 1)]
  /\ since \in [Caller -> Nat]
  /\ probe \in [Caller -> BOOLEAN]
  /\ quote \in [Caller -> Nat]
  /\ age \in [Caller -> Int]
  /\ cache.at \in Int /\ cache.till \in Int

(* A call is younger than MaxCall, and so is the quote it brings. *)
CallerInv(c) ==
  /\ pc[c] = "calling" => idx[c] <= Len(Chain) /\ since[c] <= now /\ now - since[c] <= MaxCall
  /\ pc[c] = "storing" => quote[c] <= now /\ now - quote[c] <= MaxCall
  /\ age[c] <= QuoteTTL + MaxCall

CacheInv == cache.till - cache.at <= QuoteTTL + MaxCall

Cell(b) ==
  [state |-> b.state, failures |-> b.failures, openedAt |-> b.openedAt, probing |-> b.probing]

(* What a breaker b at time t says about its calls under way, begun at from. *)
Sound(b, calls, t, from, pr) ==
  /\ b = Cell(b)
  /\ b.state \in {"closed", "open", "half-open"}
  /\ b.openedAt \in Nat /\ b.openedAt <= t
  /\ b.probing \in {TRUE, FALSE}
  /\ b.probing = TRUE => b.state = "half-open"
  /\ b.state = "open" => \A c \in calls : from[c] <= b.openedAt
  /\ b.state = "half-open" /\ b.probing = TRUE => \E c \in calls : calls = {c} /\ pr[c] = TRUE
  /\ b.state = "half-open" /\ b.probing = FALSE => calls = {}

BreakerInv(s) == Sound(breaker[s], Calling(s), now, since, probe)

MarketInv ==
  /\ Shape
  /\ CacheInv
  /\ \A c \in Caller : CallerInv(c)
  /\ \A s \in Source : BreakerInv(s)

----------------------------------------------------------------------------
(* The methods of the breaker keep it sound *)

LEMMA NewFacts == ASSUME NEW from, NEW pr PROVE Sound(NewBreaker, {}, 0, from, pr)
<1>1. /\ NewBreaker = Cell(NewBreaker) /\ NewBreaker.state = "closed"
      /\ NewBreaker.openedAt = 0 /\ NewBreaker.probing = FALSE
  BY DEF NewBreaker, Cell
<1>2. 0 \in Nat /\ 0 <= 0
  OBVIOUS
<1>3. QED
  BY <1>1, <1>2, Zenon DEF Sound

LEMMA LaterFacts ==
  ASSUME NEW b, NEW calls, NEW t \in Nat, NEW u \in Nat, t <= u,
         NEW from, NEW from2, NEW pr, NEW pr2,
         Sound(b, calls, t, from, pr), \A c \in calls : from2[c] = from[c] /\ pr2[c] = pr[c]
  PROVE  Sound(b, calls, u, from2, pr2)
<1>1. b.openedAt <= u
  BY DEF Sound
<1>2. QED
  BY <1>1, Zenon DEF Sound

LEMMA PassedFacts ==
  ASSUME NEW b, NEW calls, NEW t \in Nat, NEW from, NEW pr, NEW from2, NEW pr2, NEW c,
         Sound(b, calls, t, from, pr), b.state = "closed" \/ calls = {},
         pr2[c] = (b.state # "closed")
  PROVE  Sound(Passed(b, t), calls \cup {c}, t, from2, pr2)
<1>1. CASE b.state = "closed"
  <2> DEFINE p == Passed(b, t)
  <2>1. p = Cell(p) /\ p.state = "closed" /\ p.openedAt = b.openedAt /\ p.probing = b.probing
    BY <1>1 DEF Passed, Swept, Cell, Sound
  <2> HIDE DEF p
  <2>2. p.probing = FALSE
    BY <1>1, <2>1 DEF Sound
  <2>3. Sound(p, calls \cup {c}, t, from2, pr2)
    BY <1>1, <2>1, <2>2 DEF Sound
  <2>4. QED
    BY <2>3 DEF p
<1>2. CASE b.state # "closed"
  <2> DEFINE p == Passed(b, t)
  <2>1. p = Cell(p) /\ p.state = "half-open" /\ p.openedAt = b.openedAt /\ p.probing = TRUE
    BY <1>2 DEF Passed, Cell, Sound
  <2> HIDE DEF p
  <2>2. calls \cup {c} = {c} /\ pr2[c] = TRUE
    BY <1>2
  <2>3. Sound(p, calls \cup {c}, t, from2, pr2)
    BY <2>1, <2>2 DEF Sound
  <2>4. QED
    BY <2>3 DEF p
<1>3. QED
  BY <1>1, <1>2

LEMMA SucceededFacts ==
  ASSUME NEW b, NEW calls, NEW t \in Nat, NEW from, NEW pr, NEW from2, NEW pr2, NEW c \in calls,
         Sound(b, calls, t, from, pr),
         \A d \in calls \ {c} : from2[d] = from[d] /\ pr2[d] = pr[d]
  PROVE  Sound(Succeeded(b), calls \ {c}, t, from2, pr2)
<1>1. CASE b.state = "half-open"
  <2> DEFINE p == Succeeded(b)
  <2>1. p = Cell(p) /\ p.state = "closed" /\ p.openedAt = b.openedAt /\ p.probing = FALSE
    BY <1>1 DEF Succeeded, Cell, Sound
  <2> HIDE DEF p
  <2>2. Sound(p, calls \ {c}, t, from2, pr2)
    BY <2>1 DEF Sound
  <2>3. QED
    BY <2>2 DEF p
<1>2. CASE b.state # "half-open"
  <2>1. Succeeded(b) = b
    BY <1>2 DEF Succeeded
  <2>2. Sound(b, calls \ {c}, t, from2, pr2)
    BY <1>2 DEF Sound
  <2>3. QED
    BY <2>1, <2>2
<1>3. QED
  BY <1>1, <1>2

LEMMA FailedFacts ==
  ASSUME NEW b, NEW calls, NEW t \in Nat, NEW from, NEW pr, NEW from2, NEW pr2, NEW c \in calls,
         Sound(b, calls, t, from, pr),
         \A d \in calls \ {c} : from2[d] = from[d] /\ pr2[d] = pr[d] /\ from[d] <= t
  PROVE  Sound(Failed(b, t), calls \ {c}, t, from2, pr2)
<1> DEFINE p == Failed(b, t)
<1>0. t <= t /\ b.openedAt \in Nat /\ b.openedAt <= t /\ \A d \in calls \ {c} : from2[d] <= t
  BY DEF Sound
<1>1. CASE b.state = "half-open"
  <2>1. p = Cell(p) /\ p.state = "open" /\ p.openedAt = t /\ p.probing = FALSE
    BY <1>1 DEF Failed, Cell, Sound
  <2> HIDE DEF p
  <2>2. Sound(p, calls \ {c}, t, from2, pr2)
    BY <1>0, <2>1, Zenon DEF Sound
  <2>3. QED
    BY <2>2 DEF p
<1>2. CASE b.state = "closed"
  <2>1. b.probing = FALSE
    BY <1>2 DEF Sound
  <2>2. /\ p = Cell(p) /\ p.probing = b.probing
        /\ \/ p.state = "open" /\ p.openedAt = t
           \/ p.state = "closed" /\ p.openedAt = b.openedAt
    BY <1>2 DEF Failed, Cell, Sound
  <2> HIDE DEF p
  <2>3. Sound(p, calls \ {c}, t, from2, pr2)
    <3>1. CASE p.state = "open" /\ p.openedAt = t
      BY <1>0, <2>1, <2>2, <3>1, Zenon DEF Sound
    <3>2. CASE p.state = "closed" /\ p.openedAt = b.openedAt
      BY <1>0, <2>1, <2>2, <3>2, Zenon DEF Sound
    <3>3. QED
      BY <2>2, <3>1, <3>2
  <2>4. QED
    BY <2>3 DEF p
<1>3. CASE b.state = "open"
  <2>1. p = b
    BY <1>3 DEF Failed
  <2>2. Sound(b, calls \ {c}, t, from2, pr2)
    BY <1>3 DEF Sound
  <2>3. QED
    BY <2>1, <2>2
<1>4. QED
  BY <1>1, <1>2, <1>3 DEF Sound

LEMMA PeekedFacts ==
  ASSUME NEW b, NEW calls, NEW t \in Nat, NEW from, NEW pr,
         Sound(b, calls, t, from, pr), b.state = "open" /\ Cooled(b, t) => calls = {}
  PROVE  Sound(Swept(Peeked(b, t), t), calls, t, from, pr)
<1> DEFINE p == Swept(Peeked(b, t), t)
<1>1. CASE b.state = "open" /\ Cooled(b, t)
  <2>1. p = Cell(p) /\ p.state = "half-open" /\ p.openedAt = b.openedAt /\ p.probing = FALSE
    <3> DEFINE q == Peeked(b, t)
    <3>1. q = [b EXCEPT !.state = "half-open", !.probing = FALSE]
      BY <1>1 DEF Peeked
    <3>2. q = Cell(q) /\ q.state = "half-open" /\ q.openedAt = b.openedAt /\ q.probing = FALSE
      BY <3>1 DEF Cell, Sound
    <3> HIDE DEF q
    <3>3. Swept(q, t) = Cell(Swept(q, t)) /\ Swept(q, t).state = q.state
          /\ Swept(q, t).openedAt = q.openedAt /\ Swept(q, t).probing = q.probing
      BY <3>2 DEF Swept, Cell
    <3>4. QED
      BY <3>2, <3>3 DEF q
  <2> HIDE DEF p
  <2>2. Sound(p, calls, t, from, pr)
    BY <1>1, <2>1 DEF Sound
  <2>3. QED
    BY <2>2 DEF p
<1>2. CASE ~(b.state = "open" /\ Cooled(b, t))
  <2>1. /\ p = Cell(p) /\ p.state = b.state /\ p.openedAt = b.openedAt
        /\ p.probing = b.probing
    <3>1. Peeked(b, t) = b
      BY <1>2 DEF Peeked
    <3>2. b = Cell(b)
      BY DEF Sound
    <3>3. QED
      BY <3>1, <3>2 DEF Swept, Cell
  <2> HIDE DEF p
  <2>2. Sound(p, calls, t, from, pr)
    BY <2>1, Zenon DEF Sound
  <2>3. QED
    BY <2>2 DEF p
<1>3. QED
  BY <1>1, <1>2

----------------------------------------------------------------------------
(* The invariant *)

LEMMA AtSource == ASSUME NEW i \in 1..Len(Chain) PROVE Chain[i] \in Source
BY ChainAssumption

LEMMA InitMarket == Init => MarketInv
<1> SUFFICES ASSUME Init PROVE MarketInv
  OBVIOUS
<1>1. Len(Chain) \in Nat
  BY ChainAssumption
<1>2. Shape
  BY <1>1 DEF Init, Shape, NoQuote
<1>3. CacheInv /\ \A c \in Caller : CallerInv(c)
  BY MaxCallAssumption, QuoteTTLAssumption DEF Init, CacheInv, CallerInv, NoQuote
<1>4. ASSUME NEW s \in Source PROVE BreakerInv(s)
  <2>1. breaker[s] = NewBreaker /\ now = 0 /\ Calling(s) = {}
    BY DEF Init, Calling
  <2>2. QED
    BY <2>1, NewFacts DEF BreakerInv
<1>5. QED
  BY <1>2, <1>3, <1>4 DEF MarketInv

(* By the time a breaker has cooled down, the calls from before it opened are over. *)
LEMMA CooledIsQuiet ==
  ASSUME MarketInv, NEW s \in Source, breaker[s].state = "open", Cooled(breaker[s], now)
  PROVE  Calling(s) = {}
<1> SUFFICES ASSUME NEW c \in Calling(s) PROVE FALSE
  OBVIOUS
<1>1. c \in Caller /\ pc[c] = "calling"
  BY DEF Calling
<1>2. now - since[c] <= MaxCall /\ since[c] \in Nat /\ now \in Nat
  BY <1>1 DEF MarketInv, CallerInv, Shape
<1>3. since[c] <= breaker[s].openedAt /\ breaker[s].openedAt \in Nat
  BY DEF MarketInv, BreakerInv, Sound
<1>4. now - breaker[s].openedAt >= Cooldown
  BY DEF Cooled
<1>5. QED
  BY <1>2, <1>3, <1>4, MaxCallAssumption, BreakerAssumption

(* A breaker whose record and calls do not change keeps its invariant. *)
LEMMA BreakerKept ==
  ASSUME MarketInv, NEW s \in Source, breaker'[s] = breaker[s], Calling(s)' = Calling(s),
         \A c \in Calling(s) : since'[c] = since[c] /\ probe'[c] = probe[c],
         now' \in Nat, now' >= now
  PROVE  BreakerInv(s)'
<1>1. Sound(breaker[s], Calling(s), now, since, probe) /\ now \in Nat
  BY DEF MarketInv, BreakerInv, Shape
<1>2. Sound(breaker[s], Calling(s), now', since', probe')
  BY <1>1, LaterFacts
<1>3. QED
  BY <1>2 DEF BreakerInv

----------------------------------------------------------------------------
(* Steps that no breaker notices *)

LEMMA NowIsNat == MarketInv => now \in Nat
BY DEF MarketInv, Shape

LEMMA Unnoticed ==
  ASSUME MarketInv, UNCHANGED <<breaker, since, probe>>, now' \in Nat, now' >= now,
         \A d \in Caller : pc'[d] = "calling" <=> pc[d] = "calling",
         \A d \in Caller : pc[d] = "calling" => idx'[d] = idx[d]
  PROVE  \A s \in Source : BreakerInv(s)'
<1> SUFFICES ASSUME NEW s \in Source PROVE BreakerInv(s)'
  OBVIOUS
<1>1. Calling(s)' = Calling(s)
  BY DEF Calling
<1>2. QED
  BY <1>1, BreakerKept

LEMMA HitInv == ASSUME MarketInv, NEW c \in Caller, Hit(c) PROVE MarketInv'
<1>1. /\ age' = [age EXCEPT ![c] = now - cache.at] /\ now < cache.till
      /\ UNCHANGED <<now, breaker, cache, pc, idx, since, probe, quote, burst>>
  BY DEF Hit, Give
<1>2. Shape'
  BY <1>1 DEF MarketInv, Shape
<1>3. CacheInv'
  BY <1>1 DEF MarketInv, CacheInv
<1>4. now - cache.at <= QuoteTTL + MaxCall
  BY <1>1, MaxCallAssumption, QuoteTTLAssumption DEF MarketInv, CacheInv, Shape
<1>5. ASSUME NEW d \in Caller PROVE CallerInv(d)'
  BY <1>1, <1>4 DEF MarketInv, CallerInv, Shape
<1>6. \A s \in Source : BreakerInv(s)'
  BY <1>1, NowIsNat, Unnoticed
<1>7. QED
  BY <1>2, <1>3, <1>5, <1>6 DEF MarketInv

LEMMA MissInv == ASSUME MarketInv, NEW c \in Caller, Miss(c) PROVE MarketInv'
<1>1. /\ pc[c] = "idle" /\ pc' = [pc EXCEPT ![c] = "asking"]
      /\ UNCHANGED <<now, breaker, cache, idx, since, probe, quote, age, burst>>
  BY DEF Miss, Goto
<1>2. Shape' /\ CacheInv' /\ pc'[c] = "asking" /\ \A d \in Caller \ {c} : pc'[d] = pc[d]
  BY <1>1 DEF MarketInv, Shape, CacheInv
<1>3. ASSUME NEW d \in Caller PROVE CallerInv(d)'
  BY <1>1, <1>2 DEF MarketInv, CallerInv
<1>4. \A s \in Source : BreakerInv(s)'
  BY <1>1, <1>2, NowIsNat, Unnoticed
<1>5. QED
  BY <1>2, <1>3, <1>4 DEF MarketInv

LEMMA SkipInv == ASSUME MarketInv, NEW c \in Caller, Skip(c) PROVE MarketInv'
<1>1. /\ pc[c] = "asking" /\ idx[c] <= Len(Chain) /\ idx' = [idx EXCEPT ![c] = idx[c] + 1]
      /\ UNCHANGED <<now, breaker, cache, pc, since, probe, quote, age, burst>>
  BY DEF Skip
<1>2. Len(Chain) \in Nat
  BY ChainAssumption
<1>3. Shape' /\ CacheInv' /\ \A d \in Caller \ {c} : idx'[d] = idx[d]
  BY <1>1, <1>2 DEF MarketInv, Shape, CacheInv
<1>4. ASSUME NEW d \in Caller PROVE CallerInv(d)'
  BY <1>1, <1>3 DEF MarketInv, CallerInv
<1>5. \A s \in Source : BreakerInv(s)'
  BY <1>1, <1>3, NowIsNat, Unnoticed
<1>6. QED
  BY <1>3, <1>4, <1>5 DEF MarketInv

LEMMA AllDownInv == ASSUME MarketInv, NEW c \in Caller, AllDown(c) PROVE MarketInv'
<1>1. /\ pc[c] = "asking" /\ pc' = [pc EXCEPT ![c] = "idle"]
      /\ idx' = [idx EXCEPT ![c] = 1] /\ quote' = [quote EXCEPT ![c] = 0]
      /\ UNCHANGED <<now, breaker, cache, since, probe, age, burst>>
  BY DEF AllDown, Return, Goto
<1>2. Len(Chain) \in Nat
  BY ChainAssumption
<1>3. /\ Shape' /\ CacheInv' /\ pc'[c] = "idle"
      /\ \A d \in Caller \ {c} : pc'[d] = pc[d] /\ idx'[d] = idx[d] /\ quote'[d] = quote[d]
  BY <1>1, <1>2 DEF MarketInv, Shape, CacheInv
<1>4. ASSUME NEW d \in Caller PROVE CallerInv(d)'
  BY <1>1, <1>3 DEF MarketInv, CallerInv
<1>5. \A s \in Source : BreakerInv(s)'
  BY <1>1, <1>3, NowIsNat, Unnoticed
<1>6. QED
  BY <1>3, <1>4, <1>5 DEF MarketInv

LEMMA StoreInv == ASSUME MarketInv, NEW c \in Caller, Store(c) PROVE MarketInv'
<1>1. /\ pc[c] = "storing" /\ pc' = [pc EXCEPT ![c] = "idle"]
      /\ idx' = [idx EXCEPT ![c] = 1] /\ quote' = [quote EXCEPT ![c] = 0]
      /\ age' = [age EXCEPT ![c] = now - quote[c]]
      /\ cache' = [at |-> quote[c], till |-> now + QuoteTTL] \/ cache' = cache
      /\ UNCHANGED <<now, breaker, since, probe, burst>>
  BY DEF Store, Return, Goto, Give
<1>2. /\ Len(Chain) \in Nat /\ quote[c] \in Nat /\ now \in Nat
      /\ now - quote[c] <= MaxCall /\ now - quote[c] \in Int
  BY <1>1, ChainAssumption DEF MarketInv, Shape, CallerInv
<1>3. /\ cache'.at \in Int /\ cache'.till \in Int
      /\ cache'.till - cache'.at <= QuoteTTL + MaxCall
  BY <1>1, <1>2, MaxCallAssumption, QuoteTTLAssumption DEF MarketInv, Shape, CacheInv
<1>4. /\ Shape' /\ CacheInv' /\ pc'[c] = "idle" /\ age'[c] = now - quote[c]
      /\ \A d \in Caller \ {c} :
           pc'[d] = pc[d] /\ idx'[d] = idx[d] /\ quote'[d] = quote[d] /\ age'[d] = age[d]
  <2>1. Shape'
    <3>1. /\ pc' \in [Caller -> {"idle", "asking", "calling", "storing"}]
          /\ idx' \in [Caller -> 1..(Len(Chain) + 1)]
          /\ quote' \in [Caller -> Nat] /\ age' \in [Caller -> Int]
      BY <1>1, <1>2 DEF MarketInv, Shape
    <3>2. QED
      BY <1>1, <1>3, <3>1 DEF MarketInv, Shape
  <2>2. CacheInv'
    BY <1>3 DEF CacheInv
  <2>3. QED
    BY <1>1, <2>1, <2>2 DEF MarketInv, Shape
<1>5. ASSUME NEW d \in Caller PROVE CallerInv(d)'
  <2>1. CASE d = c
    BY <1>2, <1>4, <2>1, MaxCallAssumption, QuoteTTLAssumption DEF CallerInv
  <2>2. CASE d # c
    BY <1>1, <1>4, <2>2 DEF MarketInv, CallerInv
  <2>3. QED
    BY <2>1, <2>2
<1>6. \A s \in Source : BreakerInv(s)'
  BY <1>1, <1>4, NowIsNat, Unnoticed
<1>7. QED
  BY <1>4, <1>5, <1>6 DEF MarketInv

LEMMA TickInv == ASSUME MarketInv, Tick PROVE MarketInv'
<1>1. /\ now' = now + 1 /\ now \in Nat
      /\ \A c \in Caller : \/ pc[c] = "idle"
                           \/ pc[c] = "calling" /\ now - since[c] < MaxCall
      /\ UNCHANGED <<breaker, cache, pc, idx, since, probe, quote, age, burst>>
  BY DEF Tick, MarketInv, Shape
<1>2. Shape' /\ CacheInv'
  BY <1>1 DEF MarketInv, Shape, CacheInv
<1>3. ASSUME NEW c \in Caller PROVE CallerInv(c)'
  <2>1. since[c] \in Nat /\ MaxCall \in Nat
    BY MaxCallAssumption DEF MarketInv, Shape
  <2>2. QED
    BY <1>1, <2>1 DEF MarketInv, CallerInv
<1>4. \A s \in Source : BreakerInv(s)'
  BY <1>1, Unnoticed
<1>5. QED
  BY <1>2, <1>3, <1>4 DEF MarketInv

----------------------------------------------------------------------------
(* Steps of a breaker *)

LEMMA AskInv == ASSUME MarketInv, NEW c \in Caller, Ask(c) PROVE MarketInv'
<1>0. /\ pc[c] = "asking" /\ idx[c] \in 1..Len(Chain) /\ Len(Chain) \in Nat /\ now \in Nat
  BY ChainAssumption DEF Ask, MarketInv, Shape
<1>1. PICK s \in Source : s = Chain[idx[c]]
  BY <1>0, AtSource
<1>2. /\ Allows(breaker[s], now)
      /\ breaker' = [breaker EXCEPT ![s] = Passed(breaker[s], now)]
      /\ probe' = [probe EXCEPT ![c] = breaker[s].state # "closed"]
      /\ since' = [since EXCEPT ![c] = now]
      /\ pc' = [pc EXCEPT ![c] = "calling"]
      /\ UNCHANGED <<now, cache, idx, quote, age, burst>>
  BY <1>1 DEF Ask, Goto
<1>4. /\ Shape' /\ CacheInv' /\ pc'[c] = "calling" /\ since'[c] = now
      /\ probe'[c] = (breaker[s].state # "closed")
      /\ \A d \in Caller \ {c} : pc'[d] = pc[d] /\ since'[d] = since[d] /\ probe'[d] = probe[d]
      /\ breaker'[s] = Passed(breaker[s], now)
      /\ \A t \in Source \ {s} : breaker'[t] = breaker[t]
  BY <1>0, <1>2 DEF MarketInv, Shape, CacheInv
<1>5. ASSUME NEW d \in Caller PROVE CallerInv(d)'
  BY <1>0, <1>2, <1>4, MaxCallAssumption DEF MarketInv, CallerInv
<1>6. Calling(s)' = Calling(s) \cup {c} /\ \A t \in Source \ {s} : Calling(t)' = Calling(t)
  BY <1>0, <1>1, <1>2, <1>4 DEF Calling
<1>7. c \notin Calling(s) /\ \A t \in Source : c \notin Calling(t) /\ Calling(t) \subseteq Caller
  BY <1>0 DEF Calling
<1>8. ASSUME NEW t \in Source \ {s} PROVE BreakerInv(t)'
  BY <1>0, <1>2, <1>4, <1>6, <1>7, BreakerKept
<1>9. BreakerInv(s)'
  <2>1. Sound(breaker[s], Calling(s), now, since, probe)
    BY DEF MarketInv, BreakerInv
  <2>2. breaker[s].state = "closed" \/ Calling(s) = {}
    BY <1>2, <2>1, CooledIsQuiet DEF Allows, Sound
  <2>3. Sound(Passed(breaker[s], now), Calling(s) \cup {c}, now, since', probe')
    BY <1>0, <1>4, <2>1, <2>2, PassedFacts
  <2>4. QED
    BY <1>2, <1>4, <1>6, <2>3 DEF BreakerInv
<1>10. QED
  BY <1>4, <1>5, <1>8, <1>9 DEF MarketInv

(* A call that ends: c is no longer among the calls of its source. *)
LEMMA EndOfCall ==
  ASSUME MarketInv, NEW c \in Caller, pc[c] = "calling", pc'[c] # "calling",
         NEW s \in Source, s = Chain[idx[c]], now' = now,
         \A d \in Caller \ {c} : /\ pc'[d] = pc[d] /\ idx'[d] = idx[d]
                                 /\ since'[d] = since[d] /\ probe'[d] = probe[d],
         \A t \in Source \ {s} : breaker'[t] = breaker[t]
  PROVE  /\ Calling(s)' = Calling(s) \ {c} /\ c \in Calling(s)
         /\ \A d \in Calling(s) \ {c} : since[d] <= now
         /\ \A t \in Source \ {s} : BreakerInv(t)'
<1>1. Calling(s)' = Calling(s) \ {c} /\ c \in Calling(s)
  BY DEF Calling
<1>2. ASSUME NEW t \in Source \ {s} PROVE BreakerInv(t)'
  <2>1. Calling(t)' = Calling(t) /\ c \notin Calling(t) /\ Calling(t) \subseteq Caller
    BY DEF Calling
  <2>2. \A d \in Calling(t) : since'[d] = since[d] /\ probe'[d] = probe[d]
    BY <2>1
  <2>3. now' \in Nat /\ now' >= now
    BY DEF MarketInv, Shape
  <2>4. QED
    BY <2>1, <2>2, <2>3, BreakerKept
<1>3. \A d \in Calling(s) \ {c} : since[d] <= now
  BY DEF Calling, MarketInv, CallerInv
<1>4. QED
  BY <1>1, <1>2, <1>3

LEMMA AnswerInv == ASSUME MarketInv, NEW c \in Caller, Answer(c) PROVE MarketInv'
<1>1. PICK at \in since[c]..now : quote' = [quote EXCEPT ![c] = at]
  BY DEF Answer
<1>2. /\ pc[c] = "calling" /\ Len(Chain) \in Nat /\ now \in Nat /\ idx[c] \in 1..Len(Chain)
      /\ since[c] \in Nat /\ now - since[c] <= MaxCall
  BY ChainAssumption DEF Answer, MarketInv, Shape, CallerInv
<1>3. PICK s \in Source : s = Chain[idx[c]]
  BY <1>2, AtSource
<1>4. /\ breaker' = [breaker EXCEPT ![s] = Succeeded(breaker[s])]
      /\ probe' = [probe EXCEPT ![c] = FALSE] /\ since' = [since EXCEPT ![c] = 0]
      /\ pc' = [pc EXCEPT ![c] = "storing"]
      /\ UNCHANGED <<now, cache, idx, age>>
  BY <1>3 DEF Answer, Goto
<1>5. at \in Nat /\ at <= now /\ now - at <= MaxCall
  BY <1>2, MaxCallAssumption
<1>6. /\ Shape' /\ CacheInv' /\ pc'[c] = "storing" /\ quote'[c] = at
      /\ breaker'[s] = Succeeded(breaker[s]) /\ \A t \in Source \ {s} : breaker'[t] = breaker[t]
      /\ \A d \in Caller \ {c} : /\ pc'[d] = pc[d] /\ since'[d] = since[d] /\ probe'[d] = probe[d]
                                 /\ quote'[d] = quote[d] /\ idx'[d] = idx[d]
      /\ now' = now
  BY <1>1, <1>2, <1>4, <1>5 DEF MarketInv, Shape, CacheInv
<1>7. ASSUME NEW d \in Caller PROVE CallerInv(d)'
  BY <1>2, <1>4, <1>5, <1>6 DEF MarketInv, CallerInv
<1>8. /\ Calling(s)' = Calling(s) \ {c} /\ c \in Calling(s)
      /\ \A t \in Source \ {s} : BreakerInv(t)'
  BY <1>2, <1>3, <1>6, EndOfCall, SMTT(30)
<1>9. BreakerInv(s)'
  <2>1. Sound(breaker[s], Calling(s), now, since, probe)
    BY DEF MarketInv, BreakerInv
  <2>2. \A d \in Calling(s) \ {c} : since'[d] = since[d] /\ probe'[d] = probe[d]
    BY <1>6 DEF Calling
  <2>3. Sound(Succeeded(breaker[s]), Calling(s) \ {c}, now, since', probe')
    BY <1>2, <1>8, <2>1, <2>2, SucceededFacts
  <2>4. QED
    BY <1>4, <1>6, <1>8, <2>3 DEF BreakerInv
<1>10. QED
  BY <1>6, <1>7, <1>8, <1>9 DEF MarketInv

LEMMA ErrorInv == ASSUME MarketInv, NEW c \in Caller, Error(c) PROVE MarketInv'
<1>1. /\ pc[c] = "calling" /\ Len(Chain) \in Nat /\ now \in Nat /\ idx[c] \in 1..Len(Chain)
  BY ChainAssumption DEF Error, MarketInv, Shape, CallerInv
<1>2. PICK s \in Source : s = Chain[idx[c]]
  BY <1>1, AtSource
<1>3. /\ breaker' = [breaker EXCEPT ![s] = Failed(breaker[s], now)]
      /\ probe' = [probe EXCEPT ![c] = FALSE] /\ since' = [since EXCEPT ![c] = 0]
      /\ idx' = [idx EXCEPT ![c] = idx[c] + 1]
      /\ pc' = [pc EXCEPT ![c] = "asking"]
      /\ UNCHANGED <<now, cache, quote, age>>
  BY <1>2 DEF Error, Goto
<1>4. /\ breaker' = [r \in Source |-> breaker'[r]]
      /\ breaker'[s] = Failed(breaker[s], now) /\ \A t \in Source \ {s} : breaker'[t] = breaker[t]
  BY <1>3 DEF MarketInv, Shape
<1>5. idx' \in [Caller -> 1..(Len(Chain) + 1)]
  BY <1>1, <1>3 DEF MarketInv, Shape
<1>6. /\ Shape' /\ CacheInv' /\ pc'[c] = "asking"
      /\ \A d \in Caller \ {c} : /\ pc'[d] = pc[d] /\ idx'[d] = idx[d]
                                 /\ since'[d] = since[d] /\ probe'[d] = probe[d]
  BY <1>1, <1>3, <1>4, <1>5 DEF MarketInv, Shape, CacheInv
<1>7. ASSUME NEW d \in Caller PROVE CallerInv(d)'
  BY <1>1, <1>3, <1>6 DEF MarketInv, CallerInv
<1>8. /\ Calling(s)' = Calling(s) \ {c} /\ c \in Calling(s)
      /\ \A d \in Calling(s) \ {c} : since[d] <= now
      /\ \A t \in Source \ {s} : BreakerInv(t)'
  BY <1>1, <1>2, <1>3, <1>4, <1>6, EndOfCall
<1>9. BreakerInv(s)'
  <2>1. Sound(breaker[s], Calling(s), now, since, probe)
    BY DEF MarketInv, BreakerInv
  <2>2. \A d \in Calling(s) \ {c} : since'[d] = since[d] /\ probe'[d] = probe[d]
    BY <1>6 DEF Calling
  <2>3. Sound(Failed(breaker[s], now), Calling(s) \ {c}, now, since', probe')
    BY <1>1, <1>8, <2>1, <2>2, FailedFacts
  <2>4. QED
    BY <1>3, <1>4, <1>8, <2>3 DEF BreakerInv
<1>10. QED
  BY <1>6, <1>7, <1>8, <1>9 DEF MarketInv

LEMMA PeekInv == ASSUME MarketInv, NEW s \in Source, Peek(s) PROVE MarketInv'
<1>1. /\ breaker' = [breaker EXCEPT ![s] = Swept(Peeked(breaker[s], now), now)]
      /\ UNCHANGED <<now, cache, pc, idx, since, probe, quote, age>>
  BY DEF Peek
<1>2. /\ Shape' /\ CacheInv' /\ \A c \in Caller : CallerInv(c)'
      /\ breaker'[s] = Swept(Peeked(breaker[s], now), now)
      /\ \A t \in Source \ {s} : breaker'[t] = breaker[t]
      /\ now \in Nat
  BY <1>1 DEF MarketInv, Shape, CacheInv, CallerInv
<1>3. \A t \in Source : Calling(t)' = Calling(t)
  BY <1>1 DEF Calling
<1>4. ASSUME NEW t \in Source \ {s} PROVE BreakerInv(t)'
  BY <1>1, <1>2, <1>3, BreakerKept
<1>5. BreakerInv(s)'
  <2>1. Sound(breaker[s], Calling(s), now, since, probe)
    BY DEF MarketInv, BreakerInv
  <2>2. breaker[s].state = "open" /\ Cooled(breaker[s], now) => Calling(s) = {}
    BY CooledIsQuiet
  <2>3. Sound(Swept(Peeked(breaker[s], now), now), Calling(s), now, since, probe)
    BY <1>2, <2>1, <2>2, PeekedFacts
  <2>4. QED
    BY <1>1, <1>2, <1>3, <2>3 DEF BreakerInv
<1>6. QED
  BY <1>2, <1>4, <1>5 DEF MarketInv

LEMMA NextMarket == MarketInv /\ [Next]_vars => MarketInv'
<1> SUFFICES ASSUME MarketInv, [Next]_vars PROVE MarketInv'
  OBVIOUS
<1>1. CASE UNCHANGED vars
  <2>1. Shape' /\ CacheInv' /\ (\A c \in Caller : CallerInv(c)') /\ now \in Nat
    BY <1>1 DEF MarketInv, Shape, CacheInv, CallerInv, vars
  <2>2. \A s \in Source : BreakerInv(s)'
    BY <1>1, <2>1, Unnoticed DEF vars
  <2>3. QED
    BY <2>1, <2>2 DEF MarketInv
<1>2. QED
  BY <1>1, HitInv, MissInv, AskInv, SkipInv, AllDownInv, AnswerInv, ErrorInv, StoreInv, PeekInv,
     TickInv DEF Next

----------------------------------------------------------------------------
(* What the breakers count *)

Later(times, t) == {i \in DOMAIN times : times[i] > t}

LaterCount(times, t) == Cardinality(Later(times, t))

(***************************************************************************)
(* A closed breaker counts the failures of its window since it last        *)
(* closed, each of them once, and they are fewer than Threshold.           *)
(***************************************************************************)
Covered(b, times, t) ==
  /\ b.failures \in Seq(Nat) /\ times \in Seq(Nat)
  /\ b.state = "closed" =>
       /\ \A m \in Int : m >= t - Window => LaterCount(b.failures, m) = LaterCount(times, m)
       /\ LaterCount(times, t - Window) < Threshold

BurstInv == \A s \in Source : Covered(breaker[s], burst[s], now)

LEMMA LaterFinite ==
  ASSUME NEW times \in Seq(Nat), NEW t \in Int
  PROVE  IsFiniteSet(Later(times, t)) /\ LaterCount(times, t) \in Nat
<1>1. DOMAIN times = 1..Len(times) /\ Len(times) \in Nat
  OBVIOUS
<1>2. Later(times, t) \subseteq 1..Len(times)
  BY <1>1 DEF Later
<1>3. IsFiniteSet(Later(times, t))
  BY <1>1, <1>2, FS_Interval, FS_Subset, IsFiniteSet(1..Len(times))
<1>4. QED
  BY <1>3, FS_CardinalityType DEF LaterCount

(* A sweep keeps times, and drops none of the window. *)
LEMMA SweepCount ==
  ASSUME NEW times \in Seq(Nat), NEW n \in Int, NEW t \in Int
  PROVE  /\ Recent(times, n) \in Seq(Nat)
         /\ Len(Recent(times, n)) = LaterCount(times, n - Window)
         /\ LaterCount(Recent(times, n), t) <= LaterCount(times, t)
         /\ t >= n - Window => LaterCount(Recent(times, n), t) = LaterCount(times, t)
<1> DEFINE K == Later(times, n - Window)
           kept == Sublist(times, K)
           V == {x \in Nat : x > t}
<1>1. IsList(times) /\ K \in SUBSET DOMAIN times /\ Window \in Nat
  BY SeqIsList, BreakerAssumption DEF Later
<1>2. Recent(times, n) = kept
  BY DEF Recent, Later
<1>3. DOMAIN kept = 1..Cardinality(K) /\ Cardinality(K) \in Nat /\ IsList(kept)
  BY <1>1, SublistPlaces, SublistIsList
<1>4. \A k \in DOMAIN times : times[k] \in Nat
  OBVIOUS
<1>5. ASSUME NEW k \in 1..Cardinality(K) PROVE kept[k] \in Nat
  <2>1. \E i \in K : kept[k] = times[i]
    BY <1>1, <1>3, SublistElement
  <2> HIDE DEF K, kept
  <2>2. QED
    BY <1>1, <1>4, <2>1
<1>6. kept \in Seq(Nat) /\ Len(kept) = Cardinality(K)
  <2>1. kept = [k \in 1..Cardinality(K) |-> kept[k]]
    BY DEF Sublist
  <2> HIDE DEF K, kept
  <2>2. kept \in [1..Cardinality(K) -> Nat]
    BY <1>5, <2>1
  <2>3. QED
    BY <1>3, <2>2
<1>7. Cardinality({k \in DOMAIN kept : kept[k] \in V}) = Cardinality({i \in K : times[i] \in V})
  <2> HIDE DEF K, V
  <2>1. IsList(times) /\ K \in SUBSET DOMAIN times
    BY <1>1
  <2>2. \A W : Cardinality({k \in DOMAIN Sublist(times, K) : Sublist(times, K)[k] \in W})
                 = Cardinality({i \in K : times[i] \in W})
    BY <2>1, SublistCount
  <2> HIDE DEF kept
  <2>3. kept = Sublist(times, K)
    BY DEF kept
  <2>4. QED
    BY <2>2, <2>3
<1>8. {k \in DOMAIN kept : kept[k] \in V} = Later(kept, t)
  <2> HIDE DEF K, kept
  <2>1. QED
    BY <1>3, <1>5 DEF Later
<1>9. {i \in K : times[i] \in V} \subseteq Later(times, t)
  BY DEF Later
<1>10. ASSUME t >= n - Window PROVE {i \in K : times[i] \in V} = Later(times, t)
  BY <1>1, <1>4, <1>10 DEF Later
<1>11. Cardinality({i \in K : times[i] \in V}) <= LaterCount(times, t)
  BY <1>9, LaterFinite, FS_Subset DEF LaterCount
<1>12. LaterCount(kept, t) = Cardinality({i \in K : times[i] \in V})
  BY <1>7, <1>8 DEF LaterCount
<1>13. n - Window \in Int
  BY <1>1
<1>14. QED
  <2> HIDE DEF K, kept, V
  <2>1. LaterCount(kept, t) <= LaterCount(times, t)
    BY <1>11, <1>12
  <2>2. t >= n - Window => LaterCount(kept, t) = LaterCount(times, t)
    BY <1>10, <1>12 DEF LaterCount
  <2>3. Cardinality(K) = LaterCount(times, n - Window)
    BY DEF K, LaterCount
  <2>4. QED
    BY <1>2, <1>6, <2>1, <2>2, <2>3

LEMMA NotedCount ==
  ASSUME NEW times \in Seq(Nat), NEW n \in Nat, NEW t \in Int
  PROVE  /\ Append(times, n) \in Seq(Nat)
         /\ LaterCount(Append(times, n), t) = LaterCount(times, t) + (IF n > t THEN 1 ELSE 0)
<1> DEFINE more == Append(times, n)
           last == Len(times) + 1
<1>1. /\ Len(times) \in Nat /\ DOMAIN times = 1..Len(times) /\ DOMAIN more = 1..last
      /\ more[last] = n /\ \A i \in 1..Len(times) : more[i] = times[i]
      /\ more \in Seq(Nat)
  OBVIOUS
<1>2. IsFiniteSet(Later(times, t)) /\ LaterCount(times, t) \in Nat /\ last \notin Later(times, t)
  <2>1. last \notin Later(times, t)
    BY <1>1 DEF Later
  <2>2. QED
    BY <2>1, LaterFinite
<1> HIDE DEF more
<1>3. CASE n > t
  <2>1. Later(more, t) = Later(times, t) \cup {last}
    BY <1>1, <1>3 DEF Later
  <2>2. Cardinality(Later(times, t) \cup {last}) = Cardinality(Later(times, t)) + 1
    BY <1>2, FS_AddElement
  <2>3. QED
    BY <1>1, <1>3, <2>1, <2>2 DEF LaterCount, more
<1>4. CASE ~(n > t)
  <2>1. Later(more, t) = Later(times, t)
    BY <1>1, <1>4 DEF Later
  <2>2. QED
    BY <1>1, <1>2, <1>4, <2>1 DEF LaterCount, more
<1>5. QED
  BY <1>3, <1>4

LEMMA EmptyCount == \A m \in Int : LaterCount(<<>>, m) = 0
<1>1. \A m \in Int : Later(<<>>, m) = {}
  BY DEF Later
<1>2. QED
  BY <1>1, FS_EmptySet DEF LaterCount

LEMMA SweptCovered ==
  ASSUME NEW b, NEW times, NEW t \in Nat, Covered(b, times, t), b = Cell(b)
  PROVE  Covered(Swept(b, t), times, t) /\ Swept(b, t) = Cell(Swept(b, t))
<1> DEFINE p == Swept(b, t)
<1>1. p = Cell(p) /\ p.state = b.state /\ p.failures = Recent(b.failures, t)
  BY DEF Swept, Cell
<1> HIDE DEF p
<1>2. b.failures \in Seq(Nat) /\ times \in Seq(Nat) /\ Recent(b.failures, t) \in Seq(Nat)
  BY SweepCount DEF Covered
<1>3. ASSUME b.state = "closed", NEW m \in Int, m >= t - Window
      PROVE  LaterCount(p.failures, m) = LaterCount(times, m)
  <2>1. LaterCount(p.failures, m) = LaterCount(b.failures, m)
    BY <1>1, <1>2, <1>3, SweepCount
  <2>2. LaterCount(b.failures, m) = LaterCount(times, m)
    BY <1>3 DEF Covered
  <2>3. QED
    BY <2>1, <2>2
<1>4. Covered(p, times, t)
  BY <1>1, <1>2, <1>3 DEF Covered
<1>5. QED
  BY <1>1, <1>4 DEF p

LEMMA PassedCovered ==
  ASSUME NEW b, NEW times, NEW t \in Nat, Covered(b, times, t), b = Cell(b)
  PROVE  /\ Covered(Passed(b, t), times, t)
         /\ b.state = "closed" => Passed(b, t).state = "closed"
<1>1. CASE b.state = "closed"
  <2>1. Passed(b, t) = Swept(b, t) /\ Swept(b, t).state = b.state
    BY <1>1 DEF Passed, Swept, Cell
  <2>2. QED
    BY <1>1, <2>1, SweptCovered
<1>2. CASE b.state # "closed"
  <2> DEFINE p == Passed(b, t)
  <2>1. p.state = "half-open" /\ p.failures = b.failures
    BY <1>2 DEF Passed, Cell
  <2> HIDE DEF p
  <2>2. Covered(p, times, t)
    BY <2>1 DEF Covered
  <2>3. QED
    BY <1>2, <2>2 DEF p
<1>3. QED
  BY <1>1, <1>2

LEMMA PeekedCovered ==
  ASSUME NEW b, NEW times, NEW t \in Nat, Covered(b, times, t), b = Cell(b)
  PROVE  /\ Covered(Swept(Peeked(b, t), t), times, t)
         /\ b.state = "closed" => Swept(Peeked(b, t), t).state = "closed"
<1>1. CASE b.state = "open" /\ Cooled(b, t)
  <2> DEFINE p == Peeked(b, t)
  <2>1. p = [b EXCEPT !.state = "half-open", !.probing = FALSE]
    BY <1>1 DEF Peeked
  <2>2. p = Cell(p) /\ p.state = "half-open" /\ p.failures = b.failures
    BY <2>1 DEF Cell
  <2> HIDE DEF p
  <2>3. Covered(p, times, t)
    BY <2>2 DEF Covered
  <2>4. Covered(Swept(p, t), times, t)
    BY <2>2, <2>3, SweptCovered
  <2>5. QED
    BY <1>1, <2>4 DEF p
<1>2. CASE ~(b.state = "open" /\ Cooled(b, t))
  <2>1. Peeked(b, t) = b
    BY <1>2 DEF Peeked
  <2>2. Swept(b, t).state = b.state
    BY DEF Swept, Cell
  <2>3. QED
    BY <2>1, <2>2, SweptCovered
<1>3. QED
  BY <1>1, <1>2

LEMMA SucceededCovered ==
  ASSUME NEW b, NEW times, NEW t \in Nat, Covered(b, times, t), b = Cell(b)
  PROVE  /\ b.state # "closed" /\ Succeeded(b).state = "closed" => Covered(Succeeded(b), <<>>, t)
         /\ ~(b.state # "closed" /\ Succeeded(b).state = "closed") => Covered(Succeeded(b), times, t)
         /\ b.state = "closed" => Succeeded(b).state = "closed"
<1>1. CASE b.state = "half-open"
  <2> DEFINE p == Succeeded(b)
  <2>1. p.state = "closed" /\ p.failures = <<>>
    BY <1>1 DEF Succeeded, Cell
  <2> HIDE DEF p
  <2>2. <<>> \in Seq(Nat) /\ LaterCount(<<>>, t - Window) < Threshold
    BY EmptyCount, BreakerAssumption
  <2>3. Covered(p, <<>>, t)
    BY <2>1, <2>2 DEF Covered
  <2>4. QED
    BY <1>1, <2>1, <2>3 DEF p
<1>2. CASE b.state # "half-open"
  <2>1. Succeeded(b) = b
    BY <1>2 DEF Succeeded
  <2>2. QED
    BY <2>1
<1>3. QED
  BY <1>1, <1>2

(* A failure that trips the breaker is one of Threshold in the window. *)
LEMMA FailedCovered ==
  ASSUME NEW b, NEW times, NEW t \in Nat, Covered(b, times, t), b = Cell(b),
         b.state \in {"closed", "open", "half-open"}
  PROVE  LET then == Append(Recent(times, t), t)
         IN /\ Covered(Failed(b, t), then, t)
            /\ b.state = "closed" /\ Failed(b, t).state # "closed" =>
                 Len(Recent(then, t)) >= Threshold
<1> DEFINE then == Append(Recent(times, t), t)
           noted == Append(b.failures, t)
           p == Failed(b, t)
           one(m) == IF t > m THEN 1 ELSE 0
<1>1. /\ b.failures \in Seq(Nat) /\ times \in Seq(Nat)
      /\ Recent(times, t) \in Seq(Nat)
  BY SweepCount DEF Covered
<1>2. then \in Seq(Nat) /\ noted \in Seq(Nat) /\ Recent(noted, t) \in Seq(Nat)
  <2>1. then \in Seq(Nat) /\ noted \in Seq(Nat)
    BY <1>1
  <2> HIDE DEF noted
  <2>2. Recent(noted, t) \in Seq(Nat)
    BY <2>1, SweepCount
  <2>3. QED
    BY <2>1, <2>2
<1>3. ASSUME b.state = "closed", NEW m \in Int, m >= t - Window
      PROVE  LaterCount(Recent(noted, t), m) = LaterCount(then, m)
  <2>1. LaterCount(Recent(noted, t), m) = LaterCount(noted, m)
    <3> HIDE DEF noted
    <3>1. QED
      BY <1>2, <1>3, SweepCount
  <2>2. LaterCount(noted, m) = LaterCount(b.failures, m) + one(m)
    BY <1>1, NotedCount
  <2>3. LaterCount(then, m) = LaterCount(Recent(times, t), m) + one(m)
    BY <1>1, NotedCount
  <2>4. LaterCount(Recent(times, t), m) = LaterCount(times, m)
    BY <1>1, <1>3, SweepCount
  <2>5. LaterCount(b.failures, m) = LaterCount(times, m)
    BY <1>3 DEF Covered
  <2>6. /\ LaterCount(b.failures, m) \in Nat /\ LaterCount(times, m) \in Nat
        /\ LaterCount(noted, m) \in Nat /\ LaterCount(Recent(noted, t), m) \in Nat
    BY <1>1, <1>2, LaterFinite
  <2> HIDE DEF then, noted
  <2>7. QED
    BY <2>1, <2>2, <2>3, <2>4, <2>5, <2>6
<1> HIDE DEF then
<1>4. CASE b.state = "closed"
  <2>1. /\ p.state = "open" \/ p.state = "closed"
        /\ p.failures = Recent(noted, t)
        /\ p.state = "open" <=> Len(Recent(noted, t)) >= Threshold
    <3> HIDE DEF noted
    <3>1. p = IF Len(Recent(noted, t)) >= Threshold
              THEN [b EXCEPT !.state = "open", !.openedAt = t, !.failures = Recent(noted, t)]
              ELSE [b EXCEPT !.failures = Recent(noted, t)]
      BY <1>4 DEF Failed, noted
    <3> HIDE DEF p
    <3>2. CASE Len(Recent(noted, t)) >= Threshold
      BY <3>1, <3>2 DEF Cell
    <3>3. CASE ~(Len(Recent(noted, t)) >= Threshold)
      BY <1>4, <3>1, <3>3 DEF Cell
    <3>4. QED
      BY <3>2, <3>3
  <2> HIDE DEF p, noted
  <2>2. /\ Len(Recent(then, t)) = LaterCount(then, t - Window)
        /\ Len(Recent(noted, t)) = LaterCount(then, t - Window)
        /\ LaterCount(then, t - Window) \in Nat
    <3>1. t - Window \in Int /\ t - Window >= t - Window /\ t \in Int /\ Threshold \in Nat
      BY BreakerAssumption
    <3>2. /\ Len(Recent(then, t)) = LaterCount(then, t - Window)
          /\ Len(Recent(noted, t)) = LaterCount(noted, t - Window)
          /\ LaterCount(Recent(noted, t), t - Window) = LaterCount(noted, t - Window)
      BY <1>2, <3>1, SweepCount
    <3>3. LaterCount(Recent(noted, t), t - Window) = LaterCount(then, t - Window)
      BY <1>3, <1>4, <3>1
    <3>4. LaterCount(then, t - Window) \in Nat
      BY <1>2, <3>1, LaterFinite
    <3>5. QED
      BY <3>2, <3>3, <3>4
  <2>3. Covered(p, then, t)
    <3>1. p.state = "closed" => LaterCount(then, t - Window) < Threshold
      BY <2>1, <2>2, BreakerAssumption
    <3>2. QED
      BY <1>2, <1>3, <1>4, <2>1, <3>1 DEF Covered
  <2>4. p.state # "closed" => Len(Recent(then, t)) >= Threshold
    BY <2>1, <2>2
  <2>5. QED
    BY <2>3, <2>4 DEF p, then
<1>5. CASE b.state # "closed"
  <2>1. p.state # "closed" /\ (p.failures = noted \/ p.failures = b.failures)
    <3>1. b.state = "open" => p = b
      BY DEF Failed
    <3>2. b.state = "half-open" =>
            p = [b EXCEPT !.state = "open", !.openedAt = t, !.probing = FALSE, !.failures = noted]
      BY DEF Failed
    <3> HIDE DEF p, noted
    <3>3. QED
      BY <1>5, <3>1, <3>2 DEF Cell
  <2> HIDE DEF p, noted
  <2>2. Covered(p, then, t)
    BY <1>1, <1>2, <2>1 DEF Covered
  <2>3. QED
    BY <1>5, <2>2 DEF p, then
<1>6. QED
  BY <1>4, <1>5

----------------------------------------------------------------------------
(* A closed breaker opens on a burst and on nothing else *)

LEMMA InitBurst == Init => BurstInv
<1> SUFFICES ASSUME Init, NEW s \in Source PROVE Covered(breaker[s], burst[s], now)
  BY DEF BurstInv
<1>1. breaker[s].failures = <<>> /\ burst[s] = <<>> /\ now = 0
  BY DEF Init, NewBreaker
<1>2. LaterCount(<<>>, 0 - Window) < Threshold
  BY EmptyCount, BreakerAssumption
<1>3. QED
  BY <1>1, <1>2 DEF Covered

(* What a source's breaker and its burst are after a step. *)
LEMMA BreakerStep ==
  ASSUME MarketInv, BurstInv, burst = [r \in Source |-> burst[r]], [Next]_vars, NEW s \in Source
  PROVE  /\ Covered(breaker'[s], burst'[s], now)
         /\ breaker[s].state = "closed" /\ breaker'[s].state # "closed" =>
              now' = now /\ Len(Recent(burst'[s], now)) >= Threshold
         /\ burst' = [r \in Source |-> burst'[r]]
<1> DEFINE Goal == /\ Covered(breaker'[s], burst'[s], now)
                   /\ breaker[s].state = "closed" /\ breaker'[s].state # "closed" =>
                        now' = now /\ Len(Recent(burst'[s], now)) >= Threshold
                   /\ burst' = [r \in Source |-> burst'[r]]
<1>1. /\ Covered(breaker[s], burst[s], now) /\ now \in Nat
      /\ breaker[s] = Cell(breaker[s]) /\ breaker[s].state \in {"closed", "open", "half-open"}
      /\ breaker = [r \in Source |-> breaker[r]]
  BY DEF BurstInv, MarketInv, Shape, BreakerInv, Sound
<1>2. ASSUME breaker' = breaker, burst' = burst PROVE Goal
  BY <1>1, <1>2
<1>3. ASSUME NEW c \in Caller, Ask(c) PROVE Goal
  <2>1. PICK r : breaker' = [breaker EXCEPT ![r] = Passed(breaker[r], now)] /\ burst' = burst
    BY <1>3 DEF Ask
  <2>2. CASE r = s
    BY <1>1, <2>1, <2>2, PassedCovered
  <2>3. CASE r # s
    BY <1>1, <2>1, <2>3
  <2>4. QED
    BY <2>2, <2>3
<1>4. ASSUME NEW c \in Caller, Answer(c) PROVE Goal
  <2>1. PICK r : /\ breaker' = [breaker EXCEPT ![r] = Succeeded(breaker[r])]
                 /\ burst' = IF breaker[r].state # "closed" /\ breaker'[r].state = "closed"
                             THEN [burst EXCEPT ![r] = <<>>] ELSE burst
    BY <1>4 DEF Answer
  <2>2. burst' = [q \in Source |-> burst'[q]]
    BY <2>1
  <2>3. CASE r = s
    <3>1. breaker'[s] = Succeeded(breaker[s])
      BY <1>1, <2>1, <2>3
    <3>2. CASE breaker[s].state # "closed" /\ Succeeded(breaker[s]).state = "closed"
      <4>1. burst'[s] = <<>>
        BY <2>1, <2>3, <3>1, <3>2
      <4>2. QED
        BY <1>1, <2>2, <3>1, <3>2, <4>1, SucceededCovered
    <3>3. CASE ~(breaker[s].state # "closed" /\ Succeeded(breaker[s]).state = "closed")
      <4>1. burst'[s] = burst[s]
        BY <2>1, <2>3, <3>1, <3>3
      <4>2. QED
        BY <1>1, <2>2, <3>1, <3>3, <4>1, SucceededCovered
    <3>4. QED
      BY <3>2, <3>3
  <2>4. CASE r # s
    <3>1. breaker'[s] = breaker[s] /\ burst'[s] = burst[s]
      BY <1>1, <2>1, <2>4
    <3>2. QED
      BY <1>1, <2>2, <3>1
  <2>5. QED
    BY <2>3, <2>4
<1>5. ASSUME NEW c \in Caller, Error(c) PROVE Goal
  <2>1. PICK r : /\ breaker' = [breaker EXCEPT ![r] = Failed(breaker[r], now)]
                 /\ burst' = [burst EXCEPT ![r] = Append(Recent(burst[r], now), now)]
                 /\ now' = now
    BY <1>5 DEF Error
  <2>2. burst' = [q \in Source |-> burst'[q]]
    BY <2>1
  <2>3. CASE r = s
    <3>1. breaker'[s] = Failed(breaker[s], now) /\ burst'[s] = Append(Recent(burst[s], now), now)
      BY <1>1, <2>1, <2>3
    <3>2. QED
      BY <1>1, <2>1, <2>2, <3>1, FailedCovered
  <2>4. CASE r # s
    <3>1. breaker'[s] = breaker[s] /\ burst'[s] = burst[s]
      BY <1>1, <2>1, <2>4
    <3>2. QED
      BY <1>1, <2>2, <3>1
  <2>5. QED
    BY <2>3, <2>4
<1>6. ASSUME NEW r \in Source, Peek(r) PROVE Goal
  <2>1. /\ breaker' = [breaker EXCEPT ![r] = Swept(Peeked(breaker[r], now), now)]
        /\ burst' = burst
    BY <1>6 DEF Peek
  <2>2. CASE r = s
    BY <1>1, <2>1, <2>2, PeekedCovered
  <2>3. CASE r # s
    BY <1>1, <2>1, <2>3
  <2>4. QED
    BY <2>2, <2>3
<1>7. \/ \E c \in Caller : Ask(c) \/ Answer(c) \/ Error(c)
      \/ \E r \in Source : Peek(r)
      \/ breaker' = breaker /\ burst' = burst
  BY DEF Next, vars, Hit, Miss, Skip, AllDown, Store, Tick
<1>8. Goal
  <2> HIDE DEF Goal
  <2>1. QED
    BY <1>2, <1>3, <1>4, <1>5, <1>6, <1>7
<1>9. QED
  BY <1>8

CountInv == MarketInv /\ BurstInv /\ burst = [s \in Source |-> burst[s]]

LEMMA InitCount == Init => CountInv
BY InitMarket, InitBurst DEF CountInv, Init

(* The window only moves forward. *)
LEMMA WindowMoves ==
  ASSUME NEW t \in Nat, NEW u \in Nat, u >= t
  PROVE  \A m \in Int : m >= u - Window => m >= t - Window
<1>1. Window \in Int
  BY BreakerAssumption
<1>2. QED
  BY <1>1

(* What a later window counts, an earlier one counts too. *)
LEMMA LaterShrinks ==
  ASSUME NEW times \in Seq(Nat), NEW t \in Int, NEW u \in Int, u >= t
  PROVE  LaterCount(times, u) <= LaterCount(times, t)
<1>1. Later(times, u) \subseteq Later(times, t)
  <2>1. \A k \in DOMAIN times : times[k] \in Nat
    OBVIOUS
  <2>2. QED
    BY <2>1 DEF Later
<1>2. IsFiniteSet(Later(times, t))
  BY LaterFinite
<1>3. QED
  BY <1>1, <1>2, FS_Subset DEF LaterCount

LEMMA NextCount == CountInv /\ [Next]_vars => CountInv'
<1> SUFFICES ASSUME CountInv, [Next]_vars PROVE CountInv'
  OBVIOUS
<1>1. MarketInv' /\ now \in Nat /\ now' \in Nat
  BY NextMarket, NowIsNat DEF CountInv, MarketInv, Shape
<1>2. now' >= now
  BY <1>1 DEF Next, vars, Hit, Miss, Ask, Skip, AllDown, Answer, Error, Store, Peek, Tick
<1>3. ASSUME NEW s \in Source PROVE Covered(breaker'[s], burst'[s], now')
  <2>1. Covered(breaker'[s], burst'[s], now)
    BY BreakerStep DEF CountInv
  <2>2. \A m \in Int : m >= now' - Window => m >= now - Window
    BY <1>1, <1>2, WindowMoves
  <2>3. breaker'[s].state = "closed" => LaterCount(burst'[s], now' - Window) < Threshold
    <3>1. now - Window \in Int /\ now' - Window \in Int /\ now' - Window >= now - Window
      <4>1. now \in Nat /\ now' \in Nat /\ now' >= now /\ Window \in Nat
        BY <1>1, <1>2, BreakerAssumption
      <4>2. \A x, y, w \in Nat : x >= y => x - w \in Int /\ y - w \in Int /\ x - w >= y - w
        OBVIOUS
      <4>3. QED
        BY <4>1, <4>2
    <3>2. burst'[s] \in Seq(Nat)
      BY <2>1 DEF Covered
    <3>3. /\ LaterCount(burst'[s], now' - Window) <= LaterCount(burst'[s], now - Window)
          /\ LaterCount(burst'[s], now' - Window) \in Nat
          /\ LaterCount(burst'[s], now - Window) \in Nat
      BY <3>1, <3>2, LaterShrinks, LaterFinite
    <3>4. QED
      BY <2>1, <3>3, BreakerAssumption DEF Covered
  <2>4. QED
    BY <2>1, <2>2, <2>3 DEF Covered
<1>4. burst' = [s \in Source |-> burst'[s]]
  <2>1. CASE Source = {}
    BY <2>1 DEF CountInv, Next, vars, Hit, Miss, Ask, Skip, AllDown, Answer, Error, Store, Peek, Tick
  <2>2. CASE Source # {}
    BY <2>2, BreakerStep DEF CountInv
  <2>3. QED
    BY <2>1, <2>2
<1>5. QED
  BY <1>1, <1>3, <1>4 DEF CountInv, BurstInv

----------------------------------------------------------------------------
(* Theorems *)

(* The inductive invariant. *)
THEOREM Invariance == Spec => []MarketInv
BY InitMarket, NextMarket, PTL DEF Spec

(* The breakers, the cache and the callers keep their types. *)
THEOREM TypeCorrect == Spec => []TypeOK
<1>1. ASSUME MarketInv PROVE TypeOK
  <2>1. ASSUME NEW s \in Source
        PROVE  /\ breaker[s].state \in {"closed", "open", "half-open"}
               /\ breaker[s].openedAt \in 0..now /\ breaker[s].probing \in BOOLEAN
    <3>1. now \in Nat /\ Sound(breaker[s], Calling(s), now, since, probe)
      BY <1>1 DEF MarketInv, Shape, BreakerInv
    <3>2. /\ breaker[s].state \in {"closed", "open", "half-open"}
          /\ breaker[s].probing \in {TRUE, FALSE}
          /\ breaker[s].openedAt \in Nat /\ breaker[s].openedAt <= now
      BY <3>1, Zenon DEF Sound
    <3>3. breaker[s].openedAt \in 0..now
      BY <3>1, <3>2
    <3>4. QED
      BY <3>2, <3>3
  <2>2. DOMAIN breaker = Source
    BY <1>1 DEF MarketInv, Shape
  <2>3. QED
    BY <1>1, <2>1, <2>2 DEF MarketInv, Shape, TypeOK
<1>2. QED
  BY <1>1, Invariance, PTL

(***************************************************************************)
(* While a breaker is half-open one call is under way, the probe, exactly  *)
(* as long as the flag is up; none when it is not.                         *)
(***************************************************************************)
THEOREM OneProbeOnly == Spec => []OneProbe
<1>1. ASSUME MarketInv, NEW s \in Source, breaker[s].state = "half-open"
      PROVE  /\ Cardinality(Calling(s)) = (IF breaker[s].probing THEN 1 ELSE 0)
             /\ \A c \in Calling(s) : probe[c]
  <2>1. Sound(breaker[s], Calling(s), now, since, probe)
    BY <1>1 DEF MarketInv, BreakerInv
  <2>2. CASE breaker[s].probing = TRUE
    <3>1. PICK c \in Calling(s) : Calling(s) = {c} /\ probe[c] = TRUE
      BY <1>1, <2>1, <2>2 DEF Sound
    <3>2. Cardinality(Calling(s)) = 1
      BY <3>1, FS_Singleton
    <3>3. QED
      BY <2>2, <3>1, <3>2
  <2>3. CASE breaker[s].probing = FALSE
    <3>1. Calling(s) = {}
      BY <1>1, <2>1, <2>3 DEF Sound
    <3>2. Cardinality(Calling(s)) = 0
      BY <3>1, FS_EmptySet
    <3>3. QED
      BY <2>3, <3>1, <3>2
  <2>4. QED
    BY <2>1, <2>2, <2>3 DEF Sound
<1>2. MarketInv => OneProbe
  BY <1>1, Zenon DEF OneProbe
<1>3. QED
  BY <1>2, Invariance, PTL

(***************************************************************************)
(* An open breaker stays open for the cooldown, whatever comes back late   *)
(* and whoever looks.                                                      *)
(***************************************************************************)
THEOREM CooldownKept == Spec => StaysOpen
<1> DEFINE Kept == \A s \in Source : breaker[s].state = "open" /\ breaker'[s].state # "open" =>
                     now - breaker[s].openedAt >= Cooldown
<1>1. ASSUME MarketInv, [Next]_vars, NEW s \in Source, breaker[s].state = "open",
             breaker'[s].state # "open"
      PROVE  now - breaker[s].openedAt >= Cooldown
  <2>1. /\ Sound(breaker[s], Calling(s), now, since, probe)
        /\ breaker = [t \in Source |-> breaker[t]]
    BY <1>1 DEF MarketInv, BreakerInv, Shape
  <2>2. ASSUME NEW c \in Caller, Ask(c) PROVE Cooled(breaker[s], now)
    BY <1>1, <2>1, <2>2 DEF Ask, Allows
  <2>3. ASSUME NEW c \in Caller, Answer(c) \/ Error(c) PROVE FALSE
    <3>1. Succeeded(breaker[s]) = breaker[s] /\ Failed(breaker[s], now) = breaker[s]
      BY <1>1 DEF Succeeded, Failed
    <3>2. \/ breaker' = [breaker EXCEPT ![Chain[idx[c]]] = Succeeded(breaker[Chain[idx[c]]])]
          \/ breaker' = [breaker EXCEPT ![Chain[idx[c]]] = Failed(breaker[Chain[idx[c]]], now)]
      BY <2>3 DEF Answer, Error
    <3>3. QED
      BY <1>1, <2>1, <3>1, <3>2
  <2>4. ASSUME NEW t \in Source, Peek(t) PROVE Cooled(breaker[s], now)
    <3>1. t = s
      BY <1>1, <2>1, <2>4 DEF Peek
    <3>2. breaker'[s] = Swept(Peeked(breaker[s], now), now)
      BY <2>1, <2>4, <3>1 DEF Peek
    <3>3. CASE ~Cooled(breaker[s], now)
      <4>1. Peeked(breaker[s], now) = breaker[s]
        BY <3>3 DEF Peeked
      <4>2. breaker'[s].state = "open"
        BY <1>1, <2>1, <3>2, <4>1 DEF Sound, Swept, Cell
      <4>3. QED
        BY <1>1, <4>2
    <3>4. QED
      BY <3>3
  <2>5. \/ \E c \in Caller : Ask(c) \/ Answer(c) \/ Error(c)
        \/ \E t \in Source : Peek(t)
        \/ breaker' = breaker
    BY <1>1 DEF Next, vars, Hit, Miss, Skip, AllDown, Store, Tick
  <2>6. Cooled(breaker[s], now)
    BY <1>1, <2>2, <2>3, <2>4, <2>5
  <2>7. QED
    BY <2>6 DEF Cooled
<1>2. MarketInv /\ [Next]_vars => [Kept]_vars
  BY <1>1, Zenon
<1>3. QED
  BY <1>2, Invariance, PTL DEF Spec, StaysOpen

(***************************************************************************)
(* No quote older than its time to live and one call is handed out,        *)
(* whoever stores late.                                                    *)
(***************************************************************************)
THEOREM QuotesFresh == Spec => []QuoteFresh
<1>1. MarketInv => QuoteFresh
  BY DEF MarketInv, CallerInv, QuoteFresh
<1>2. QED
  BY <1>1, Invariance, PTL

(***************************************************************************)
(* A closed breaker opens at the Threshold'th failure within the window    *)
(* since it last closed, and at nothing else, however seldom it sweeps its *)
(* list.                                                                   *)
(***************************************************************************)
THEOREM BurstTrips == Spec => TripsOnBurst
<1> DEFINE Trips == \A s \in Source : breaker[s].state = "closed" =>
                      (breaker'[s].state # "closed" <=> RecentFailures(s)' >= Threshold)
<1>1. ASSUME CountInv, [Next]_vars, NEW s \in Source, breaker[s].state = "closed",
             breaker'[s].state # "closed"
      PROVE  RecentFailures(s)' >= Threshold
  BY <1>1, BreakerStep DEF CountInv, RecentFailures
<1>2. ASSUME CountInv, [Next]_vars, NEW s \in Source, breaker'[s].state = "closed"
      PROVE  ~(RecentFailures(s)' >= Threshold)
  <2>1. CountInv' /\ now' \in Nat
    BY <1>2, NextCount, NowIsNat DEF CountInv, MarketInv, Shape
  <2>2. burst'[s] \in Seq(Nat) /\ LaterCount(burst'[s], now' - Window) < Threshold
    BY <1>2, <2>1 DEF CountInv, BurstInv, Covered
  <2>3. now' - Window \in Int /\ Threshold \in Nat
    BY <2>1, BreakerAssumption
  <2>4. RecentFailures(s)' = LaterCount(burst'[s], now' - Window)
    BY <2>1, <2>2, <2>3, SweepCount DEF RecentFailures
  <2>5. LaterCount(burst'[s], now' - Window) \in Nat
    BY <2>2, <2>3, LaterFinite
  <2>6. QED
    BY <2>2, <2>3, <2>4, <2>5
<1>3. CountInv /\ [Next]_vars => [Trips]_vars
  BY <1>1, <1>2, Zenon
<1>4. QED
  BY <1>3, InitCount, NextCount, PTL DEF Spec, TripsOnBurst
=============================================================================
