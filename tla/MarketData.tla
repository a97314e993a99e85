----------------------------- MODULE MarketData -----------------------------
(***************************************************************************)
(* datasource.manager: GetQuote for one stock, by concurrent callers (the  *)
(* workers of running strategies and HTTP handlers), over a quote cache    *)
(* with a time to live and a chain of sources, each behind its Breaker.    *)
(* (GetFundamental and GetNews walk the same chain.)                       *)
(*                                                                         *)
(* A quote is identified by the moment the source produced it.  A call to  *)
(* a source takes at most MaxCall, the HTTP timeout of its adapter; all    *)
(* other steps take no time, so the clock only moves when every caller is  *)
(* idle or waiting for a source.                                           *)
(***************************************************************************)
EXTENDS Breaker, FiniteSets

CONSTANTS
  Caller,
  Chain,     \* the sources in call order, primary first
  QuoteTTL,
  MaxCall,
  MaxTime    \* bound: the clock

(* The adapters' timeouts are seconds, the cooldown is minutes. *)
ASSUME MaxCallAssumption == MaxCall \in Nat /\ MaxCall < Cooldown
ASSUME QuoteTTLAssumption == QuoteTTL \in Nat \ {0}

Source == Range(Chain)

ASSUME ChainAssumption == Chain \in Seq(Source)

NoQuote == [at |-> -1, till |-> -1]

VARIABLES
  now,
  breaker,  \* breaker[s]
  cache,    \* the quote in the cache and when it expires
  pc,       \* pc[c]: "idle", "asking", "calling", "storing"
  idx,      \* idx[c]: c's position in the chain
  since,    \* since[c]: when c's present call of a source began
  probe,    \* probe[c]: that call was admitted by a breaker that was not closed
  quote,    \* quote[c]: the quote c holds
  age,      \* age[c]: how old the last quote c was given was at that moment
  burst     \* burst[s]: times of the failures recorded since the breaker last closed

vars == <<now, breaker, cache, pc, idx, since, probe, quote, age, burst>>

Init ==
  /\ now = 0
  /\ breaker = [s \in Source |-> NewBreaker]
  /\ cache = NoQuote
  /\ pc = [c \in Caller |-> "idle"]
  /\ idx = [c \in Caller |-> 1]
  /\ since = [c \in Caller |-> 0]
  /\ probe = [c \in Caller |-> FALSE]
  /\ quote = [c \in Caller |-> 0]
  /\ age = [c \in Caller |-> 0]
  /\ burst = [s \in Source |-> <<>>]

Goto(c, there) == pc' = [pc EXCEPT ![c] = there]

Give(c, at) == age' = [age EXCEPT ![c] = now - at]

(* The call of c returns: its local variables are gone. *)
Return(c) ==
  /\ Goto(c, "idle")
  /\ idx' = [idx EXCEPT ![c] = 1]
  /\ quote' = [quote EXCEPT ![c] = 0]

----------------------------------------------------------------------------
(* A cache hit ends the call. *)
Hit(c) ==
  /\ pc[c] = "idle"
  /\ now < cache.till
  /\ Give(c, cache.at)
  /\ UNCHANGED <<now, breaker, cache, pc, idx, since, probe, quote, burst>>

(* A miss, or a cache that cannot be read, starts the walk of the chain. *)
Miss(c) ==
  /\ pc[c] = "idle"
  /\ Goto(c, "asking")
  /\ UNCHANGED <<now, breaker, cache, idx, since, probe, quote, age, burst>>

(* routeOnce: Breaker.Allow, then the call goes out. *)
Ask(c) ==
  /\ pc[c] = "asking"
  /\ idx[c] <= Len(Chain)
  /\ LET s == Chain[idx[c]]
     IN /\ Allows(breaker[s], now)
        /\ breaker' = [breaker EXCEPT ![s] = Passed(@, now)]
        /\ probe' = [probe EXCEPT ![c] = breaker[s].state # "closed"]
  /\ since' = [since EXCEPT ![c] = now]
  /\ Goto(c, "calling")
  /\ UNCHANGED <<now, cache, idx, quote, age, burst>>

(* errSkipped: the breaker refuses, the next source is asked. *)
Skip(c) ==
  /\ pc[c] = "asking"
  /\ idx[c] <= Len(Chain)
  /\ ~Allows(breaker[Chain[idx[c]]], now)
  /\ idx' = [idx EXCEPT ![c] = @ + 1]
  /\ UNCHANGED <<now, breaker, cache, pc, since, probe, quote, age, burst>>

(* ErrAllSourcesDown *)
AllDown(c) ==
  /\ pc[c] = "asking"
  /\ idx[c] > Len(Chain)
  /\ Return(c)
  /\ UNCHANGED <<now, breaker, cache, since, probe, age, burst>>

(* The source answers with what it knew at some moment of the call. *)
Answer(c) ==
  LET s == Chain[idx[c]]
  IN /\ pc[c] = "calling"
     /\ \E at \in since[c]..now : quote' = [quote EXCEPT ![c] = at]
     /\ breaker' = [breaker EXCEPT ![s] = Succeeded(@)]
     /\ burst' = IF breaker[s].state # "closed" /\ breaker'[s].state = "closed"
                 THEN [burst EXCEPT ![s] = <<>>] ELSE burst
     /\ probe' = [probe EXCEPT ![c] = FALSE]
     /\ since' = [since EXCEPT ![c] = 0]
     /\ Goto(c, "storing")
     /\ UNCHANGED <<now, cache, idx, age>>

(* The source fails, or the caller's context ends: the next one is asked. *)
Error(c) ==
  LET s == Chain[idx[c]]
  IN /\ pc[c] = "calling"
     /\ breaker' = [breaker EXCEPT ![s] = Failed(@, now)]
     /\ burst' = [burst EXCEPT ![s] = Append(Recent(@, now), now)]
     /\ probe' = [probe EXCEPT ![c] = FALSE]
     /\ since' = [since EXCEPT ![c] = 0]
     /\ idx' = [idx EXCEPT ![c] = @ + 1]
     /\ Goto(c, "asking")
     /\ UNCHANGED <<now, cache, quote, age>>

(* Mutant: the quote is kept as long as a candle. *)
StoreLong(c) ==
  /\ pc[c] = "storing"
  /\ cache' = [at |-> quote[c], till |-> now + 2 * QuoteTTL + MaxCall]
  /\ Give(c, quote[c])
  /\ Return(c)
  /\ UNCHANGED <<now, breaker, since, probe, burst>>

(* cache.Set, whose error is ignored, and the return. *)
Store(c) ==
  /\ pc[c] = "storing"
  /\ \/ cache' = [at |-> quote[c], till |-> now + QuoteTTL]
     \/ UNCHANGED cache
  /\ Give(c, quote[c])
  /\ Return(c)
  /\ UNCHANGED <<now, breaker, since, probe, burst>>

(* BreakerSnapshots, or the log line of a skipped source. *)
Peek(s) ==
  /\ breaker' = [breaker EXCEPT ![s] = Swept(Peeked(@, now), now)]
  /\ UNCHANGED <<now, cache, pc, idx, since, probe, quote, age, burst>>

Tick ==
  /\ now < MaxTime
  /\ \A c \in Caller : \/ pc[c] = "idle"
                       \/ pc[c] = "calling" /\ now - since[c] < MaxCall
  /\ now' = now + 1
  /\ UNCHANGED <<breaker, cache, pc, idx, since, probe, quote, age, burst>>

Next ==
  \/ \E c \in Caller : \/ Hit(c) \/ Miss(c) \/ Ask(c) \/ Skip(c) \/ AllDown(c)
                       \/ Answer(c) \/ Error(c) \/ Store(c)
  \/ \E s \in Source : Peek(s)
  \/ Tick

Spec == Init /\ [][Next]_vars

----------------------------------------------------------------------------
(* Properties *)

TypeOK ==
  /\ now \in Nat
  /\ DOMAIN breaker = Source
  /\ \A s \in Source : /\ breaker[s].state \in {"closed", "open", "half-open"}
                        /\ breaker[s].openedAt \in 0..now
                        /\ breaker[s].probing \in BOOLEAN
  /\ cache.at \in Int /\ cache.till \in Int
  /\ pc \in [Caller -> {"idle", "asking", "calling", "storing"}]
  /\ idx \in [Caller -> 1..(Len(Chain) + 1)]
  /\ since \in [Caller -> Nat]
  /\ probe \in [Caller -> BOOLEAN]
  /\ quote \in [Caller -> Nat]
  /\ age \in [Caller -> Int]

Calling(s) == {c \in Caller : pc[c] = "calling" /\ Chain[idx[c]] = s}

(***************************************************************************)
(* "StateHalfOpen allows exactly one probe through": while a breaker is    *)
(* half-open the only call under way is that probe, and the flag that      *)
(* keeps others out is up exactly as long as it is.  No call from before   *)
(* the breaker opened can be taken for the probe's result.                 *)
(***************************************************************************)
OneProbe ==
  \A s \in Source : breaker[s].state = "half-open" =>
    /\ Cardinality(Calling(s)) = (IF breaker[s].probing THEN 1 ELSE 0)
    /\ \A c \in Calling(s) : probe[c]

(***************************************************************************)
(* An open breaker stays open for the whole cooldown, whatever calls that  *)
(* were under way when it tripped come back with, and whoever looks at it. *)
(***************************************************************************)
StaysOpen ==
  [][\A s \in Source : breaker[s].state = "open" /\ breaker'[s].state # "open" =>
       now - breaker[s].openedAt >= Cooldown]_vars

RecentFailures(s) == Len(Recent(burst[s], now))

(***************************************************************************)
(* A closed breaker opens at the Threshold'th failure within the window    *)
(* and at nothing else: failures that have aged out do not count, however  *)
(* seldom the breaker sweeps them, and none of a burst is missed.          *)
(***************************************************************************)
TripsOnBurst ==
  [][\A s \in Source : breaker[s].state = "closed" =>
       (breaker'[s].state # "closed" <=> RecentFailures(s)' >= Threshold)]_vars

(***************************************************************************)
(* A quote handed out is never older than the time to live plus one call,  *)
(* even when a slow caller stores an older quote over a newer one.         *)
(***************************************************************************)
QuoteFresh == \A c \in Caller : age[c] <= QuoteTTL + MaxCall
=============================================================================
