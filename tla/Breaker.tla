------------------------------ MODULE Breaker ------------------------------
(***************************************************************************)
(* The circuit breaker of datasource/breaker.go (notify/circuit.go holds a *)
(* copy of it), as operators on its fields.  Every method locks the        *)
(* breaker from its first line to its last, so each is one step of its     *)
(* caller.  Time is a number; the failures are times in recording order.   *)
(***************************************************************************)
EXTENDS Integers, Lists

CONSTANTS
  Threshold,  \* failures within Window that trip the breaker
  Window,
  Cooldown    \* how long it stays open

ASSUME BreakerAssumption ==
  Threshold \in Nat \ {0} /\ Window \in Nat \ {0} /\ Cooldown \in Nat \ {0}

NewBreaker == [state |-> "closed", failures |-> <<>>, openedAt |-> 0, probing |-> FALSE]

(* gcLocked: what is left of times after a sweep, in its order. *)
Recent(times, now) == Sublist(times, {i \in DOMAIN times : times[i] > now - Window})

(* Run by Allow and FailureCount. *)
Swept(b, now) == [b EXCEPT !.failures = Recent(@, now)]

Cooled(b, now) == now - b.openedAt >= Cooldown

(* Allow returns true ... *)
Allows(b, now) ==
  \/ b.state = "closed"
  \/ b.state = "open" /\ Cooled(b, now)
  \/ b.state = "half-open" /\ ~b.probing

(* Mutant: a probe does not keep others out. *)
PassedUnmarked(b, now) ==
  IF b.state = "closed" THEN Swept(b, now) ELSE [b EXCEPT !.state = "half-open"]

(* ... and leaves the breaker like this. *)
Passed(b, now) ==
  IF b.state = "closed" THEN Swept(b, now)
  ELSE [b EXCEPT !.state = "half-open", !.probing = TRUE]

(* Mutant: any success closes. *)
SucceededAnywhere(b) ==
  IF b.state # "closed" THEN [b EXCEPT !.state = "closed", !.probing = FALSE, !.failures = <<>>]
  ELSE b

(* RecordSuccess; an open breaker ignores a late success. *)
Succeeded(b) ==
  IF b.state = "half-open"
  THEN [b EXCEPT !.state = "closed", !.probing = FALSE, !.failures = <<>>]
  ELSE b

(* Mutant: old failures are counted too. *)
FailedUnswept(b, now) ==
  LET noted == Append(b.failures, now)
  IN CASE b.state = "half-open" ->
            [b EXCEPT !.state = "open", !.openedAt = now, !.probing = FALSE, !.failures = noted]
       [] b.state = "closed" ->
            IF Len(noted) >= Threshold
            THEN [b EXCEPT !.state = "open", !.openedAt = now, !.failures = noted]
            ELSE [b EXCEPT !.failures = noted]
       [] b.state = "open" -> b

(* RecordFailure *)
Failed(b, now) ==
  LET noted == Append(b.failures, now)
      swept == Recent(noted, now)
  IN CASE b.state = "half-open" ->
            [b EXCEPT !.state = "open", !.openedAt = now, !.probing = FALSE, !.failures = noted]
       [] b.state = "closed" ->
            IF Len(swept) >= Threshold
            THEN [b EXCEPT !.state = "open", !.openedAt = now, !.failures = swept]
            ELSE [b EXCEPT !.failures = swept]
       [] b.state = "open" -> b

(* State: an open breaker whose cooldown is over is shown as half-open. *)
Peeked(b, now) ==
  IF b.state = "open" /\ Cooled(b, now)
  THEN [b EXCEPT !.state = "half-open", !.probing = FALSE] ELSE b
=============================================================================
