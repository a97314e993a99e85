--------------------------- MODULE NotifyManager ---------------------------
(***************************************************************************)
(* notify.DefaultManager: the delivery of messages over webhook channels.  *)
(*                                                                         *)
(* A call of Send walks the preference list (primary, then fallbacks),     *)
(* skips names that are repeated or not registered, and tries each of the  *)
(* others up to Attempts times with a wait in between, until one attempt   *)
(* succeeds.  The caller's context may end at any moment; an attempt sees  *)
(* it before it starts and a wait is cut short by it, but the walk goes on *)
(* to the next name, where it is seen again.                               *)
(*                                                                         *)
(* The breaker of a channel is never told of an outcome outside the tests, *)
(* so IsHealthy is always true and the branch that skips an unhealthy      *)
(* channel is never taken: it has no action here.                          *)
(***************************************************************************)
EXTENDS Integers, Sequences

CONSTANTS
  Sender,      \* the calls of Send: notify nodes and the test ping
  Channel,     \* the channels there is code for
  Configured,  \* the sets of channels that may be enabled and have a webhook
  Primary,     \* cfg.Primary, "unset" when it is empty
  Fallback,    \* cfg.Fallback
  Attempts     \* cfg.RetryAttempts, after withDefaults

ASSUME AttemptsAssumption == Attempts \in Nat \ {0}
ASSUME ChannelAssumption  == "unset" \notin Channel
ASSUME ConfiguredAssumption == Configured \subseteq SUBSET Channel
ASSUME FallbackAssumption == Fallback \in Seq(Channel \cup {"unset"})
ASSUME PrimaryAssumption  == Primary \in Channel \cup {"unset"}

VARIABLES
  enabled,    \* the registered channels: configured and with a webhook
  stage,      \* stage[s]: where the call is
  place,      \* place[s]: position in the preference list
  attempt,    \* attempt[s]: number of the current try at that channel
  ctxOver,    \* ctxOver[s]: the caller's context has ended
  tries,      \* history: tries[s][c], requests posted to channel c
  reached,    \* history: reached[s], times the message appeared in a chat
  denied      \* history: denied[s], of those, reported to the caller as failed

mailVars == <<enabled, stage, place, attempt, ctxOver, tries, reached, denied>>

Preference == <<Primary>> \o Fallback

(* Mutant: a repeated name is a candidate again. *)
IsMention(i) == Preference[i] # "unset"

(* candidateOrder: the first mention of each non-empty name. *)
IsCandidate(i) ==
  /\ Preference[i] # "unset"
  /\ \A j \in 1..(i - 1) : Preference[j] # Preference[i]

MailInit ==
  /\ enabled \in Configured
  /\ stage = [s \in Sender |-> "idle"]
  /\ place = [s \in Sender |-> 0]
  /\ attempt = [s \in Sender |-> 0]
  /\ ctxOver = [s \in Sender |-> FALSE]
  /\ tries = [s \in Sender |-> [c \in Channel |-> 0]]
  /\ reached = [s \in Sender |-> 0]
  /\ denied = [s \in Sender |-> 0]

(* HasChannel *)
HasChannel == enabled # {}

(* Send is called. *)
Send(s) ==
  /\ stage[s] = "idle"
  /\ stage' = [stage EXCEPT ![s] = "choosing"]
  /\ UNCHANGED <<enabled, place, attempt, ctxOver, tries, reached, denied>>

Usable(s) ==
  {i \in (place[s] + 1)..Len(Preference) : IsCandidate(i) /\ Preference[i] \in enabled}

(* The loop over the candidates: the next registered one, or the verdict. *)
Choose(s) ==
  /\ stage[s] = "choosing"
  /\ \/ /\ Usable(s) = {}
        /\ stage' = [stage EXCEPT ![s] = "failed"]
        /\ UNCHANGED <<place, attempt>>
     \/ \E i \in Usable(s) :
          /\ \A j \in Usable(s) : i <= j
          /\ place' = [place EXCEPT ![s] = i]
          /\ attempt' = [attempt EXCEPT ![s] = 1]
          /\ stage' = [stage EXCEPT ![s] = "trying"]
  /\ UNCHANGED <<enabled, ctxOver, tries, reached, denied>>

(* Retry gives up before an attempt or during a wait: the context ended. *)
GiveUp(s) ==
  /\ stage[s] \in {"trying", "waiting"}
  /\ ctxOver[s]
  /\ stage' = [stage EXCEPT ![s] = "choosing"]
  /\ UNCHANGED <<enabled, place, attempt, ctxOver, tries, reached, denied>>

(* One request to the channel's webhook; appeared: it reached the chat. *)
Post(s, appeared, ok) ==
  /\ tries' = [tries EXCEPT ![s][Preference[place[s]]] = @ + 1]
  /\ reached' = [reached EXCEPT ![s] = IF appeared THEN @ + 1 ELSE @]
  /\ denied' = [denied EXCEPT ![s] = IF appeared /\ ~ok THEN @ + 1 ELSE @]

(* Mutant: Retry goes on after a success. *)
DeliverAgain(s) ==
  /\ stage[s] = "trying"
  /\ ~ctxOver[s]
  /\ \E appeared \in BOOLEAN : Post(s, appeared, TRUE)
  /\ stage' = [stage EXCEPT ![s] = IF attempt[s] = Attempts THEN "sent" ELSE "waiting"]
  /\ UNCHANGED <<enabled, place, attempt, ctxOver>>

(***************************************************************************)
(* Channel.Send succeeds: a 2xx whose body is a good acknowledgement, or   *)
(* is no acknowledgement at all (a proxy's page, say), in which case the   *)
(* message may not have appeared.                                          *)
(***************************************************************************)
Deliver(s) ==
  /\ stage[s] = "trying"
  /\ ~ctxOver[s]
  /\ \E appeared \in BOOLEAN : Post(s, appeared, TRUE)
  /\ stage' = [stage EXCEPT ![s] = "sent"]
  /\ UNCHANGED <<enabled, place, attempt, ctxOver>>

(***************************************************************************)
(* Channel.Send fails: a refusal or an error status, or a transport error  *)
(* or timeout, after which the message may have appeared all the same.     *)
(***************************************************************************)
Refuse(s) ==
  /\ stage[s] = "trying"
  /\ ~ctxOver[s]
  /\ \E appeared \in BOOLEAN : Post(s, appeared, FALSE)
  /\ stage' = [stage EXCEPT ![s] = IF attempt[s] = Attempts THEN "choosing" ELSE "waiting"]
  /\ UNCHANGED <<enabled, place, attempt, ctxOver>>

(* The backoff is over. *)
Resume(s) ==
  /\ stage[s] = "waiting"
  /\ attempt' = [attempt EXCEPT ![s] = @ + 1]
  /\ stage' = [stage EXCEPT ![s] = "trying"]
  /\ UNCHANGED <<enabled, place, ctxOver, tries, reached, denied>>

(* The caller's context ends: the node's deadline, the run's, a shutdown. *)
EndContext(s) ==
  /\ ~ctxOver[s]
  /\ stage[s] \in {"choosing", "trying", "waiting"}
  /\ ctxOver' = [ctxOver EXCEPT ![s] = TRUE]
  /\ UNCHANGED <<enabled, stage, place, attempt, tries, reached, denied>>

Step(s) == Choose(s) \/ GiveUp(s) \/ Deliver(s) \/ Refuse(s) \/ Resume(s) \/ EndContext(s)

MailNext == \E s \in Sender : Send(s) \/ Step(s)

MailSpec == MailInit /\ [][MailNext]_mailVars

----------------------------------------------------------------------------
(* Properties *)

MailTypeOK ==
  /\ enabled \subseteq Channel
  /\ stage \in [Sender -> {"idle", "choosing", "trying", "waiting", "sent", "failed"}]
  /\ place \in [Sender -> 0..Len(Preference)]
  /\ attempt \in [Sender -> 0..Attempts]
  /\ ctxOver \in [Sender -> BOOLEAN]
  /\ tries \in [Sender -> [Channel -> Nat]]
  /\ reached \in [Sender -> Nat]
  /\ denied \in [Sender -> Nat]

(***************************************************************************)
(* A message appears a second time only for want of an answer: it appeared *)
(* at most once more than the times a delivery was reported as failed,     *)
(* whatever the retries and however often the list names a channel.        *)
(***************************************************************************)
NoNeedlessRepeat == \A s \in Sender : reached[s] <= denied[s] + 1

(* A fallback is tried only when every registered channel before it is used up. *)
FallbackInOrder ==
  \A s \in Sender, c \in Channel :
    /\ tries[s][c] <= Attempts
    /\ tries[s][c] > 0 =>
         \A i \in DOMAIN Preference :
           (/\ Preference[i] \in enabled \ {c}
            /\ \A j \in DOMAIN Preference : Preference[j] = c => i < j)
             => tries[s][Preference[i]] = Attempts

(* The verdict that all channels failed is true. *)
FailureIsTotal ==
  \A s \in Sender : (stage[s] = "failed" /\ ~ctxOver[s]) =>
    \A i \in DOMAIN Preference :
      Preference[i] \in enabled => tries[s][Preference[i]] = Attempts

(***************************************************************************)
(* A channel is tried at most Attempts times, and a fallback only when     *)
(* every registered channel before it has used all of them, unless the     *)
(* context ended; and when the caller is told that all channels failed,    *)
(* every registered channel of the list was tried Attempts times, or the   *)
(* context ended meanwhile.                                                *)
(***************************************************************************)
ChannelsInTurn == FallbackInOrder /\ FailureIsTotal
=============================================================================
