-------------------------- MODULE SelectionProofs --------------------------
(***************************************************************************)
(* Theorems about NotifyManager, for any callers, channels, preference     *)
(* lists and numbers of attempts, and about Selection, for any strategies, *)
(* parameters and answers of the sources.                                  *)
(***************************************************************************)
EXTENDS Selection, ListsProofs

(* The positions the walk stops at. *)
Candidates == {i \in DOMAIN Preference : IsCandidate(i) /\ Preference[i] \in enabled}

(* Candidates the walk of s is through with. *)
Passed(s) ==
  {i \in Candidates : i < place[s] \/ (i = place[s] /\ stage[s] \in {"choosing", "failed"})}

(* Where the call is agrees with what was posted. *)
PlaceInv(s) ==
  /\ stage[s] = "idle" => place[s] = 0
  /\ stage[s] \in {"trying", "waiting", "sent"} => place[s] \in Candidates
  /\ stage[s] = "trying" =>
       attempt[s] >= 1 /\ tries[s][Preference[place[s]]] = attempt[s] - 1
  /\ stage[s] = "waiting" =>
       /\ attempt[s] >= 1 /\ attempt[s] < Attempts
       /\ tries[s][Preference[place[s]]] = attempt[s]

(* What was posted went to candidates up to the place, and each was used up before the next. *)
TriesInv(s) ==
  /\ \A c \in Channel : tries[s][c] <= Attempts
  /\ \A c \in Channel : tries[s][c] > 0 =>
       \E j \in Candidates : j <= place[s] /\ Preference[j] = c
  /\ ~ctxOver[s] => \A i \in Passed(s) : tries[s][Preference[i]] = Attempts
  /\ \A i, j \in Candidates :
       i < j /\ tries[s][Preference[j]] > 0 => tries[s][Preference[i]] = Attempts

(* A call fails at the end of the list; a message that appeared was answered for once. *)
VerdictInv(s) ==
  /\ stage[s] = "failed" => Usable(s) = {}
  /\ reached[s] <= denied[s] + (IF stage[s] = "sent" THEN 1 ELSE 0)

CallInv(s) == PlaceInv(s) /\ TriesInv(s) /\ VerdictInv(s)

MailInv == MailTypeOK /\ \A s \in Sender : CallInv(s)

----------------------------------------------------------------------------
(* The preference list *)

LEMMA PreferenceType ==
  /\ Preference \in Seq(Channel \cup {"unset"})
  /\ DOMAIN Preference = 1..Len(Preference) /\ Len(Preference) \in Nat
  /\ \A i \in DOMAIN Preference : Preference[i] \in Channel \cup {"unset"}
BY PrimaryAssumption, FallbackAssumption DEF Preference

(* Every name of a channel is mentioned a first time. *)
LEMMA FirstMention ==
  ASSUME NEW i \in DOMAIN Preference, Preference[i] # "unset"
  PROVE  \E j \in DOMAIN Preference :
           j <= i /\ Preference[j] = Preference[i] /\ IsCandidate(j)
<1> DEFINE Same == {j \in DOMAIN Preference : Preference[j] = Preference[i]}
<1>1. Same \subseteq Nat /\ i \in Same
  BY PreferenceType
<1> DEFINE Less == {p \in Nat \X Nat : p[1] < p[2]}
<1>2. PICK j \in Same : \A k \in Same : ~(<<k, j>> \in Less)
  <2>1. IsWellFoundedOn(Less, Nat)
    BY NatLessThanWellFounded DEF OpToRel
  <2> HIDE DEF Less, Same
  <2>2. QED
    BY <1>1, <2>1, WFMin
<1>3. \A k \in Same : ~(k < j)
  BY <1>1, <1>2
<1>4. j <= i /\ j \in DOMAIN Preference /\ Preference[j] = Preference[i] /\ j \in Nat /\ i \in Nat
  BY <1>1, <1>3
<1>5. \A k \in 1..(j - 1) : k \in DOMAIN Preference /\ k < j
  BY <1>4, PreferenceType
<1>6. \A k \in 1..(j - 1) : Preference[k] # Preference[j]
  BY <1>3, <1>4, <1>5
<1>7. QED
  BY <1>4, <1>6 DEF IsCandidate

LEMMA CandidateFacts ==
  /\ \A i \in Candidates : i \in Nat /\ Preference[i] \in Channel /\ i \in 1..Len(Preference)
  /\ \A i, j \in Candidates : Preference[i] = Preference[j] => i = j
  /\ \A s \in Sender : place[s] \in Nat => Usable(s) = {i \in Candidates : i > place[s]}
<1>1. \A i \in Candidates : i \in Nat /\ Preference[i] \in Channel /\ i \in 1..Len(Preference)
  BY PreferenceType DEF Candidates, IsCandidate
<1>2. \A i, j \in Candidates : Preference[i] = Preference[j] => i = j
  <2> SUFFICES ASSUME NEW i \in Candidates, NEW j \in Candidates, i < j
               PROVE  Preference[i] # Preference[j]
    BY <1>1
  <2>1. i \in 1..(j - 1)
    BY <1>1
  <2>2. QED
    BY <2>1 DEF Candidates, IsCandidate
<1>3. ASSUME NEW s \in Sender, place[s] \in Nat
      PROVE  Usable(s) = {i \in Candidates : i > place[s]}
  BY <1>3, PreferenceType DEF Usable, Candidates
<1>4. QED
  BY <1>1, <1>2, <1>3

----------------------------------------------------------------------------
(* The invariant *)

LEMMA InitMail == MailInit => MailInv
<1> SUFFICES ASSUME MailInit PROVE MailInv
  OBVIOUS
<1>1. MailTypeOK
  BY PreferenceType, AttemptsAssumption, ConfiguredAssumption DEF MailInit, MailTypeOK
<1>2. ASSUME NEW s \in Sender PROVE CallInv(s)
  <2>1. PlaceInv(s) /\ VerdictInv(s)
    BY DEF MailInit, PlaceInv, VerdictInv
  <2>2. Passed(s) = {}
    BY CandidateFacts DEF MailInit, Passed
  <2>3. \A c \in Channel : tries[s][c] = 0
    BY DEF MailInit
  <2>4. TriesInv(s)
    BY <2>2, <2>3, CandidateFacts, AttemptsAssumption DEF TriesInv
  <2>5. QED
    BY <2>1, <2>4 DEF CallInv
<1>3. QED
  BY <1>1, <1>2 DEF MailInv

(* A call that is not touched keeps its invariant. *)
LEMMA Untouched ==
  ASSUME NEW s \in Sender, CallInv(s), enabled' = enabled,
         stage'[s] = stage[s], place'[s] = place[s], attempt'[s] = attempt[s],
         ctxOver'[s] = ctxOver[s], tries'[s] = tries[s], reached'[s] = reached[s],
         denied'[s] = denied[s]
  PROVE  CallInv(s)'
<1>1. Candidates' = Candidates /\ Passed(s)' = Passed(s) /\ Usable(s)' = Usable(s)
  BY DEF Candidates, Passed, Usable, IsCandidate, Preference
<1>2. QED
  BY <1>1 DEF CallInv, PlaceInv, TriesInv, VerdictInv, Preference

(* What a step of s leaves alone. *)
LEMMA OnlyMine ==
  ASSUME MailTypeOK, NEW s \in Sender, Send(s) \/ Step(s)
  PROVE  /\ enabled' = enabled
         /\ \A t \in Sender \ {s} :
              /\ stage'[t] = stage[t] /\ place'[t] = place[t] /\ attempt'[t] = attempt[t]
              /\ ctxOver'[t] = ctxOver[t] /\ tries'[t] = tries[t]
              /\ reached'[t] = reached[t] /\ denied'[t] = denied[t]
BY DEF MailTypeOK, Step, Send, Choose, GiveUp, Deliver, Refuse, Post, Resume, EndContext

LEMMA SendInv ==
  ASSUME MailInv, NEW s \in Sender, Send(s) PROVE MailTypeOK' /\ CallInv(s)'
<1>1. MailTypeOK' /\ place[s] = 0 /\ place'[s] = 0
  BY DEF MailInv, MailTypeOK, CallInv, PlaceInv, Send
<1>2. Candidates' = Candidates
  BY DEF Candidates, IsCandidate, Preference, Send
<1>3. Passed(s)' = {}
  BY <1>1, <1>2, CandidateFacts DEF Passed
<1>4. QED
  BY <1>1, <1>2, <1>3 DEF MailInv, MailTypeOK, CallInv, PlaceInv, TriesInv, VerdictInv, Send,
     Preference

LEMMA ChooseInv ==
  ASSUME MailInv, NEW s \in Sender, Choose(s) PROVE MailTypeOK' /\ CallInv(s)'
<1>1. /\ stage[s] = "choosing" /\ place[s] \in 0..Len(Preference)
      /\ tries[s] \in [Channel -> Nat] /\ UNCHANGED <<tries, ctxOver, reached, denied>>
  BY DEF MailInv, MailTypeOK, Choose
<1>2. Candidates' = Candidates /\ Usable(s) = {i \in Candidates : i > place[s]}
  <2>1. Candidates' = Candidates
    BY DEF Candidates, IsCandidate, Preference, Choose
  <2>2. place[s] \in Nat
    BY <1>1, PreferenceType
  <2>3. QED
    BY <2>1, <2>2, CandidateFacts
<1>3. CASE Usable(s) = {}
  <2>1. /\ stage' = [stage EXCEPT ![s] = "failed"] /\ UNCHANGED <<place, attempt, enabled>>
    BY <1>3 DEF Choose
  <2>2. stage'[s] = "failed" /\ place'[s] = place[s] /\ MailTypeOK'
    BY <1>1, <2>1 DEF MailInv, MailTypeOK
  <2>3. Passed(s)' = Passed(s) /\ Usable(s)' = {}
    BY <1>1, <1>2, <1>3, <2>1, <2>2 DEF Passed, Usable, IsCandidate, Preference
  <2>4. PlaceInv(s)' /\ VerdictInv(s)'
    BY <1>1, <2>2, <2>3 DEF MailInv, CallInv, PlaceInv, VerdictInv
  <2>5. TriesInv(s)'
    BY <1>1, <1>2, <2>2, <2>3 DEF MailInv, CallInv, TriesInv, Preference
  <2>6. QED
    BY <2>2, <2>4, <2>5 DEF CallInv
<1>4. CASE Usable(s) # {}
  <2>1. PICK i \in Usable(s) :
          /\ \A j \in Usable(s) : i <= j
          /\ place' = [place EXCEPT ![s] = i]
          /\ attempt' = [attempt EXCEPT ![s] = 1]
          /\ stage' = [stage EXCEPT ![s] = "trying"]
    BY <1>4 DEF Choose
  <2>2. /\ i \in Candidates /\ i > place[s] /\ i \in Nat /\ i <= Len(Preference)
        /\ Preference[i] \in Channel
        /\ stage'[s] = "trying" /\ place'[s] = i /\ attempt'[s] = 1 /\ enabled' = enabled
    BY <1>2, <2>1, CandidateFacts DEF MailInv, MailTypeOK, Choose
  <2>3. MailTypeOK'
    BY <1>1, <2>1, <2>2, AttemptsAssumption, PreferenceType DEF MailInv, MailTypeOK, Preference
  <2>4. tries[s][Preference[i]] = 0
    BY <1>1, <2>2, CandidateFacts DEF MailInv, CallInv, TriesInv
  <2>5. Passed(s)' = Passed(s)
    <3>1. Passed(s) = {j \in Candidates : j < place[s] \/ j = place[s]}
      BY <1>1 DEF Passed
    <3>2. Passed(s)' = {j \in Candidates : j < i}
      <4>1. Passed(s)' = {j \in Candidates' :
               j < place'[s] \/ (j = place'[s] /\ stage'[s] \in {"choosing", "failed"})}
        BY DEF Passed
      <4>2. place'[s] = i /\ stage'[s] \notin {"choosing", "failed"}
        BY <2>2
      <4>3. QED
        BY <1>2, <4>1, <4>2
    <3>3. ASSUME NEW j \in Candidates PROVE j < i <=> j < place[s] \/ j = place[s]
      <4>1. j \in Nat /\ place[s] \in Nat /\ i \in Nat /\ i > place[s]
        BY <1>1, <2>2, CandidateFacts, PreferenceType
      <4>2. j > place[s] => i <= j
        BY <1>2, <2>1
      <4>3. QED
        BY <4>1, <4>2
    <3>4. QED
      BY <3>1, <3>2, <3>3
  <2>6. PlaceInv(s)' /\ VerdictInv(s)'
    BY <1>1, <1>2, <2>2, <2>4 DEF MailInv, CallInv, PlaceInv, VerdictInv, Preference
  <2>7. TriesInv(s)'
    <3>1. /\ \A d \in Channel : tries[s][d] <= Attempts
          /\ \A d \in Channel : tries[s][d] > 0 =>
               \E j \in Candidates : j <= place[s] /\ Preference[j] = d
          /\ ~ctxOver[s] => \A j \in Passed(s) : tries[s][Preference[j]] = Attempts
          /\ \A j, k \in Candidates :
               j < k /\ tries[s][Preference[k]] > 0 => tries[s][Preference[j]] = Attempts
      BY DEF MailInv, CallInv, TriesInv
    <3>2. \A j \in Candidates : j <= place[s] => j <= i
      BY <1>1, <2>2, CandidateFacts, PreferenceType
    <3>3. \A d \in Channel : tries[s][d] > 0 =>
            \E j \in Candidates : j <= i /\ Preference[j] = d
      BY <3>1, <3>2
    <3>4. Preference' = Preference
      BY DEF Preference
    <3>5. QED
      BY <1>1, <1>2, <2>2, <2>5, <3>1, <3>3, <3>4 DEF TriesInv
  <2>8. QED
    BY <2>3, <2>6, <2>7 DEF CallInv
<1>5. QED
  BY <1>3, <1>4

LEMMA GiveUpInv ==
  ASSUME MailInv, NEW s \in Sender, GiveUp(s) PROVE MailTypeOK' /\ CallInv(s)'
<1>1. /\ stage[s] \in {"trying", "waiting"} /\ ctxOver[s] /\ stage'[s] = "choosing"
      /\ UNCHANGED <<enabled, place, attempt, ctxOver, tries, reached, denied>>
  BY DEF MailInv, MailTypeOK, GiveUp
<1>2. Candidates' = Candidates /\ MailTypeOK'
  BY <1>1 DEF Candidates, IsCandidate, Preference, MailInv, MailTypeOK, GiveUp
<1>3. QED
  BY <1>1, <1>2 DEF MailInv, CallInv, PlaceInv, TriesInv, VerdictInv, Preference

LEMMA EndContextInv ==
  ASSUME MailInv, NEW s \in Sender, EndContext(s) PROVE MailTypeOK' /\ CallInv(s)'
<1>1. /\ stage[s] # "failed" /\ ctxOver'[s]
      /\ UNCHANGED <<enabled, stage, place, attempt, tries, reached, denied>>
  BY DEF MailInv, MailTypeOK, EndContext
<1>2. Candidates' = Candidates /\ MailTypeOK'
  BY <1>1 DEF Candidates, IsCandidate, Preference, MailInv, MailTypeOK, EndContext
<1>3. QED
  BY <1>1, <1>2 DEF MailInv, CallInv, PlaceInv, TriesInv, VerdictInv, Preference

LEMMA ResumeInv ==
  ASSUME MailInv, NEW s \in Sender, Resume(s) PROVE MailTypeOK' /\ CallInv(s)'
<1>1. /\ stage[s] = "waiting" /\ stage'[s] = "trying" /\ attempt'[s] = attempt[s] + 1
      /\ attempt[s] \in Nat /\ attempt[s] < Attempts
      /\ UNCHANGED <<enabled, place, ctxOver, tries, reached, denied>>
  BY DEF MailInv, MailTypeOK, CallInv, PlaceInv, Resume
<1>2. MailTypeOK'
  BY <1>1, AttemptsAssumption DEF MailInv, MailTypeOK, Resume, Preference
<1>3. Candidates' = Candidates /\ Passed(s)' = Passed(s)
  BY <1>1 DEF Candidates, IsCandidate, Preference, Passed
<1>4. Preference' = Preference
  BY DEF Preference
<1>5. PlaceInv(s)' /\ VerdictInv(s)'
  BY <1>1, <1>3, <1>4 DEF MailInv, CallInv, PlaceInv, VerdictInv
<1>6. TriesInv(s)'
  BY <1>1, <1>3, <1>4 DEF MailInv, CallInv, TriesInv
<1>7. QED
  BY <1>2, <1>5, <1>6 DEF CallInv

(* A request to the channel the call is at. *)
LEMMA PostFacts ==
  ASSUME MailInv, NEW s \in Sender, stage[s] = "trying", ~ctxOver[s],
         NEW appeared \in BOOLEAN, NEW ok \in BOOLEAN, Post(s, appeared, ok),
         UNCHANGED <<enabled, place, attempt, ctxOver>>,
         stage'[s] \in {"sent", "choosing", "waiting"},
         stage'[s] = "choosing" => attempt[s] = Attempts,
         stage'[s] = "waiting" => attempt[s] < Attempts,
         stage'[s] = "sent" <=> ok,
         stage' \in [Sender -> {"idle", "choosing", "trying", "waiting", "sent", "failed"}]
  PROVE  MailTypeOK' /\ CallInv(s)'
<1> DEFINE here == place[s]
           c == Preference[here]
<1>0. MailTypeOK /\ PlaceInv(s) /\ TriesInv(s) /\ VerdictInv(s)
  BY DEF MailInv, CallInv
<1>1. /\ here \in Candidates /\ here \in Nat /\ c \in Channel
      /\ attempt[s] >= 1 /\ attempt[s] \in 0..Attempts /\ tries[s][c] = attempt[s] - 1
      /\ tries[s] \in [Channel -> Nat]
  BY <1>0, CandidateFacts DEF MailTypeOK, PlaceInv
<1>2. /\ tries' \in [Sender -> [Channel -> Nat]]
      /\ tries'[s][c] = attempt[s]
      /\ \A d \in Channel \ {c} : tries'[s][d] = tries[s][d]
  <2>1. tries \in [Sender -> [Channel -> Nat]] /\ attempt[s] \in Nat
    BY <1>0, <1>1, AttemptsAssumption DEF MailTypeOK
  <2>2. tries' = [tries EXCEPT ![s] = [tries[s] EXCEPT ![c] = tries[s][c] + 1]]
    BY DEF Post
  <2>3. tries'[s] = [tries[s] EXCEPT ![c] = tries[s][c] + 1]
    BY <2>1, <2>2
  <2>4. [tries[s] EXCEPT ![c] = tries[s][c] + 1] \in [Channel -> Nat]
    BY <1>1
  <2>5. tries' \in [Sender -> [Channel -> Nat]]
    BY <2>1, <2>2, <2>4
  <2>6. QED
    BY <1>1, <2>1, <2>3, <2>5
<1>3. Candidates' = Candidates /\ Preference' = Preference
  BY DEF Candidates, IsCandidate, Preference
<1> HIDE DEF c, here
<1>4. MailTypeOK'
  <2>1. /\ reached \in [Sender -> Nat] /\ denied \in [Sender -> Nat]
        /\ reached' = [reached EXCEPT ![s] = IF appeared THEN reached[s] + 1 ELSE reached[s]]
        /\ denied' = [denied EXCEPT ![s] = IF appeared /\ ~ok THEN denied[s] + 1 ELSE denied[s]]
    BY <1>0 DEF Post, MailTypeOK
  <2>2. reached' \in [Sender -> Nat] /\ denied' \in [Sender -> Nat]
    BY <2>1
  <2>3. QED
    BY <1>0, <1>2, <1>3, <2>2 DEF MailTypeOK
<1>5. PlaceInv(s)'
  BY <1>1, <1>2, <1>3, AttemptsAssumption DEF PlaceInv, c, here
<1>6. VerdictInv(s)'
  <2>1. /\ reached[s] \in Nat /\ denied[s] \in Nat /\ reached[s] <= denied[s]
    BY <1>0 DEF MailTypeOK, VerdictInv
  <2>2. /\ reached'[s] = IF appeared THEN reached[s] + 1 ELSE reached[s]
        /\ denied'[s] = IF appeared /\ ~ok THEN denied[s] + 1 ELSE denied[s]
    BY <1>0 DEF Post, MailTypeOK
  <2>3. reached'[s] <= denied'[s] + (IF stage'[s] = "sent" THEN 1 ELSE 0)
    <3>1. CASE ok
      BY <2>1, <2>2, <3>1
    <3>2. CASE ~ok
      BY <2>1, <2>2, <3>2
    <3>3. QED
      BY <3>1, <3>2
  <2>4. QED
    BY <2>3 DEF VerdictInv
<1>7. TriesInv(s)'
  <2>1. \A d \in Channel : tries'[s][d] <= Attempts
    <3>1. \A d \in Channel : tries[s][d] <= Attempts
      BY <1>0 DEF TriesInv
    <3>2. QED
      BY <1>1, <1>2, <3>1, AttemptsAssumption
  <2>2. \A d \in Channel : tries'[s][d] > 0 =>
          \E j \in Candidates : j <= here /\ Preference[j] = d
    <3>1. \A d \in Channel : tries[s][d] > 0 =>
            \E j \in Candidates : j <= here /\ Preference[j] = d
      BY <1>0 DEF TriesInv, here
    <3>2. here <= here /\ Preference[here] = c
      BY <1>1 DEF c
    <3>3. QED
      BY <1>1, <1>2, <3>1, <3>2
  <2>3. \A i \in Candidates : i # here => /\ Preference[i] \in Channel \ {c} /\ i \in Nat
                                          /\ tries'[s][Preference[i]] = tries[s][Preference[i]]
    <3>1. ASSUME NEW i \in Candidates, i # here PROVE Preference[i] \in Channel \ {c} /\ i \in Nat
      BY <1>1, <3>1, CandidateFacts DEF c
    <3>2. QED
      BY <1>2, <3>1
  <2>4. \A i \in Candidates : i < here => tries'[s][Preference[i]] = Attempts
    <3>1. ASSUME NEW i \in Candidates, i < here PROVE i \in Passed(s) /\ i # here
      <4>1. i \in Nat /\ i < place[s]
        BY <3>1, CandidateFacts DEF here
      <4>2. QED
        BY <1>1, <3>1, <4>1 DEF Passed
    <3>2. \A i \in Passed(s) : tries[s][Preference[i]] = Attempts
      BY <1>0 DEF TriesInv
    <3>3. QED
      BY <2>3, <3>1, <3>2
  <2>5. \A i \in Passed(s)' : tries'[s][Preference[i]] = Attempts
    <3>1. Passed(s)' = {i \in Candidates' :
             i < place'[s] \/ (i = place'[s] /\ stage'[s] \in {"choosing", "failed"})}
      BY DEF Passed
    <3>2. \A i \in Passed(s)' : i \in Candidates /\ (i < here \/ (i = here /\ stage'[s] = "choosing"))
      BY <1>3, <3>1 DEF here
    <3>3. stage'[s] = "choosing" => tries'[s][Preference[here]] = Attempts
      BY <1>2 DEF c
    <3>4. QED
      BY <2>4, <3>2, <3>3
  <2>6. ASSUME NEW i \in Candidates, NEW j \in Candidates, i < j, tries'[s][Preference[j]] > 0
        PROVE  tries'[s][Preference[i]] = Attempts
    <3>1. j <= here
      BY <2>2, <2>6, CandidateFacts
    <3>2. i < here
      BY <1>1, <2>6, <3>1, CandidateFacts
    <3>3. QED
      BY <2>4, <3>2
  <2>7. place'[s] = here /\ Preference' = Preference /\ Candidates' = Candidates
    BY <1>3 DEF here
  <2>8. QED
    BY <2>1, <2>2, <2>5, <2>6, <2>7 DEF TriesInv
<1>8. QED
  BY <1>4, <1>5, <1>6, <1>7 DEF CallInv

LEMMA DeliverInv ==
  ASSUME MailInv, NEW s \in Sender, Deliver(s) PROVE MailTypeOK' /\ CallInv(s)'
<1>1. PICK appeared \in BOOLEAN : Post(s, appeared, TRUE)
  BY DEF Deliver
<1>2. stage'[s] = "sent"
      /\ stage' \in [Sender -> {"idle", "choosing", "trying", "waiting", "sent", "failed"}]
  BY DEF Deliver, MailInv, MailTypeOK
<1>3. QED
  BY <1>1, <1>2, PostFacts DEF Deliver

LEMMA RefuseInv ==
  ASSUME MailInv, NEW s \in Sender, Refuse(s) PROVE MailTypeOK' /\ CallInv(s)'
<1>1. PICK appeared \in BOOLEAN : Post(s, appeared, FALSE)
  BY DEF Refuse
<1>2. /\ stage'[s] = IF attempt[s] = Attempts THEN "choosing" ELSE "waiting"
      /\ stage' \in [Sender -> {"idle", "choosing", "trying", "waiting", "sent", "failed"}]
      /\ attempt[s] \in 0..Attempts
  BY DEF Refuse, MailInv, MailTypeOK
<1>3. stage'[s] = "waiting" => attempt[s] < Attempts
  BY <1>2, AttemptsAssumption
<1>4. QED
  BY <1>1, <1>2, <1>3, PostFacts DEF Refuse

LEMMA NextMail == MailInv /\ [MailNext]_mailVars => MailInv'
<1> SUFFICES ASSUME MailInv, [MailNext]_mailVars PROVE MailInv'
  OBVIOUS
<1>1. ASSUME NEW s \in Sender, Send(s) \/ Step(s) PROVE MailInv'
  <2>1. MailTypeOK' /\ CallInv(s)'
    BY <1>1, SendInv, ChooseInv, GiveUpInv, DeliverInv, RefuseInv, ResumeInv, EndContextInv
       DEF Step
  <2>2. ASSUME NEW t \in Sender \ {s} PROVE CallInv(t)'
    BY <1>1, OnlyMine, Untouched DEF MailInv
  <2>3. QED
    BY <2>1, <2>2 DEF MailInv
<1>2. CASE UNCHANGED mailVars
  <2>1. MailTypeOK'
    BY <1>2 DEF MailInv, MailTypeOK, mailVars, Preference
  <2>2. ASSUME NEW s \in Sender PROVE CallInv(s)'
    BY <1>2, Untouched DEF MailInv, mailVars
  <2>3. QED
    BY <2>1, <2>2 DEF MailInv
<1>3. QED
  BY <1>1, <1>2 DEF MailNext

----------------------------------------------------------------------------
(* Theorems *)

(* Every variable keeps its type. *)
THEOREM MailTypeCorrect == MailSpec => []MailTypeOK
<1>1. MailInv => MailTypeOK
  BY DEF MailInv
<1>2. QED
  BY <1>1, InitMail, NextMail, PTL DEF MailSpec

LEMMA Repeats == MailInv => NoNeedlessRepeat
<1>1. ASSUME MailInv, NEW s \in Sender PROVE reached[s] <= denied[s] + 1
  <2>1. reached[s] \in Nat /\ denied[s] \in Nat
    BY <1>1 DEF MailInv, MailTypeOK
  <2>2. reached[s] <= denied[s] + (IF stage[s] = "sent" THEN 1 ELSE 0)
    BY <1>1 DEF MailInv, CallInv, VerdictInv
  <2>3. QED
    BY <2>1, <2>2
<1>2. QED
  BY <1>1, Zenon DEF NoNeedlessRepeat

LEMMA Turns == MailInv => ChannelsInTurn
<1>1. ASSUME MailInv, NEW s \in Sender, NEW c \in Channel
      PROVE  /\ tries[s][c] <= Attempts
             /\ tries[s][c] > 0 =>
                  \A i \in DOMAIN Preference :
                    (/\ Preference[i] \in enabled \ {c}
                     /\ \A j \in DOMAIN Preference : Preference[j] = c => i < j)
                      => tries[s][Preference[i]] = Attempts
  <2> SUFFICES ASSUME tries[s][c] > 0, NEW i \in DOMAIN Preference,
                      Preference[i] \in enabled \ {c},
                      \A j \in DOMAIN Preference : Preference[j] = c => i < j
               PROVE  tries[s][Preference[i]] = Attempts
    BY <1>1 DEF MailInv, CallInv, TriesInv
  <2>1. PICK j \in Candidates : Preference[j] = c
    BY <1>1 DEF MailInv, CallInv, TriesInv
  <2>2. Preference[i] # "unset"
    BY <1>1, ChannelAssumption DEF MailInv, MailTypeOK
  <2>3. PICK k \in DOMAIN Preference :
          k <= i /\ Preference[k] = Preference[i] /\ IsCandidate(k)
    BY <2>2, FirstMention
  <2>4. k \in Candidates /\ k < j
    BY <2>1, <2>3, CandidateFacts, PreferenceType DEF Candidates
  <2>5. QED
    BY <1>1, <2>1, <2>3, <2>4 DEF MailInv, CallInv, TriesInv
<1>2. ASSUME MailInv, NEW s \in Sender, stage[s] = "failed", ~ctxOver[s],
             NEW i \in DOMAIN Preference, Preference[i] \in enabled
      PROVE  tries[s][Preference[i]] = Attempts
  <2>1. Preference[i] # "unset"
    BY <1>2, ChannelAssumption DEF MailInv, MailTypeOK
  <2>2. PICK k \in DOMAIN Preference : Preference[k] = Preference[i] /\ IsCandidate(k)
    BY <2>1, FirstMention
  <2>3. k \in Candidates
    BY <1>2, <2>2 DEF Candidates
  <2>4. k \notin Usable(s) /\ place[s] \in Nat
    BY <1>2 DEF MailInv, MailTypeOK, CallInv, VerdictInv
  <2>5. k \in Passed(s)
    BY <1>2, <2>3, <2>4, CandidateFacts DEF Passed
  <2>6. QED
    BY <1>2, <2>2, <2>5 DEF MailInv, CallInv, TriesInv
<1>3. MailInv => FallbackInOrder
  BY <1>1 DEF FallbackInOrder
<1>4. MailInv => FailureIsTotal
  BY <1>2 DEF FailureIsTotal
<1>5. QED
  BY <1>3, <1>4 DEF ChannelsInTurn

(***************************************************************************)
(* A message that appears again appears for want of an answer, whatever    *)
(* the list names twice and whenever the context ends.                     *)
(***************************************************************************)
THEOREM RepeatsAnswered == MailSpec => []NoNeedlessRepeat
BY Repeats, InitMail, NextMail, PTL DEF MailSpec

(***************************************************************************)
(* Channels are asked in the order of the list, each until it is used up,  *)
(* and the verdict that all of them failed is true.                        *)
(***************************************************************************)
THEOREM OrderKept == MailSpec => []ChannelsInTurn
BY Turns, InitMail, NextMail, PTL DEF MailSpec

----------------------------------------------------------------------------
(* The invariant of a run *)

IsFunction(f) == f = [n \in Node |-> f[n]]

(* What the scenario promises of the strategy and the market. *)
GraphOK ==
  /\ strategy.nodes \subseteq Node
  /\ IsEdgeList(strategy.edges, strategy.nodes)
  /\ \A n \in strategy.nodes :
       /\ kind(n) = "rank" => param(n).top \in Nat
       /\ kind(n) = "notify" => n \in Sender
       /\ kind(n) = "data_source" =>
            /\ IsList(param(n).codes) /\ IsList(param(n).universe)
            /\ \A c \in (Range(param(n).codes) \cup Range(param(n).universe)) \ {""} :
                 IsList(market.rows[c]) /\ IsList(market.candles[c])

Shapes ==
  /\ state \in [Node -> {"idle", "writing", "sending", "success", "failed", "skipped"}]
  /\ IsFunction(payload) /\ IsFunction(picks) /\ IsFunction(tags) /\ IsFunction(created)
  /\ IsFunction(recorded) /\ IsFunction(message)
  /\ live \in BOOLEAN /\ minute \in Clock

Started(n) == state[n] \notin {"idle", "skipped"}

(* A node starts when all of its predecessors have succeeded, and they stay so. *)
InOrder ==
  /\ \A n \in strategy.nodes : Started(n) => \A p \in preds(n) : state[p] = "success"
  /\ \A n \in Node \ strategy.nodes : state[n] = "idle"

ListsIn(out) == \A s \in out.slices \cup out.series : IsList(s)

(* What a node has done agrees with how far it is. *)
NodeInv(n) ==
  /\ ListsIn(payload[n])
  /\ ~Started(n) => recorded[n] = <<>> /\ picks[n] = <<>> /\ message[n] = ""
  /\ state[n] # "writing" => created[n] = <<>>
  /\ state[n] = "writing" =>
       /\ kind(n) = "persist" /\ live /\ recorded[n] = <<>>
       /\ IsList(picks[n]) /\ IsList(created[n]) /\ Len(created[n]) <= Len(picks[n])
       /\ \A i \in 1..Len(created[n]) : created[n][i] = picks[n][i]
  /\ state[n] = "sending" => kind(n) = "notify" /\ live
  /\ recorded[n] # <<>> => kind(n) = "persist" /\ live
  /\ (recorded[n] # <<>> \/ state[n] = "success") /\ kind(n) = "persist" =>
       [i \in DOMAIN recorded[n] |-> recorded[n][i].row] = picks[n]

Labels(n) == ({sessionTag} \cup param(n).extra) \ {""}

(* What a node behind session_tag has taken of the session. *)
SessionInv(n) ==
  /\ state[n] = "writing" => tags[n] = Labels(n)
  /\ \A r \in Range(recorded[n]) : r.tags = Labels(n)
  /\ kind(n) = "notify" /\ message[n] # "" /\ param(n).subtype = "" =>
       message[n] = SubtypeForSession

Behind(t) == Descendants(strategy.edges, strategy.nodes, t)

SessionsInv ==
  \A t \in strategy.nodes : NodesOf({"session_tag"}) = {t} =>
    /\ state[t] = "success" => sessionTag # ""
    /\ \A n \in Behind(t) : SessionInv(n)

(* Send runs only for nodes that are sending, and not at all in a trial run. *)
SendsInv ==
  \A n \in Sender : ~Started(n) \/ ~live => stage[n] = "idle"

RunInv ==
  /\ MailInv
  /\ [strategy |-> strategy, market |-> market] \in Scenarios
  /\ Shapes /\ InOrder
  /\ \A n \in Node : NodeInv(n)
  /\ SessionsInv /\ SendsInv

LEMMA ScenarioGraph ==
  ASSUME [strategy |-> strategy, market |-> market] \in Scenarios PROVE GraphOK
BY ScenariosAssumption DEF GraphOK, kind, param

LEMMA BehindFacts ==
  ASSUME NEW t PROVE Behind(t) \subseteq strategy.nodes \ {t}
BY DEF Behind, Descendants

(* Nodes behind one that has not succeeded have not started. *)
LEMMA NotBefore ==
  ASSUME GraphOK, InOrder, NEW t \in strategy.nodes, state[t] # "success",
         NEW n \in Behind(t)
  PROVE  ~Started(n)
<1> DEFINE S == {m \in strategy.nodes : ~Started(m)}
<1>1. ASSUME NEW k \in strategy.nodes, state[k] # "success"
      PROVE  Successors(strategy.edges, k) \subseteq S
  <2> SUFFICES ASSUME NEW i \in DOMAIN strategy.edges, strategy.edges[i][1] = k
               PROVE  strategy.edges[i][2] \in S
    BY DEF Successors, OutEdges
  <2>1. strategy.edges[i][2] \in strategy.nodes
    BY DEF GraphOK, IsEdgeList
  <2>2. k \in preds(strategy.edges[i][2])
    BY DEF preds, Predecessors, InEdges
  <2>3. QED
    BY <1>1, <2>1, <2>2 DEF InOrder
<1>2. \A k \in S : state[k] # "success"
  BY DEF Started
<1>3. S \in SUBSET strategy.nodes /\ Successors(strategy.edges, t) \subseteq S
      /\ \A k \in S : Successors(strategy.edges, k) \subseteq S
  BY <1>1, <1>2
<1> HIDE DEF S
<1>4. n \in S
  BY <1>3 DEF Behind, Descendants
<1>5. QED
  BY <1>4 DEF S

(***************************************************************************)
(* What a step of n does to the states: n is somewhere else, and others    *)
(* are at most skipped, before they started.                               *)
(***************************************************************************)
Moves(n) ==
  /\ state' \in [Node -> {"idle", "writing", "sending", "success", "failed", "skipped"}]
  /\ state'[n] \in {"writing", "sending", "success", "failed"}
  /\ \A m \in Node \ {n} :
       state'[m] = state[m] \/ (m \in strategy.nodes /\ ~Started(m) /\ state'[m] = "skipped")

LEMMA FailMoves ==
  ASSUME GraphOK, Shapes, InOrder, NEW n \in strategy.nodes, state[n] # "success", Fail(n)
  PROVE  Moves(n) /\ state'[n] = "failed"
<1>1. n \in Node
  BY DEF GraphOK
<1>2. state' = [m \in Node |->
                  IF m = n THEN "failed" ELSE IF m \in Behind(n) THEN "skipped" ELSE state[m]]
  BY DEF Fail, Behind
<1>3. \A m \in Behind(n) : ~Started(m) /\ m \in strategy.nodes
  BY NotBefore, BehindFacts
<1>4. state' \in [Node -> {"idle", "writing", "sending", "success", "failed", "skipped"}]
  BY <1>2 DEF Shapes
<1>5. QED
  BY <1>1, <1>2, <1>3, <1>4 DEF Moves

LEMMA StateMoves ==
  ASSUME GraphOK, Shapes, NEW n \in strategy.nodes,
         NEW st \in {"writing", "sending", "success", "failed"},
         state' = [state EXCEPT ![n] = st]
  PROVE  Moves(n) /\ state'[n] = st
BY DEF GraphOK, Shapes, Moves

LEMMA MovesInOrder ==
  ASSUME GraphOK, InOrder, NEW n \in strategy.nodes, state[n] # "success", Moves(n),
         strategy' = strategy, \A p \in preds(n) : state[p] = "success"
  PROVE  InOrder'
<1>1. \A m : preds(m)' = preds(m)
  BY DEF preds
<1>2. \A m \in strategy.nodes : \A p \in preds(m) : p \in Node
  BY DEF GraphOK, preds, Predecessors, InEdges, IsEdgeList
<1>3. ASSUME NEW m \in strategy.nodes, Started(m)', NEW p \in preds(m)
      PROVE  state'[p] = "success"
  <2>1. state[p] = "success"
    <3>1. m = n \/ Started(m)
      BY <1>3 DEF Moves, Started, GraphOK
    <3>2. QED
      BY <1>3, <3>1 DEF InOrder
  <2>2. p # n /\ Started(p) /\ p \in Node
    BY <1>2, <1>3, <2>1 DEF Started
  <2>3. QED
    BY <2>1, <2>2 DEF Moves
<1>4. ASSUME NEW m \in Node \ strategy.nodes PROVE state'[m] = "idle"
  BY <1>4 DEF Moves, InOrder
<1>5. QED
  BY <1>1, <1>3, <1>4 DEF InOrder

LEMMA OthersKeep ==
  ASSUME NEW n, NEW m \in Node \ {n}, NodeInv(m), Moves(n), strategy' = strategy, live' = live,
         payload'[m] = payload[m], picks'[m] = picks[m], created'[m] = created[m],
         recorded'[m] = recorded[m], message'[m] = message[m]
  PROVE  NodeInv(m)'
<1>1. Started(m)' = Started(m) /\ (Started(m) => state'[m] = state[m])
      /\ (state'[m] = state[m] \/ (state'[m] = "skipped" /\ ~Started(m)))
  BY DEF Moves, Started
<1>2. kind(m)' = kind(m)
  BY DEF kind
<1>3. CASE state'[m] = state[m]
  BY <1>1, <1>2, <1>3 DEF NodeInv, ListsIn
<1>4. CASE state'[m] = "skipped" /\ ~Started(m)
  BY <1>1, <1>2, <1>4 DEF NodeInv, ListsIn, Started
<1>5. QED
  BY <1>1, <1>3, <1>4

LEMMA OthersAgree ==
  ASSUME NEW n, NEW m \in Node \ {n}, SessionInv(m), Moves(n), strategy' = strategy,
         sessionTag' = sessionTag, tags'[m] = tags[m], recorded'[m] = recorded[m],
         message'[m] = message[m]
  PROVE  SessionInv(m)'
<1>1. state'[m] = "writing" => state[m] = "writing"
  BY DEF Moves
<1>2. Labels(m)' = Labels(m) /\ SubtypeForSession' = SubtypeForSession
      /\ kind(m)' = kind(m) /\ param(m)' = param(m)
  BY DEF Labels, SubtypeForSession, kind, param
<1>3. QED
  BY <1>1, <1>2 DEF SessionInv

(***************************************************************************)
(* A step of n keeps the invariant if it keeps n's own part, leaves the    *)
(* others' alone, and changes the session only to set it.                  *)
(***************************************************************************)
LEMMA StepKeeps ==
  ASSUME RunInv, NEW n \in strategy.nodes, state[n] # "success", Moves(n),
         \A p \in preds(n) : state[p] = "success",
         UNCHANGED <<strategy, market, live, minute>>, MailInv', Shapes',
         \A m \in Node \ {n} :
           /\ payload'[m] = payload[m] /\ picks'[m] = picks[m] /\ tags'[m] = tags[m]
           /\ created'[m] = created[m] /\ recorded'[m] = recorded[m] /\ message'[m] = message[m],
         NodeInv(n)',
         \A t \in strategy.nodes :
           NodesOf({"session_tag"}) = {t} /\ n \in Behind(t) => SessionInv(n)',
         sessionTag' = sessionTag \/ kind(n) = "session_tag",
         kind(n) = "session_tag" /\ state'[n] = "success" => sessionTag' # "",
         \A m \in Sender \ {n} : stage'[m] = stage[m], ~live => stage' = stage
  PROVE  RunInv'
<1>1. GraphOK /\ n \in Node /\ strategy' = strategy /\ live' = live
  BY ScenarioGraph DEF RunInv, GraphOK
<1>2. InOrder'
  BY <1>1, MovesInOrder DEF RunInv
<1>3. ASSUME NEW m \in Node PROVE NodeInv(m)'
  BY <1>1, OthersKeep DEF RunInv
<1>4. SessionsInv'
  <2>1. NodesOf({"session_tag"})' = NodesOf({"session_tag"}) /\ \A t : Behind(t)' = Behind(t)
    BY <1>1 DEF NodesOf, kind, Behind
  <2>2. SUFFICES ASSUME NEW t \in strategy.nodes, NodesOf({"session_tag"}) = {t}
                 PROVE  /\ state'[t] = "success" => sessionTag' # ""
                        /\ \A m \in Behind(t) : SessionInv(m)'
    BY <1>1, <2>1 DEF SessionsInv
  <2>3. /\ state[t] = "success" => sessionTag # ""
        /\ \A m \in Behind(t) : SessionInv(m)
        /\ kind(t) = "session_tag" /\ (kind(n) = "session_tag" => n = t)
        /\ t \in Node
    BY <1>1, <2>2 DEF RunInv, SessionsInv, NodesOf, GraphOK
  <2>4. state'[t] = "success" => sessionTag' # ""
    BY <2>3 DEF Moves, Started
  <2>5. ASSUME NEW m \in Behind(t), m # n PROVE SessionInv(m)'
    <3>1. m \in Node \ {n}
      BY <1>1, <2>5, BehindFacts DEF GraphOK
    <3>2. CASE sessionTag' = sessionTag
      BY <1>1, <2>3, <2>5, <3>1, <3>2, OthersAgree
    <3>3. CASE kind(n) = "session_tag"
      <4>1. ~Started(m)
        BY <1>1, <2>3, <2>5, <3>3, NotBefore DEF RunInv
      <4>2. recorded'[m] = <<>> /\ message'[m] = "" /\ state'[m] # "writing"
        <5>1. recorded[m] = <<>> /\ message[m] = ""
          BY <3>1, <4>1 DEF RunInv, NodeInv
        <5>2. recorded'[m] = recorded[m] /\ message'[m] = message[m]
          BY <3>1
        <5>3. state'[m] # "writing"
          BY <3>1, <4>1 DEF Moves, Started
        <5>4. QED
          BY <5>1, <5>2, <5>3
      <4>3. SubtypeForSession' # ""
        BY DEF SubtypeForSession
      <4>4. Range(recorded'[m]) = {}
        BY <4>2, EmptyList
      <4>5. QED
        BY <4>2, <4>3, <4>4 DEF SessionInv
    <3>4. QED
      BY <3>2, <3>3
  <2>6. n \in Behind(t) => SessionInv(n)'
    BY <2>2
  <2>7. QED
    BY <2>4, <2>5, <2>6
<1>5. SendsInv'
  <2> SUFFICES ASSUME NEW m \in Sender, state'[m] \in {"idle", "skipped"} \/ ~live'
               PROVE  stage'[m] = "idle"
    BY Zenon DEF SendsInv, Started
  <2>1. m \in Node
    BY SenderAssumption
  <2>2. CASE ~live'
    <3>1. ~live
      <4>1. live = TRUE \/ live = FALSE
        BY DEF RunInv, Shapes
      <4>2. live' = TRUE => live'
        OBVIOUS
      <4>3. QED
        BY <1>1, <2>2, <4>1, <4>2
    <3>2. stage[m] = "idle"
      BY <3>1, Zenon DEF RunInv, SendsInv
    <3>3. QED
      BY <3>1, <3>2
  <2>3. CASE state'[m] \in {"idle", "skipped"}
    <3>1. m # n /\ ~Started(m)
      BY <2>1, <2>3 DEF Moves, Started
    <3>2. QED
      BY <3>1 DEF RunInv, SendsInv
  <2>4. QED
    BY <1>1, <2>2, <2>3
<1>6. QED
  BY <1>1, <1>2, <1>3, <1>4, <1>5 DEF RunInv

----------------------------------------------------------------------------
LEMMA IdleFacts ==
  ASSUME RunInv, NEW n \in strategy.nodes, Ready(n)
  PROVE  /\ GraphOK /\ n \in Node /\ state[n] = "idle" /\ ~Started(n)
         /\ \A p \in preds(n) : state[p] = "success" /\ p \in Node
         /\ recorded[n] = <<>> /\ picks[n] = <<>> /\ message[n] = "" /\ created[n] = <<>>
<1>1. GraphOK /\ n \in Node /\ state[n] = "idle" /\ ~Started(n)
  BY ScenarioGraph DEF RunInv, Ready, Started, GraphOK
<1>2. \A p \in preds(n) : p \in Node
  BY <1>1 DEF GraphOK, preds, Predecessors, InEdges, IsEdgeList
<1>3. QED
  BY <1>1, <1>2 DEF RunInv, NodeInv, Ready

(* A node that only computes, and hands on lists. *)
LEMMA ComputedKeeps ==
  ASSUME RunInv, NEW n \in strategy.nodes, Ready(n),
         kind(n) # "persist",
         Fail(n) \/ \E out : ListsIn(out) /\ Succeed(n, out),
         sessionTag' = sessionTag \/ (kind(n) = "session_tag" /\ sessionTag' # ""),
         kind(n) = "session_tag" /\ state'[n] = "success" => sessionTag' # "",
         UNCHANGED <<strategy, market, live, minute, picks, tags, created, recorded, message,
                     mailVars>>
  PROVE  RunInv'
<1>1. /\ GraphOK /\ n \in Node /\ state[n] = "idle"
      /\ \A p \in preds(n) : state[p] = "success"
      /\ recorded[n] = <<>> /\ message[n] = "" /\ created[n] = <<>>
      /\ Shapes /\ InOrder /\ NodeInv(n)
  BY IdleFacts DEF RunInv
<1>2. /\ Moves(n) /\ state'[n] \in {"failed", "success"}
      /\ ListsIn(payload'[n]) /\ \A m \in Node \ {n} : payload'[m] = payload[m]
      /\ IsFunction(payload')
  <2>1. CASE Fail(n)
    <3>1. Moves(n) /\ state'[n] = "failed" /\ payload' = payload
      BY <1>1, <2>1, FailMoves DEF Fail
    <3>2. QED
      BY <1>1, <3>1 DEF Shapes, NodeInv
  <2>2. CASE \E out : ListsIn(out) /\ Succeed(n, out)
    <3>1. PICK out : ListsIn(out) /\ Succeed(n, out)
      BY <2>2
    <3>2. Moves(n) /\ state'[n] = "success"
      BY <1>1, <3>1, StateMoves DEF Succeed
    <3>3. payload = [m \in Node |-> payload[m]] /\ payload' = [payload EXCEPT ![n] = out]
      BY <1>1, <3>1 DEF Shapes, IsFunction, Succeed
    <3>4. /\ payload'[n] = out /\ \A m \in Node \ {n} : payload'[m] = payload[m]
          /\ payload' = [m \in Node |-> payload'[m]]
      BY <1>1, <3>3
    <3>5. QED
      BY <3>1, <3>2, <3>4 DEF IsFunction
  <2>3. QED
    BY <2>1, <2>2
<1>3. MailInv'
  BY NextMail DEF RunInv
<1>4. Shapes'
  BY <1>1, <1>2 DEF Shapes, Moves, IsFunction
<1>5. NodeInv(n)'
  <2>1. kind(n)' = kind(n)
    BY DEF kind
  <2>2. recorded'[n] = <<>> /\ created'[n] = <<>>
    BY <1>1
  <2>3. QED
    BY <1>2, <2>1, <2>2 DEF NodeInv, Started
<1>6. SessionInv(n)'
  <2>1. Range(recorded'[n]) = {} /\ message'[n] = "" /\ state'[n] # "writing"
    BY <1>1, <1>2, EmptyList
  <2>2. QED
    BY <2>1 DEF SessionInv
<1>7. QED
  BY <1>1, <1>2, <1>3, <1>4, <1>5, <1>6, StepKeeps DEF mailVars

LEMMA NothingListed == ListsIn(NoPayload)
BY DEF ListsIn, NoPayload

LEMMA RowsListed ==
  ASSUME NEW s, IsList(s) PROVE ListsIn(Rows(s))
BY DEF ListsIn, Rows

LEMMA InputLists ==
  ASSUME RunInv, NEW n \in strategy.nodes, Ready(n)
  PROVE  \A s \in Slices(n) \cup Series(n) : IsList(s)
<1>1. ASSUME NEW p \in preds(n) PROVE ListsIn(payload[p])
  <2>1. p \in Node
    BY IdleFacts
  <2>2. QED
    BY <2>1 DEF RunInv, NodeInv
<1>2. QED
  BY <1>1, Zenon DEF Slices, Series, ListsIn

(* The ways in which a filter can end. *)
LEMMA FilterOutcomes ==
  ASSUME NEW n, Filter(n)
  PROVE  \/ Fail(n)
         \/ Succeed(n, NoPayload)
         \/ Slices(n) = {} /\ Succeed(n, Rows(<<>>))
         \/ \E s \in Slices(n) :
              Succeed(n, Rows(Sublist(s, {i \in DOMAIN s : MatchExpr(s[i], param(n))})))
<1>1. CASE MatchRoot(n)
  BY <1>1, Zenon DEF MatchRoot
<1>2. CASE MatchEach(n)
  BY <1>2, Zenon DEF MatchEach
<1>3. QED
  BY <1>1, <1>2, Zenon DEF Filter

LEMMA FilterInv ==
  ASSUME RunInv, NEW n \in strategy.nodes, Filter(n) PROVE RunInv'
<1>1. Ready(n) /\ kind(n) = "filter"
  BY DEF Filter
<1>2. Fail(n) \/ \E out : ListsIn(out) /\ Succeed(n, out)
  <2>1. CASE Slices(n) = {} /\ Succeed(n, Rows(<<>>))
    BY <2>1, EmptyList, RowsListed
  <2>2. ASSUME NEW s \in Slices(n),
               Succeed(n, Rows(Sublist(s, {i \in DOMAIN s : MatchExpr(s[i], param(n))})))
        PROVE  \E out : ListsIn(out) /\ Succeed(n, out)
    <3>1. IsList(s)
      BY <1>1, InputLists
    <3> DEFINE K == {i \in DOMAIN s : MatchExpr(s[i], param(n))}
    <3>2. K \in SUBSET DOMAIN s
      OBVIOUS
    <3> HIDE DEF K
    <3>3. ListsIn(Rows(Sublist(s, K)))
      BY <3>1, <3>2, SublistIsList, RowsListed
    <3>4. QED
      BY <2>2, <3>3 DEF K
  <2>3. CASE Succeed(n, NoPayload)
    BY <2>3, NothingListed
  <2>4. QED
    BY <2>1, <2>2, <2>3, FilterOutcomes
<1>3. QED
  BY <1>1, <1>2, ComputedKeeps DEF Filter, OnlyComputed

LEMMA DedupeInv ==
  ASSUME RunInv, NEW n \in strategy.nodes, Dedupe(n) PROVE RunInv'
<1>1. Ready(n) /\ kind(n) = "dedupe"
  BY DEF Dedupe
<1>2. \E out : ListsIn(out) /\ Succeed(n, out)
  <2>1. CASE Slices(n) = {} /\ Succeed(n, Rows(<<>>))
    BY <2>1, EmptyList, RowsListed
  <2>2. ASSUME NEW s \in Slices(n) PROVE IsList(Deduped(s))
    <3>1. IsList(s)
      BY <1>1, InputLists
    <3> DEFINE K == {i \in DOMAIN s : s[i].code = "" \/ \A j \in 1..(i - 1) : s[j].code # s[i].code}
    <3>2. K \in SUBSET DOMAIN s
      OBVIOUS
    <3> HIDE DEF K
    <3>3. IsList(Sublist(s, K))
      BY <3>1, <3>2, SublistIsList
    <3>4. QED
      BY <3>3 DEF K, Deduped
  <2>3. QED
    BY <2>1, <2>2, RowsListed DEF Dedupe
<1>3. QED
  BY <1>1, <1>2, ComputedKeeps DEF Dedupe, OnlyComputed

LEMMA RankInv ==
  ASSUME RunInv, NEW n \in strategy.nodes, Rank(n) PROVE RunInv'
<1>1. Ready(n) /\ kind(n) = "rank"
  BY DEF Rank
<1>2. \E out : ListsIn(out) /\ Succeed(n, out)
  <2>1. CASE Slices(n) = {} /\ Succeed(n, Rows(<<>>))
    BY <2>1, EmptyList, RowsListed
  <2>2. ASSUME NEW s \in Slices(n) PROVE IsList(Ranked(param(n), s))
    <3>1. IsList(s) /\ param(n).top \in Nat
      BY <1>1, InputLists, IdleFacts DEF GraphOK
    <3> DEFINE sorted == SortBy(s, [i \in DOMAIN s |-> Score(param(n), s[i])])
               last == IF param(n).top < Len(s) THEN param(n).top ELSE Len(s)
    <3>2. Ranked(param(n), s) = SubSeq(sorted, 1, last)
      BY DEF Ranked
    <3>3. DOMAIN s = 1..Len(s) /\ Len(s) \in Nat /\ sorted = [k \in 1..Len(s) |-> sorted[k]]
      BY <3>1, ListFacts DEF SortBy
    <3> HIDE DEF sorted
    <3>4. IsList(sorted) /\ Len(sorted) = Len(s)
      BY <3>3, ListOf
    <3>5. last \in 0..Len(s)
      BY <3>1, <3>3
    <3> HIDE DEF last
    <3>6. SubSeq(sorted, 1, last) \in Seq(Range(sorted))
      BY <3>3, <3>4, <3>5 DEF IsList
    <3>7. QED
      BY <3>2, <3>6, SeqIsList
  <2>3. QED
    BY <2>1, <2>2, RowsListed DEF Rank
<1>3. QED
  BY <1>1, <1>2, ComputedKeeps DEF Rank, OnlyComputed

LEMMA SessionTagInv ==
  ASSUME RunInv, NEW n \in strategy.nodes, SessionTag(n) PROVE RunInv'
<1>1. Ready(n) /\ kind(n) = "session_tag" /\ sessionTag' # ""
  BY DEF SessionTag, DeriveSessionTag
<1>2. \E out : ListsIn(out) /\ Succeed(n, out)
  BY NothingListed DEF SessionTag
<1>3. QED
  BY <1>1, <1>2, ComputedKeeps DEF SessionTag

LEMMA MergedCodes ==
  ASSUME NEW explicit, NEW universe, IsList(explicit), IsList(universe)
  PROVE  /\ IsList(MergeCodes(explicit, universe))
         /\ Range(MergeCodes(explicit, universe)) \subseteq
              (Range(explicit) \cup Range(universe)) \ {""}
<1> DEFINE all == explicit \o universe
           K == {i \in DOMAIN all : all[i] # "" /\ \A j \in 1..(i - 1) : all[j] # all[i]}
<1>1. IsList(all) /\ Range(all) \subseteq Range(explicit) \cup Range(universe)
  BY JoinedList
<1>2. K \in SUBSET DOMAIN all /\ \A i \in K : all[i] \in Range(all) \ {""}
  BY DEF Range
<1>3. MergeCodes(explicit, universe) = Sublist(all, K)
  BY DEF MergeCodes
<1> HIDE DEF all, K
<1>4. IsList(Sublist(all, K))
  BY <1>1, <1>2, SublistIsList
<1>5. ASSUME NEW k \in DOMAIN Sublist(all, K) PROVE Sublist(all, K)[k] \in Range(all) \ {""}
  <2>0. IsList(all) /\ K \in SUBSET DOMAIN all /\ k \in DOMAIN Sublist(all, K)
    BY <1>1, <1>2
  <2>1. PICK i \in K : Sublist(all, K)[k] = all[i]
    BY <2>0, SublistElement
  <2>2. QED
    BY <1>2, <2>1
<1>6. QED
  BY <1>1, <1>3, <1>4, <1>5 DEF Range

LEMMA CodesGiven ==
  ASSUME NEW p, IsList(p.codes), IsList(p.universe)
  PROVE  /\ IsList(CodesOf(p))
         /\ Range(CodesOf(p)) \subseteq Range(p.codes) \cup Range(p.universe)
<1>1. CASE p.universe = <<>>
  BY <1>1 DEF CodesOf
<1>2. CASE p.universe # <<>>
  BY <1>2, MergedCodes DEF CodesOf
<1>3. QED
  BY <1>1, <1>2

LEMMA DataSourceInv ==
  ASSUME RunInv, NEW n \in strategy.nodes, DataSource(n) PROVE RunInv'
<1> DEFINE p == param(n)
           codes == CodesOf(p)
<1>1. Ready(n) /\ kind(n) = "data_source"
  BY DEF DataSource
<1>2. /\ IsList(p.codes) /\ IsList(p.universe)
      /\ \A c \in (Range(p.codes) \cup Range(p.universe)) \ {""} :
           IsList(market.rows[c]) /\ IsList(market.candles[c])
  BY <1>1, IdleFacts DEF GraphOK
<1>3. IsList(codes) /\ \A i \in DOMAIN codes : codes[i] # "" => IsList(Answer(p, codes[i]))
  <2>1. IsList(codes)
    BY <1>2, CodesGiven
  <2>2. \A i \in DOMAIN codes : codes[i] \in Range(p.codes) \cup Range(p.universe)
    <3>1. Range(codes) \subseteq Range(p.codes) \cup Range(p.universe)
      BY <1>2, CodesGiven
    <3> HIDE DEF codes
    <3>2. \A i \in DOMAIN codes : codes[i] \in Range(codes)
      BY DEF Range
    <3>3. QED
      BY <3>1, <3>2
  <2> HIDE DEF codes
  <2>3. QED
    BY <1>2, <2>1, <2>2 DEF Answer
<1>4. ASSUME NEW answering, "" \notin answering PROVE IsList(Fetched(p, codes, answering))
  <2> DEFINE q == [i \in DOMAIN codes |->
                     IF codes[i] \in answering THEN Answer(p, codes[i]) ELSE <<>>]
  <2>1. DOMAIN codes = 1..Len(codes) /\ Len(codes) \in Nat
    BY <1>3, ListFacts
  <2>2. q = [i \in 1..Len(codes) |-> q[i]]
    BY <2>1
  <2>3. \A i \in DOMAIN q : IsList(q[i])
    BY <1>3, <1>4, EmptyList
  <2>4. Fetched(p, codes, answering) = FlattenSeq(q)
    BY DEF Fetched
  <2> HIDE DEF q
  <2>5. QED
    BY <2>1, <2>2, <2>3, <2>4, ListOf, FlatList
<1>5. \A s : IsList(s) => ListsIn([slices |-> {}, series |-> {s}])
  BY DEF ListsIn
<1>6. Fail(n) \/ \E out : ListsIn(out) /\ Succeed(n, out)
  <2> HIDE DEF p, codes
  <2>1. CASE Succeed(n, NoPayload)
    BY <2>1, NothingListed
  <2>2. ASSUME NEW answering, "" \notin answering,
               Succeed(n, IF p.subtype = "kline"
                          THEN [slices |-> {}, series |-> {Fetched(p, codes, answering)}]
                          ELSE Rows(Fetched(p, codes, answering)))
        PROVE  \E out : ListsIn(out) /\ Succeed(n, out)
    BY <1>4, <1>5, <2>2, RowsListed
  <2>3. QED
    BY <2>1, <2>2 DEF DataSource, p, codes
<1>7. QED
  BY <1>1, <1>6, ComputedKeeps DEF DataSource, OnlyComputed

LEMMA IndicatorInv ==
  ASSUME RunInv, NEW n \in strategy.nodes, Indicator(n) PROVE RunInv'
<1>1. Ready(n) /\ kind(n) = "indicator"
  BY DEF Indicator
<1>2. Fail(n) \/ \E out : ListsIn(out) /\ Succeed(n, out)
  <2>1. ASSUME NEW s \in Series(n)
        PROVE  LET codes == MergeCodes([i \in DOMAIN s |-> s[i].code], <<>>)
               IN ListsIn(Rows([i \in DOMAIN codes |->
                                  IndicatorRow(s, codes[i], param(n).period)]))
    <3> DEFINE named == [i \in DOMAIN s |-> s[i].code]
               codes == MergeCodes(named, <<>>)
               rows == [i \in DOMAIN codes |-> IndicatorRow(s, codes[i], param(n).period)]
    <3>1. DOMAIN s = 1..Len(s) /\ Len(s) \in Nat
      BY <1>1, InputLists, ListFacts
    <3>2. named = [i \in 1..Len(s) |-> named[i]]
      BY <3>1
    <3> HIDE DEF named
    <3>3. IsList(codes)
      BY <3>1, <3>2, ListOf, EmptyList, MergedCodes
    <3>4. DOMAIN codes = 1..Len(codes) /\ Len(codes) \in Nat
      BY <3>3, ListFacts
    <3> HIDE DEF codes
    <3>5. rows = [i \in 1..Len(codes) |-> rows[i]]
      BY <3>4
    <3> HIDE DEF rows
    <3>6. ListsIn(Rows(rows))
      BY <3>4, <3>5, ListOf, RowsListed
    <3>7. QED
      BY <3>6 DEF rows, codes, named
  <2>2. QED
    BY <2>1 DEF Indicator
<1>3. QED
  BY <1>1, <1>2, ComputedKeeps DEF Indicator, OnlyComputed

----------------------------------------------------------------------------
(* persist *)

LEMMA WritingInv ==
  ASSUME NEW n, state'[n] = "writing", kind(n)' = "persist", live', recorded'[n] = <<>>,
         ListsIn(payload'[n]), IsList(picks'[n]), IsList(created'[n]),
         Len(created'[n]) <= Len(picks'[n]),
         \A i \in 1..Len(created'[n]) : created'[n][i] = picks'[n][i]
  PROVE  NodeInv(n)'
BY DEF NodeInv, Started

LEMMA PersistBeginInv ==
  ASSUME RunInv, NEW n \in strategy.nodes, PersistBegin(n) PROVE RunInv'
<1>1. /\ GraphOK /\ n \in Node /\ state[n] = "idle" /\ kind(n) = "persist" /\ kind(n)' = kind(n)
      /\ \A p \in preds(n) : state[p] = "success"
      /\ recorded[n] = <<>> /\ picks[n] = <<>> /\ message[n] = "" /\ created[n] = <<>>
      /\ Shapes /\ InOrder /\ NodeInv(n)
  BY IdleFacts DEF RunInv, PersistBegin, kind
<1>2. MailInv' /\ UNCHANGED <<strategy, market, live, minute, stage>>
  BY NextMail DEF RunInv, PersistBegin, mailVars
<1>3. Range(recorded'[n]) = {} /\ message'[n] = ""
  BY <1>1, EmptyList DEF PersistBegin
<1>4. CASE Succeed(n, NoPayload) /\ UNCHANGED <<picks, tags>>
  <2>1. Moves(n) /\ state'[n] = "success"
    BY <1>1, <1>4, StateMoves DEF Succeed
  <2>2. /\ payload = [m \in Node |-> payload[m]]
        /\ payload' = [payload EXCEPT ![n] = NoPayload]
    BY <1>1, <1>4 DEF Shapes, IsFunction, Succeed
  <2>3. /\ payload'[n] = NoPayload /\ \A m \in Node \ {n} : payload'[m] = payload[m]
        /\ IsFunction(payload')
    BY <1>1, <2>2 DEF IsFunction
  <2>4. Shapes'
    BY <1>1, <1>4, <2>1, <2>3 DEF Shapes, Moves, IsFunction, PersistBegin
  <2>5. NodeInv(n)'
    <3>1. recorded'[n] = <<>> /\ picks'[n] = <<>> /\ created'[n] = <<>>
      BY <1>1, <1>4 DEF PersistBegin
    <3>2. [i \in DOMAIN recorded'[n] |-> recorded'[n][i].row] = <<>>
      BY <3>1
    <3>3. QED
      BY <1>1, <2>1, <2>3, <3>1, <3>2, NothingListed DEF NodeInv, Started
  <2>6. SessionInv(n)'
    BY <1>3, <2>1 DEF SessionInv
  <2>7. QED
    BY <1>1, <1>2, <1>4, <2>1, <2>3, <2>4, <2>5, <2>6, StepKeeps DEF PersistBegin
<1>5. CASE Fail(n) /\ UNCHANGED <<picks, tags>>
  <2>1. Moves(n) /\ state'[n] = "failed" /\ payload' = payload
    BY <1>1, <1>5, FailMoves DEF Fail
  <2>2. Shapes'
    BY <1>1, <1>5, <2>1 DEF Shapes, Moves, IsFunction, PersistBegin
  <2>3. NodeInv(n)'
    BY <1>1, <1>5, <2>1 DEF NodeInv, Started, PersistBegin
  <2>4. SessionInv(n)'
    BY <1>3, <2>1 DEF SessionInv
  <2>5. QED
    BY <1>1, <1>2, <1>5, <2>1, <2>2, <2>3, <2>4, StepKeeps DEF PersistBegin
<1>6. CASE /\ live /\ payload' = payload
           /\ \E s \in Slices(n) : picks' = [picks EXCEPT ![n] = WithCode(s)]
           /\ tags' = [tags EXCEPT ![n] = Labels(n)]
           /\ state' = [state EXCEPT ![n] = "writing"]
  <2>1. Moves(n) /\ state'[n] = "writing"
    BY <1>1, <1>6, StateMoves
  <2>2. PICK s \in Slices(n) : picks' = [picks EXCEPT ![n] = WithCode(s)]
    BY <1>6
  <2>3. IsList(WithCode(s))
    <3>1. IsList(s)
      BY InputLists DEF PersistBegin
    <3> DEFINE K == {i \in DOMAIN s : s[i].code # ""}
    <3>2. K \in SUBSET DOMAIN s
      OBVIOUS
    <3> HIDE DEF K
    <3>3. QED
      BY <3>1, <3>2, SublistIsList DEF WithCode, K
  <2>4. /\ picks'[n] = WithCode(s) /\ tags'[n] = Labels(n)
        /\ \A m \in Node \ {n} : picks'[m] = picks[m] /\ tags'[m] = tags[m]
        /\ IsFunction(picks') /\ IsFunction(tags')
    <3>1. picks = [m \in Node |-> picks[m]] /\ tags = [m \in Node |-> tags[m]]
      BY <1>1 DEF Shapes, IsFunction
    <3>2. QED
      BY <1>1, <1>6, <2>2, <3>1 DEF IsFunction
  <2>5. Shapes'
    BY <1>1, <1>6, <2>1, <2>4 DEF Shapes, Moves, IsFunction, PersistBegin
  <2>6. Len(created'[n]) = 0 /\ created'[n] = <<>> /\ Len(picks'[n]) \in Nat /\ IsList(picks'[n])
    BY <1>1, <2>3, <2>4, EmptyList, ListFacts DEF PersistBegin
  <2>7. NodeInv(n)'
    <3>1. live' /\ payload'[n] = payload[n] /\ recorded'[n] = <<>>
      BY <1>1, <1>6 DEF PersistBegin
    <3>2. \A i \in 1..Len(created'[n]) : created'[n][i] = picks'[n][i]
      BY <2>6
    <3>3. ListsIn(payload'[n]) /\ kind(n)' = "persist" /\ Len(created'[n]) <= Len(picks'[n])
          /\ IsList(created'[n])
      <4>1. ListsIn(payload[n])
        BY <1>1 DEF NodeInv
      <4>2. IsList(created'[n]) /\ Len(created'[n]) <= Len(picks'[n])
        BY <2>6, EmptyList
      <4>3. QED
        BY <1>1, <3>1, <4>1, <4>2
    <3>4. QED
      BY <2>1, <2>6, <3>1, <3>2, <3>3, WritingInv
  <2>8. SessionInv(n)'
    <3>1. Labels(n)' = Labels(n)
      BY DEF Labels, param, PersistBegin
    <3>2. QED
      BY <1>3, <2>4, <3>1 DEF SessionInv
  <2>9. QED
    BY <1>1, <1>2, <1>6, <2>1, <2>4, <2>5, <2>7, <2>8, StepKeeps DEF PersistBegin
<1>7. QED
  BY <1>4, <1>5, <1>6 DEF PersistBegin, Labels

LEMMA WritingFacts ==
  ASSUME RunInv, NEW n \in strategy.nodes, state[n] = "writing"
  PROVE  /\ GraphOK /\ n \in Node /\ kind(n) = "persist" /\ live /\ recorded[n] = <<>>
         /\ \A p \in preds(n) : state[p] = "success"
         /\ IsList(picks[n]) /\ IsList(created[n])
         /\ Len(created[n]) \in Nat /\ Len(picks[n]) \in Nat /\ Len(created[n]) <= Len(picks[n])
         /\ \A i \in 1..Len(created[n]) : created[n][i] = picks[n][i]
         /\ Shapes /\ InOrder /\ NodeInv(n)
         /\ created = [m \in Node |-> created[m]] /\ recorded = [m \in Node |-> recorded[m]]
         /\ payload = [m \in Node |-> payload[m]]
<1>1. GraphOK /\ n \in Node /\ Started(n)
  BY ScenarioGraph DEF RunInv, GraphOK, Started
<1>2. Shapes /\ InOrder /\ NodeInv(n)
  BY <1>1 DEF RunInv
<1>3. IsList(picks[n]) /\ IsList(created[n])
  BY <1>2 DEF NodeInv
<1>4. QED
  BY <1>1, <1>2, <1>3, ListFacts DEF NodeInv, InOrder, Shapes, IsFunction

LEMMA PersistCreateInv ==
  ASSUME RunInv, NEW n \in strategy.nodes, PersistCreate(n) PROVE RunInv'
<1> DEFINE c == created[n]
           d == Append(c, picks[n][Len(c) + 1])
<1>1. /\ state[n] = "writing" /\ Len(c) < Len(picks[n]) /\ UNCHANGED payload
      /\ UNCHANGED <<strategy, market, live, minute, sessionTag, picks, tags, recorded, message,
                     mailVars>>
  BY DEF PersistCreate, Fail
<1>2. MailInv' /\ kind(n)' = kind(n)
  BY <1>1, NextMail DEF RunInv, kind
<1>3. CASE created' = [created EXCEPT ![n] = d] /\ UNCHANGED state
  <2>1. Moves(n) /\ state'[n] = "writing"
    BY <1>1, <1>3, WritingFacts DEF Moves, Shapes
  <2>2. created'[n] = d /\ IsFunction(created') /\ \A m \in Node \ {n} : created'[m] = created[m]
    BY <1>1, <1>3, WritingFacts DEF IsFunction
  <2>3. Shapes'
    BY <1>1, <2>1, <2>2, WritingFacts DEF Shapes, Moves, IsFunction
  <2>4. /\ IsList(d) /\ Len(d) = Len(c) + 1 /\ \A i \in 1..Len(d) : d[i] = picks[n][i]
    <3> DEFINE x == picks[n][Len(c) + 1]
               U == Range(c) \cup {x}
    <3>1. c \in Seq(U) /\ x \in U /\ Len(c) \in Nat
      BY <1>1, WritingFacts DEF IsList
    <3>2. \A i \in 1..Len(c) : c[i] = picks[n][i]
      BY <1>1, WritingFacts
    <3> HIDE DEF U, c
    <3>3. d \in Seq(U) /\ Len(d) = Len(c) + 1 /\ d[Len(c) + 1] = x
          /\ \A i \in 1..Len(c) : d[i] = c[i]
      BY <3>1
    <3>4. \A i \in 1..(Len(c) + 1) : i = Len(c) + 1 \/ i \in 1..Len(c)
      BY <3>1
    <3> HIDE DEF d
    <3>5. QED
      BY <3>2, <3>3, <3>4, SeqIsList
  <2> HIDE DEF c, d
  <2>5. Len(d) <= Len(picks[n])
    BY <1>1, <2>4, WritingFacts DEF c
  <2>6. NodeInv(n)'
    <3>1. ListsIn(payload[n]) /\ payload'[n] = payload[n] /\ kind(n)' = "persist"
      BY <1>1, <1>2, WritingFacts DEF NodeInv
    <3>2. recorded'[n] = <<>> /\ picks'[n] = picks[n] /\ live' /\ IsList(picks[n])
      BY <1>1, WritingFacts
    <3>3. QED
      BY <2>1, <2>2, <2>4, <2>5, <3>1, <3>2, WritingInv
  <2>7. Labels(n)' = Labels(n) /\ kind(n)' = kind(n) /\ param(n)' = param(n)
        /\ SubtypeForSession' = SubtypeForSession
    BY <1>1 DEF Labels, kind, param, SubtypeForSession
  <2>8. /\ preds(n)' = preds(n)
    BY <1>1 DEF preds
  <2>9. SessionsInv'
    <3>1. NodesOf({"session_tag"})' = NodesOf({"session_tag"})
          /\ (\A t : Behind(t)' = Behind(t)) /\ (\A m : SessionInv(m)' = SessionInv(m))
      BY <1>1, <1>3 DEF NodesOf, kind, Behind, SessionInv, Labels, param, SubtypeForSession
    <3>2. QED
      BY <1>1, <1>3, <3>1 DEF RunInv, SessionsInv
  <2>10. ASSUME NEW m \in Node PROVE NodeInv(m)'
    <3>1. CASE m = n
      BY <2>6, <3>1
    <3>2. CASE m # n
      BY <1>1, <2>1, <2>2, <3>2, OthersKeep DEF RunInv
    <3>3. QED
      BY <3>1, <3>2
  <2>11. InOrder' /\ SendsInv'
    BY <1>1, <1>3 DEF RunInv, InOrder, SendsInv, Started, preds, mailVars
  <2>12. QED
    BY <1>1, <1>2, <2>3, <2>9, <2>10, <2>11 DEF RunInv
<1>4. CASE Fail(n) /\ created' = [created EXCEPT ![n] = <<>>]
  <2>1. Moves(n) /\ state'[n] = "failed"
    BY <1>1, <1>4, WritingFacts, FailMoves
  <2>2. /\ created'[n] = <<>> /\ IsFunction(created')
        /\ \A m \in Node \ {n} : created'[m] = created[m]
    BY <1>1, <1>4, WritingFacts DEF IsFunction
  <2>3. Shapes'
    BY <1>1, <2>1, <2>2, WritingFacts DEF Shapes, Moves, IsFunction
  <2>4. NodeInv(n)'
    BY <1>1, <1>2, <2>1, <2>2, WritingFacts DEF NodeInv, Started
  <2>5. SessionInv(n)'
    <3>1. Range(recorded'[n]) = {} /\ kind(n)' = "persist"
      BY <1>1, <1>2, WritingFacts, EmptyList
    <3>2. QED
      BY <2>1, <3>1 DEF SessionInv
  <2>6. QED
    BY <1>1, <1>2, <2>1, <2>2, <2>3, <2>4, <2>5, WritingFacts, StepKeeps DEF mailVars
<1>5. QED
  BY <1>3, <1>4 DEF PersistCreate

(* Whatever becomes of the commit, the node ends. *)
LEMMA CommitMoves ==
  ASSUME RunInv, NEW n \in strategy.nodes, state[n] = "writing",
         Succeed(n, NoPayload) \/ Fail(n)
  PROVE  /\ Moves(n) /\ state'[n] \in {"success", "failed"}
         /\ ListsIn(payload'[n]) /\ IsFunction(payload')
         /\ \A m \in Node \ {n} : payload'[m] = payload[m]
<1>1. GraphOK /\ n \in Node /\ Shapes /\ InOrder /\ NodeInv(n)
      /\ payload = [m \in Node |-> payload[m]]
  BY WritingFacts
<1>2. CASE Succeed(n, NoPayload)
  <2>1. Moves(n) /\ state'[n] = "success"
    BY <1>1, <1>2, StateMoves DEF Succeed
  <2>2. payload' = [payload EXCEPT ![n] = NoPayload]
    BY <1>2 DEF Succeed
  <2>3. /\ payload'[n] = NoPayload /\ payload' = [m \in Node |-> payload'[m]]
        /\ \A m \in Node \ {n} : payload'[m] = payload[m]
    BY <1>1, <2>2
  <2>4. QED
    BY <2>1, <2>3, NothingListed DEF IsFunction
<1>3. CASE Fail(n)
  <2>1. Moves(n) /\ state'[n] = "failed" /\ payload' = payload
    BY <1>1, <1>3, FailMoves DEF Fail
  <2>2. QED
    BY <1>1, <2>1 DEF NodeInv, IsFunction
<1>4. QED
  BY <1>2, <1>3

LEMMA PersistCommitInv ==
  ASSUME RunInv, NEW n \in strategy.nodes, PersistCommit(n) PROVE RunInv'
<1> DEFINE rows == [i \in DOMAIN created[n] |-> Recommendation(n, created[n][i])]
<1>1. /\ state[n] = "writing" /\ Len(created[n]) = Len(picks[n])
      /\ created' = [created EXCEPT ![n] = <<>>]
      /\ UNCHANGED <<strategy, market, live, minute, sessionTag, picks, tags, message, mailVars>>
      /\ kind(n)' = kind(n) /\ kind(n) = "persist" /\ param(n)' = param(n)
  BY WritingFacts DEF PersistCommit, kind, param
<1>2. MailInv'
  BY <1>1, NextMail DEF RunInv
<1>3. /\ created'[n] = <<>> /\ IsFunction(created')
      /\ \A m \in Node \ {n} : created'[m] = created[m]
  BY <1>1, WritingFacts DEF IsFunction
<1>4. DOMAIN created[n] = 1..Len(created[n]) /\ Len(created[n]) \in Nat
      /\ picks[n] = [i \in 1..Len(picks[n]) |-> picks[n][i]]
  BY <1>1, WritingFacts, ListFacts
<1>5. rows = [i \in 1..Len(created[n]) |-> rows[i]] /\ IsList(rows)
  <2>1. rows = [i \in 1..Len(created[n]) |-> rows[i]]
    BY <1>4
  <2> HIDE DEF rows
  <2>2. QED
    BY <1>4, <2>1, ListOf
<1>6. [i \in DOMAIN rows |-> rows[i].row] = picks[n]
  <2>1. DOMAIN rows = 1..Len(picks[n])
    BY <1>1, <1>4
  <2>2. \A i \in 1..Len(picks[n]) : rows[i].row = created[n][i]
    BY <1>1, <1>4 DEF Recommendation
  <2>3. \A i \in 1..Len(picks[n]) : rows[i].row = picks[n][i]
    BY <1>1, <2>2, WritingFacts
  <2> HIDE DEF rows
  <2>4. QED
    BY <1>4, <2>1, <2>3
<1>7. \A i \in DOMAIN rows : rows[i].tags = tags[n]
  BY DEF Recommendation
<1> HIDE DEF rows
<1>8. CASE recorded' = [recorded EXCEPT ![n] = @ \o rows]
  <2>1. recorded'[n] = rows /\ IsFunction(recorded')
        /\ \A m \in Node \ {n} : recorded'[m] = recorded[m]
    <3>1. recorded[n] = <<>> /\ rows \in Seq(Range(rows))
      BY <1>1, <1>5, WritingFacts DEF IsList
    <3>2. <<>> \o rows = rows
      BY <3>1
    <3>3. QED
      BY <1>1, <1>8, <3>1, <3>2, WritingFacts DEF IsFunction
  <2>2. /\ Moves(n) /\ state'[n] \in {"success", "failed"}
        /\ ListsIn(payload'[n]) /\ IsFunction(payload')
        /\ \A m \in Node \ {n} : payload'[m] = payload[m]
    BY <1>1, CommitMoves DEF PersistCommit
  <2>3. Shapes'
    BY <1>1, <1>3, <2>1, <2>2, WritingFacts DEF Shapes, Moves, IsFunction
  <2>4. NodeInv(n)'
    <3>1. [i \in DOMAIN recorded'[n] |-> recorded'[n][i].row] = picks'[n] /\ live'
      BY <1>1, <1>6, <2>1, WritingFacts
    <3>2. QED
      BY <1>1, <1>3, <2>2, <3>1 DEF NodeInv, Started
  <2>5. ASSUME NEW t \in strategy.nodes, NodesOf({"session_tag"}) = {t}, n \in Behind(t)
        PROVE  SessionInv(n)'
    <3>1. tags[n] = Labels(n) /\ Labels(n)' = Labels(n)
      <4>1. SessionInv(n)
        BY <2>5 DEF RunInv, SessionsInv
      <4>2. QED
        BY <1>1, <4>1 DEF SessionInv, Labels
    <3>2. \A r \in Range(recorded'[n]) : r.tags = Labels(n)
      BY <1>7, <2>1, <3>1 DEF Range
    <3>3. QED
      BY <1>1, <2>2, <3>1, <3>2 DEF SessionInv
  <2>6. QED
    BY <1>1, <1>2, <1>3, <2>1, <2>2, <2>3, <2>4, <2>5, WritingFacts, StepKeeps DEF mailVars
<1>9. CASE recorded' = recorded /\ Fail(n)
  <2>1. Moves(n) /\ state'[n] = "failed" /\ payload' = payload
    BY <1>1, <1>9, WritingFacts, FailMoves DEF Fail
  <2>2. Shapes'
    BY <1>1, <1>3, <1>9, <2>1, WritingFacts DEF Shapes, Moves, IsFunction
  <2>3. NodeInv(n)'
    <3>1. ListsIn(payload'[n]) /\ recorded'[n] = <<>>
      BY <1>1, <1>9, <2>1, WritingFacts DEF NodeInv
    <3>2. QED
      BY <1>1, <1>3, <2>1, <3>1 DEF NodeInv, Started
  <2>4. SessionInv(n)'
    <3>1. Range(recorded'[n]) = {} /\ kind(n)' = "persist"
      BY <1>1, <1>9, WritingFacts, EmptyList
    <3>2. QED
      BY <2>1, <3>1 DEF SessionInv
  <2>5. QED
    BY <1>1, <1>2, <1>3, <1>9, <2>1, <2>2, <2>3, <2>4, WritingFacts, StepKeeps DEF mailVars
<1>10. QED
  BY <1>8, <1>9 DEF PersistCommit, rows

----------------------------------------------------------------------------
(* notify *)

LEMMA NotifyBeginInv ==
  ASSUME RunInv, NEW n \in strategy.nodes, NotifyBegin(n) PROVE RunInv'
<1>1. /\ GraphOK /\ n \in Node /\ state[n] = "idle" /\ kind(n) = "notify" /\ n \in Sender
      /\ \A p \in preds(n) : state[p] = "success"
      /\ recorded[n] = <<>> /\ created[n] = <<>>
      /\ Shapes /\ InOrder /\ NodeInv(n)
      /\ picks = [m \in Node |-> picks[m]] /\ message = [m \in Node |-> message[m]]
      /\ payload = [m \in Node |-> payload[m]]
  BY IdleFacts DEF RunInv, NotifyBegin, GraphOK, Shapes, IsFunction
<1>2. /\ UNCHANGED <<strategy, market, live, minute, sessionTag, tags, created, recorded>>
      /\ kind(n)' = kind(n) /\ param(n)' = param(n) /\ SubtypeForSession' = SubtypeForSession
  BY DEF NotifyBegin, kind, param, SubtypeForSession
<1>3. /\ IsFunction(picks') /\ \A m \in Node \ {n} : picks'[m] = picks[m]
  <2>1. PICK x : picks' = [picks EXCEPT ![n] = x]
    BY DEF NotifyBegin
  <2>2. QED
    BY <1>1, <2>1 DEF IsFunction
<1>4. /\ IsFunction(message') /\ \A m \in Node \ {n} : message'[m] = message[m]
      /\ param(n).subtype = "" => message'[n] = SubtypeForSession
  <2>1. message' = [message EXCEPT ![n] =
                      IF param(n).subtype # "" THEN param(n).subtype ELSE SubtypeForSession]
    BY DEF NotifyBegin
  <2>2. QED
    BY <1>1, <2>1 DEF IsFunction
<1>5. /\ Moves(n) /\ state'[n] \in {"sending", "success"} /\ (state'[n] = "sending" => live)
      /\ ListsIn(payload'[n]) /\ IsFunction(payload')
      /\ \A m \in Node \ {n} : payload'[m] = payload[m]
      /\ MailInv' /\ (\A m \in Sender \ {n} : stage'[m] = stage[m]) /\ (~live => stage' = stage)
  <2>1. CASE live /\ HasChannel
    <3>1. Moves(n) /\ state'[n] = "sending" /\ payload' = payload /\ Send(n)
      BY <1>1, <2>1, StateMoves DEF NotifyBegin
    <3>2. MailInv'
      BY <1>1, <3>1, NextMail DEF RunInv, MailNext
    <3>3. \A m \in Sender \ {n} : stage'[m] = stage[m]
      BY <1>1, <3>1, OnlyMine DEF RunInv, MailInv
    <3>4. ListsIn(payload[n])
      BY <1>1 DEF NodeInv
    <3>5. IsFunction(payload')
      BY <1>1, <3>1 DEF IsFunction
    <3>6. QED
      BY <2>1, <3>1, <3>2, <3>3, <3>4, <3>5
  <2>2. CASE ~(live /\ HasChannel)
    <3>1. Succeed(n, NoPayload) /\ UNCHANGED mailVars
      BY <2>2 DEF NotifyBegin
    <3>2. Moves(n) /\ state'[n] = "success"
      BY <1>1, <3>1, StateMoves DEF Succeed
    <3>3. payload' = [payload EXCEPT ![n] = NoPayload]
      BY <3>1 DEF Succeed
    <3>4. /\ payload'[n] = NoPayload /\ payload' = [m \in Node |-> payload'[m]]
          /\ \A m \in Node \ {n} : payload'[m] = payload[m]
      BY <1>1, <3>3
    <3>5. MailInv' /\ stage' = stage
      BY <3>1, NextMail DEF RunInv, mailVars
    <3>6. QED
      BY <3>2, <3>4, <3>5, NothingListed DEF IsFunction
  <2>3. QED
    BY <2>1, <2>2
<1>6. Shapes'
  BY <1>1, <1>2, <1>3, <1>4, <1>5 DEF Shapes, Moves, IsFunction
<1>7. NodeInv(n)'
  <2>1. state'[n] = "sending" => live'
    BY <1>2, <1>5
  <2>2. recorded'[n] = <<>> /\ created'[n] = <<>> /\ kind(n)' = "notify"
    BY <1>1, <1>2
  <2>3. QED
    BY <1>5, <2>1, <2>2 DEF NodeInv, Started
<1>8. SessionInv(n)'
  <2>1. Range(recorded'[n]) = {} /\ state'[n] # "writing"
    BY <1>1, <1>2, <1>5, EmptyList
  <2>2. QED
    BY <1>2, <1>4, <2>1 DEF SessionInv
<1>9. QED
  BY <1>1, <1>2, <1>3, <1>4, <1>5, <1>6, <1>7, <1>8, StepKeeps

LEMMA NotifyEndInv ==
  ASSUME RunInv, NEW n \in strategy.nodes, NotifyEnd(n) PROVE RunInv'
<1>1. /\ GraphOK /\ n \in Node /\ state[n] = "sending" /\ kind(n) = "notify"
      /\ \A p \in preds(n) : state[p] = "success"
      /\ recorded[n] = <<>> /\ created[n] = <<>>
      /\ Shapes /\ InOrder /\ NodeInv(n)
      /\ payload = [m \in Node |-> payload[m]]
  <2>1. GraphOK /\ n \in Node /\ state[n] = "sending" /\ Started(n)
    BY ScenarioGraph DEF RunInv, NotifyEnd, GraphOK, Started
  <2>2. Shapes /\ InOrder /\ NodeInv(n)
    BY <2>1 DEF RunInv
  <2>3. kind(n) = "notify" /\ recorded[n] = <<>> /\ created[n] = <<>>
    BY <2>1, <2>2 DEF NodeInv
  <2>4. QED
    BY <2>1, <2>2, <2>3 DEF InOrder, Shapes, IsFunction
<1>2. /\ UNCHANGED <<strategy, market, live, minute, sessionTag, picks, tags, created, recorded,
                     message, mailVars>>
      /\ kind(n)' = kind(n) /\ param(n)' = param(n) /\ SubtypeForSession' = SubtypeForSession
  BY DEF NotifyEnd, OnlyComputed, kind, param, SubtypeForSession
<1>3. /\ Moves(n) /\ state'[n] \in {"success", "failed"}
      /\ ListsIn(payload'[n]) /\ IsFunction(payload')
      /\ \A m \in Node \ {n} : payload'[m] = payload[m]
  <2>1. CASE Succeed(n, NoPayload)
    <3>1. Moves(n) /\ state'[n] = "success"
      BY <1>1, <2>1, StateMoves DEF Succeed
    <3>2. payload' = [payload EXCEPT ![n] = NoPayload]
      BY <2>1 DEF Succeed
    <3>3. /\ payload'[n] = NoPayload /\ payload' = [m \in Node |-> payload'[m]]
          /\ \A m \in Node \ {n} : payload'[m] = payload[m]
      BY <1>1, <3>2
    <3>4. QED
      BY <3>1, <3>3, NothingListed DEF IsFunction
  <2>2. CASE Fail(n)
    <3>1. Moves(n) /\ state'[n] = "failed" /\ payload' = payload
      BY <1>1, <2>2, FailMoves DEF Fail
    <3>2. QED
      BY <1>1, <3>1 DEF NodeInv, IsFunction
  <2>3. QED
    BY <2>1, <2>2 DEF NotifyEnd
<1>4. MailInv'
  BY <1>2, NextMail DEF RunInv
<1>5. Shapes'
  BY <1>1, <1>2, <1>3 DEF Shapes, Moves, IsFunction
<1>6. NodeInv(n)'
  <2>1. recorded'[n] = <<>> /\ created'[n] = <<>> /\ kind(n)' = "notify"
    BY <1>1, <1>2
  <2>2. QED
    BY <1>3, <2>1 DEF NodeInv, Started
<1>7. ASSUME NEW t \in strategy.nodes, NodesOf({"session_tag"}) = {t}, n \in Behind(t)
      PROVE  SessionInv(n)'
  <2>1. SessionInv(n)
    BY <1>7 DEF RunInv, SessionsInv
  <2>2. Range(recorded'[n]) = {} /\ state'[n] # "writing"
    BY <1>1, <1>2, <1>3, EmptyList
  <2>3. QED
    BY <1>2, <2>1, <2>2 DEF SessionInv
<1>8. QED
  BY <1>1, <1>2, <1>3, <1>4, <1>5, <1>6, <1>7, StepKeeps DEF mailVars

(* Steps that leave the nodes alone. *)
LEMMA AsideKeeps ==
  ASSUME RunInv, MailInv', SendsInv', minute' \in Clock,
         UNCHANGED <<strategy, market, live, state, payload, sessionTag, picks, tags, created,
                     recorded, message>>
  PROVE  RunInv'
<1>1. Shapes' /\ InOrder'
  BY DEF RunInv, Shapes, InOrder, IsFunction, Started, preds
<1>2. \A n \in Node : NodeInv(n)'
  BY DEF RunInv, NodeInv, Started, kind
<1>3. SessionsInv'
  <2>1. NodesOf({"session_tag"})' = NodesOf({"session_tag"})
        /\ (\A t : Behind(t)' = Behind(t)) /\ (\A m : SessionInv(m)' = SessionInv(m))
    BY DEF NodesOf, kind, Behind, SessionInv, Labels, param, SubtypeForSession
  <2>2. QED
    BY <2>1 DEF RunInv, SessionsInv
<1>4. QED
  BY <1>1, <1>2, <1>3 DEF RunInv

LEMMA NotifyStepInv ==
  ASSUME RunInv, NEW n \in Sender, NotifyStep(n) PROVE RunInv'
<1>1. Step(n) /\ UNCHANGED <<strategy, market, live, minute, state, payload, sessionTag, picks,
                             tags, created, recorded, message>>
  BY DEF NotifyStep, runVars
<1>2. MailInv'
  BY <1>1, NextMail DEF RunInv, MailNext
<1>3. stage[n] # "idle"
  BY <1>1 DEF Step, Choose, GiveUp, Deliver, Refuse, Resume, EndContext
<1>4. \A m \in Sender \ {n} : stage'[m] = stage[m]
  BY <1>1, OnlyMine DEF RunInv, MailInv
<1>5. SendsInv'
  BY <1>1, <1>3, <1>4 DEF RunInv, SendsInv, Started
<1>6. QED
  BY <1>1, <1>2, <1>5, AsideKeeps DEF RunInv, Shapes

LEMMA InitRun == Init => RunInv
<1> SUFFICES ASSUME Init PROVE RunInv
  OBVIOUS
<1>1. [strategy |-> strategy, market |-> market] \in Scenarios
  BY ScenariosAssumption DEF Init
<1>2. GraphOK /\ MailInv
  BY <1>1, ScenarioGraph, InitMail DEF Init
<1>3. Shapes /\ InOrder
  BY <1>2 DEF Init, Shapes, InOrder, IsFunction, Started, GraphOK
<1>4. ASSUME NEW n \in Node PROVE NodeInv(n)
  <2>1. /\ payload[n] = NoPayload /\ recorded[n] = <<>> /\ picks[n] = <<>> /\ message[n] = ""
        /\ created[n] = <<>> /\ state[n] = "idle"
    BY DEF Init
  <2>2. QED
    BY <2>1, NothingListed DEF NodeInv, Started
<1>5. SessionsInv
  <2> SUFFICES ASSUME NEW t \in strategy.nodes
               PROVE  state[t] # "success" /\ \A n \in Behind(t) : SessionInv(n)
    BY DEF SessionsInv
  <2>1. t \in Node /\ \A n \in Behind(t) : n \in Node
    BY <1>2, BehindFacts DEF GraphOK
  <2>2. \A n \in Node : state[n] = "idle" /\ recorded[n] = <<>> /\ message[n] = ""
    BY DEF Init
  <2>3. QED
    BY <2>1, <2>2, EmptyList DEF SessionInv
<1>6. SendsInv
  BY DEF Init, MailInit, SendsInv
<1>7. QED
  BY <1>1, <1>2, <1>3, <1>4, <1>5, <1>6 DEF RunInv

LEMMA NextRun == RunInv /\ [Next]_vars => RunInv'
<1> SUFFICES ASSUME RunInv, [Next]_vars PROVE RunInv'
  OBVIOUS
<1>1. ASSUME NEW n \in strategy.nodes, NodeStep(n) PROVE RunInv'
  BY <1>1, DataSourceInv, IndicatorInv, FilterInv, RankInv, DedupeInv, SessionTagInv,
     PersistBeginInv, PersistCreateInv, PersistCommitInv, NotifyBeginInv, NotifyEndInv
     DEF NodeStep
<1>2. ASSUME NEW n \in Sender, NotifyStep(n) PROVE RunInv'
  BY <1>2, NotifyStepInv
<1>3. CASE Tick
  <2>1. MailInv' /\ SendsInv' /\ minute' \in Clock
    BY <1>3, NextMail DEF RunInv, Tick, SendsInv, Started, mailVars
  <2>2. QED
    BY <1>3, <2>1, AsideKeeps DEF Tick
<1>4. CASE UNCHANGED vars
  <2>1. MailInv' /\ SendsInv' /\ minute' \in Clock
    BY <1>4, NextMail DEF RunInv, Shapes, vars, runVars, SendsInv, Started, mailVars
  <2>2. QED
    BY <1>4, <2>1, AsideKeeps DEF vars, runVars
<1>5. QED
  BY <1>1, <1>2, <1>3, <1>4 DEF Next, Over

----------------------------------------------------------------------------
(* Theorems about Selection *)

(***************************************************************************)
(* The inductive invariant of a run: nodes start in the order of the       *)
(* graph, and what each has taken, written and sent agrees with its state. *)
(***************************************************************************)
THEOREM RunInvariant == Spec => []RunInv
BY InitRun, NextRun, PTL DEF Spec

(* Every variable keeps its type, and a node is sending exactly while its call runs. *)
THEOREM TypeCorrect == Spec => []TypeOK
<1>1. ASSUME RunInv PROVE TypeOK
  <2>1. MailTypeOK /\ Shapes /\ SendsInv
    BY <1>1 DEF RunInv, MailInv
  <2>2. \A n \in Node : \A s \in payload[n].slices \cup payload[n].series : IsList(s)
    BY <1>1 DEF RunInv, NodeInv, ListsIn
  <2>3. \A n \in Node : state[n] # "writing" => created[n] = <<>>
    BY <1>1 DEF RunInv, NodeInv
  <2>4. \A n \in Sender : state[n] \in {"idle", "skipped"} => stage[n] = "idle"
    BY <2>1 DEF SendsInv, Started
  <2>5. QED
    BY <1>1, <2>1, <2>2, <2>3, <2>4 DEF TypeOK, Shapes, RunInv
<1>2. QED
  BY <1>1, RunInvariant, PTL

(***************************************************************************)
(* persist records all of its picks or none, whichever row, commit or      *)
(* answer fails, and a trial run neither records nor sends.                *)
(***************************************************************************)
THEOREM AllOrNothing == Spec => []PersistAllOrNothing
<1>1. ASSUME RunInv PROVE PersistAllOrNothing
  <2>1. ASSUME NEW n \in NodesOf({"persist"}), recorded[n] # <<>> \/ state[n] = "success"
        PROVE  [i \in DOMAIN recorded[n] |-> recorded[n][i].row] = picks[n]
    <3>1. n \in Node /\ kind(n) = "persist"
      BY <1>1, ScenarioGraph DEF RunInv, GraphOK, NodesOf
    <3>2. QED
      BY <1>1, <2>1, <3>1 DEF RunInv, NodeInv
  <2>2. ~live => \A n \in Node : recorded[n] = <<>>
    BY <1>1 DEF RunInv, NodeInv
  <2>3. ~live => \A n \in Sender : stage[n] = "idle"
    BY <1>1 DEF RunInv, SendsInv
  <2>4. QED
    BY <2>1, <2>2, <2>3 DEF PersistAllOrNothing
<1>2. QED
  BY <1>1, RunInvariant, PTL

(***************************************************************************)
(* Behind the session_tag of a strategy every recommendation and every     *)
(* automatic message is of the one session, whatever the clock does.       *)
(***************************************************************************)
THEOREM OneSession == Spec => []SessionAgrees
<1>1. ASSUME RunInv PROVE SessionAgrees
  <2> SUFFICES ASSUME NEW t \in strategy.nodes, NodesOf({"session_tag"}) = {t},
                      NEW n \in Behind(t)
               PROVE  /\ kind(n) = "persist" =>
                           \A r \in Range(recorded[n]) :
                             sessionTag \in r.tags /\ r.tags \subseteq {sessionTag} \cup param(n).extra
                      /\ kind(n) = "notify" /\ message[n] # "" /\ param(n).subtype = "" =>
                           message[n] = SubtypeForSession
    BY DEF SessionAgrees, Behind
  <2>1. SessionInv(n) /\ (state[t] = "success" => sessionTag # "")
    BY <1>1 DEF RunInv, SessionsInv
  <2>2. ASSUME NEW r \in Range(recorded[n])
        PROVE  sessionTag \in r.tags /\ r.tags \subseteq {sessionTag} \cup param(n).extra
    <3>1. GraphOK /\ n \in Node /\ InOrder /\ NodeInv(n)
      BY <1>1, ScenarioGraph, BehindFacts DEF RunInv, GraphOK
    <3>2. recorded[n] # <<>>
      BY EmptyList
    <3>3. Started(n)
      BY <3>1, <3>2 DEF NodeInv
    <3>4. state[t] = "success"
      BY <3>1, <3>3, NotBefore
    <3>5. r.tags = Labels(n)
      BY <2>1 DEF SessionInv
    <3>6. QED
      BY <2>1, <3>4, <3>5 DEF Labels
  <2>3. QED
    BY <2>1, <2>2 DEF SessionInv
<1>2. QED
  BY <1>1, RunInvariant, PTL

(* In a run, too, messages are repeated and channels tried as NotifyManager promises. *)
THEOREM RunDelivers == Spec => [](NoNeedlessRepeat /\ ChannelsInTurn)
<1>1. RunInv => NoNeedlessRepeat /\ ChannelsInTurn
  BY Repeats, Turns DEF RunInv
<1>2. QED
  BY <1>1, RunInvariant, PTL

----------------------------------------------------------------------------
(* The choice of a branch *)

(* What the numbers of a row and a candle are. *)
Whole(row) == \A f \in DOMAIN row.num : row.num[f] \in Int
WholeBar(bar) == bar.day \in Int /\ bar.close \in Int

LEMMA ScoreType ==
  ASSUME NEW p, NEW row, Whole(row) PROVE Score(p, row) \in Int
<1>1. Number(row, p.field) \in Int
  BY DEF Number, Whole
<1>2. QED
  BY <1>1 DEF Score

(* Ranking takes rows of the list, and never passes over a better one. *)
LEMMA RankedBest ==
  ASSUME NEW p, p.top \in Nat, NEW s, IsList(s), \A row \in Range(s) : Whole(row)
  PROVE  /\ Range(Ranked(p, s)) \subseteq Range(s)
         /\ \A row \in Range(s), r \in Range(Ranked(p, s)) :
              Better(p, row, r) => row \in Range(Ranked(p, s))
<1> DEFINE key == [i \in DOMAIN s |-> Score(p, s[i])]
           n == Len(s)
           sorted == SortBy(s, key)
           last == IF p.top < n THEN p.top ELSE n
           best == SubSeq(sorted, 1, last)
<1>1. n \in Nat /\ DOMAIN s = 1..n /\ \A i \in 1..n : key[i] = Score(p, s[i]) /\ key[i] \in Int
  BY ListFacts, ScoreType DEF Range
<1>2. IsList(sorted) /\ Len(sorted) = n
  BY <1>1, SortedPlaces
<1>3. PICK q : /\ \A k \in 1..n : q[k] \in 1..n /\ sorted[k] = s[q[k]]
               /\ \A i \in 1..n : \E k \in 1..n : q[k] = i
               /\ \A a, b \in 1..n : key[q[a]] < key[q[b]] => a < b
  BY <1>1, SortedPlaces
<1>4. Ranked(p, s) = best
  BY DEF Ranked
<1> HIDE DEF sorted, key
<1>5. last \in 0..n
  BY <1>1
<1> HIDE DEF last, n
<1>6. DOMAIN best = 1..last /\ \A k \in 1..last : best[k] = sorted[k] /\ k \in 1..n
  <2>1. sorted \in Seq(Range(sorted)) /\ last \in 0..Len(sorted)
    BY <1>2, <1>5 DEF IsList
  <2>2. Len(best) = last /\ best \in Seq(Range(sorted)) /\ \A k \in 1..last : best[k] = sorted[k]
    BY <1>1, <1>5, <2>1
  <2>3. QED
    BY <1>1, <1>5, <2>2
<1> HIDE DEF best
<1>7. Range(best) = {best[k] : k \in 1..last} /\ Range(s) = {s[i] : i \in 1..n}
  BY <1>1, <1>6 DEF Range
<1>8. \A k \in 1..last : best[k] \in Range(s)
  BY <1>3, <1>6, <1>7
<1>9. ASSUME NEW row \in Range(s), NEW r \in Range(best), Better(p, row, r)
      PROVE  row \in Range(best)
  <2>1. PICK b \in 1..last : r = best[b]
    BY <1>7
  <2>2. PICK i \in 1..n : row = s[i]
    BY <1>7
  <2>3. PICK a \in 1..n : q[a] = i
    BY <1>3
  <2>4. b \in 1..n /\ r = s[q[b]] /\ q[b] \in 1..n
    BY <1>3, <1>6, <2>1
  <2>5. key[q[a]] < key[q[b]]
    BY <1>1, <1>9, <2>2, <2>3, <2>4 DEF Better
  <2>6. a < b
    BY <1>3, <2>4, <2>5
  <2>7. a \in 1..last
    BY <1>1, <1>5, <2>6
  <2>8. row = best[a]
    BY <1>3, <1>6, <2>2, <2>3, <2>7
  <2>9. QED
    BY <1>7, <2>7, <2>8
<1>10. QED
  BY <1>4, <1>7, <1>8, <1>9

(* A stock with a row keeps one. *)
LEMMA DedupedCodes ==
  ASSUME NEW s, IsList(s)
  PROVE  /\ Range(Deduped(s)) \subseteq Range(s)
         /\ \A r \in Range(s) : \E q \in Range(Deduped(s)) : q.code = r.code
<1> DEFINE K == {i \in DOMAIN s : s[i].code = "" \/ \A j \in 1..(i - 1) : s[j].code # s[i].code}
<1>1. Len(s) \in Nat /\ DOMAIN s = 1..Len(s)
  BY ListFacts
<1>2. Deduped(s) = Sublist(s, K)
  BY DEF Deduped
<1>3. K \in SUBSET DOMAIN s
  OBVIOUS
<1>4. Range(Deduped(s)) = {s[i] : i \in K}
  <2> HIDE DEF K
  <2>1. QED
    BY <1>2, <1>3, SublistRange
<1>5. ASSUME NEW r \in Range(s) PROVE \E i \in K : s[i].code = r.code
  <2> DEFINE T == {i \in 1..Len(s) : s[i].code = r.code}
  <2>1. T \in SUBSET Nat /\ T # {}
    BY <1>1 DEF Range
  <2>2. PICK i \in T : \A j \in T : i <= j
    <3> HIDE DEF T
    <3>1. QED
      BY <2>1, LeastOf
  <2>3. \A j \in 1..(i - 1) : j \notin T /\ j \in 1..Len(s)
    BY <1>1, <2>2
  <2>4. i \in K
    BY <1>1, <2>3
  <2>5. QED
    BY <2>4
<1> HIDE DEF K
<1>6. QED
  BY <1>3, <1>4, <1>5 DEF Range

LEMMA CodedRows ==
  ASSUME NEW s, IsList(s)
  PROVE  Range(WithCode(s)) = {r \in Range(s) : r.code # ""}
<1> DEFINE K == {i \in DOMAIN s : s[i].code # ""}
<1>1. K \in SUBSET DOMAIN s /\ WithCode(s) = Sublist(s, K)
  BY DEF WithCode
<1>2. {s[i] : i \in K} = {r \in Range(s) : r.code # ""}
  BY DEF Range
<1> HIDE DEF K
<1>3. QED
  BY <1>1, <1>2, SublistRange

LEMMA FilteredRows ==
  ASSUME NEW s, IsList(s), NEW p
  PROVE  Range(Sublist(s, {i \in DOMAIN s : MatchExpr(s[i], p)})) =
           {r \in Range(s) : MatchExpr(r, p)}
<1> DEFINE K == {i \in DOMAIN s : MatchExpr(s[i], p)}
<1>1. K \in SUBSET DOMAIN s
  OBVIOUS
<1>2. {s[i] : i \in K} = {r \in Range(s) : MatchExpr(r, p)}
  BY DEF Range
<1> HIDE DEF K
<1>3. Range(Sublist(s, K)) = {s[i] : i \in K}
  BY <1>1, SublistRange
<1>4. QED
  BY <1>2, <1>3 DEF K

(* A row of an indicator has whole numbers, as the candles it is made of have. *)
LEMMA IndicatorWhole ==
  ASSUME NEW s, IsList(s), \A bar \in Range(s) : WholeBar(bar),
         NEW code, \E bar \in Range(s) : bar.code = code, NEW period \in Nat \ {0}
  PROVE  Whole(IndicatorRow(s, code, period))
<1> DEFINE K == {i \in DOMAIN s : s[i].code = code}
           own == Sublist(s, K)
           key == [i \in DOMAIN own |-> own[i].day]
           bars == SortBy(own, key)
           n == Len(bars)
<1>1. K \in SUBSET DOMAIN s /\ K # {} /\ \A i \in K : WholeBar(s[i])
  BY DEF Range
<1>2. IsList(own) /\ Range(own) = {s[i] : i \in K}
  <2> HIDE DEF K
  <2>1. QED
    BY <1>1, SublistIsList, SublistRange
<1>3. BarsOf(s, code) = bars
  BY DEF BarsOf
<1> HIDE DEF K, own
<1>4. \A i \in DOMAIN own : WholeBar(own[i]) /\ key[i] \in Int
  BY <1>1, <1>2 DEF Range, WholeBar
<1> HIDE DEF key
<1>5. IsList(bars) /\ Range(bars) = Range(own)
  BY <1>2, <1>4, SortedPlaces, SortedRange
<1> HIDE DEF bars
<1>6. n \in Nat /\ DOMAIN bars = 1..n
  BY <1>5, ListFacts
<1>7. \A i \in 1..n : bars[i].close \in Int
  BY <1>1, <1>2, <1>5, <1>6 DEF Range, WholeBar
<1>8. n # 0
  <2>1. Range(bars) # {}
    BY <1>1, <1>2, <1>5
  <2>2. QED
    BY <1>6, <2>1 DEF Range
<1> HIDE DEF n
<1>9. MovingAverage(bars, period) \in Int
  <2> DEFINE f == [i \in 1..period |-> bars[n - period + i].close]
  <2>1. MovingAverage(bars, period) = IF n < period THEN 0 ELSE SumFunction(f)
    BY DEF MovingAverage, n
  <2>2. CASE ~(n < period)
    <3>1. \A i \in 1..period : f[i] \in Int
      BY <1>6, <1>7, <2>2
    <3>2. IsFiniteSet(1..period) /\ DOMAIN f = 1..period
      BY FS_Interval
    <3> HIDE DEF f
    <3>3. TotalOf(f, 1..period) \in Int
      BY <3>1, <3>2, TotalInt
    <3>4. SumFunction(f) = TotalOf(f, 1..period)
      BY <3>2 DEF SumFunction, SumFunctionOnSet, TotalOf
    <3>5. QED
      BY <2>1, <2>2, <3>3, <3>4
  <2>3. QED
    BY <2>1, <2>2
<1>10. bars[n].close \in Int
  BY <1>6, <1>7, <1>8
<1>11. IndicatorRow(s, code, period) =
         [code |-> code, text |-> << >>,
          num |-> [close |-> bars[n].close, ma |-> MovingAverage(bars, period)]]
  BY <1>3 DEF IndicatorRow, n
<1>12. QED
  BY <1>9, <1>10, <1>11 DEF Whole

(***************************************************************************)
(* How the rows of s came to n along the branch S: they are rows that      *)
(* entered it and pass its filters; until something ranks or drops stocks  *)
(* they are all of those, and later no better one is missing.              *)
(***************************************************************************)
Chosen(n, S, s) ==
  /\ S \in Branches(n)
  /\ \A m \in S : state[m] = "success"
  /\ \A m \in S \ {n} : n \in Behind(m)
  /\ \A row \in Range(s) : row \in Feed(S) /\ PassesAll(S, row)
  /\ S \cap NodesOf({"rank", "dedupe"}) = {} =>
       \A row \in Feed(S) : PassesAll(S, row) => row \in Range(s)
  /\ \A row \in Feed(S), k \in S, r \in Range(s) :
       PassesAll(S, row) /\ kind(k) = "rank" /\ Better(param(k), row, r) =>
         \E q \in Range(s) : q.code = row.code

(* What a node hands on. *)
HandsOn(n) ==
  /\ state[n] # "success" => payload[n] = NoPayload
  /\ payload[n].series # {} => kind(n) = "data_source" /\ payload[n].slices = {}
  /\ \A s \in payload[n].slices : \A row \in Range(s) : Whole(row)
  /\ \A s \in payload[n].series : \A bar \in Range(s) : WholeBar(bar)

Came(n) ==
  \A s \in payload[n].slices :
    Range(s) # {} => \E S \in SUBSET strategy.nodes : Chosen(n, S, s)

(* What persist took, and what it recorded of it. *)
Took(n, p, S, s) ==
  /\ s \in payload[p].slices /\ Chosen(p, S, s) /\ picks[n] = WithCode(s)
  /\ n \notin S /\ S \cup {n} \in Branches(n)

PicksInv(n) ==
  /\ Range(picks[n]) # {} /\ (state[n] = "writing" \/ recorded[n] # <<>>) =>
       \E p \in preds(n), S \in SUBSET strategy.nodes : \E s \in payload[p].slices : Took(n, p, S, s)
  /\ recorded[n] # <<>> => Range(picks[n]) # {}
  /\ \A i \in DOMAIN recorded[n] : recorded[n][i].code = recorded[n][i].row.code

ChoiceInv ==
  /\ \A n \in Node : HandsOn(n)
  /\ \A n \in strategy.nodes : Came(n)
  /\ \A n \in NodesOf({"persist"}) : PicksInv(n)

LEMMA MarketWhole ==
  ASSUME RunInv, NEW n \in strategy.nodes
  PROVE  /\ kind(n) = "indicator" => param(n).period \in Nat \ {0}
         /\ kind(n) = "data_source" =>
              \A c \in (Range(param(n).codes) \cup Range(param(n).universe)) \ {""} :
                /\ \A row \in Range(market.rows[c]) : Whole(row)
                /\ \A bar \in Range(market.candles[c]) : WholeBar(bar)
BY ScenariosAssumption DEF RunInv, kind, param, Whole, WholeBar

(***************************************************************************)
(* A step of n, as the other nodes see it.                                 *)
(***************************************************************************)
Elsewhere(n) ==
  /\ n \in Node /\ state[n] # "success"
  /\ strategy' = strategy /\ market' = market
  /\ \A m \in Node \ {n} : /\ payload'[m] = payload[m]
                           /\ state'[m] = "success" <=> state[m] = "success"
                           /\ state'[m] = "writing" => state[m] = "writing"

LEMMA FailElsewhere ==
  ASSUME RunInv, NEW n \in strategy.nodes, state[n] # "success", Fail(n), strategy' = strategy,
         market' = market
  PROVE  Elsewhere(n) /\ state'[n] = "failed" /\ payload' = payload
<1>1. GraphOK /\ Shapes /\ InOrder /\ n \in Node
  BY ScenarioGraph DEF RunInv, GraphOK
<1>2. Moves(n) /\ state'[n] = "failed" /\ payload' = payload
  BY <1>1, FailMoves DEF Fail
<1>3. QED
  BY <1>1, <1>2 DEF Elsewhere, Moves, Started

LEMMA SucceedElsewhere ==
  ASSUME RunInv, NEW n \in strategy.nodes, state[n] # "success", NEW out, Succeed(n, out),
         strategy' = strategy, market' = market
  PROVE  Elsewhere(n) /\ state'[n] = "success" /\ payload'[n] = out
<1>1. n \in Node /\ payload = [m \in Node |-> payload[m]]
      /\ state \in [Node -> {"idle", "writing", "sending", "success", "failed", "skipped"}]
  BY ScenarioGraph DEF RunInv, GraphOK, Shapes, IsFunction
<1>2. state' = [state EXCEPT ![n] = "success"] /\ payload' = [payload EXCEPT ![n] = out]
  BY DEF Succeed
<1>3. QED
  BY <1>1, <1>2 DEF Elsewhere

LEMMA OnElsewhere ==
  ASSUME RunInv, NEW n \in strategy.nodes, state[n] # "success",
         NEW st \in {"writing", "sending"}, state' = [state EXCEPT ![n] = st], payload' = payload,
         strategy' = strategy, market' = market
  PROVE  Elsewhere(n) /\ state'[n] = st
<1>1. n \in Node
      /\ state \in [Node -> {"idle", "writing", "sending", "success", "failed", "skipped"}]
  BY ScenarioGraph DEF RunInv, GraphOK, Shapes
<1>2. QED
  BY <1>1 DEF Elsewhere

(* What is said of a branch that is through stays true. *)
LEMMA FeedKept ==
  ASSUME NEW n, Elsewhere(n), NEW S, S \subseteq Node \ {n}
  PROVE  Feed(S)' = Feed(S)
<1>1. \A m : kind(m)' = kind(m)
  BY DEF kind, Elsewhere
<1>2. {m \in S : payload'[m].slices # {} /\ kind(m) \in {"data_source", "indicator"}} =
        {m \in S : payload[m].slices # {} /\ kind(m) \in {"data_source", "indicator"}}
  BY DEF Elsewhere
<1>3. \A m \in S : payload'[m] = payload[m]
  BY DEF Elsewhere
<1>4. QED
  BY <1>1, <1>2, <1>3 DEF Feed

LEMMA GraphKept ==
  ASSUME strategy' = strategy
  PROVE  /\ \A n : Branches(n)' = Branches(n) /\ preds(n)' = preds(n) /\ kind(n)' = kind(n)
                   /\ param(n)' = param(n) /\ Behind(n)' = Behind(n)
         /\ \A S, row : PassesAll(S, row)' = PassesAll(S, row)
         /\ \A kinds : NodesOf(kinds)' = NodesOf(kinds)
<1>1. \A n : preds(n)' = preds(n) /\ kind(n)' = kind(n) /\ param(n)' = param(n)
             /\ Behind(n)' = Behind(n)
  BY DEF preds, kind, param, Behind
<1>2. \A kinds : NodesOf(kinds)' = NodesOf(kinds)
  BY <1>1 DEF NodesOf
<1>3. \A S, row : PassesAll(S, row)' = PassesAll(S, row)
  BY <1>1 DEF PassesAll
<1>4. \A n : Branches(n)' = Branches(n)
  BY <1>1, <1>2 DEF Branches
<1>5. QED
  BY <1>1, <1>2, <1>3, <1>4

LEMMA ChosenKept ==
  ASSUME GraphOK, NEW n, Elsewhere(n), NEW m, NEW S \in SUBSET strategy.nodes, NEW s, Chosen(m, S, s)
  PROVE  Chosen(m, S, s)'
<1>1. S \subseteq Node \ {n}
  BY DEF Chosen, GraphOK, Elsewhere
<1>2. Feed(S)' = Feed(S) /\ strategy' = strategy
  BY <1>1, FeedKept DEF Elsewhere
<1>3. \A k \in S : state'[k] = "success"
  BY <1>1 DEF Chosen, Elsewhere
<1>4. QED
  BY <1>2, <1>3, GraphKept DEF Chosen

(***************************************************************************)
(* A step of n keeps what is said of the others, and of n unless it ends.  *)
(***************************************************************************)
LEMMA ChoiceKept ==
  ASSUME RunInv, ChoiceInv, NEW n \in strategy.nodes, Elsewhere(n),
         \A m \in Node \ {n} : picks'[m] = picks[m] /\ recorded'[m] = recorded[m],
         \/ state'[n] # "success" /\ payload'[n] = payload[n]
         \/ state'[n] = "success" /\ HandsOn(n)' /\ Came(n)',
         kind(n) = "persist" => PicksInv(n)'
  PROVE  ChoiceInv'
<1>1. GraphOK /\ strategy' = strategy /\ n \in Node
  BY ScenarioGraph DEF RunInv, Elsewhere
<1>2. ASSUME NEW m \in Node PROVE HandsOn(m)'
  <2>1. HandsOn(m) /\ HandsOn(n) /\ kind(m)' = kind(m)
    BY <1>1, <1>2 DEF ChoiceInv, kind
  <2>2. CASE m # n
    BY <1>2, <2>1, <2>2 DEF HandsOn, Elsewhere
  <2>3. CASE m = n /\ state'[n] # "success"
    BY <2>1, <2>3 DEF HandsOn, Elsewhere
  <2>4. QED
    BY <2>2, <2>3
<1>3. ASSUME NEW m \in strategy.nodes PROVE Came(m)'
  <2>1. CASE m # n
    <3>1. Came(m) /\ payload'[m] = payload[m]
      BY <1>1, <1>3, <2>1 DEF ChoiceInv, Elsewhere, GraphOK
    <3>2. SUFFICES ASSUME NEW s \in payload[m].slices, Range(s) # {}
                   PROVE  \E S \in SUBSET strategy'.nodes : Chosen(m, S, s)'
      BY <3>1 DEF Came
    <3>3. PICK S \in SUBSET strategy.nodes : Chosen(m, S, s)
      BY <3>1, <3>2 DEF Came
    <3>4. Chosen(m, S, s)'
      BY <1>1, <3>3, ChosenKept
    <3>5. QED
      BY <1>1, <3>4
  <2>2. CASE m = n /\ state'[n] # "success"
    <3>1. payload'[n].slices = {}
      BY <1>1, <2>2 DEF ChoiceInv, HandsOn, Elsewhere, NoPayload
    <3>2. QED
      BY <2>2, <3>1 DEF Came
  <2>3. QED
    BY <2>1, <2>2
<1>4. ASSUME NEW m \in NodesOf({"persist"}) PROVE PicksInv(m)'
  <2>1. CASE m = n
    BY <1>4, <2>1 DEF NodesOf
  <2>2. CASE m # n
    <3>1. /\ PicksInv(m) /\ m \in Node \ {n} /\ picks'[m] = picks[m] /\ recorded'[m] = recorded[m]
          /\ state'[m] = "writing" => state[m] = "writing"
      BY <1>1, <1>4, <2>2 DEF ChoiceInv, NodesOf, GraphOK, Elsewhere
    <3>2. ASSUME NEW p \in preds(m), NEW S \in SUBSET strategy.nodes, NEW s \in payload[p].slices,
                 Took(m, p, S, s)
          PROVE  p \in preds(m)' /\ S \in SUBSET strategy'.nodes /\ s \in payload'[p].slices
                 /\ Took(m, p, S, s)'
      <4>1. state[p] = "success" /\ p \in Node
        BY <1>1, <3>2 DEF Took, Chosen, Branches, GraphOK
      <4>2. payload'[p] = payload[p]
        BY <4>1 DEF Elsewhere
      <4>3. Chosen(p, S, s)'
        BY <1>1, <3>2, ChosenKept DEF Took
      <4>4. QED
        BY <1>1, <3>1, <3>2, <4>2, <4>3, GraphKept DEF Took
    <3>3. QED
      BY <1>1, <3>1, <3>2, GraphKept DEF PicksInv
  <2>3. QED
    BY <2>1, <2>2
<1>5. QED
  BY <1>1, <1>2, <1>3, <1>4, GraphKept DEF ChoiceInv

LEMMA BehindNext ==
  ASSUME GraphOK, NEW n \in strategy.nodes, NEW m \in strategy.nodes \ {n}, NEW p \in preds(n),
         p = m \/ p \in Behind(m)
  PROVE  n \in Behind(m)
<1>1. n \in Successors(strategy.edges, p)
  BY DEF preds, Predecessors, InEdges, Successors, OutEdges
<1>2. QED
  BY <1>1 DEF Behind, Descendants

(* A node that may start lengthens a branch by itself. *)
LEMMA Extends ==
  ASSUME GraphOK, InOrder, LaidOut(strategy), NEW n \in strategy.nodes, Ready(n),
         NEW p \in preds(n), NEW S \in SUBSET strategy.nodes, NEW s, Chosen(p, S, s)
  PROVE  n \notin S /\ S \cup {n} \in Branches(n) /\ \A m \in S : n \in Behind(m)
<1> DEFINE T == S \cup {n}
<1>1. n \notin S /\ p \in S
  BY DEF Chosen, Ready, Branches
<1>2. \A m \in S : n \in Behind(m)
  <2>1. ASSUME NEW m \in S PROVE n \in Behind(m)
    <3>1. m \in strategy.nodes \ {n} /\ (p = m \/ p \in Behind(m))
      BY <1>1 DEF Chosen
    <3>2. QED
      BY <3>1, BehindNext
  <2>2. QED
    BY <2>1
<1>3. \A m \in S : n \notin preds(m)
  BY DEF Chosen, Ready, InOrder, Started
<1>4. preds(n) \cap T = {p}
  <2>1. n \notin preds(n)
    BY DEF Ready
  <2>2. \A q \in preds(n) : p \notin Behind(q)
    BY DEF LaidOut, preds, Behind
  <2>3. \A q \in preds(n) \cap S : q = p
    BY <2>2 DEF Chosen
  <2>4. QED
    BY <1>1, <2>1, <2>3
<1>5. Cardinality(preds(n) \cap T) = 1
  BY <1>4, FS_Singleton
<1>6. \A m \in S : preds(m) \cap T = preds(m) \cap S
  BY <1>3
<1>7. \A m \in T : preds(m) = {} \/ Cardinality(preds(m) \cap T) = 1
  <2>1. \A m \in S : preds(m) = {} \/ Cardinality(preds(m) \cap S) = 1
    BY DEF Chosen, Branches
  <2>2. QED
    BY <1>5, <1>6, <2>1
<1>8. \A m \in T \ {n} : Successors(strategy.edges, m) \cap T # {}
  <2>1. \A m \in S \ {p} : Successors(strategy.edges, m) \cap S # {}
    BY DEF Chosen, Branches
  <2>2. n \in Successors(strategy.edges, p)
    BY DEF preds, Predecessors, InEdges, Successors, OutEdges
  <2>3. QED
    BY <2>1, <2>2
<1>9. T \cap NodesOf({"data_source"}) # {} /\ T \in SUBSET strategy.nodes
  BY DEF Chosen, Branches
<1>10. QED
  BY <1>1, <1>2, <1>7, <1>8, <1>9 DEF Branches

LEMMA FeedOfRowers ==
  ASSUME NEW S, NEW n, kind(n) \notin {"data_source", "indicator"}, strategy' = strategy
  PROVE  Feed(S \cup {n}) = Feed(S) /\ Feed(S \cup {n})' = Feed(S)'
<1>1. \A m : kind(m)' = kind(m)
  BY DEF kind
<1>2. {m \in S \cup {n} : payload[m].slices # {} /\ kind(m) \in {"data_source", "indicator"}} =
        {m \in S : payload[m].slices # {} /\ kind(m) \in {"data_source", "indicator"}}
  OBVIOUS
<1>3. {m \in S \cup {n} : payload'[m].slices # {} /\ kind(m) \in {"data_source", "indicator"}} =
        {m \in S : payload'[m].slices # {} /\ kind(m) \in {"data_source", "indicator"}}
  OBVIOUS
<1>4. QED
  BY <1>1, <1>2, <1>3 DEF Feed

(* The kinds of nodes before a node that selects. *)
LEMMA NothingBefore ==
  ASSUME LaidOut(strategy), NEW n \in strategy.nodes, NEW k \in strategy.nodes, n \in Behind(k),
         kind(k) \in {"rank", "dedupe"}
  PROVE  kind(n) \notin {"filter", "rank"}
BY DEF LaidOut, Behind, kind

(***************************************************************************)
(* A node that selects from the rows a branch handed on.                   *)
(***************************************************************************)
LEMMA Selects ==
  ASSUME RunInv, ChoiceInv, LaidOut(strategy), NEW n \in strategy.nodes, Ready(n),
         kind(n) \in {"filter", "rank", "dedupe"}, Elsewhere(n), state'[n] = "success",
         NEW out, payload'[n] = Rows(out),
         NEW s \in Slices(n), Range(out) # {}, Range(out) \subseteq Range(s),
         kind(n) = "filter" => Range(out) = {r \in Range(s) : MatchExpr(r, param(n))},
         kind(n) = "rank" => \A row \in Range(s), r \in Range(out) :
                               Better(param(n), row, r) => row \in Range(out),
         kind(n) = "dedupe" => \A r \in Range(s) : \E q \in Range(out) : q.code = r.code
  PROVE  \E T \in SUBSET strategy'.nodes : Chosen(n, T, out)'
<1>1. GraphOK /\ InOrder /\ strategy' = strategy
  BY ScenarioGraph DEF RunInv, Elsewhere
<1>2. PICK p \in preds(n) : s \in payload[p].slices
  BY DEF Slices
<1>3. p \in strategy.nodes
  BY <1>1 DEF GraphOK, preds, Predecessors, InEdges, IsEdgeList
<1>4. PICK S \in SUBSET strategy.nodes : Chosen(p, S, s)
  BY <1>2, <1>3 DEF ChoiceInv, Came
<1> DEFINE T == S \cup {n}
<1>5. n \notin S /\ T \in Branches(n) /\ T \in SUBSET strategy.nodes
      /\ \A m \in S : n \in Behind(m)
  BY <1>1, <1>4, Extends
<1>6. Feed(T)' = Feed(S)
  <2>1. S \subseteq Node \ {n}
    BY <1>1, <1>5 DEF GraphOK
  <2>2. QED
    BY <1>1, <2>1, FeedKept, FeedOfRowers
<1>7. \A m \in T : state'[m] = "success"
  BY <1>1, <1>4, <1>5 DEF Chosen, Elsewhere, GraphOK
<1>8. \A row : PassesAll(T, row) <=>
        PassesAll(S, row) /\ (kind(n) = "filter" => MatchExpr(row, param(n)))
  BY DEF PassesAll
<1>9. \A row \in Range(out) : row \in Feed(S) /\ PassesAll(T, row)
  BY <1>4, <1>8 DEF Chosen
<1>10. kind(n) \in {"filter", "rank"} => S \cap NodesOf({"rank", "dedupe"}) = {}
  BY <1>5, NothingBefore DEF NodesOf
<1>11. ASSUME T \cap NodesOf({"rank", "dedupe"}) = {}, NEW row \in Feed(S), PassesAll(T, row)
       PROVE  row \in Range(out)
  <2>1. kind(n) = "filter" /\ S \cap NodesOf({"rank", "dedupe"}) = {}
    BY <1>11 DEF NodesOf
  <2>2. row \in Range(s)
    BY <1>4, <1>8, <1>11, <2>1 DEF Chosen
  <2>3. QED
    BY <1>8, <1>11, <2>1, <2>2
<1>12. ASSUME NEW row \in Feed(S), NEW k \in T, NEW r \in Range(out), PassesAll(T, row),
              kind(k) = "rank", Better(param(k), row, r)
       PROVE  \E q \in Range(out) : q.code = row.code
  <2>1. kind(n) # "filter"
    BY <1>10, <1>12 DEF NodesOf
  <2>2. CASE kind(n) = "rank"
    <3>1. k = n /\ row \in Range(s)
      BY <1>4, <1>8, <1>10, <1>12, <2>2 DEF Chosen, NodesOf
    <3>2. QED
      BY <1>12, <2>2, <3>1
  <2>3. CASE kind(n) = "dedupe"
    <3>1. k \in S /\ r \in Range(s)
      BY <1>12, <2>3
    <3>2. PICK q \in Range(s) : q.code = row.code
      BY <1>4, <1>8, <1>12, <3>1 DEF Chosen
    <3>3. QED
      BY <2>3, <3>2
  <2>4. QED
    BY <2>1, <2>2, <2>3
<1> HIDE DEF T
<1>13. Chosen(n, T, out)'
  <2>1. \A m \in T \ {n} : n \in Behind(m)
    BY <1>5 DEF T
  <2>2. QED
    BY <1>1, <1>5, <1>6, <1>7, <1>9, <1>11, <1>12, <2>1, GraphKept DEF Chosen
<1>14. QED
  BY <1>1, <1>5, <1>13

(* A node that only computes, and succeeds or fails. *)
LEMMA ComputedChoice ==
  ASSUME RunInv, ChoiceInv, NEW n \in strategy.nodes, Ready(n), kind(n) # "persist", OnlyComputed,
         \/ Fail(n)
         \/ \E out : /\ Succeed(n, out)
                     /\ Elsewhere(n) /\ state'[n] = "success" /\ payload'[n] = out =>
                          HandsOn(n)' /\ Came(n)'
  PROVE  ChoiceInv'
<1>1. state[n] # "success"
  BY DEF Ready
<1>2. \A m \in Node \ {n} : picks'[m] = picks[m] /\ recorded'[m] = recorded[m]
  BY DEF OnlyComputed
<1>3. strategy' = strategy /\ market' = market
  BY DEF OnlyComputed
<1>4. CASE Fail(n)
  <2>1. Elsewhere(n) /\ state'[n] # "success" /\ payload'[n] = payload[n]
    BY <1>1, <1>3, <1>4, FailElsewhere
  <2>2. QED
    BY <1>2, <2>1, ChoiceKept
<1>5. ASSUME NEW out, Succeed(n, out),
             Elsewhere(n) /\ state'[n] = "success" /\ payload'[n] = out => HandsOn(n)' /\ Came(n)'
      PROVE  ChoiceInv'
  <2>1. Elsewhere(n) /\ state'[n] = "success" /\ payload'[n] = out
    BY <1>1, <1>3, <1>5, SucceedElsewhere
  <2>2. HandsOn(n)' /\ Came(n)'
    BY <1>5, <2>1
  <2>3. QED
    BY <1>2, <2>1, <2>2, ChoiceKept
<1>6. QED
  BY <1>4, <1>5

LEMMA NothingHanded ==
  ASSUME NEW n, state'[n] = "success", payload'[n] = NoPayload PROVE HandsOn(n)' /\ Came(n)'
BY DEF NoPayload, HandsOn, Came

(* What a list of rows that a node hands on has to be. *)
LEMMA RowsHanded ==
  ASSUME NEW n, state'[n] = "success", NEW out, payload'[n] = Rows(out),
         \A row \in Range(out) : Whole(row),
         Range(out) # {} => \E T \in SUBSET strategy'.nodes : Chosen(n, T, out)'
  PROVE  HandsOn(n)' /\ Came(n)'
<1>1. payload'[n].slices = {out} /\ payload'[n].series = {}
  BY DEF Rows
<1>2. HandsOn(n)'
  BY <1>1 DEF HandsOn
<1>3. QED
  BY <1>1, <1>2 DEF Came

LEMMA InputWhole ==
  ASSUME RunInv, ChoiceInv, NEW n \in strategy.nodes, Ready(n)
  PROVE  /\ \A s \in Slices(n) : IsList(s) /\ \A row \in Range(s) : Whole(row)
         /\ \A s \in Series(n) : IsList(s) /\ \A bar \in Range(s) : WholeBar(bar)
<1>1. \A s \in Slices(n) \cup Series(n) : IsList(s)
  BY InputLists
<1>2. \A p \in preds(n) : HandsOn(p)
  BY IdleFacts DEF ChoiceInv
<1>3. ASSUME NEW s \in Slices(n), NEW row \in Range(s) PROVE Whole(row)
  BY <1>2, <1>3 DEF Slices, HandsOn
<1>4. ASSUME NEW s \in Series(n), NEW bar \in Range(s) PROVE WholeBar(bar)
  BY <1>2, <1>4 DEF Series, HandsOn
<1>5. QED
  BY <1>1, <1>3, <1>4

LEMMA EmptyHanded ==
  ASSUME NEW n, state'[n] = "success", payload'[n] = Rows(<<>>) PROVE HandsOn(n)' /\ Came(n)'
BY EmptyList, RowsHanded

LEMMA FilterChoice ==
  ASSUME RunInv, ChoiceInv, LaidOut(strategy), NEW n \in strategy.nodes, Filter(n)
  PROVE  ChoiceInv'
<1>1. Ready(n) /\ kind(n) = "filter" /\ OnlyComputed
  BY DEF Filter
<1>2. CASE Slices(n) = {} /\ Succeed(n, Rows(<<>>))
  BY <1>1, <1>2, EmptyHanded, ComputedChoice
<1>3. ASSUME NEW s \in Slices(n),
             Succeed(n, Rows(Sublist(s, {i \in DOMAIN s : MatchExpr(s[i], param(n))})))
      PROVE  ChoiceInv'
  <2>0. PICK out : out = Sublist(s, {i \in DOMAIN s : MatchExpr(s[i], param(n))})
    OBVIOUS
  <2>1. IsList(s) /\ \A row \in Range(s) : Whole(row)
    BY <1>1, InputWhole
  <2>2. Range(out) = {r \in Range(s) : MatchExpr(r, param(n))}
    BY <2>0, <2>1, FilteredRows
  <2>3. Succeed(n, Rows(out))
    BY <1>3, <2>0
  <2>4. ASSUME Elsewhere(n), state'[n] = "success", payload'[n] = Rows(out)
        PROVE  HandsOn(n)' /\ Came(n)'
    <3>1. Range(out) # {} => \E T \in SUBSET strategy'.nodes : Chosen(n, T, out)'
      BY <1>1, <1>3, <2>2, <2>4, Selects
    <3>2. \A row \in Range(out) : Whole(row)
      BY <2>1, <2>2
    <3>3. QED
      BY <2>4, <3>1, <3>2, RowsHanded
  <2>5. QED
    BY <1>1, <2>3, <2>4, ComputedChoice
<1>4. CASE Fail(n)
  BY <1>1, <1>4, ComputedChoice
<1>5. CASE Succeed(n, NoPayload)
  BY <1>1, <1>5, NothingHanded, ComputedChoice
<1>6. QED
  BY <1>2, <1>3, <1>4, <1>5, FilterOutcomes

LEMMA RankChoice ==
  ASSUME RunInv, ChoiceInv, LaidOut(strategy), NEW n \in strategy.nodes, Rank(n)
  PROVE  ChoiceInv'
<1>1. Ready(n) /\ kind(n) = "rank" /\ OnlyComputed /\ param(n).top \in Nat
  BY IdleFacts DEF Rank, GraphOK
<1>2. CASE Slices(n) = {} /\ Succeed(n, Rows(<<>>))
  BY <1>1, <1>2, EmptyHanded, ComputedChoice
<1>3. ASSUME NEW s \in Slices(n), Succeed(n, Rows(Ranked(param(n), s)))
      PROVE  ChoiceInv'
  <2>0. PICK out : out = Ranked(param(n), s)
    OBVIOUS
  <2>1. IsList(s) /\ \A row \in Range(s) : Whole(row)
    BY <1>1, InputWhole
  <2>2. /\ Range(out) \subseteq Range(s)
        /\ \A row \in Range(s), r \in Range(out) :
             Better(param(n), row, r) => row \in Range(out)
    BY <1>1, <2>0, <2>1, RankedBest
  <2>3. Succeed(n, Rows(out))
    BY <1>3, <2>0
  <2>4. ASSUME Elsewhere(n), state'[n] = "success", payload'[n] = Rows(out)
        PROVE  HandsOn(n)' /\ Came(n)'
    <3>1. ASSUME Range(out) # {} PROVE \E T \in SUBSET strategy'.nodes : Chosen(n, T, out)'
      <4>1. kind(n) \notin {"filter", "dedupe"}
        BY <1>1
      <4>2. QED
        BY <1>1, <1>3, <2>2, <2>4, <3>1, <4>1, Selects
    <3>2. \A row \in Range(out) : Whole(row)
      BY <2>1, <2>2
    <3>3. QED
      BY <2>4, <3>1, <3>2, RowsHanded
  <2>5. QED
    BY <1>1, <2>3, <2>4, ComputedChoice
<1>4. QED
  BY <1>2, <1>3 DEF Rank

LEMMA DedupeChoice ==
  ASSUME RunInv, ChoiceInv, LaidOut(strategy), NEW n \in strategy.nodes, Dedupe(n)
  PROVE  ChoiceInv'
<1>1. Ready(n) /\ kind(n) = "dedupe" /\ OnlyComputed
  BY DEF Dedupe
<1>2. CASE Slices(n) = {} /\ Succeed(n, Rows(<<>>))
  BY <1>1, <1>2, EmptyHanded, ComputedChoice
<1>3. ASSUME NEW s \in Slices(n), Succeed(n, Rows(Deduped(s)))
      PROVE  ChoiceInv'
  <2>0. PICK out : out = Deduped(s)
    OBVIOUS
  <2>1. IsList(s) /\ \A row \in Range(s) : Whole(row)
    BY <1>1, InputWhole
  <2>2. /\ Range(out) \subseteq Range(s)
        /\ \A r \in Range(s) : \E q \in Range(out) : q.code = r.code
    BY <2>0, <2>1, DedupedCodes
  <2>3. Succeed(n, Rows(out))
    BY <1>3, <2>0
  <2>4. ASSUME Elsewhere(n), state'[n] = "success", payload'[n] = Rows(out)
        PROVE  HandsOn(n)' /\ Came(n)'
    <3>1. ASSUME Range(out) # {} PROVE \E T \in SUBSET strategy'.nodes : Chosen(n, T, out)'
      <4>1. kind(n) \notin {"filter", "rank"}
        BY <1>1
      <4>2. QED
        BY <1>1, <1>3, <2>2, <2>4, <3>1, <4>1, Selects
    <3>2. \A row \in Range(out) : Whole(row)
      BY <2>1, <2>2
    <3>3. QED
      BY <2>4, <3>1, <3>2, RowsHanded
  <2>5. QED
    BY <1>1, <2>3, <2>4, ComputedChoice
<1>4. QED
  BY <1>2, <1>3 DEF Dedupe

(* A source begins a branch, and so does an indicator behind a source of candles. *)
LEMMA BeginsBranch ==
  ASSUME GraphOK, NEW n \in strategy.nodes, NEW p \in strategy.nodes,
         kind(p) = "data_source", preds(p) = {}, state'[p] = "success",
         \/ n = p
         \/ /\ p \in preds(n) /\ n \notin preds(n) /\ n # p
            /\ kind(n) = "indicator" /\ payload'[p].slices = {},
         strategy' = strategy, state'[n] = "success", NEW out, payload'[n] = Rows(out)
  PROVE  Chosen(n, {p, n}, out)'
<1> DEFINE S == {p, n}
<1>1. S \in Branches(n)
  <2>1. \A m \in S : preds(m) = {} \/ Cardinality(preds(m) \cap S) = 1
    <3>1. n # p => preds(n) \cap S = {p}
      OBVIOUS
    <3>2. Cardinality({p}) = 1
      BY FS_Singleton
    <3>3. QED
      BY <3>1, <3>2
  <2>2. \A m \in S \ {n} : Successors(strategy.edges, m) \cap S # {}
    BY DEF preds, Predecessors, InEdges, Successors, OutEdges
  <2>3. S \cap NodesOf({"data_source"}) # {}
    BY DEF NodesOf
  <2>4. QED
    BY <2>1, <2>2, <2>3 DEF Branches
<1>2. \A m \in S \ {n} : n \in Behind(m)
  BY BehindNext
<1>3. Feed(S)' = Range(out)
  <2>1. {m \in S : payload'[m].slices # {} /\ kind(m)' \in {"data_source", "indicator"}} = {n}
    <3>1. payload'[n].slices = {out} /\ kind(n)' \in {"data_source", "indicator"}
      BY DEF Rows, kind
    <3>2. p # n => payload'[p].slices = {}
      OBVIOUS
    <3>3. QED
      BY <3>1, <3>2
  <2>2. payload'[n].slices = {out}
    BY DEF Rows
  <2>3. QED
    BY <2>1, <2>2 DEF Feed
<1>4. \A row : PassesAll(S, row)
  BY DEF PassesAll
<1>5. \A k \in S : kind(k) # "rank"
  OBVIOUS
<1>6. \A m \in S : state'[m] = "success"
  OBVIOUS
<1> HIDE DEF S
<1>7. Chosen(n, S, out)'
  BY <1>1, <1>2, <1>3, <1>4, <1>5, <1>6, GraphKept DEF Chosen
<1>8. QED
  BY <1>7 DEF S

(* What is fetched is what the market has. *)
LEMMA FetchedFrom ==
  ASSUME RunInv, NEW n \in strategy.nodes, kind(n) = "data_source",
         NEW answering, "" \notin answering
  PROVE  LET got == Fetched(param(n), CodesOf(param(n)), answering)
         IN /\ param(n).subtype = "kline" => \A bar \in Range(got) : WholeBar(bar)
            /\ param(n).subtype # "kline" => \A row \in Range(got) : Whole(row)
<1> DEFINE p == param(n)
           codes == CodesOf(p)
           q == [i \in DOMAIN codes |->
                   IF codes[i] \in answering THEN Answer(p, codes[i]) ELSE <<>>]
<1>1. /\ IsList(p.codes) /\ IsList(p.universe)
      /\ \A c \in (Range(p.codes) \cup Range(p.universe)) \ {""} :
           /\ IsList(market.rows[c]) /\ IsList(market.candles[c])
           /\ \A row \in Range(market.rows[c]) : Whole(row)
           /\ \A bar \in Range(market.candles[c]) : WholeBar(bar)
  BY ScenarioGraph, MarketWhole DEF RunInv, GraphOK
<1>2. IsList(codes) /\ Range(codes) \subseteq Range(p.codes) \cup Range(p.universe)
  BY <1>1, CodesGiven
<1>3. Fetched(p, codes, answering) = FlattenSeq(q)
  BY DEF Fetched
<1> HIDE DEF p, codes
<1>4. DOMAIN codes = 1..Len(codes) /\ Len(codes) \in Nat
  BY <1>2, ListFacts
<1>5. \A i \in DOMAIN codes : codes[i] \in Range(p.codes) \cup Range(p.universe)
  BY <1>2 DEF Range
<1>6. ASSUME NEW i \in DOMAIN codes
      PROVE  /\ IsList(q[i])
             /\ p.subtype = "kline" => \A bar \in Range(q[i]) : WholeBar(bar)
             /\ p.subtype # "kline" => \A row \in Range(q[i]) : Whole(row)
  BY <1>1, <1>5, EmptyList DEF Answer
<1>7. DOMAIN q = DOMAIN codes /\ q = [i \in 1..Len(codes) |-> q[i]]
  BY <1>4
<1> HIDE DEF q
<1>8. IsList(q)
  BY <1>4, <1>7, ListOf
<1> DEFINE U == UNION {Range(q[i]) : i \in DOMAIN q}
<1>9. Range(FlattenSeq(q)) \subseteq U
  <2>1. \A i \in DOMAIN q : IsList(q[i]) /\ Range(q[i]) \subseteq U
    BY <1>6, <1>7
  <2> HIDE DEF U
  <2>2. QED
    BY <1>8, <2>1, FlatOver
<1>10. /\ p.subtype = "kline" => \A bar \in U : WholeBar(bar)
       /\ p.subtype # "kline" => \A row \in U : Whole(row)
  BY <1>6, <1>7
<1>11. QED
  BY <1>3, <1>9, <1>10 DEF p, codes

LEMMA SourceFirst ==
  ASSUME LaidOut(strategy), NEW n \in strategy.nodes, kind(n) = "data_source"
  PROVE  preds(n) = {}
BY DEF LaidOut, kind, preds

LEMMA DataSourceChoice ==
  ASSUME RunInv, ChoiceInv, LaidOut(strategy), NEW n \in strategy.nodes, DataSource(n)
  PROVE  ChoiceInv'
<1>1. Ready(n) /\ kind(n) = "data_source" /\ OnlyComputed
  BY DEF DataSource
<1>2. CASE Succeed(n, NoPayload)
  BY <1>1, <1>2, NothingHanded, ComputedChoice
<1>3. CASE Fail(n)
  BY <1>1, <1>3, ComputedChoice
<1>4. ASSUME NEW answering, "" \notin answering, NEW got,
             got = Fetched(param(n), CodesOf(param(n)), answering),
             Succeed(n, IF param(n).subtype = "kline"
                        THEN [slices |-> {}, series |-> {got}] ELSE Rows(got))
      PROVE  ChoiceInv'
  <2>1. /\ param(n).subtype = "kline" => \A bar \in Range(got) : WholeBar(bar)
        /\ param(n).subtype # "kline" => \A row \in Range(got) : Whole(row)
    BY <1>1, <1>4, FetchedFrom
  <2>2. CASE param(n).subtype = "kline"
    <3> DEFINE out == [slices |-> {}, series |-> {got}]
    <3>1. Succeed(n, out)
      BY <1>4, <2>2
    <3>2. ASSUME Elsewhere(n), state'[n] = "success", payload'[n] = out
          PROVE  HandsOn(n)' /\ Came(n)'
      <4>1. kind(n)' = "data_source"
        BY <1>1, <3>2 DEF kind, Elsewhere
      <4>2. QED
        BY <2>1, <2>2, <3>2, <4>1 DEF HandsOn, Came
    <3> HIDE DEF out
    <3>3. QED
      BY <1>1, <3>1, <3>2, ComputedChoice
  <2>3. CASE param(n).subtype # "kline"
    <3>1. Succeed(n, Rows(got))
      BY <1>4, <2>3
    <3>2. ASSUME Elsewhere(n), state'[n] = "success", payload'[n] = Rows(got)
          PROVE  HandsOn(n)' /\ Came(n)'
      <4>1. GraphOK /\ preds(n) = {} /\ strategy' = strategy
        BY <1>1, <3>2, ScenarioGraph, SourceFirst DEF RunInv, Elsewhere
      <4>2. Chosen(n, {n, n}, got)'
        BY <1>1, <3>2, <4>1, BeginsBranch
      <4>3. {n, n} \in SUBSET strategy'.nodes
        BY <4>1
      <4>4. QED
        BY <2>1, <2>3, <3>2, <4>2, <4>3, RowsHanded
    <3>3. QED
      BY <1>1, <3>1, <3>2, ComputedChoice
  <2>4. QED
    BY <2>2, <2>3
<1>5. QED
  BY <1>2, <1>3, <1>4 DEF DataSource

LEMMA IndicatorChoice ==
  ASSUME RunInv, ChoiceInv, LaidOut(strategy), NEW n \in strategy.nodes, Indicator(n)
  PROVE  ChoiceInv'
<1>1. Ready(n) /\ kind(n) = "indicator" /\ OnlyComputed
  BY DEF Indicator
<1>2. CASE Fail(n)
  BY <1>1, <1>2, ComputedChoice
<1>3. ASSUME NEW s \in Series(n), NEW codes, codes = MergeCodes([i \in DOMAIN s |-> s[i].code], <<>>),
             Succeed(n, Rows([i \in DOMAIN codes |-> IndicatorRow(s, codes[i], param(n).period)]))
      PROVE  ChoiceInv'
  <2>1. IsList(s) /\ (\A bar \in Range(s) : WholeBar(bar)) /\ param(n).period \in Nat \ {0}
    BY <1>1, InputWhole, MarketWhole
  <2>2. PICK out : out = [i \in DOMAIN codes |-> IndicatorRow(s, codes[i], param(n).period)]
    OBVIOUS
  <2>3. \A row \in Range(out) : Whole(row)
    <3> DEFINE named == [i \in DOMAIN s |-> s[i].code]
    <3>1. DOMAIN s = 1..Len(s) /\ Len(s) \in Nat
      BY <2>1, ListFacts
    <3>2. named = [i \in 1..Len(s) |-> named[i]] /\ Range(named) = {s[i].code : i \in DOMAIN s}
      BY <3>1 DEF Range
    <3>3. codes = MergeCodes(named, <<>>)
      BY <1>3
    <3> HIDE DEF named
    <3>4. IsList(named)
      BY <3>1, <3>2, ListOf
    <3>5. Range(codes) \subseteq (Range(named) \cup {}) \ {""}
      BY <3>3, <3>4, EmptyList, MergedCodes
    <3>6. ASSUME NEW i \in DOMAIN codes PROVE Whole(out[i])
      <4>1. codes[i] \in Range(codes)
        BY DEF Range
      <4>2. \E bar \in Range(s) : bar.code = codes[i]
        <5>1. PICK j \in DOMAIN s : s[j].code = codes[i]
          BY <3>2, <3>5, <4>1
        <5>2. s[j] \in Range(s)
          BY DEF Range
        <5>3. QED
          BY <5>1, <5>2
      <4>3. QED
        BY <2>1, <2>2, <4>2, IndicatorWhole
    <3>7. QED
      BY <2>2, <3>6 DEF Range
  <2>4. ASSUME Elsewhere(n), state'[n] = "success", payload'[n] = Rows(out)
        PROVE  HandsOn(n)' /\ Came(n)'
    <3>1. PICK p \in preds(n) : s \in payload[p].series
      BY DEF Series
    <3>2. /\ GraphOK /\ strategy' = strategy /\ p \in Node /\ p \in strategy.nodes
          /\ state[p] = "success" /\ p # n /\ n \notin preds(n)
      <4>1. GraphOK /\ n \notin preds(n) /\ state[p] = "success" /\ p \in Node /\ p # n
        BY <1>1, <3>1, IdleFacts
      <4>2. p \in strategy.nodes
        BY <3>1, <4>1 DEF GraphOK, preds, Predecessors, InEdges, IsEdgeList
      <4>3. QED
        BY <2>4, <4>1, <4>2 DEF Elsewhere
    <3>3. kind(p) = "data_source" /\ payload[p].slices = {}
      BY <3>1, <3>2 DEF ChoiceInv, HandsOn
    <3>4. preds(p) = {}
      BY <3>2, <3>3, SourceFirst
    <3>5. state'[p] = "success" /\ payload'[p].slices = {}
      BY <2>4, <3>2, <3>3 DEF Elsewhere
    <3>6. Chosen(n, {p, n}, out)'
      BY <1>1, <2>4, <3>1, <3>2, <3>3, <3>4, <3>5, BeginsBranch
    <3>7. {p, n} \in SUBSET strategy'.nodes
      BY <3>2
    <3>8. QED
      BY <2>3, <2>4, <3>6, <3>7, RowsHanded
  <2>5. Succeed(n, Rows(out))
    BY <1>3, <2>2
  <2>6. QED
    BY <1>1, <2>4, <2>5, ComputedChoice
<1>4. QED
  BY <1>2, <1>3 DEF Indicator

LEMMA SessionTagChoice ==
  ASSUME RunInv, ChoiceInv, NEW n \in strategy.nodes, SessionTag(n) PROVE ChoiceInv'
<1>1. /\ Ready(n) /\ kind(n) = "session_tag" /\ Succeed(n, NoPayload)
      /\ UNCHANGED <<strategy, market, picks, recorded>>
  BY DEF SessionTag
<1>2. Elsewhere(n) /\ state'[n] = "success" /\ payload'[n] = NoPayload
  BY <1>1, SucceedElsewhere DEF Ready
<1>3. QED
  BY <1>1, <1>2, NothingHanded, ChoiceKept

(* Nothing taken and nothing recorded. *)
LEMMA NothingTaken ==
  ASSUME NEW n, picks'[n] = <<>>, recorded'[n] = <<>> PROVE PicksInv(n)'
BY EmptyList DEF PicksInv

LEMMA PersistBeginChoice ==
  ASSUME RunInv, ChoiceInv, LaidOut(strategy), NEW n \in strategy.nodes, PersistBegin(n)
  PROVE  ChoiceInv'
<1>1. /\ Ready(n) /\ kind(n) = "persist" /\ state[n] # "success"
      /\ strategy' = strategy /\ market' = market /\ recorded' = recorded
  BY DEF PersistBegin, Ready
<1>2. /\ GraphOK /\ InOrder /\ n \in Node /\ recorded[n] = <<>> /\ picks[n] = <<>>
      /\ picks = [m \in Node |-> picks[m]]
  BY <1>1, IdleFacts DEF RunInv, Shapes, IsFunction
<1>3. CASE Succeed(n, NoPayload) /\ picks' = picks
  <2>1. Elsewhere(n) /\ state'[n] = "success" /\ payload'[n] = NoPayload
    BY <1>1, <1>3, SucceedElsewhere
  <2>2. HandsOn(n)' /\ Came(n)' /\ PicksInv(n)'
    BY <1>1, <1>2, <1>3, <2>1, NothingHanded, NothingTaken
  <2>3. QED
    BY <1>1, <1>3, <2>1, <2>2, ChoiceKept
<1>4. CASE Fail(n) /\ picks' = picks
  <2>1. Elsewhere(n) /\ state'[n] = "failed" /\ payload' = payload
    BY <1>1, <1>4, FailElsewhere
  <2>2. PicksInv(n)'
    BY <1>1, <1>2, <1>4, NothingTaken
  <2>3. QED
    BY <1>1, <1>4, <2>1, <2>2, ChoiceKept
<1>5. ASSUME NEW s \in Slices(n), picks' = [picks EXCEPT ![n] = WithCode(s)],
             state' = [state EXCEPT ![n] = "writing"], payload' = payload
      PROVE  ChoiceInv'
  <2>1. Elsewhere(n) /\ state'[n] = "writing"
    BY <1>1, <1>5, OnElsewhere
  <2>2. picks'[n] = WithCode(s) /\ \A m \in Node \ {n} : picks'[m] = picks[m]
    BY <1>2, <1>5
  <2>3. PICK p \in preds(n) : s \in payload[p].slices
    BY DEF Slices
  <2>4. p \in strategy.nodes /\ IsList(s)
    <3>1. p \in strategy.nodes
      BY <1>2 DEF GraphOK, preds, Predecessors, InEdges, IsEdgeList
    <3>2. IsList(s)
      BY <1>1, InputWhole
    <3>3. QED
      BY <3>1, <3>2
  <2>5. ASSUME Range(picks'[n]) # {}
        PROVE  \E S \in SUBSET strategy.nodes : Took(n, p, S, s)'
    <3>1. Range(s) # {}
      BY <2>2, <2>4, <2>5, CodedRows
    <3>2. PICK S \in SUBSET strategy.nodes : Chosen(p, S, s)
      BY <2>3, <2>4, <3>1 DEF ChoiceInv, Came
    <3>3. n \notin S /\ S \cup {n} \in Branches(n)
      BY <1>1, <1>2, <3>2, Extends
    <3>4. Chosen(p, S, s)'
      BY <1>2, <2>1, <3>2, ChosenKept
    <3>5. QED
      BY <1>1, <1>5, <2>2, <2>3, <3>3, <3>4, GraphKept DEF Took
  <2>6. recorded'[n] = <<>>
    BY <1>1, <1>2
  <2>7. PicksInv(n)'
    BY <1>1, <1>5, <2>3, <2>5, <2>6, GraphKept DEF PicksInv
  <2>8. QED
    BY <1>1, <1>5, <2>1, <2>2, <2>7, ChoiceKept
<1>6. QED
  BY <1>3, <1>4, <1>5 DEF PersistBegin

(* What is said of a node that is writing stays true. *)
LEMMA TakenKept ==
  ASSUME GraphOK, NEW n \in strategy.nodes, Elsewhere(n), state[n] = "writing", PicksInv(n),
         picks'[n] = picks[n], recorded'[n] # <<>> => Range(picks[n]) # {},
         \A i \in DOMAIN recorded'[n] : recorded'[n][i].code = recorded'[n][i].row.code
  PROVE  PicksInv(n)'
<1>1. strategy' = strategy
  BY DEF Elsewhere
<1>2. ASSUME Range(picks[n]) # {}
      PROVE  \E p \in preds(n), S \in SUBSET strategy.nodes :
               \E s \in payload'[p].slices : Took(n, p, S, s)'
  <2>1. PICK p \in preds(n), S \in SUBSET strategy.nodes :
          \E s \in payload[p].slices : Took(n, p, S, s)
    BY <1>2 DEF PicksInv
  <2>2. PICK s \in payload[p].slices : Took(n, p, S, s)
    BY <2>1
  <2>3. state[p] = "success" /\ p \in Node
    BY <2>2 DEF Took, Chosen, Branches, GraphOK
  <2>4. payload'[p] = payload[p]
    BY <2>3 DEF Elsewhere
  <2>5. Chosen(p, S, s)'
    BY <2>2, ChosenKept DEF Took
  <2>6. Took(n, p, S, s)'
    BY <1>1, <2>2, <2>4, <2>5, GraphKept DEF Took
  <2>7. QED
    BY <2>1, <2>4, <2>6
<1>3. QED
  BY <1>1, <1>2, GraphKept DEF PicksInv

LEMMA PersistCreateChoice ==
  ASSUME RunInv, ChoiceInv, NEW n \in strategy.nodes, PersistCreate(n) PROVE ChoiceInv'
<1>1. /\ state[n] = "writing" /\ UNCHANGED <<strategy, market, picks, recorded>>
      /\ UNCHANGED <<state, payload>> \/ Fail(n)
  BY DEF PersistCreate
<1>2. GraphOK /\ n \in Node /\ recorded[n] = <<>> /\ kind(n) = "persist"
  BY <1>1, WritingFacts
<1>3. Elsewhere(n) /\ state'[n] # "success" /\ payload' = payload
  <2>1. CASE UNCHANGED <<state, payload>>
    BY <1>1, <1>2, <2>1 DEF Elsewhere
  <2>2. CASE Fail(n)
    BY <1>1, <2>2, FailElsewhere
  <2>3. QED
    BY <1>1, <2>1, <2>2
<1>4. PicksInv(n)
  BY <1>2 DEF ChoiceInv, NodesOf
<1>5. PicksInv(n)'
  <2>1. recorded'[n] = <<>> /\ DOMAIN recorded'[n] = {}
    BY <1>1, <1>2
  <2>2. QED
    BY <1>1, <1>2, <1>3, <1>4, <2>1, TakenKept
<1>6. QED
  BY <1>1, <1>3, <1>5, ChoiceKept

LEMMA PersistCommitChoice ==
  ASSUME RunInv, ChoiceInv, NEW n \in strategy.nodes, PersistCommit(n) PROVE ChoiceInv'
<1> DEFINE rows == [i \in DOMAIN created[n] |-> Recommendation(n, created[n][i])]
<1>1. /\ state[n] = "writing" /\ Len(created[n]) = Len(picks[n])
      /\ UNCHANGED <<strategy, market, picks>>
      /\ Succeed(n, NoPayload) \/ Fail(n)
      /\ recorded' = recorded \/ recorded' = [recorded EXCEPT ![n] = @ \o rows]
  BY DEF PersistCommit
<1>2. /\ GraphOK /\ n \in Node /\ recorded[n] = <<>> /\ kind(n) = "persist"
      /\ recorded = [m \in Node |-> recorded[m]] /\ IsList(picks[n]) /\ IsList(created[n])
      /\ Len(created[n]) \in Nat
  BY <1>1, WritingFacts
<1>3. /\ Elsewhere(n)
      /\ \/ state'[n] # "success" /\ payload'[n] = payload[n]
         \/ state'[n] = "success" /\ HandsOn(n)' /\ Came(n)'
  <2>1. CASE Succeed(n, NoPayload)
    <3>1. Elsewhere(n) /\ state'[n] = "success" /\ payload'[n] = NoPayload
      BY <1>1, <2>1, SucceedElsewhere
    <3>2. QED
      BY <3>1, NothingHanded
  <2>2. CASE Fail(n)
    BY <1>1, <2>2, FailElsewhere
  <2>3. QED
    BY <1>1, <2>1, <2>2
<1>4. /\ recorded'[n] = <<>> \/ recorded'[n] = <<>> \o rows
      /\ \A m \in Node \ {n} : recorded'[m] = recorded[m]
  BY <1>1, <1>2
<1>5. DOMAIN created[n] = 1..Len(created[n]) /\ DOMAIN picks[n] = 1..Len(picks[n])
  BY <1>2, ListFacts
<1>6. rows = [i \in 1..Len(created[n]) |-> Recommendation(n, created[n][i])]
  BY <1>5
<1>7. IsList(rows) /\ Len(rows) = Len(created[n]) /\ \A i \in DOMAIN rows : rows[i].code = rows[i].row.code
  BY <1>2, <1>6, ListOf DEF Recommendation
<1> HIDE DEF rows
<1>8. <<>> \o rows = rows
  BY <1>7 DEF IsList
<1>9. recorded'[n] # <<>> => Range(picks[n]) # {}
  <2>1. ASSUME recorded'[n] # <<>> PROVE Range(picks[n]) # {}
    <3>1. rows # <<>> /\ rows \in Seq(Range(rows))
      BY <1>4, <1>7, <1>8, <2>1 DEF IsList
    <3>2. Len(rows) # 0
      BY <3>1
    <3>3. 1 \in DOMAIN picks[n]
      BY <1>1, <1>2, <1>5, <1>7, <3>2
    <3>4. QED
      BY <3>3 DEF Range
  <2>2. QED
    BY <2>1
<1>10. \A i \in DOMAIN recorded'[n] : recorded'[n][i].code = recorded'[n][i].row.code
  BY <1>4, <1>7, <1>8
<1>11. PicksInv(n)'
  <2>1. PicksInv(n) /\ picks'[n] = picks[n]
    BY <1>1, <1>2 DEF ChoiceInv, NodesOf
  <2>2. QED
    BY <1>1, <1>2, <1>3, <1>9, <1>10, <2>1, TakenKept
<1>12. QED
  BY <1>1, <1>3, <1>4, <1>11, ChoiceKept

LEMMA NotifyBeginChoice ==
  ASSUME RunInv, ChoiceInv, NEW n \in strategy.nodes, NotifyBegin(n) PROVE ChoiceInv'
<1>1. /\ Ready(n) /\ kind(n) = "notify" /\ state[n] # "success"
      /\ UNCHANGED <<strategy, market, recorded>>
  BY DEF NotifyBegin, Ready
<1>2. n \in Node /\ picks = [m \in Node |-> picks[m]]
  BY <1>1, IdleFacts DEF RunInv, Shapes, IsFunction
<1>3. \A m \in Node \ {n} : picks'[m] = picks[m] /\ recorded'[m] = recorded[m]
  BY <1>1, <1>2 DEF NotifyBegin
<1>4. CASE state' = [state EXCEPT ![n] = "sending"] /\ payload' = payload
  <2>1. Elsewhere(n) /\ state'[n] = "sending"
    BY <1>1, <1>4, OnElsewhere
  <2>2. QED
    BY <1>1, <1>3, <1>4, <2>1, ChoiceKept
<1>5. CASE Succeed(n, NoPayload)
  <2>1. Elsewhere(n) /\ state'[n] = "success" /\ payload'[n] = NoPayload
    BY <1>1, <1>5, SucceedElsewhere
  <2>2. QED
    BY <1>1, <1>3, <2>1, NothingHanded, ChoiceKept
<1>6. QED
  BY <1>4, <1>5 DEF NotifyBegin

LEMMA NotifyEndChoice ==
  ASSUME RunInv, ChoiceInv, NEW n \in strategy.nodes, NotifyEnd(n) PROVE ChoiceInv'
<1>1. /\ state[n] = "sending" /\ UNCHANGED <<strategy, market, picks, recorded>>
      /\ Succeed(n, NoPayload) \/ Fail(n)
  BY DEF NotifyEnd, OnlyComputed
<1>2. kind(n) = "notify"
  BY <1>1, ScenarioGraph DEF RunInv, NodeInv, GraphOK
<1>3. CASE Succeed(n, NoPayload)
  <2>1. Elsewhere(n) /\ state'[n] = "success" /\ payload'[n] = NoPayload
    BY <1>1, <1>3, SucceedElsewhere
  <2>2. QED
    BY <1>1, <1>2, <2>1, NothingHanded, ChoiceKept
<1>4. CASE Fail(n)
  <2>1. Elsewhere(n) /\ state'[n] = "failed" /\ payload' = payload
    BY <1>1, <1>4, FailElsewhere
  <2>2. QED
    BY <1>1, <1>2, <2>1, ChoiceKept
<1>5. QED
  BY <1>1, <1>3, <1>4

LEMMA AsideChoice ==
  ASSUME ChoiceInv, UNCHANGED <<strategy, state, payload, picks, recorded>> PROVE ChoiceInv'
<1>1. \A S : Feed(S)' = Feed(S)
  BY GraphKept DEF Feed
<1>2. \A n, S, s : Chosen(n, S, s)' = Chosen(n, S, s)
  BY <1>1, GraphKept DEF Chosen
<1>3. \A n : HandsOn(n)' = HandsOn(n) /\ Came(n)' = Came(n)
  BY <1>2, GraphKept DEF HandsOn, Came
<1>4. \A n, p, S, s : Took(n, p, S, s)' = Took(n, p, S, s)
  BY <1>2, GraphKept DEF Took
<1>5. \A n : PicksInv(n)' = PicksInv(n)
  BY <1>4, GraphKept DEF PicksInv
<1>6. QED
  BY <1>3, <1>5, GraphKept DEF ChoiceInv

LEMMA InitChoice == Init => ChoiceInv
<1> SUFFICES ASSUME Init PROVE ChoiceInv
  OBVIOUS
<1>1. strategy.nodes \subseteq Node
  BY InitRun, ScenarioGraph DEF RunInv, GraphOK
<1>2. ASSUME NEW n \in Node PROVE HandsOn(n) /\ Came(n) /\ PicksInv(n)
  <2>1. payload[n] = NoPayload /\ picks[n] = <<>> /\ recorded[n] = <<>> /\ state[n] = "idle"
    BY DEF Init
  <2>2. payload[n].slices = {} /\ payload[n].series = {} /\ Range(picks[n]) = {}
        /\ DOMAIN recorded[n] = {}
    BY <2>1, EmptyList DEF NoPayload
  <2>3. QED
    BY <2>1, <2>2 DEF HandsOn, Came, PicksInv
<1>3. QED
  BY <1>1, <1>2 DEF ChoiceInv, NodesOf

LEMMA NextChoice ==
  RunInv /\ ChoiceInv /\ LaidOut(strategy) /\ [Next]_vars => ChoiceInv' /\ LaidOut(strategy)'
<1> SUFFICES ASSUME RunInv, ChoiceInv, LaidOut(strategy), [Next]_vars
             PROVE  ChoiceInv' /\ strategy' = strategy
  BY DEF LaidOut
<1>1. ASSUME NEW n \in strategy.nodes, NodeStep(n) PROVE ChoiceInv' /\ strategy' = strategy
  <2>1. strategy' = strategy
    BY <1>1 DEF NodeStep, DataSource, Indicator, Filter, Rank, Dedupe, SessionTag, PersistBegin,
                PersistCreate, PersistCommit, NotifyBegin, NotifyEnd, OnlyComputed
  <2>2. QED
    BY <1>1, <2>1, DataSourceChoice, IndicatorChoice, FilterChoice, RankChoice, DedupeChoice,
       SessionTagChoice, PersistBeginChoice, PersistCreateChoice, PersistCommitChoice,
       NotifyBeginChoice, NotifyEndChoice
       DEF NodeStep
<1>2. CASE (\E n \in Sender : NotifyStep(n)) \/ Tick \/ UNCHANGED vars
  <2>1. UNCHANGED <<strategy, state, payload, picks, recorded>>
    BY <1>2 DEF NotifyStep, Tick, vars, runVars
  <2>2. QED
    BY <2>1, AsideChoice
<1>3. QED
  BY <1>1, <1>2 DEF Next, Over

(***************************************************************************)
(* What persist recorded is the choice of the branch its rows came along,  *)
(* lengthened by persist itself, which feeds and filters nothing.          *)
(***************************************************************************)
LEMMA ChoiceIsBest ==
  ASSUME RunInv, ChoiceInv PROVE PicksAreABranchsBest
<1> SUFFICES ASSUME NEW n \in NodesOf({"persist"}), recorded[n] # <<>>
             PROVE  \E T \in Branches(n) : \A r \in Range(recorded[n]) :
                      /\ r.row \in Feed(T)
                      /\ PassesAll(T, r.row)
                      /\ \A row \in Feed(T), k \in T :
                           (/\ row.code # "" /\ PassesAll(T, row)
                            /\ kind(k) = "rank" /\ Better(param(k), row, r.row))
                             => \E q \in Range(recorded[n]) : q.code = row.code
  BY DEF PicksAreABranchsBest
<1>1. n \in strategy.nodes /\ n \in Node /\ kind(n) = "persist" /\ PicksInv(n) /\ GraphOK /\ NodeInv(n)
  BY ScenarioGraph DEF NodesOf, RunInv, GraphOK, ChoiceInv
<1>2. PICK p \in preds(n), S \in SUBSET strategy.nodes :
        \E s \in payload[p].slices : Took(n, p, S, s)
  BY <1>1 DEF PicksInv
<1>3. PICK s \in payload[p].slices : Took(n, p, S, s)
  BY <1>2
<1> DEFINE T == S \cup {n}
<1>4. Chosen(p, S, s) /\ picks[n] = WithCode(s) /\ T \in Branches(n)
  BY <1>3 DEF Took
<1>5. Range(picks[n]) = {row \in Range(s) : row.code # ""}
  <2>1. p \in Node
    BY <1>1, <1>2 DEF GraphOK, preds, Predecessors, InEdges, IsEdgeList
  <2>2. IsList(s)
    BY <1>3, <2>1 DEF RunInv, NodeInv, ListsIn
  <2>3. QED
    BY <1>4, <2>2, CodedRows
<1>6. /\ \A r \in Range(recorded[n]) : r.row \in Range(picks[n]) /\ r.code = r.row.code
      /\ \A row \in Range(picks[n]) : \E r \in Range(recorded[n]) : r.row = row
  <2>1. [i \in DOMAIN recorded[n] |-> recorded[n][i].row] = picks[n]
    BY <1>1 DEF NodeInv
  <2>2. DOMAIN picks[n] = DOMAIN recorded[n]
        /\ \A i \in DOMAIN recorded[n] : recorded[n][i].row = picks[n][i]
    BY <2>1, Zenon
  <2>3. \A i \in DOMAIN recorded[n] : recorded[n][i].code = recorded[n][i].row.code
    BY <1>1 DEF PicksInv
  <2>4. QED
    BY <2>2, <2>3 DEF Range
<1>7. Feed(T) = Feed(S)
  <2>1. {m \in T : payload[m].slices # {} /\ kind(m) \in {"data_source", "indicator"}} =
          {m \in S : payload[m].slices # {} /\ kind(m) \in {"data_source", "indicator"}}
    BY <1>1
  <2>2. QED
    BY <2>1 DEF Feed
<1>8. \A row : PassesAll(T, row) <=> PassesAll(S, row)
  BY <1>1 DEF PassesAll
<1>9. ASSUME NEW r \in Range(recorded[n]) PROVE r.row \in Feed(T) /\ PassesAll(T, r.row)
  BY <1>4, <1>5, <1>6, <1>7, <1>8 DEF Chosen
<1>10. ASSUME NEW r \in Range(recorded[n]), NEW row \in Feed(T), NEW k \in T,
              row.code # "", PassesAll(T, row), kind(k) = "rank", Better(param(k), row, r.row)
       PROVE  \E q \in Range(recorded[n]) : q.code = row.code
  <2>1. k \in S /\ r.row \in Range(s) /\ row \in Feed(S) /\ PassesAll(S, row)
    BY <1>1, <1>5, <1>6, <1>7, <1>8, <1>10
  <2>2. PICK kept \in Range(s) : kept.code = row.code
    BY <1>4, <1>10, <2>1 DEF Chosen
  <2>3. kept \in Range(picks[n])
    BY <1>5, <1>10, <2>2
  <2>4. PICK q \in Range(recorded[n]) : q.row = kept
    BY <1>6, <2>3
  <2>5. QED
    BY <1>6, <2>2, <2>4
<1> HIDE DEF T
<1>11. QED
  BY <1>4, <1>9, <1>10

(***************************************************************************)
(* In a run of a strategy laid out like the templates (a run never changes *)
(* its strategy), the recommendations are the choice of one branch of its  *)
(* graph: they pass the branch's filters, and no coded row that passes     *)
(* them and ranks better is without a recommendation for its stock.        *)
(***************************************************************************)
THEOREM BestOfABranch == Spec /\ LaidOut(strategy) => []PicksAreABranchsBest
<1>1. Init /\ LaidOut(strategy) => RunInv /\ ChoiceInv /\ LaidOut(strategy)
  BY InitRun, InitChoice
<1>2. RunInv /\ ChoiceInv /\ LaidOut(strategy) /\ [Next]_vars
        => (RunInv /\ ChoiceInv /\ LaidOut(strategy))'
  BY NextRun, NextChoice
<1>3. RunInv /\ ChoiceInv /\ LaidOut(strategy) => PicksAreABranchsBest
  BY ChoiceIsBest
<1>4. QED
  BY <1>1, <1>2, <1>3, PTL DEF Spec
=============================================================================
