----------------------------- MODULE RunsProofs -----------------------------
(***************************************************************************)
(* Theorems about RunLifecycle, for every number of jobs and of stops of   *)
(* the server, on a database that may fail and on one that does not; and   *)
(* about EventBus, for every number of runs, publishers and streams, every *)
(* size of the channels and every number of events.                        *)
(***************************************************************************)
EXTENDS RunLifecycle, EventBus, ListsProofs, SequenceTheorems

(***************************************************************************)
(* The inductive invariant: a job works on the row that bears its own id,  *)
(* or on none, so what can be said of a job, its row, its logs and its     *)
(* events is a matter of where the job is.                                 *)
(***************************************************************************)
NoResult(j) == verdict[j] = "none" /\ logs[j] = 0 /\ events[j] = <<>>

HasResult(j) ==
  /\ use[j] = j
  /\ verdict[j] \in Final
  /\ row[j] \in {"running", verdict[j]}
  /\ logs[j] \in {0, 1}
  /\ events[j] \in Seq({"started", verdict[j]})

InTime(j) == ~ctxDone[j] /\ ~faulty

(* A summary with results of nodes makes one batch of logs, another none. *)
Logged(j) == logs[j] = (IF results[j] THEN 1 ELSE 0)

JobInv(j) ==
  /\ use[j] \in {j, NoRow}
  /\ pc[j] \in {"new", "refused"} => NoResult(j) /\ row[j] = "absent" /\ use[j] = NoRow
  /\ pc[j] = "reloading" => NoResult(j) /\ row[j] = "running" /\ use[j] = NoRow
  /\ pc[j] = "resolving" =>
       NoResult(j) /\ row[j] = (IF use[j] = j THEN "running" ELSE "absent")
  /\ pc[j] = "creating" => NoResult(j) /\ row[j] = "absent" /\ use[j] = NoRow
  /\ pc[j] = "walking" => NoResult(j) /\ row[j] = "running" /\ use[j] = j
  /\ pc[j] = "logging" => HasResult(j) /\ row[j] = "running" /\ logs[j] = 0
  /\ pc[j] = "saving" =>
       HasResult(j) /\ row[j] = "running" /\ (InTime(j) => Logged(j))
  /\ pc[j] = "announcing" =>
       HasResult(j) /\ (InTime(j) => row[j] = verdict[j] /\ Logged(j))
  /\ pc[j] = "ended" =>
       \/ NoResult(j) /\ row[j] \in {"absent", "running"}
       \/ /\ HasResult(j)
          /\ InTime(j) => row[j] = verdict[j] /\ Logged(j)
          /\ events[j] # <<>> /\ events[j][Len(events[j])] = verdict[j]
  /\ pc[j] = "lost" => (NoResult(j) /\ row[j] \in {"absent", "running"}) \/ HasResult(j)

IInv == TypeOK /\ \A j \in Job : JobInv(j)

----------------------------------------------------------------------------
(* The invariant is inductive *)

LEMMA InitIInv == Init => IInv
<1> SUFFICES ASSUME Init PROVE IInv
  OBVIOUS
<1>1. TypeOK
  <2>1. faulty \in BOOLEAN
    BY DbFailsAssumption DEF Init
  <2>2. stops \in 0..MaxStops
    BY MaxStopsAssumption DEF Init
  <2>3. events \in [Job -> Seq(Final \cup {"started"})]
    BY EmptySeq DEF Init
  <2>4. QED
    BY <2>1, <2>2, <2>3 DEF Init, TypeOK, Ended
<1>2. \A j \in Job : JobInv(j)
  BY DEF Init, JobInv, NoResult
<1>3. QED
  BY <1>1, <1>2 DEF IInv

(* What a step of one job leaves alone. *)
Same(k) ==
  /\ pc'[k] = pc[k] /\ ctxDone'[k] = ctxDone[k] /\ use'[k] = use[k]
  /\ verdict'[k] = verdict[k] /\ results'[k] = results[k] /\ row'[k] = row[k]
  /\ logs'[k] = logs[k] /\ events'[k] = events[k] /\ faulty' = faulty

LEMMA SameInv ==
  ASSUME NEW k, JobInv(k), Same(k)
  PROVE  JobInv(k)'
BY DEF JobInv, Same, NoResult, HasResult, InTime, Logged

Stages ==
  {"reloading", "resolving", "creating", "walking", "logging", "saving", "announcing"} \cup Ended

LEMMA StageFacts ==
  /\ TypeOK => pc \in [Job -> Stages]
  /\ {"reloading", "refused", "walking", "ended"} \subseteq Stages
BY DEF TypeOK, Stages, Ended

LEMMA TriggerInv ==
  ASSUME IInv, NEW j \in Job, Trigger(j)
  PROVE  IInv'
<1> USE DEF IInv
<1>1. TypeOK'
  <2>1. /\ kind' \in [Job -> {"none", "manual", "cron", "retry"}]
        /\ UNCHANGED <<faulty, server, stops, ctxDone, use, verdict, results, logs, events>>
    BY DEF Trigger, TypeOK
  <2>2. /\ row' = row \/ row' = [row EXCEPT ![j] = "running"]
        /\ told' = told \/ told' = [told EXCEPT ![j] = j]
        /\ pc' = [pc EXCEPT ![j] = "reloading"] \/ pc' = [pc EXCEPT ![j] = "refused"]
    BY DEF Trigger, Goto
  <2>3. /\ row' \in [Job -> Final \cup {"absent", "running"}]
        /\ told' \in [Job -> Job \cup {NoRow}]
    <3>1. /\ row \in [Job -> Final \cup {"absent", "running"}]
          /\ told \in [Job -> Job \cup {NoRow}]
      BY DEF TypeOK
    <3>2. [row EXCEPT ![j] = "running"] \in [Job -> Final \cup {"absent", "running"}]
      BY <3>1
    <3>3. [told EXCEPT ![j] = j] \in [Job -> Job \cup {NoRow}]
      BY <3>1
    <3>4. QED
      BY <2>2, <3>1, <3>2, <3>3
  <2>4. pc' \in [Job -> Stages]
    BY <2>2, StageFacts DEF TypeOK
  <2>5. QED
    BY <2>1, <2>3, <2>4 DEF TypeOK, Stages
<1>2. \A k \in Job \ {j} : Same(k)
  BY DEF Trigger, Goto, TypeOK, Same
<1>3. JobInv(j)'
  <2>1. NoResult(j)' /\ use'[j] = NoRow /\ row[j] = "absent"
    BY DEF Trigger, JobInv, NoResult
  <2>2. \/ pc'[j] = "reloading" /\ row'[j] = "running"
        \/ pc'[j] = "refused" /\ row'[j] = row[j]
    BY DEF Trigger, Goto, TypeOK
  <2>3. QED
    BY <2>1, <2>2 DEF JobInv
<1>4. QED
  BY <1>1, <1>2, <1>3, SameInv

LEMMA RetryInv ==
  ASSUME IInv, NEW j \in Job, NEW src \in Job, Retry(j, src)
  PROVE  IInv'
<1> USE DEF IInv
<1>1. TypeOK'
  BY DEF Retry, Goto, TypeOK, Ended
<1>2. \A k \in Job \ {j} : Same(k)
  BY DEF Retry, Goto, TypeOK, Same
<1>3. JobInv(j)'
  <2>1. NoResult(j)' /\ use'[j] = NoRow /\ row'[j] = "absent"
    BY DEF Retry, JobInv, NoResult
  <2>2. pc'[j] = "resolving"
    BY DEF Retry, Goto, TypeOK
  <2>3. QED
    BY <2>1, <2>2, NoRowAssumption DEF JobInv
<1>4. QED
  BY <1>1, <1>2, <1>3, SameInv

LEMMA FireInv ==
  ASSUME IInv, NEW j \in Job, Fire(j)
  PROVE  IInv'
<1> USE DEF IInv
<1>1. TypeOK'
  BY DEF Fire, Goto, TypeOK, Ended
<1>2. \A k \in Job \ {j} : Same(k)
  BY DEF Fire, Goto, TypeOK, Same
<1>3. JobInv(j)'
  <2>1. NoResult(j)' /\ use'[j] = NoRow /\ row'[j] = "absent"
    BY DEF Fire, JobInv, NoResult
  <2>2. pc'[j] = "resolving"
    BY DEF Fire, Goto, TypeOK
  <2>3. QED
    BY <2>1, <2>2, NoRowAssumption DEF JobInv
<1>4. QED
  BY <1>1, <1>2, <1>3, SameInv

LEMMA ReloadInv ==
  ASSUME IInv, NEW j \in Job, Reload(j)
  PROVE  IInv'
<1> USE DEF IInv
<1>1. TypeOK'
  <2>1. /\ use' = use \/ use' = [use EXCEPT ![j] = j]
        /\ pc' = [pc EXCEPT ![j] = "resolving"] \/ pc' = [pc EXCEPT ![j] = "ended"]
        /\ UNCHANGED <<faulty, server, stops, kind, ctxDone, verdict, results, told, row, logs, events>>
    BY DEF Reload, GiveUp, Goto
  <2>2. use' \in [Job -> Job \cup {NoRow}]
    BY <2>1 DEF TypeOK
  <2>3. pc' \in [Job -> Stages]
    BY <2>1, StageFacts DEF TypeOK, Stages
  <2>4. QED
    BY <2>1, <2>2, <2>3 DEF TypeOK, Stages
<1>2. \A k \in Job \ {j} : Same(k)
  BY DEF Reload, GiveUp, Goto, TypeOK, Same
<1>3. JobInv(j)'
  <2>1. NoResult(j)' /\ row'[j] = "running" /\ use[j] = NoRow
    BY DEF Reload, GiveUp, JobInv, NoResult
  <2>2. \/ pc' = [pc EXCEPT ![j] = "resolving"] /\ use' = [use EXCEPT ![j] = j]
        \/ pc' = [pc EXCEPT ![j] = "ended"] /\ use' = use
    BY DEF Reload, GiveUp, Goto
  <2>3. \/ pc'[j] = "resolving" /\ use'[j] = j
        \/ pc'[j] = "ended" /\ use'[j] = NoRow
    BY <2>1, <2>2 DEF TypeOK
  <2>4. QED
    BY <2>1, <2>3 DEF JobInv
<1>4. QED
  BY <1>1, <1>2, <1>3, SameInv

LEMMA ResolveInv ==
  ASSUME IInv, NEW j \in Job, Resolve(j)
  PROVE  IInv'
<1> USE DEF IInv
<1>1. TypeOK'
  BY DEF Resolve, GiveUp, Goto, TypeOK, Ended
<1>2. \A k \in Job \ {j} : Same(k)
  BY DEF Resolve, GiveUp, Goto, TypeOK, Same
<1>3. JobInv(j)'
  <2>1. /\ NoResult(j)' /\ use[j] \in {j, NoRow} /\ use'[j] = use[j]
        /\ row'[j] = (IF use[j] = j THEN "running" ELSE "absent")
    BY DEF Resolve, GiveUp, JobInv, NoResult
  <2>2. \/ pc'[j] = (IF use[j] = NoRow THEN "creating" ELSE "walking")
        \/ pc'[j] = "ended"
    BY DEF Resolve, GiveUp, Goto, TypeOK
  <2>3. QED
    BY <2>1, <2>2, NoRowAssumption DEF JobInv
<1>4. QED
  BY <1>1, <1>2, <1>3, SameInv

LEMMA CreateInv ==
  ASSUME IInv, NEW j \in Job, Create(j)
  PROVE  IInv'
<1> USE DEF IInv
<1>1. TypeOK'
  <2>1. /\ row' = row \/ row' = [row EXCEPT ![j] = "running"]
        /\ use' = use \/ use' = [use EXCEPT ![j] = j]
        /\ pc' = [pc EXCEPT ![j] = "walking"] \/ pc' = [pc EXCEPT ![j] = "ended"]
        /\ UNCHANGED <<faulty, server, stops, kind, ctxDone, verdict, results, told, logs, events>>
    BY DEF Create, GiveUp, Goto
  <2>2. /\ row' \in [Job -> Final \cup {"absent", "running"}]
        /\ use' \in [Job -> Job \cup {NoRow}]
    <3>1. /\ row \in [Job -> Final \cup {"absent", "running"}]
          /\ use \in [Job -> Job \cup {NoRow}]
      BY DEF TypeOK
    <3>2. [row EXCEPT ![j] = "running"] \in [Job -> Final \cup {"absent", "running"}]
      BY <3>1
    <3>3. [use EXCEPT ![j] = j] \in [Job -> Job \cup {NoRow}]
      BY <3>1
    <3>4. QED
      BY <2>1, <3>1, <3>2, <3>3
  <2>3. pc' \in [Job -> Stages]
    BY <2>1, StageFacts DEF TypeOK
  <2>4. QED
    BY <2>1, <2>2, <2>3 DEF TypeOK, Stages
<1>2. \A k \in Job \ {j} : Same(k)
  BY DEF Create, GiveUp, Goto, TypeOK, Same
<1>3. JobInv(j)'
  <2>1. NoResult(j)' /\ use[j] = NoRow /\ row[j] = "absent"
    BY DEF Create, GiveUp, JobInv, NoResult
  <2>2. \/ pc'[j] = "walking" /\ use'[j] = j /\ row'[j] = "running"
        \/ pc'[j] = "ended" /\ use'[j] = use[j] /\ row'[j] = row[j]
    BY DEF Create, GiveUp, Goto, TypeOK
  <2>3. QED
    BY <2>1, <2>2 DEF JobInv
<1>4. QED
  BY <1>1, <1>2, <1>3, SameInv

LEMMA WalkInv ==
  ASSUME IInv, NEW j \in Job, Walk(j)
  PROVE  IInv'
<1> USE DEF IInv
<1>1. NoResult(j) /\ row[j] = "running" /\ use[j] = j
  BY DEF Walk, JobInv
<1>2. PICK s \in Final :
        /\ verdict' = [verdict EXCEPT ![j] = s]
        /\ \E some \in BOOLEAN : results' = [results EXCEPT ![j] = some]
        /\ events' = [events EXCEPT ![j] = @ \o <<"started", s>>] \/ UNCHANGED events
  BY <1>1 DEF Walk
<1>3. /\ <<"started", s>> \in Seq({"started", s}) /\ <<>> \o <<"started", s>> = <<"started", s>>
      /\ <<"started", s>> \in Seq(Final \cup {"started"}) /\ <<>> \in Seq({"started", s})
  BY ConcatEmptySeq
<1>4. verdict'[j] = s /\ events'[j] \in {<<>>, <<"started", s>>}
  BY <1>1, <1>2, <1>3 DEF TypeOK, NoResult
<1>5. pc' = [pc EXCEPT ![j] = "logging"]
      /\ UNCHANGED <<faulty, server, stops, kind, ctxDone, use, told, row, logs>>
  BY DEF Walk, Goto
<1>6. TypeOK'
  <2>1. events[j] \o <<"started", s>> \in Seq(Final \cup {"started"})
    BY <1>1, <1>3 DEF NoResult
  <2>2. events' \in [Job -> Seq(Final \cup {"started"})]
    BY <1>2, <2>1 DEF TypeOK
  <2>3. QED
    BY <1>2, <1>5, <2>2 DEF TypeOK
<1>7. \A k \in Job \ {j} : Same(k)
  BY <1>2, <1>5 DEF TypeOK, Same
<1>8. JobInv(j)'
  <2>1. HasResult(j)'
    BY <1>1, <1>3, <1>4, <1>5 DEF HasResult, NoResult
  <2>2. pc'[j] = "logging" /\ row'[j] = "running" /\ logs'[j] = 0 /\ use'[j] = j
    BY <1>1, <1>5 DEF NoResult, TypeOK
  <2>3. QED
    BY <2>1, <2>2 DEF JobInv
<1>9. QED
  BY <1>6, <1>7, <1>8, SameInv

LEMMA PersistLogsInv ==
  ASSUME IInv, NEW j \in Job, PersistLogs(j)
  PROVE  IInv'
<1> USE DEF IInv
<1>1. HasResult(j) /\ row[j] = "running" /\ logs[j] = 0 /\ use[j] = j
  BY DEF PersistLogs, JobInv, HasResult
<1>2. \/ results[j] /\ logs' = [logs EXCEPT ![j] = @ + 1]
      \/ (results[j] => DbError(j)) /\ UNCHANGED logs
  BY <1>1 DEF PersistLogs
<1>3. /\ pc' = [pc EXCEPT ![j] = "saving"]
      /\ UNCHANGED <<faulty, server, stops, kind, ctxDone, use, verdict, results, told, row, events>>
  BY DEF PersistLogs, Goto
<1>4. TypeOK'
  BY <1>2, <1>3 DEF TypeOK
<1>5. \A k \in Job \ {j} : Same(k)
  BY <1>2, <1>3 DEF TypeOK, Same
<1>6. JobInv(j)'
  <2>1. \/ results[j] /\ logs'[j] = 1
        \/ (results[j] => DbError(j)) /\ logs'[j] = 0
    <3>1. CASE results[j] /\ logs' = [logs EXCEPT ![j] = @ + 1]
      BY <1>1, <3>1 DEF TypeOK
    <3>2. CASE (results[j] => DbError(j)) /\ UNCHANGED logs
      BY <1>1, <3>2
    <3>3. QED
      BY <1>2, <3>1, <3>2
  <2>2. HasResult(j)'
    BY <1>1, <1>3, <2>1 DEF HasResult
  <2>3. pc'[j] = "saving" /\ row'[j] = "running" /\ use'[j] = j
    BY <1>1, <1>3 DEF TypeOK
  <2>4. InTime(j)' => Logged(j)'
    BY <1>3, <2>1 DEF InTime, DbError, Logged
  <2>5. QED
    BY <2>2, <2>3, <2>4 DEF JobInv
<1>7. QED
  BY <1>4, <1>5, <1>6, SameInv

LEMMA SaveInv ==
  ASSUME IInv, NEW j \in Job, Save(j)
  PROVE  IInv'
<1> USE DEF IInv
<1>1. HasResult(j) /\ row[j] = "running" /\ use[j] = j /\ (InTime(j) => Logged(j))
  BY DEF Save, JobInv, HasResult
<1>2. \/ row' = [row EXCEPT ![j] = verdict[j]]
      \/ DbError(j) /\ UNCHANGED row
  BY <1>1 DEF Save
<1>3. /\ pc' = [pc EXCEPT ![j] = "announcing"]
      /\ UNCHANGED <<faulty, server, stops, kind, ctxDone, use, verdict, results, told, logs, events>>
  BY DEF Save, Goto
<1>4. TypeOK'
  BY <1>1, <1>2, <1>3 DEF TypeOK, HasResult
<1>5. \A k \in Job \ {j} : Same(k)
  BY <1>2, <1>3 DEF TypeOK, Same
<1>6. JobInv(j)'
  <2>1. row'[j] = verdict[j] \/ (DbError(j) /\ row'[j] = "running")
    <3>1. CASE row' = [row EXCEPT ![j] = verdict[j]]
      BY <3>1 DEF TypeOK
    <3>2. CASE DbError(j) /\ UNCHANGED row
      BY <1>1, <3>2
    <3>3. QED
      BY <1>2, <3>1, <3>2
  <2>2. HasResult(j)'
    BY <1>1, <1>3, <2>1 DEF HasResult
  <2>3. pc'[j] = "announcing" /\ use'[j] = j
    BY <1>1, <1>3 DEF TypeOK
  <2>4. InTime(j)' => row'[j] = verdict'[j] /\ Logged(j)'
    BY <1>1, <1>3, <2>1 DEF InTime, DbError, Logged
  <2>5. QED
    BY <2>2, <2>3, <2>4 DEF JobInv
<1>7. QED
  BY <1>4, <1>5, <1>6, SameInv

LEMMA AnnounceInv ==
  ASSUME IInv, NEW j \in Job, Announce(j)
  PROVE  IInv'
<1> USE DEF IInv
<1>1. HasResult(j) /\ use[j] = j /\ (InTime(j) => row[j] = verdict[j] /\ Logged(j))
  BY DEF Announce, JobInv, HasResult
<1>2. /\ events' = [events EXCEPT ![j] = Append(@, verdict[j])]
      /\ pc' = [pc EXCEPT ![j] = "ended"]
      /\ UNCHANGED <<faulty, server, stops, kind, ctxDone, use, verdict, results, told, row, logs>>
  BY <1>1 DEF Announce, Goto
<1>3. /\ Append(events[j], verdict[j]) \in Seq({"started", verdict[j]})
      /\ Append(events[j], verdict[j]) # <<>>
      /\ Append(events[j], verdict[j])[Len(Append(events[j], verdict[j]))] = verdict[j]
  BY <1>1, AppendProperties DEF HasResult
<1>4. Append(events[j], verdict[j]) \in Seq(Final \cup {"started"})
  BY <1>1, AppendProperties DEF HasResult, TypeOK
<1>5. TypeOK'
  BY <1>2, <1>4 DEF TypeOK, Ended
<1>6. \A k \in Job \ {j} : Same(k)
  BY <1>2 DEF TypeOK, Same
<1>7. JobInv(j)'
  <2>1. events'[j] = Append(events[j], verdict[j]) /\ pc'[j] = "ended"
    BY <1>2 DEF TypeOK
  <2>2. HasResult(j)'
    BY <1>1, <1>2, <1>3, <2>1 DEF HasResult
  <2>3. InTime(j)' => row'[j] = verdict'[j] /\ Logged(j)'
    BY <1>1, <1>2 DEF InTime, Logged
  <2>4. events'[j] # <<>> /\ events'[j][Len(events'[j])] = verdict'[j]
    BY <1>2, <1>3, <2>1
  <2>5. QED
    BY <1>1, <1>2, <2>1, <2>2, <2>3, <2>4 DEF JobInv
<1>8. QED
  BY <1>5, <1>6, <1>7, SameInv

(* A context can only die, which asks less of its job. *)
LEMMA ContextInv ==
  ASSUME NEW k, JobInv(k), ctxDone[k] => ctxDone'[k],
         UNCHANGED <<faulty, pc, use, verdict, results, row, logs, events>>
  PROVE  JobInv(k)'
<1>1. InTime(k)' => InTime(k)
  BY DEF InTime
<1>2. /\ NoResult(k)' <=> NoResult(k)
      /\ HasResult(k)' <=> HasResult(k)
      /\ Logged(k)' <=> Logged(k)
  BY DEF NoResult, HasResult, Logged
<1>3. QED
  BY <1>1, <1>2 DEF JobInv

LEMMA ExpireInv ==
  ASSUME IInv, NEW j \in Job, Expire(j)
  PROVE  IInv'
<1>1. TypeOK'
  BY DEF IInv, Expire, TypeOK
<1>2. \A k \in Job : ctxDone[k] => ctxDone'[k]
  BY DEF IInv, Expire, TypeOK
<1>3. QED
  BY <1>1, <1>2, ContextInv DEF IInv, Expire

LEMMA ShutdownInv ==
  ASSUME IInv, Shutdown
  PROVE  IInv'
<1>1. TypeOK'
  BY DEF IInv, Shutdown, TypeOK
<1>2. \A k \in Job : ctxDone[k] => ctxDone'[k]
  BY DEF IInv, Shutdown, TypeOK
<1>3. QED
  BY <1>1, <1>2, ContextInv DEF IInv, Shutdown

LEMMA StopInv ==
  ASSUME IInv, Stop
  PROVE  IInv'
<1>1. TypeOK'
  BY MaxStopsAssumption DEF IInv, Stop, TypeOK, Ended
<1>2. ASSUME NEW k \in Job PROVE JobInv(k)'
  <2>1. UNCHANGED <<faulty, ctxDone, use, verdict, results, row, logs, events>>
    BY DEF Stop
  <2>2. pc'[k] = pc[k] \/ (pc'[k] = "lost" /\ pc[k] \notin Ended)
    <3>1. pc'[k] = IF pc[k] \in Ended THEN pc[k] ELSE "lost"
      BY DEF Stop
    <3>2. QED
      BY <3>1
  <2>3. CASE pc'[k] = pc[k]
    <3>1. Same(k)
      BY <2>1, <2>3 DEF Same
    <3>2. QED
      BY <3>1, SameInv DEF IInv
  <2>4. CASE pc'[k] = "lost" /\ pc[k] \notin Ended
    <3>1. (NoResult(k) /\ row[k] \in {"absent", "running"}) \/ HasResult(k)
      BY <2>4 DEF IInv, TypeOK, JobInv, Ended
    <3>2. (NoResult(k)' <=> NoResult(k)) /\ (HasResult(k)' <=> HasResult(k))
      BY <2>1 DEF NoResult, HasResult
    <3>3. QED
      BY <2>1, <2>4, <3>1, <3>2 DEF IInv, JobInv
  <2>5. QED
    BY <2>2, <2>3, <2>4
<1>3. QED
  BY <1>1, <1>2 DEF IInv

LEMMA NextIInv == IInv /\ [Next]_vars => IInv'
<1> SUFFICES ASSUME IInv, [Next]_vars PROVE IInv'
  OBVIOUS
<1>1. ASSUME NEW j \in Job, Step(j) PROVE IInv'
  BY <1>1, ReloadInv, ResolveInv, CreateInv, WalkInv, PersistLogsInv, SaveInv, AnnounceInv
  DEF Step
<1>2. ASSUME NEW j \in Job, Trigger(j) PROVE IInv'
  BY <1>2, TriggerInv
<1>3. ASSUME NEW j \in Job, Fire(j) PROVE IInv'
  BY <1>3, FireInv
<1>4. ASSUME NEW j \in Job, NEW src \in Job, Retry(j, src) PROVE IInv'
  BY <1>4, RetryInv
<1>5. ASSUME NEW j \in Job, Expire(j) PROVE IInv'
  BY <1>5, ExpireInv
<1>6. CASE Shutdown
  BY <1>6, ShutdownInv
<1>7. CASE Stop
  BY <1>7, StopInv
<1>8. ASSUME UNCHANGED <<faulty, stops, kind, pc, ctxDone, use, verdict, results, told, row, logs, events>>,
             server' = server \/ server' = "up"
      PROVE  IInv'
  <2>1. TypeOK'
    BY <1>8 DEF IInv, TypeOK
  <2>2. \A k \in Job : Same(k)
    BY <1>8 DEF Same
  <2>3. QED
    BY <2>1, <2>2, SameInv DEF IInv
<1>9. CASE Start
  BY <1>8, <1>9 DEF Start
<1>10. CASE UNCHANGED vars
  BY <1>8, <1>10 DEF vars
<1>11. QED
  BY <1>1, <1>2, <1>3, <1>4, <1>5, <1>6, <1>7, <1>9, <1>10 DEF Next, Idle

(* The invariant holds in every reachable state. *)
THEOREM Invariance == Spec => []IInv
BY InitIInv, NextIInv, PTL DEF Spec

----------------------------------------------------------------------------
(* What follows from it *)

(* Every reachable state is well typed. *)
THEOREM TypeCorrect == Spec => []TypeOK
<1>1. IInv => TypeOK
  BY DEF IInv
<1>2. QED
  BY <1>1, Invariance, PTL

(***************************************************************************)
(* No two jobs work on one row, and a row gets at most one batch of logs:  *)
(* a retry does not touch the run it retries.                              *)
(***************************************************************************)
THEOREM RowsUnshared == Spec => []OneWalkPerRow
<1>1. IInv => OneWalkPerRow
  <2> SUFFICES ASSUME IInv PROVE OneWalkPerRow
    OBVIOUS
  <2>1. \A j \in Job : use[j] \in {j, NoRow}
    BY DEF IInv, JobInv
  <2>2. ASSUME NEW j \in Job PROVE logs[j] <= 1
    <3>1. NoResult(j) \/ HasResult(j)
      BY DEF IInv, TypeOK, JobInv, Ended
    <3>2. logs[j] \in {0, 1}
      BY <3>1 DEF NoResult, HasResult
    <3>3. QED
      BY <3>2
  <2>3. QED
    BY <2>1, <2>2, NoRowAssumption DEF OneWalkPerRow
<1>2. QED
  BY <1>1, Invariance, PTL

(***************************************************************************)
(* All the statuses announced for a row agree with each other and with the *)
(* row once it is final.                                                   *)
(***************************************************************************)
THEOREM AnnouncementsAgree == Spec => []AnnouncedAgrees
<1>1. IInv => AnnouncedAgrees
  <2> SUFFICES ASSUME IInv, NEW r \in Job, NEW i \in DOMAIN events[r], events[r][i] \in Final
               PROVE  /\ row[r] \in {"running", events[r][i]}
                      /\ \A k \in DOMAIN events[r] : events[r][k] \in {"started", events[r][i]}
    BY DEF AnnouncedAgrees
  <2>1. events[r] # <<>>
    OBVIOUS
  <2>2. HasResult(r)
    BY <2>1 DEF IInv, TypeOK, JobInv, NoResult, Ended
  <2>3. \A k \in DOMAIN events[r] : events[r][k] \in {"started", verdict[r]}
    BY <2>2, ElementOfSeq DEF HasResult
  <2>4. events[r][i] = verdict[r]
    BY <2>3 DEF Final
  <2>5. QED
    BY <2>2, <2>3, <2>4 DEF HasResult
<1>2. QED
  BY <1>1, Invariance, PTL

(***************************************************************************)
(* A job that came back from its walk has announced its verdict when it    *)
(* ends, whichever of its database calls failed.                           *)
(***************************************************************************)
THEOREM EndsAnnounced == Spec => []WalkAnnounced
<1>1. IInv => WalkAnnounced
  BY DEF IInv, JobInv, NoResult, HasResult, WalkAnnounced
<1>2. QED
  BY <1>1, Invariance, PTL

(* A final status is the verdict of the walk of the row's own job. *)
THEOREM FinalsAreVerdicts == Spec => []FinalIsVerdict
<1>1. IInv => FinalIsVerdict
  <2> SUFFICES ASSUME IInv, NEW r \in Job, row[r] \in Final
               PROVE  use[r] = r /\ verdict[r] = row[r]
    BY DEF FinalIsVerdict
  <2>1. HasResult(r)
    BY DEF IInv, TypeOK, JobInv, Ended, Final
  <2>2. QED
    BY <2>1 DEF HasResult, Final
<1>2. QED
  BY <1>1, Invariance, PTL

(***************************************************************************)
(* On a database that works, a job that got its verdict before its context *)
(* died has saved its row when it ends, and one batch of logs if its walk  *)
(* had results of nodes, none if it had not.                               *)
(***************************************************************************)
THEOREM SavedInTime == Spec => []TimelySaved
<1>1. IInv => TimelySaved
  BY DEF IInv, JobInv, NoResult, HasResult, InTime, Logged, TimelySaved
<1>2. QED
  BY <1>1, Invariance, PTL

(***************************************************************************)
(* "The original run row is left untouched": a row goes from running to    *)
(* one final status, which never changes and which its own job gives it.   *)
(***************************************************************************)
THEOREM FinalsStay == Spec => RowsFinal
<1> DEFINE RowStep == \A r \in Job :
             \/ row'[r] = row[r]
             \/ row[r] = "absent" /\ row'[r] = "running"
             \/ row[r] = "running" /\ \E j \in Job : use[j] = r /\ FinishedBy(j, r)
<1>1. IInv /\ [Next]_vars => RowStep
  <2> SUFFICES ASSUME IInv, [Next]_vars PROVE RowStep
    OBVIOUS
  <2>1. ASSUME NEW j \in Job, Trigger(j) PROVE RowStep
    <3>1. row[j] = "absent"
      BY <2>1 DEF IInv, JobInv, Trigger
    <3>2. QED
      BY <2>1, <3>1 DEF IInv, TypeOK, Trigger
  <2>2. ASSUME NEW j \in Job, Create(j) PROVE RowStep
    <3>1. row[j] = "absent"
      BY <2>2 DEF IInv, JobInv, Create
    <3>2. QED
      BY <2>2, <3>1 DEF IInv, TypeOK, Create, GiveUp
  <2>3. ASSUME NEW j \in Job, Save(j) PROVE RowStep
    <3>1. row[j] = "running" /\ use[j] = j
      BY <2>3 DEF IInv, JobInv, Save, HasResult
    <3>2. pc[j] = "saving" /\ pc'[j] = "announcing"
      BY <2>3 DEF IInv, TypeOK, Save, Goto
    <3>3. row'[j] \in {row[j], verdict[j]} /\ \A r \in Job \ {j} : row'[r] = row[r]
      BY <2>3, <3>1 DEF IInv, TypeOK, Save
    <3>4. QED
      BY <3>1, <3>2, <3>3 DEF FinishedBy
  <2>4. CASE UNCHANGED row
    BY <2>4
  <2>5. QED
    BY <2>1, <2>2, <2>3, <2>4
    DEF Next, Step, Reload, Resolve, GiveUp, Walk, PersistLogs, Announce, Fire, Retry, Expire,
        Shutdown, Stop, Start, Idle, vars
<1>2. QED
  BY <1>1, Invariance, PTL DEF Spec, RowsFinal

----------------------------------------------------------------------------
(* The event bus *)

(***************************************************************************)
(* The inductive invariant.  A stream is in the list of the run it reads,  *)
(* once, and what is left of a publisher's loop are subscribers of its     *)
(* run: while a publisher holds the read lock nobody comes or goes.        *)
(***************************************************************************)
Distinct(q) == \A i, j \in 1..Len(q) : q[i] = q[j] => i = j

SubInv ==
  \A r \in Run : /\ Distinct(subs[r])
                 /\ \A i \in 1..Len(subs[r]) : reading[subs[r][i]] = r

ClosedInv == \A s \in Stream : closed[s] => reading[s] = NoRun

TodoInv ==
  \A p \in Publisher :
    /\ todo[p] # <<>> => p \in readers
    /\ Distinct(todo[p])
    /\ \A i \in 1..Len(todo[p]) : reading[todo[p][i]] = event[p].run
    /\ event[p].by = p
    /\ p \in readers => event[p].nr = count[p]

LockInv == BusTypeOK /\ SubInv /\ ClosedInv /\ TodoInv

----------------------------------------------------------------------------
(* Sequences *)

LEMMA RemoveAtProperties ==
  ASSUME NEW S, NEW q \in Seq(S), NEW i \in 1..Len(q)
  PROVE  /\ RemoveAt(q, i) \in Seq(S)
         /\ Len(RemoveAt(q, i)) = Len(q) - 1
         /\ \A j \in 1..(Len(q) - 1) : RemoveAt(q, i)[j] = IF j < i THEN q[j] ELSE q[j + 1]
<1> DEFINE front == SubSeq(q, 1, i - 1)
           back == SubSeq(q, i + 1, Len(q))
           n == Len(q) - 1
<1>0. Len(q) \in Nat /\ i \in Nat /\ 1 <= i /\ i <= Len(q)
  OBVIOUS
<1>1. /\ front \in Seq(S) /\ Len(front) = i - 1
      /\ \A j \in 1..(i - 1) : front[j] = q[j]
  BY <1>0, SubSeqProperties
<1>2. /\ back \in Seq(S) /\ Len(back) = Len(q) - i
      /\ \A j \in 1..(Len(q) - i) : back[j] = q[j + i]
  BY <1>0, SubSeqProperties
<1> HIDE DEF front, back
<1>3. /\ front \o back \in Seq(S)
      /\ Len(front \o back) = n
      /\ \A j \in 1..n : (front \o back)[j] = IF j <= i - 1 THEN front[j] ELSE back[j - (i - 1)]
  <2>1. Len(front) + Len(back) = n
    BY <1>0, <1>1, <1>2
  <2>2. /\ front \o back \in Seq(S)
        /\ Len(front \o back) = Len(front) + Len(back)
        /\ \A j \in 1..(Len(front) + Len(back)) :
             (front \o back)[j] = IF j <= Len(front) THEN front[j] ELSE back[j - Len(front)]
    BY <1>1, <1>2, ConcatProperties, Zenon
  <2>3. QED
    BY <1>1, <2>1, <2>2
<1>4. ASSUME NEW j \in 1..n
      PROVE  (front \o back)[j] = IF j < i THEN q[j] ELSE q[j + 1]
  <2>1. CASE j < i
    <3>1. j \in 1..(i - 1)
      BY <1>0, <2>1
    <3>2. QED
      BY <1>1, <1>3, <2>1, <3>1
  <2>2. CASE ~(j < i)
    <3>1. j - (i - 1) \in 1..(Len(q) - i) /\ (j - (i - 1)) + i = j + 1 /\ ~(j <= i - 1)
      BY <1>0, <2>2
    <3>2. back[j - (i - 1)] = q[j + 1]
      BY <1>2, <3>1
    <3>3. QED
      BY <1>3, <2>2, <3>1, <3>2
  <2>3. QED
    BY <2>1, <2>2
<1>5. RemoveAt(q, i) = front \o back
  BY DEF RemoveAt, front, back
<1>6. QED
  BY <1>3, <1>4, <1>5

LEMMA RemoveAtDistinct ==
  ASSUME NEW S, NEW q \in Seq(S), NEW i \in 1..Len(q), Distinct(q)
  PROVE  /\ Distinct(RemoveAt(q, i))
         /\ \A j \in 1..Len(RemoveAt(q, i)) :
              RemoveAt(q, i)[j] # q[i] /\ \E k \in 1..Len(q) : RemoveAt(q, i)[j] = q[k]
<1>1. \A j \in 1..(Len(q) - 1) : RemoveAt(q, i)[j] = IF j < i THEN q[j] ELSE q[j + 1]
  BY RemoveAtProperties
<1>2. Len(RemoveAt(q, i)) = Len(q) - 1
  BY RemoveAtProperties
<1> DEFINE from(j) == IF j < i THEN j ELSE j + 1
<1>3. Len(q) \in Nat
  OBVIOUS
<1>4. \A j \in 1..(Len(q) - 1) : from(j) \in 1..Len(q) \ {i} /\ RemoveAt(q, i)[j] = q[from(j)]
  BY <1>1, <1>3
<1>5. \A j, k \in 1..(Len(q) - 1) : from(j) = from(k) => j = k
  BY <1>3
<1> HIDE DEF from
<1>6. ASSUME NEW j \in 1..(Len(q) - 1), NEW k \in 1..(Len(q) - 1),
             RemoveAt(q, i)[j] = RemoveAt(q, i)[k]
      PROVE  j = k
  <2>1. from(j) \in 1..Len(q) /\ from(k) \in 1..Len(q) /\ q[from(j)] = q[from(k)]
    BY <1>4, <1>6
  <2>2. from(j) = from(k)
    BY <2>1 DEF Distinct
  <2>3. QED
    BY <1>5, <2>2
<1>7. Distinct(RemoveAt(q, i))
  BY <1>2, <1>6 DEF Distinct
<1>8. ASSUME NEW j \in 1..(Len(q) - 1)
      PROVE  RemoveAt(q, i)[j] # q[i] /\ \E k \in 1..Len(q) : RemoveAt(q, i)[j] = q[k]
  <2>1. from(j) \in 1..Len(q) /\ from(j) # i /\ RemoveAt(q, i)[j] = q[from(j)]
    BY <1>4
  <2>2. QED
    BY <2>1 DEF Distinct
<1>9. QED
  BY <1>2, <1>7, <1>8

LEMMA TailDistinct ==
  ASSUME NEW S, NEW q \in Seq(S), q # <<>>, Distinct(q)
  PROVE  /\ Tail(q) \in Seq(S)
         /\ Distinct(Tail(q))
         /\ \A j \in 1..Len(Tail(q)) : Tail(q)[j] # Head(q) /\ \E k \in 1..Len(q) : Tail(q)[j] = q[k]
<1>1. /\ Tail(q) \in Seq(S) /\ Len(Tail(q)) = Len(q) - 1
      /\ \A j \in 1..Len(Tail(q)) : Tail(q)[j] = q[j + 1]
  BY HeadTailProperties
<1>2. Head(q) = q[1] /\ Len(q) \in Nat /\ Len(q) # 0
  BY EmptySeq, LenProperties
<1>3. QED
  BY <1>1, <1>2 DEF Distinct

LEMMA AppendDistinct ==
  ASSUME NEW S, NEW q \in Seq(S), NEW e \in S, Distinct(q), \A j \in 1..Len(q) : q[j] # e
  PROVE  Distinct(Append(q, e))
BY AppendProperties DEF Distinct

----------------------------------------------------------------------------
(* Type correctness *)

LEMMA InitType == BusInit => BusTypeOK
<1> SUFFICES ASSUME BusInit PROVE BusTypeOK
  OBVIOUS
<1>1. (CHOOSE r \in Run : TRUE) \in Run
  BY RunAssumption
<1>2. event \in [Publisher -> Event]
  BY <1>1, MaxEventsAssumption DEF BusInit, Event
<1>3. QED
  BY <1>2, ChanSizeAssumption, MaxEventsAssumption DEF BusInit, BusTypeOK

LEMMA PublishType ==
  ASSUME BusTypeOK, NEW p \in Publisher, NEW r \in Run, Publish(p, r)
  PROVE  BusTypeOK'
<1>1. count[p] + 1 \in 1..MaxEvents
  BY MaxEventsAssumption DEF BusTypeOK, Publish
<1>2. event' \in [Publisher -> Event] /\ count' \in [Publisher -> 0..MaxEvents]
  BY <1>1 DEF BusTypeOK, Publish, Event
<1>3. due' \in [Stream -> Nat]
  BY DEF BusTypeOK, Publish
<1>4. todo' \in [Publisher -> Seq(Stream)] /\ readers' \subseteq Publisher
  BY DEF BusTypeOK, Publish
<1>5. QED
  BY <1>2, <1>3, <1>4 DEF BusTypeOK, Publish

LEMMA OfferType ==
  ASSUME BusTypeOK, NEW p \in Publisher, Offer(p)
  PROVE  BusTypeOK'
<1> DEFINE s == Head(todo[p])
<1>1. todo[p] \in Seq(Stream) /\ todo[p] # <<>> /\ s \in Stream /\ Tail(todo[p]) \in Seq(Stream)
  BY HeadTailProperties DEF BusTypeOK, Offer
<1>2. todo' \in [Publisher -> Seq(Stream)]
  BY <1>1 DEF BusTypeOK, Offer
<1>3. chan[s] \in Seq(Event) /\ event[p] \in Event
  BY <1>1 DEF BusTypeOK
<1>4. Append(chan[s], event[p]) \in Seq(Event) /\ Len(Append(chan[s], event[p])) = Len(chan[s]) + 1
  BY <1>3, AppendProperties
<1>5. /\ chan' \in [Stream -> Seq(Event)] /\ dropped' \in Nat
      /\ \A t \in Stream : Len(chan'[t]) <= ChanSize
  <2>1. CASE Len(chan[s]) < ChanSize
    <3>1. chan' = [chan EXCEPT ![s] = Append(@, event[p])] /\ UNCHANGED dropped
      BY <2>1 DEF Offer
    <3>2. Len(chan[s]) + 1 <= ChanSize
      BY <1>3, <2>1, ChanSizeAssumption
    <3>3. QED
      BY <1>1, <1>4, <3>1, <3>2 DEF BusTypeOK
  <2>2. CASE ~(Len(chan[s]) < ChanSize)
    BY <2>2 DEF BusTypeOK, Offer
  <2>3. QED
    BY <2>1, <2>2
<1>6. QED
  BY <1>2, <1>5 DEF BusTypeOK, Offer

LEMMA SubscribeType ==
  ASSUME BusTypeOK, NEW s \in Stream, NEW r \in Run, Subscribe(s, r)
  PROVE  BusTypeOK'
<1>1. Append(subs[r], s) \in Seq(Stream)
  BY AppendProperties DEF BusTypeOK
<1>2. subs' \in [Run -> Seq(Stream)] /\ reading' \in [Stream -> Run \cup {NoRun}]
  BY <1>1 DEF BusTypeOK, Subscribe
<1>3. QED
  BY <1>2 DEF BusTypeOK, Subscribe

LEMMA DrainType ==
  ASSUME BusTypeOK, NEW s \in Stream, Drain(s)
  PROVE  BusTypeOK'
<1>1. chan[s] \in Seq(Event) /\ chan[s] # <<>> /\ got[s] \in Seq(Event)
  BY DEF BusTypeOK, Drain
<1>2. Head(chan[s]) \in Event /\ Tail(chan[s]) \in Seq(Event) /\ Len(Tail(chan[s])) = Len(chan[s]) - 1
  BY <1>1, HeadTailProperties
<1>3. Append(got[s], Head(chan[s])) \in Seq(Event)
  BY <1>1, <1>2, AppendProperties
<1>4. Len(Tail(chan[s])) <= ChanSize
  BY <1>1, <1>2, ChanSizeAssumption DEF BusTypeOK
<1>5. got' \in [Stream -> Seq(Event)] /\ chan' \in [Stream -> Seq(Event)]
  BY <1>2, <1>3 DEF BusTypeOK, Drain
<1>6. \A t \in Stream : Len(chan'[t]) <= ChanSize
  BY <1>4 DEF BusTypeOK, Drain
<1>7. QED
  BY <1>5, <1>6 DEF BusTypeOK, Drain

LEMMA LeaveType ==
  ASSUME BusTypeOK, NEW s \in Stream, Leave(s)
  PROVE  BusTypeOK'
<1>1. reading[s] \in Run /\ subs[reading[s]] \in Seq(Stream)
  BY DEF BusTypeOK, Leave
<1>2. PICK i \in 1..Len(subs[reading[s]]) : subs' = [subs EXCEPT ![reading[s]] = RemoveAt(@, i)]
  BY DEF Leave
<1>3. RemoveAt(subs[reading[s]], i) \in Seq(Stream)
  BY <1>1, RemoveAtProperties
<1>4. subs' \in [Run -> Seq(Stream)] /\ reading' \in [Stream -> Run \cup {NoRun}]
  BY <1>2, <1>3 DEF BusTypeOK, Leave
<1>5. closed' \in [Stream -> BOOLEAN]
  BY DEF BusTypeOK, Leave
<1>6. QED
  BY <1>4, <1>5 DEF BusTypeOK, Leave

LEMMA NextType == BusTypeOK /\ [BusNext]_busVars => BusTypeOK'
<1> SUFFICES ASSUME BusTypeOK, [BusNext]_busVars PROVE BusTypeOK'
  OBVIOUS
<1>1. ASSUME NEW p \in Publisher, NEW r \in Run, Publish(p, r) PROVE BusTypeOK'
  BY <1>1, PublishType
<1>2. ASSUME NEW p \in Publisher, Offer(p) PROVE BusTypeOK'
  BY <1>2, OfferType
<1>3. ASSUME NEW p \in Publisher, Unlock(p) PROVE BusTypeOK'
  BY <1>3 DEF BusTypeOK, Unlock
<1>4. ASSUME NEW s \in Stream, NEW r \in Run, Subscribe(s, r) PROVE BusTypeOK'
  BY <1>4, SubscribeType
<1>5. ASSUME NEW s \in Stream, Drain(s) PROVE BusTypeOK'
  BY <1>5, DrainType
<1>6. ASSUME NEW s \in Stream, Leave(s) PROVE BusTypeOK'
  BY <1>6, LeaveType
<1>7. CASE UNCHANGED busVars
  BY <1>7 DEF BusTypeOK, busVars
<1>8. QED
  BY <1>1, <1>2, <1>3, <1>4, <1>5, <1>6, <1>7 DEF BusNext

(***************************************************************************)
(* Every reachable state of the bus is well typed; in particular no        *)
(* channel ever holds more than memBusChanSize events.                     *)
(***************************************************************************)
THEOREM BusTypeCorrect == BusSpec => []BusTypeOK
<1>1. BusTypeOK /\ [BusNext]_busVars => BusTypeOK'
  BY NextType
<1>2. QED
  BY <1>1, InitType, PTL DEF BusSpec

----------------------------------------------------------------------------
(* Who is in which list *)

LEMMA InitLock == BusInit => LockInv
<1> SUFFICES ASSUME BusInit PROVE LockInv
  OBVIOUS
<1>1. BusTypeOK
  BY InitType
<1>2. SubInv /\ ClosedInv
  BY DEF BusInit, SubInv, ClosedInv, Distinct
<1>3. TodoInv
  BY DEF BusInit, TodoInv, Distinct
<1>4. QED
  BY <1>1, <1>2, <1>3 DEF LockInv

LEMMA PublishLock ==
  ASSUME LockInv, NEW p \in Publisher, NEW r \in Run, Publish(p, r)
  PROVE  SubInv' /\ ClosedInv' /\ TodoInv'
<1> USE DEF LockInv
<1>1. SubInv' /\ ClosedInv'
  BY DEF Publish, SubInv, ClosedInv
<1>2. /\ todo' = [todo EXCEPT ![p] = subs[r]]
      /\ event' = [event EXCEPT ![p] = [by |-> p, nr |-> count[p] + 1, run |-> r]]
      /\ count' = [count EXCEPT ![p] = @ + 1]
      /\ readers' = readers \cup {p}
      /\ UNCHANGED reading
  BY DEF Publish
<1>3. /\ todo'[p] = subs[r] /\ event'[p] = [by |-> p, nr |-> count[p] + 1, run |-> r]
      /\ count'[p] = count[p] + 1
      /\ \A q \in Publisher \ {p} : /\ todo'[q] = todo[q] /\ event'[q] = event[q]
                                    /\ count'[q] = count[q]
  BY <1>2 DEF BusTypeOK
<1>4. Distinct(subs[r]) /\ \A i \in 1..Len(subs[r]) : reading[subs[r][i]] = r
  BY DEF SubInv
<1>5. QED
  BY <1>1, <1>2, <1>3, <1>4 DEF TodoInv

LEMMA OfferLock ==
  ASSUME LockInv, NEW p \in Publisher, Offer(p)
  PROVE  SubInv' /\ ClosedInv' /\ TodoInv'
<1> USE DEF LockInv
<1>1. SubInv' /\ ClosedInv'
  BY DEF Offer, SubInv, ClosedInv
<1>2. todo' = [todo EXCEPT ![p] = Tail(@)] /\ UNCHANGED <<event, count, readers, reading>>
  BY DEF Offer
<1>3. /\ todo[p] \in Seq(Stream) /\ todo[p] # <<>> /\ Distinct(todo[p])
  BY DEF BusTypeOK, TodoInv, Offer
<1>4. /\ Distinct(Tail(todo[p]))
      /\ \A j \in 1..Len(Tail(todo[p])) : \E k \in 1..Len(todo[p]) : Tail(todo[p])[j] = todo[p][k]
  BY <1>3, TailDistinct
<1>5. todo'[p] = Tail(todo[p]) /\ \A q \in Publisher \ {p} : todo'[q] = todo[q]
  BY <1>2 DEF BusTypeOK
<1>6. QED
  BY <1>1, <1>2, <1>3, <1>4, <1>5 DEF TodoInv

(* Whoever changes a list has the lock for itself. *)
LEMMA NobodyInside ==
  ASSUME LockInv, readers = {}, UNCHANGED <<readers, todo, event, count>>
  PROVE  TodoInv'
<1>1. \A p \in Publisher : todo[p] = <<>>
  BY DEF LockInv, TodoInv
<1>2. QED
  BY <1>1 DEF LockInv, TodoInv

LEMMA SubscribeLock ==
  ASSUME LockInv, NEW s \in Stream, NEW r \in Run, Subscribe(s, r)
  PROVE  SubInv' /\ ClosedInv' /\ TodoInv'
<1> USE DEF LockInv
<1>1. /\ reading[s] = NoRun /\ ~closed[s]
      /\ subs' = [subs EXCEPT ![r] = Append(@, s)]
      /\ reading' = [reading EXCEPT ![s] = r]
      /\ UNCHANGED closed
  BY DEF Subscribe
<1>2. TodoInv'
  BY NobodyInside DEF Subscribe
<1>3. ClosedInv'
  BY <1>1 DEF ClosedInv, BusTypeOK
<1>4. ASSUME NEW q \in Run
      PROVE  /\ Distinct(subs'[q])
             /\ \A i \in 1..Len(subs'[q]) : reading'[subs'[q][i]] = q
  <2>1. subs[q] \in Seq(Stream) /\ Distinct(subs[q])
    BY DEF BusTypeOK, SubInv
  <2>2. \A i \in 1..Len(subs[q]) : subs[q][i] \in Stream /\ subs[q][i] # s
    BY <1>1, <2>1, NoRunAssumption DEF SubInv
  <2>3. \A i \in 1..Len(subs[q]) : reading'[subs[q][i]] = q
    BY <1>1, <2>2 DEF SubInv, BusTypeOK
  <2>4. CASE q # r
    BY <1>1, <2>1, <2>3, <2>4 DEF BusTypeOK
  <2>5. CASE q = r
    <3>1. subs'[q] = Append(subs[q], s)
      BY <1>1, <2>5 DEF BusTypeOK
    <3>2. Distinct(Append(subs[q], s))
      BY <2>1, <2>2, AppendDistinct
    <3>3. \A i \in 1..(Len(subs[q]) + 1) :
            Append(subs[q], s)[i] = IF i <= Len(subs[q]) THEN subs[q][i] ELSE s
      BY <2>1, AppendProperties
    <3>4. reading'[s] = q /\ Len(Append(subs[q], s)) = Len(subs[q]) + 1
      BY <1>1, <2>1, <2>5, AppendProperties DEF BusTypeOK
    <3>5. QED
      BY <2>1, <2>3, <3>1, <3>2, <3>3, <3>4
  <2>6. QED
    BY <2>4, <2>5
<1>5. QED
  BY <1>2, <1>3, <1>4 DEF SubInv

LEMMA LeaveLock ==
  ASSUME LockInv, NEW s \in Stream, Leave(s)
  PROVE  SubInv' /\ ClosedInv' /\ TodoInv'
<1> USE DEF LockInv
<1> DEFINE r == reading[s]
<1>1. r \in Run
  BY DEF BusTypeOK, Leave
<1>2. PICK i \in 1..Len(subs[r]) :
        subs[r][i] = s /\ subs' = [subs EXCEPT ![r] = RemoveAt(@, i)]
  BY DEF Leave
<1>3. /\ reading' = [reading EXCEPT ![s] = NoRun]
      /\ closed' = [closed EXCEPT ![s] = TRUE]
  BY DEF Leave
<1>4. TodoInv'
  BY NobodyInside DEF Leave
<1>5. ClosedInv'
  BY <1>3 DEF ClosedInv, BusTypeOK
<1>6. ASSUME NEW q \in Run
      PROVE  /\ Distinct(subs'[q])
             /\ \A j \in 1..Len(subs'[q]) : reading'[subs'[q][j]] = q
  <2>1. subs[q] \in Seq(Stream) /\ Distinct(subs[q])
    BY DEF BusTypeOK, SubInv
  <2>2. \A j \in 1..Len(subs[q]) : subs[q][j] \in Stream /\ reading[subs[q][j]] = q
    BY <2>1 DEF SubInv
  <2>3. CASE q # r
    <3>1. subs'[q] = subs[q]
      BY <1>2, <2>3 DEF BusTypeOK
    <3>2. \A j \in 1..Len(subs[q]) : subs[q][j] # s
      BY <2>2, <2>3
    <3>3. QED
      BY <1>3, <2>1, <2>2, <3>1, <3>2 DEF BusTypeOK
  <2>4. CASE q = r
    <3>1. subs'[q] = RemoveAt(subs[q], i) /\ i \in 1..Len(subs[q]) /\ subs[q][i] = s
      BY <1>1, <1>2, <2>4 DEF BusTypeOK
    <3>2. /\ Distinct(RemoveAt(subs[q], i))
          /\ \A j \in 1..Len(RemoveAt(subs[q], i)) :
               /\ RemoveAt(subs[q], i)[j] # s
               /\ \E k \in 1..Len(subs[q]) : RemoveAt(subs[q], i)[j] = subs[q][k]
      BY <2>1, <3>1, RemoveAtDistinct
    <3>3. \A k \in 1..Len(subs[q]) : subs[q][k] # s => reading'[subs[q][k]] = q
      BY <1>3, <2>2 DEF BusTypeOK
    <3>4. \A j \in 1..Len(RemoveAt(subs[q], i)) : reading'[RemoveAt(subs[q], i)[j]] = q
      BY <3>2, <3>3
    <3>5. QED
      BY <3>1, <3>2, <3>4
  <2>5. QED
    BY <2>3, <2>4
<1>7. QED
  BY <1>4, <1>5, <1>6 DEF SubInv

LEMMA NextLock == LockInv /\ [BusNext]_busVars => LockInv'
<1> SUFFICES ASSUME LockInv, [BusNext]_busVars PROVE LockInv'
  OBVIOUS
<1>1. BusTypeOK'
  BY NextType DEF LockInv
<1>2. SubInv' /\ ClosedInv' /\ TodoInv'
  <2>1. ASSUME NEW p \in Publisher, NEW r \in Run, Publish(p, r)
        PROVE  SubInv' /\ ClosedInv' /\ TodoInv'
    BY <2>1, PublishLock
  <2>2. ASSUME NEW p \in Publisher, Offer(p) PROVE SubInv' /\ ClosedInv' /\ TodoInv'
    BY <2>2, OfferLock
  <2>3. ASSUME NEW p \in Publisher, Unlock(p) PROVE SubInv' /\ ClosedInv' /\ TodoInv'
    <3>1. SubInv' /\ ClosedInv'
      BY <2>3 DEF LockInv, Unlock, SubInv, ClosedInv
    <3>2. TodoInv'
      BY <2>3 DEF LockInv, Unlock, TodoInv
    <3>3. QED
      BY <3>1, <3>2
  <2>4. ASSUME NEW s \in Stream, NEW r \in Run, Subscribe(s, r)
        PROVE  SubInv' /\ ClosedInv' /\ TodoInv'
    BY <2>4, SubscribeLock
  <2>5. ASSUME NEW s \in Stream, Drain(s) PROVE SubInv' /\ ClosedInv' /\ TodoInv'
    BY <2>5 DEF LockInv, Drain, SubInv, ClosedInv, TodoInv
  <2>6. ASSUME NEW s \in Stream, Leave(s) PROVE SubInv' /\ ClosedInv' /\ TodoInv'
    BY <2>6, LeaveLock
  <2>7. CASE UNCHANGED busVars
    BY <2>7 DEF LockInv, busVars, SubInv, ClosedInv, TodoInv
  <2>8. QED
    BY <2>1, <2>2, <2>3, <2>4, <2>5, <2>6, <2>7 DEF BusNext
<1>3. QED
  BY <1>1, <1>2 DEF LockInv

(***************************************************************************)
(* "which makes a send-on-closed-channel panic impossible" (the comment in *)
(* memBus.Publish): no subscriber a publisher still has to offer its event *)
(* to has closed its channel.                                              *)
(***************************************************************************)
THEOREM NeverOnClosed == BusSpec => []NoSendOnClosed
<1>1. LockInv => NoSendOnClosed
  <2> SUFFICES ASSUME LockInv, NEW p \in Publisher, NEW i \in 1..Len(todo[p])
               PROVE  ~closed[todo[p][i]]
    BY DEF NoSendOnClosed, LockInv, BusTypeOK
  <2>1. todo[p][i] \in Stream /\ event[p].run \in Run
    BY DEF LockInv, BusTypeOK, Event
  <2>2. reading[todo[p][i]] # NoRun
    BY <2>1, NoRunAssumption DEF LockInv, TodoInv
  <2>3. QED
    BY <2>1, <2>2 DEF LockInv, ClosedInv
<1>2. QED
  BY <1>1, InitLock, NextLock, PTL DEF BusSpec

----------------------------------------------------------------------------
(* What a stream sees *)

(***************************************************************************)
(* A stream has seen events of its run only, none beyond what a publisher  *)
(* has counted, and not yet the one a publisher still has to offer to it.  *)
(***************************************************************************)
SeenInv ==
  \A s \in Stream :
    /\ reading[s] = NoRun /\ ~closed[s] => Received(s) = <<>>
    /\ \A i \in 1..Len(Received(s)) :
         /\ reading[s] # NoRun => Received(s)[i].run = reading[s]
         /\ Received(s)[i].nr <= count[Received(s)[i].by]
         /\ \A p \in Publisher : \A k \in 1..Len(todo[p]) :
              todo[p][k] = s /\ Received(s)[i].by = p => Received(s)[i].nr < count[p]

BusInv == LockInv /\ SeenInv /\ InOrder

LEMMA ReceivedType ==
  ASSUME BusTypeOK, NEW s \in Stream
  PROVE  Received(s) \in Seq(Event)
BY ConcatProperties DEF BusTypeOK, Received

LEMMA AppendMoves ==
  ASSUME NEW S, NEW g \in Seq(S), NEW c \in Seq(S), NEW e \in S
  PROVE  g \o Append(c, e) = Append(g \o c, e)
<1>1. Append(c, e) = c \o <<e>> /\ Append(g \o c, e) = (g \o c) \o <<e>> /\ <<e>> \in Seq(S)
  BY AppendIsConcat, ConcatProperties
<1>2. QED
  BY <1>1, ConcatAssociative

LEMMA HeadMoves ==
  ASSUME NEW S, NEW g \in Seq(S), NEW c \in Seq(S), c # <<>>
  PROVE  Append(g, Head(c)) \o Tail(c) = g \o c
<1>1. Head(c) \in S /\ Tail(c) \in Seq(S) /\ <<Head(c)>> \in Seq(S)
  BY HeadTailProperties
<1>2. Append(g, Head(c)) = g \o <<Head(c)>>
  BY <1>1, AppendIsConcat
<1>3. (g \o <<Head(c)>>) \o Tail(c) = g \o (<<Head(c)>> \o Tail(c))
  BY <1>1, ConcatAssociative
<1>4. <<Head(c)>> \o Tail(c) = c
  BY <1>1, HeadTailProperties
<1>5. QED
  BY <1>2, <1>3, <1>4

LEMMA InitBus == BusInit => BusInv
<1> SUFFICES ASSUME BusInit PROVE BusInv
  OBVIOUS
<1>1. \A s \in Stream : Received(s) = <<>>
  BY DEF BusInit, Received
<1>2. SeenInv /\ InOrder
  BY <1>1 DEF SeenInv, InOrder
<1>3. QED
  BY <1>2, InitLock DEF BusInv

(* A step in which no stream receives anything keeps the order. *)
LEMMA NothingReceived ==
  ASSUME InOrder, \A s \in Stream : Received(s)' = Received(s)
  PROVE  InOrder'
BY DEF InOrder

LEMMA PublishSeen ==
  ASSUME BusInv, NEW p \in Publisher, NEW r \in Run, Publish(p, r)
  PROVE  SeenInv' /\ InOrder'
<1> USE DEF BusInv
<1>1. \A s \in Stream : Received(s)' = Received(s)
  BY DEF Publish, Received
<1>2. UNCHANGED <<reading, closed>>
  BY DEF Publish
<1>3. /\ count'[p] = count[p] + 1 /\ count[p] \in Nat
      /\ \A q \in Publisher \ {p} : count'[q] = count[q] /\ todo'[q] = todo[q]
  BY DEF LockInv, BusTypeOK, Publish
<1>4. ASSUME NEW s \in Stream, NEW i \in 1..Len(Received(s))
      PROVE  /\ reading'[s] # NoRun => Received(s)[i].run = reading'[s]
             /\ Received(s)[i].nr <= count'[Received(s)[i].by]
             /\ \A q \in Publisher : \A k \in 1..Len(todo'[q]) :
                  todo'[q][k] = s /\ Received(s)[i].by = q => Received(s)[i].nr < count'[q]
  <2>1. Received(s)[i] \in Event
    BY ReceivedType, ElementOfSeq DEF LockInv
  <2>2. Received(s)[i].by \in Publisher /\ Received(s)[i].nr \in Nat
    BY <2>1 DEF Event
  <2>3. Received(s)[i].nr <= count[Received(s)[i].by]
    BY DEF SeenInv
  <2>4. CASE Received(s)[i].by = p
    BY <1>2, <1>3, <2>2, <2>3, <2>4 DEF SeenInv
  <2>5. CASE Received(s)[i].by # p
    BY <1>2, <1>3, <2>2, <2>3, <2>5 DEF SeenInv
  <2>6. QED
    BY <2>4, <2>5
<1>5. SeenInv'
  BY <1>1, <1>2, <1>4 DEF SeenInv
<1>6. QED
  BY <1>1, <1>5, NothingReceived

LEMMA OfferSeen ==
  ASSUME BusInv, NEW p \in Publisher, Offer(p)
  PROVE  SeenInv' /\ InOrder'
<1> USE DEF BusInv
<1>1. /\ todo[p] \in Seq(Stream) /\ todo[p] # <<>> /\ Distinct(todo[p])
      /\ UNCHANGED <<got, event, count, reading, closed>>
  BY DEF LockInv, BusTypeOK, TodoInv, Offer
<1>t. PICK t \in Stream : t = Head(todo[p])
  BY <1>1, HeadTailProperties
<1>2. /\ t \in Stream /\ t = todo[p][1] /\ 1 \in 1..Len(todo[p])
      /\ \A k \in 1..Len(Tail(todo[p])) :
           /\ Tail(todo[p])[k] # t
           /\ \E l \in 1..Len(todo[p]) : Tail(todo[p])[k] = todo[p][l]
  <2>1. Len(todo[p]) \in Nat /\ Len(todo[p]) # 0
    BY <1>1, EmptySeq, LenProperties
  <2>2. t = todo[p][1]
    BY <1>1, <1>t
  <2>3. QED
    BY <1>1, <1>t, <2>1, <2>2, TailDistinct
<1>3. todo'[p] = Tail(todo[p]) /\ \A q \in Publisher \ {p} : todo'[q] = todo[q]
  BY DEF LockInv, BusTypeOK, Offer
<1>4. /\ event[p] \in Event /\ event[p].by = p /\ event[p].nr = count[p]
      /\ event[p].run = reading[t] /\ reading[t] # NoRun /\ count[p] \in Nat
  <2>1. p \in readers
    BY <1>1 DEF LockInv, TodoInv
  <2>2. event[p].run = reading[t]
    BY <1>2 DEF LockInv, TodoInv
  <2>3. QED
    BY <2>1, <2>2, NoRunAssumption DEF LockInv, BusTypeOK, TodoInv, Event
<1>5. \A s \in Stream \ {t} : Received(s)' = Received(s)
  BY <1>1, <1>t DEF LockInv, BusTypeOK, Offer, Received
<1>6. Received(t)' = Received(t) \/ Received(t)' = Append(Received(t), event[p])
  <2>1. CASE UNCHANGED chan
    BY <1>1, <2>1 DEF Received
  <2>2. CASE chan' = [chan EXCEPT ![t] = Append(@, event[p])]
    <3>1. got[t] \in Seq(Event) /\ chan[t] \in Seq(Event)
      BY <1>2 DEF LockInv, BusTypeOK
    <3>2. got'[t] = got[t] /\ chan'[t] = Append(chan[t], event[p])
      BY <1>1, <1>2, <2>2 DEF LockInv, BusTypeOK
    <3>3. event[p] \in Event
      BY <1>4
    <3>4. \A g, c \in Seq(Event) : \A e \in Event : g \o Append(c, e) = Append(g \o c, e)
      BY AppendMoves
    <3>5. got[t] \o Append(chan[t], event[p]) = Append(got[t] \o chan[t], event[p])
      BY <3>1, <3>3, <3>4, Zenon
    <3>6. QED
      BY <3>2, <3>5 DEF Received
  <2>3. QED
    BY <1>t, <2>1, <2>2 DEF Offer
(* What was there before is as it was. *)
<1>7. ASSUME NEW s \in Stream, NEW i \in 1..Len(Received(s))
      PROVE  /\ reading'[s] # NoRun => Received(s)[i].run = reading'[s]
             /\ Received(s)[i].nr <= count'[Received(s)[i].by]
             /\ \A q \in Publisher : \A k \in 1..Len(todo'[q]) :
                  todo'[q][k] = s /\ Received(s)[i].by = q => Received(s)[i].nr < count'[q]
  <2>1. /\ reading[s] # NoRun => Received(s)[i].run = reading[s]
        /\ Received(s)[i].nr <= count[Received(s)[i].by]
    BY DEF SeenInv
  <2>2. ASSUME NEW q \in Publisher, NEW k \in 1..Len(todo'[q]), todo'[q][k] = s
        PROVE  \E l \in 1..Len(todo[q]) : todo[q][l] = s
    <3>1. CASE q = p
      <4>1. k \in 1..Len(Tail(todo[p])) /\ Tail(todo[p])[k] = s
        BY <1>3, <2>2, <3>1
      <4>2. PICK l \in 1..Len(todo[p]) : Tail(todo[p])[k] = todo[p][l]
        BY <1>2, <4>1
      <4>3. QED
        BY <3>1, <4>1, <4>2
    <3>2. CASE q # p
      BY <1>3, <2>2, <3>2
    <3>3. QED
      BY <3>1, <3>2
  <2>3. ASSUME NEW q \in Publisher, NEW l \in 1..Len(todo[q]), todo[q][l] = s,
               Received(s)[i].by = q
        PROVE  Received(s)[i].nr < count[q]
    BY <2>3 DEF SeenInv
  <2>4. QED
    BY <1>1, <2>1, <2>2, <2>3
<1>8. CASE Received(t)' = Received(t)
  <2>1. \A s \in Stream : Received(s)' = Received(s)
    BY <1>5, <1>8
  <2>2. SeenInv'
    BY <1>1, <1>7, <2>1 DEF SeenInv
  <2>3. QED
    BY <2>1, <2>2, NothingReceived
<1>9. CASE Received(t)' = Append(Received(t), event[p])
  <2>1. Received(t) \in Seq(Event)
    BY <1>2, ReceivedType DEF LockInv
  <2> DEFINE n == Len(Received(t))
  <2>2. /\ n \in Nat /\ Len(Received(t)') = n + 1
        /\ \A i \in 1..n : Received(t)'[i] = Received(t)[i]
        /\ Received(t)'[n + 1] = event[p]
        /\ Received(t)' \in Seq(Event)
    BY <1>4, <1>9, <2>1, AppendProperties
  <2>3. ASSUME NEW s \in Stream, NEW i \in 1..Len(Received(s)')
        PROVE  /\ reading'[s] # NoRun => Received(s)'[i].run = reading'[s]
               /\ Received(s)'[i].nr <= count'[Received(s)'[i].by]
               /\ \A q \in Publisher : \A k \in 1..Len(todo'[q]) :
                    todo'[q][k] = s /\ Received(s)'[i].by = q => Received(s)'[i].nr < count'[q]
    <3>1. CASE s # t
      <4>1. Received(s)' = Received(s) /\ i \in 1..Len(Received(s))
        BY <1>5, <3>1
      <4>2. QED
        BY <1>7, <4>1
    <3>2. CASE s = t /\ i \in 1..n
      BY <1>7, <2>2, <3>2
    <3>3. CASE s = t /\ i = n + 1
      <4>1. Received(s)'[i] = event[p] /\ count'[p] = count[p] /\ reading'[s] = reading[t]
        BY <1>1, <2>2, <3>3
      <4>2. ASSUME NEW k \in 1..Len(todo'[p]) PROVE todo'[p][k] # s
        BY <1>2, <1>3, <3>3
      <4>3. event[p].nr <= count[p]
        BY <1>4
      <4>4. QED
        BY <1>1, <1>4, <4>1, <4>2, <4>3
    <3>4. QED
      BY <2>2, <3>1, <3>2, <3>3
  <2>4. \A s \in Stream : reading'[s] = NoRun /\ ~closed'[s] => Received(s)' = <<>>
    BY <1>1, <1>4, <1>5 DEF SeenInv
  <2>5. SeenInv'
    BY <2>3, <2>4 DEF SeenInv
  <2>6. ASSUME NEW s \in Stream, NEW i \in DOMAIN Received(s)', NEW j \in DOMAIN Received(s)'
        PROVE  /\ Received(s)'[i].run = Received(s)'[1].run
               /\ i < j /\ Received(s)'[i].by = Received(s)'[j].by =>
                    Received(s)'[i].nr < Received(s)'[j].nr
    <3>1. CASE s # t
      BY <1>5, <3>1 DEF InOrder
    <3>2. CASE s = t
      <4>1. i \in 1..(n + 1) /\ j \in 1..(n + 1) /\ 1 \in 1..(n + 1)
        BY <2>2, <3>2
      <4>2. \A k \in 1..(n + 1) : Received(t)'[k].run = reading'[t]
        BY <1>1, <1>2, <1>4, <2>2, <2>3
      <4>3. CASE i \in 1..n /\ j \in 1..n
        <5>1. i \in DOMAIN Received(t) /\ j \in DOMAIN Received(t)
          BY <2>1, <4>3
        <5>2. i < j /\ Received(t)[i].by = Received(t)[j].by => Received(t)[i].nr < Received(t)[j].nr
          BY <1>2, <5>1 DEF InOrder
        <5>3. QED
          BY <2>2, <3>2, <4>1, <4>2, <4>3, <5>2
      <4>4. CASE i \in 1..n /\ j = n + 1
        <5>1. Received(t)[i].by = p => Received(t)[i].nr < count[p]
          BY <1>2, <4>4 DEF SeenInv
        <5>2. QED
          BY <1>4, <2>2, <3>2, <4>1, <4>2, <4>4, <5>1
      <4>5. CASE i = n + 1
        BY <2>2, <3>2, <4>1, <4>2, <4>5
      <4>6. QED
        BY <2>2, <4>1, <4>3, <4>4, <4>5
    <3>3. QED
      BY <3>1, <3>2
  <2>7. InOrder'
    BY <2>6 DEF InOrder
  <2>8. QED
    BY <2>5, <2>7
<1>10. QED
  BY <1>6, <1>8, <1>9

LEMMA SubscribeSeen ==
  ASSUME BusInv, NEW s \in Stream, NEW r \in Run, Subscribe(s, r)
  PROVE  SeenInv' /\ InOrder'
<1> USE DEF BusInv
<1>1. \A u \in Stream : Received(u)' = Received(u)
  BY DEF Subscribe, Received
<1>2. Received(s) = <<>> /\ \A u \in Stream \ {s} : reading'[u] = reading[u]
  BY DEF Subscribe, SeenInv, LockInv, BusTypeOK
<1>3. UNCHANGED <<closed, count, todo>> /\ reading'[s] = r
  BY DEF Subscribe, LockInv, BusTypeOK
<1>4. r # NoRun
  BY NoRunAssumption
<1>5. SeenInv'
  BY <1>1, <1>2, <1>3, <1>4 DEF SeenInv
<1>6. QED
  BY <1>1, <1>5, NothingReceived

LEMMA DrainReceives ==
  ASSUME BusTypeOK, NEW s \in Stream, Drain(s)
  PROVE  \A u \in Stream : Received(u)' = Received(u)
<1> SUFFICES ASSUME NEW u \in Stream PROVE Received(u)' = Received(u)
  OBVIOUS
<1>1. got[u] \in Seq(Event) /\ chan[u] \in Seq(Event)
  BY DEF BusTypeOK
<1>2. CASE u = s
  <2>1. /\ chan[u] # <<>>
        /\ got'[u] = Append(got[u], Head(chan[u])) /\ chan'[u] = Tail(chan[u])
    BY <1>2 DEF Drain, BusTypeOK
  <2>2. QED
    BY <1>1, <2>1, HeadMoves DEF Received
<1>3. CASE u # s
  BY <1>3 DEF Drain, BusTypeOK, Received
<1>4. QED
  BY <1>2, <1>3

LEMMA DrainSeen ==
  ASSUME BusInv, NEW s \in Stream, Drain(s)
  PROVE  SeenInv' /\ InOrder'
<1> USE DEF BusInv
<1>1. \A u \in Stream : Received(u)' = Received(u)
  BY DrainReceives DEF LockInv
<1>2. UNCHANGED <<reading, closed, count, todo>>
  BY DEF Drain
<1>3. SeenInv'
  BY <1>1, <1>2 DEF SeenInv
<1>4. QED
  BY <1>1, <1>3, NothingReceived

LEMMA LeaveSeen ==
  ASSUME BusInv, NEW s \in Stream, Leave(s)
  PROVE  SeenInv' /\ InOrder'
<1> USE DEF BusInv
<1>1. \A u \in Stream : Received(u)' = Received(u)
  BY DEF Leave, Received
<1>2. /\ reading'[s] = NoRun /\ closed'[s] = TRUE
      /\ \A u \in Stream \ {s} : reading'[u] = reading[u] /\ closed'[u] = closed[u]
      /\ UNCHANGED <<count, todo>>
  BY DEF Leave, LockInv, BusTypeOK
<1>3. SeenInv'
  BY <1>1, <1>2 DEF SeenInv
<1>4. QED
  BY <1>1, <1>3, NothingReceived

LEMMA NextBus == BusInv /\ [BusNext]_busVars => BusInv'
<1> SUFFICES ASSUME BusInv, [BusNext]_busVars PROVE BusInv'
  OBVIOUS
<1>1. LockInv'
  BY NextLock DEF BusInv
<1>2. SeenInv' /\ InOrder'
  <2>1. ASSUME NEW p \in Publisher, NEW r \in Run, Publish(p, r) PROVE SeenInv' /\ InOrder'
    BY <2>1, PublishSeen
  <2>2. ASSUME NEW p \in Publisher, Offer(p) PROVE SeenInv' /\ InOrder'
    BY <2>2, OfferSeen
  <2>3. ASSUME NEW p \in Publisher, Unlock(p) PROVE SeenInv' /\ InOrder'
    <3>1. \A s \in Stream : Received(s)' = Received(s)
      BY <2>3 DEF Unlock, Received
    <3>2. UNCHANGED <<reading, closed, count, todo>>
      BY <2>3 DEF Unlock
    <3>3. SeenInv'
      BY <3>1, <3>2 DEF BusInv, SeenInv
    <3>4. QED
      BY <3>1, <3>3, NothingReceived DEF BusInv
  <2>4. ASSUME NEW s \in Stream, NEW r \in Run, Subscribe(s, r) PROVE SeenInv' /\ InOrder'
    BY <2>4, SubscribeSeen
  <2>5. ASSUME NEW s \in Stream, Drain(s) PROVE SeenInv' /\ InOrder'
    BY <2>5, DrainSeen
  <2>6. ASSUME NEW s \in Stream, Leave(s) PROVE SeenInv' /\ InOrder'
    BY <2>6, LeaveSeen
  <2>7. CASE UNCHANGED busVars
    <3>1. \A s \in Stream : Received(s)' = Received(s)
      BY <2>7 DEF busVars, Received
    <3>2. UNCHANGED <<reading, closed, count, todo>>
      BY <2>7 DEF busVars
    <3>3. SeenInv'
      BY <3>1, <3>2 DEF BusInv, SeenInv
    <3>4. QED
      BY <3>1, <3>3, NothingReceived DEF BusInv
  <2>8. QED
    BY <2>1, <2>2, <2>3, <2>4, <2>5, <2>6, <2>7 DEF BusNext
<1>3. QED
  BY <1>1, <1>2 DEF BusInv

(***************************************************************************)
(* A stream sees events of its own run only, and those of one publisher in *)
(* the order in which it published them.                                   *)
(***************************************************************************)
THEOREM OrderKept == BusSpec => []InOrder
<1>1. BusInv => InOrder
  BY DEF BusInv
<1>2. QED
  BY <1>1, InitBus, NextBus, PTL DEF BusSpec

----------------------------------------------------------------------------
(* What becomes of an event *)

Length == [s \in Stream |-> Len(Received(s))]
Left   == [p \in Publisher |-> Len(todo[p])]

(* The sums of the account, whatever the state they are taken in. *)
Lengths(g, c) == [s \in Stream |-> Len(g[s] \o c[s])]
Rest(t) == [p \in Publisher |-> Len(t[p])]
Summable(d, len, left) ==
  /\ SumOver(d) = TotalOf(d, Stream) /\ TotalOf(d, Stream) \in Nat
  /\ SumOver(len) = TotalOf(len, Stream) /\ TotalOf(len, Stream) \in Nat
  /\ SumOver(left) = TotalOf(left, Publisher) /\ TotalOf(left, Publisher) \in Nat
  /\ \A s \in Stream : len[s] \in Nat
  /\ \A p \in Publisher : left[p] \in Nat

LEMMA SumsOf ==
  ASSUME NEW d \in [Stream -> Nat], NEW g \in [Stream -> Seq(Event)],
         NEW c \in [Stream -> Seq(Event)], NEW t \in [Publisher -> Seq(Stream)],
         NEW len, NEW left
  PROVE  len = Lengths(g, c) /\ left = Rest(t) => Summable(d, len, left)
<1> SUFFICES ASSUME len = Lengths(g, c), left = Rest(t) PROVE Summable(d, len, left)
  OBVIOUS
<1>1. ASSUME NEW s \in Stream PROVE len[s] \in Nat
  <2>1. g[s] \o c[s] \in Seq(Event)
    BY ConcatProperties
  <2>2. QED
    BY <2>1, LenProperties DEF Lengths
<1>2. \A p \in Publisher : left[p] \in Nat
  BY LenProperties DEF Rest
<1>3. TotalOf(d, Stream) \in Nat /\ TotalOf(len, Stream) \in Nat /\ TotalOf(left, Publisher) \in Nat
  BY <1>1, <1>2, TotalType, FiniteAssumption
<1>4. DOMAIN d = Stream /\ DOMAIN len = Stream /\ DOMAIN left = Publisher
  BY DEF Lengths, Rest
<1>5. QED
  BY <1>1, <1>2, <1>3, <1>4 DEF SumOver, TotalOf, Summable

Sums ==
  /\ Accounted <=> TotalOf(due, Stream) = TotalOf(Length, Stream) + dropped + TotalOf(Left, Publisher)
  /\ \A s \in Stream : due[s] \in Nat /\ Length[s] \in Nat
  /\ \A p \in Publisher : Left[p] \in Nat
  /\ dropped \in Nat /\ TotalOf(due, Stream) \in Nat
  /\ TotalOf(Length, Stream) \in Nat /\ TotalOf(Left, Publisher) \in Nat

LEMMA AccountSums ==
  ASSUME BusTypeOK
  PROVE  Sums
<1>1. /\ due \in [Stream -> Nat] /\ got \in [Stream -> Seq(Event)]
      /\ chan \in [Stream -> Seq(Event)] /\ todo \in [Publisher -> Seq(Stream)]
      /\ dropped \in Nat
  BY DEF BusTypeOK
<1>2. Length = Lengths(got, chan) /\ Left = Rest(todo)
  BY DEF Length, Left, Received, Lengths, Rest
<1>3. Accounted <=> SumOver(due) = SumOver(Length) + dropped + SumOver(Left)
  BY DEF Accounted, Length, Left
<1>4. Summable(due, Length, Left)
  BY <1>1, <1>2, SumsOf
<1>5. QED
  BY <1>1, <1>3, <1>4 DEF Sums, Summable, BusTypeOK

LEMMA AccountSumsNext ==
  ASSUME BusTypeOK'
  PROVE  Sums'
<1>1. /\ due' \in [Stream -> Nat] /\ got' \in [Stream -> Seq(Event)]
      /\ chan' \in [Stream -> Seq(Event)] /\ todo' \in [Publisher -> Seq(Stream)]
      /\ dropped' \in Nat
  BY DEF BusTypeOK
<1>2. Length' = Lengths(got', chan') /\ Left' = Rest(todo')
  BY DEF Length, Left, Received, Lengths, Rest
<1>3. Accounted' <=> SumOver(due') = SumOver(Length') + dropped' + SumOver(Left')
  BY DEF Accounted, Length, Left
<1>4. Summable(due', Length', Left')
  BY <1>1, <1>2, SumsOf
<1>5. QED
  BY <1>1, <1>3, <1>4 DEF Sums, Summable, BusTypeOK

(* The lock sees to it that an event is due to each subscriber once. *)
LEMMA PublishAccount ==
  ASSUME LockInv, Accounted, BusTypeOK', NEW p \in Publisher, NEW r \in Run, Publish(p, r)
  PROVE  Accounted'
<1> DEFINE q == subs[r]
<1>1. BusTypeOK /\ q \in Seq(Stream) /\ IsList(q) /\ Len(q) \in Nat /\ Distinct(q)
  BY SeqIsList DEF LockInv, BusTypeOK, SubInv
<1>2. Range(q) \in SUBSET Stream /\ Cardinality(Range(q)) = Len(q)
  <2>1. Range(q) \in SUBSET Stream
    BY <1>1 DEF Range
  <2>2. QED
    BY <1>1, <2>1, DistinctCount DEF Distinct
<1>3. TotalOf(due', Stream) = TotalOf(due, Stream) + Len(q)
  <2>1. \A s \in Stream : due'[s] = due[s] + (IF s \in Range(q) THEN 1 ELSE 0)
    <3>1. \A s : Contains(q, s) <=> s \in Range(q)
      BY <1>1 DEF Contains, Range
    <3>2. QED
      BY <3>1 DEF Publish
  <2>2. \A s \in Stream : due[s] \in Nat
    BY <1>1, AccountSums, AccountSumsNext DEF Sums
  <2>3. QED
    BY <1>2, <2>1, <2>2, TotalMore, FiniteAssumption
<1>4. TotalOf(Left', Publisher) = TotalOf(Left, Publisher) + Len(q)
  <2>1. todo[p] = <<>> /\ Left[p] = 0
    BY DEF LockInv, TodoInv, Publish, Left
  <2>2. Left'[p] = Len(q) /\ \A o \in Publisher \ {p} : Left'[o] = Left[o]
    BY <1>1 DEF Publish, Left, BusTypeOK
  <2>3. \A o \in Publisher : Left[o] \in Nat
    BY <1>1, AccountSums, AccountSumsNext DEF Sums
  <2>4. TotalOf(Left', Publisher) = TotalOf(Left, Publisher) - Left[p] + Left'[p]
    BY <1>1, <2>2, <2>3, TotalChanged, FiniteAssumption
  <2>5. QED
    BY <1>1, <2>1, <2>2, <2>4, AccountSums, AccountSumsNext DEF Sums
<1>5. Length' = Length /\ dropped' = dropped
  BY DEF Publish, Length, Received
<1>6. Accounted' <=> TotalOf(due', Stream) = TotalOf(Length', Stream) + dropped' + TotalOf(Left', Publisher)
  BY AccountSums, AccountSumsNext DEF Sums
<1> HIDE DEF q
<1>7. QED
  BY <1>1, <1>3, <1>4, <1>5, <1>6, AccountSums, AccountSumsNext DEF Sums

LEMMA LongerByOne ==
  ASSUME NEW S, NEW a \in Seq(S), NEW b \in Seq(S), NEW x \in S
  PROVE  Len(a \o Append(b, x)) = Len(a \o b) + 1
<1> DEFINE c == Append(b, x)
<1>1. c \in Seq(S) /\ Len(c) = Len(b) + 1
  BY AppendProperties
<1> HIDE DEF c
<1>2. Len(a \o c) = Len(a) + Len(c)
  BY <1>1, ConcatProperties
<1>3. Len(a \o b) = Len(a) + Len(b)
  BY ConcatProperties
<1>4. Len(a) \in Nat /\ Len(b) \in Nat
  BY LenProperties
<1>5. QED
  BY <1>1, <1>2, <1>3, <1>4 DEF c

(* Offered is received, or dropped and counted. *)
LEMMA OfferAccount ==
  ASSUME LockInv, Accounted, BusTypeOK', NEW p \in Publisher, Offer(p)
  PROVE  Accounted'
<1> DEFINE t == Head(todo[p])
<1>1. /\ BusTypeOK /\ todo[p] \in Seq(Stream) /\ todo[p] # <<>> /\ t \in Stream
      /\ Len(Tail(todo[p])) = Len(todo[p]) - 1 /\ Len(todo[p]) \in Nat
  BY HeadTailProperties, LenProperties DEF LockInv, BusTypeOK, Offer
<1>2. TotalOf(Left', Publisher) = TotalOf(Left, Publisher) - 1
  <2>1. Left[p] = Len(todo[p]) /\ Left'[p] = Len(todo[p]) - 1
    BY <1>1 DEF Offer, Left, BusTypeOK
  <2>2. \A o \in Publisher \ {p} : Left'[o] = Left[o]
    BY DEF Offer, Left
  <2>3. \A o \in Publisher : Left[o] \in Nat /\ Left'[o] \in Nat
    BY <1>1, AccountSums, AccountSumsNext DEF Sums
  <2>4. TotalOf(Left', Publisher) = TotalOf(Left, Publisher) - Left[p] + Left'[p]
    BY <2>2, <2>3, TotalChanged, FiniteAssumption
  <2>5. QED
    BY <1>1, <2>1, <2>4, AccountSums, AccountSumsNext DEF Sums
<1>3. TotalOf(Length', Stream) + dropped' = TotalOf(Length, Stream) + dropped + 1
  <2>1. CASE Len(chan[t]) < ChanSize
    <3>1. chan' = [chan EXCEPT ![t] = Append(@, event[p])] /\ UNCHANGED <<dropped, got>>
      BY <2>1 DEF Offer
    <3>2. /\ got[t] \in Seq(Event) /\ chan[t] \in Seq(Event) /\ event[p] \in Event
      BY <1>1 DEF BusTypeOK
    <3>3. Len(got[t] \o Append(chan[t], event[p])) = Len(got[t] \o chan[t]) + 1
      BY <3>2, LongerByOne
    <3>4. Length'[t] = Length[t] + 1
      BY <1>1, <3>1, <3>3 DEF Length, Received, BusTypeOK
    <3>5. ASSUME NEW s \in Stream, s # t PROVE Length'[s] = Length[s]
      <4>1. chan'[s] = chan[s] /\ got'[s] = got[s]
        BY <1>1, <3>1, <3>5 DEF BusTypeOK
      <4>2. Length'[s] = Len(got'[s] \o chan'[s]) /\ Length[s] = Len(got[s] \o chan[s])
        BY DEF Length, Received
      <4>3. QED
        BY <4>1, <4>2
    <3>6. \A s \in Stream : Length[s] \in Nat /\ Length'[s] \in Nat
      BY <1>1, AccountSums, AccountSumsNext DEF Sums
    <3> HIDE DEF t
    <3>7. TotalOf(Length', Stream) = TotalOf(Length, Stream) - Length[t] + Length'[t]
      BY <1>1, <3>5, <3>6, TotalChanged, FiniteAssumption
    <3>8. QED
      BY <1>1, <3>1, <3>4, <3>6, <3>7, AccountSums, AccountSumsNext DEF Sums
  <2>2. CASE ~(Len(chan[t]) < ChanSize)
    <3>1. dropped' = dropped + 1 /\ Length' = Length
      BY <2>2 DEF Offer, Length, Received
    <3>2. TotalOf(Length, Stream) \in Nat /\ dropped \in Nat
      BY <1>1, AccountSums DEF Sums
    <3>3. TotalOf(Length', Stream) = TotalOf(Length, Stream)
      BY <3>1
    <3>4. QED
      BY <3>1, <3>2, <3>3
  <2>3. QED
    BY <2>1, <2>2
<1>4. due' = due
  BY DEF Offer
<1>5. /\ Accounted' <=> TotalOf(due', Stream) = TotalOf(Length', Stream) + dropped' + TotalOf(Left', Publisher)
      /\ TotalOf(Length', Stream) \in Nat /\ dropped' \in Nat
  BY AccountSums, AccountSumsNext DEF Sums
<1>6. QED
  BY <1>1, <1>2, <1>3, <1>4, <1>5, AccountSums, AccountSumsNext DEF Sums

(* A step that only moves what was received keeps the account. *)
LEMMA SameAccount ==
  ASSUME BusTypeOK, Accounted, BusTypeOK', UNCHANGED <<due, todo, dropped>>,
         \A s \in Stream : Received(s)' = Received(s)
  PROVE  Accounted'
<1>1. Length' = Length /\ Left' = Left
  BY DEF Length, Left
<1>2. Accounted' <=> TotalOf(due', Stream) = TotalOf(Length', Stream) + dropped' + TotalOf(Left', Publisher)
  BY AccountSums, AccountSumsNext DEF Sums
<1>3. QED
  BY <1>1, <1>2, AccountSums, AccountSumsNext DEF Sums

LEMMA InitAccount == BusInit => Accounted
<1> SUFFICES ASSUME BusInit PROVE Accounted
  OBVIOUS
<1>1. BusTypeOK
  BY InitType
<1>2. \A s \in Stream : Length[s] = 0 /\ due[s] = 0
  BY DEF BusInit, Length, Received
<1>3. TotalOf(due, Stream) = TotalOf(Length, Stream)
  <2>1. {} \in SUBSET Stream /\ Cardinality({}) = 0
    BY FS_EmptySet
  <2>2. \A s \in Stream : due[s] = Length[s] + (IF s \in {} THEN 1 ELSE 0)
    BY <1>2
  <2>3. \A s \in Stream : Length[s] \in Nat
    BY <1>2
  <2>4. TotalOf(due, Stream) = TotalOf(Length, Stream) + Cardinality({})
    BY <2>1, <2>2, <2>3, TotalMore, FiniteAssumption
  <2>5. QED
    BY <1>1, <2>1, <2>4, AccountSums, AccountSumsNext DEF Sums
<1>4. TotalOf(Left, Publisher) = 0
  <2>1. \A p \in Publisher : Left[p] = 0
    BY DEF BusInit, Left
  <2>2. QED
    BY <2>1, TotalZero, FiniteAssumption
<1>5. dropped = 0
  BY DEF BusInit
<1>6. QED
  BY <1>1, <1>3, <1>4, <1>5, AccountSums, AccountSumsNext DEF Sums

LEMMA NextAccount == LockInv /\ Accounted /\ [BusNext]_busVars => Accounted'
<1> SUFFICES ASSUME LockInv, Accounted, [BusNext]_busVars PROVE Accounted'
  OBVIOUS
<1>1. BusTypeOK /\ BusTypeOK'
  BY NextType DEF LockInv
<1>2. ASSUME NEW p \in Publisher, NEW r \in Run, Publish(p, r) PROVE Accounted'
  BY <1>1, <1>2, PublishAccount
<1>3. ASSUME NEW p \in Publisher, Offer(p) PROVE Accounted'
  BY <1>1, <1>3, OfferAccount
<1>4. ASSUME NEW p \in Publisher, Unlock(p) PROVE Accounted'
  BY <1>1, <1>4, SameAccount DEF Unlock, Received
<1>5. ASSUME NEW s \in Stream, NEW r \in Run, Subscribe(s, r) PROVE Accounted'
  BY <1>1, <1>5, SameAccount DEF Subscribe, Received
<1>6. ASSUME NEW s \in Stream, Drain(s) PROVE Accounted'
  <2>1. \A u \in Stream : Received(u)' = Received(u)
    BY <1>1, <1>6, DrainReceives
  <2>2. QED
    BY <1>1, <1>6, <2>1, SameAccount DEF Drain
<1>7. ASSUME NEW s \in Stream, Leave(s) PROVE Accounted'
  BY <1>1, <1>7, SameAccount DEF Leave, Received
<1>8. CASE UNCHANGED busVars
  BY <1>1, <1>8, SameAccount DEF busVars, Received
<1>9. QED
  BY <1>2, <1>3, <1>4, <1>5, <1>6, <1>7, <1>8 DEF BusNext

(***************************************************************************)
(* Every event offered to a subscriber is in its stream or in              *)
(* DroppedCount: nothing is lost silently and nothing arrives twice.       *)
(***************************************************************************)
THEOREM NothingLost == BusSpec => []Accounted
<1>1. BusInit => LockInv /\ Accounted
  BY InitLock, InitAccount
<1>2. LockInv /\ Accounted /\ [BusNext]_busVars => (LockInv /\ Accounted)'
  BY NextLock, NextAccount
<1>3. QED
  BY <1>1, <1>2, PTL DEF BusSpec
=============================================================================
