---------------------------- MODULE RunLifecycle ----------------------------
(***************************************************************************)
(* executor.Executor around the walk of a graph: the three ways a run      *)
(* starts (POST /runs/trigger, a cron tick, POST /runs/:id/retry), the row *)
(* of the runs table it works on, and how the row is finished.             *)
(*                                                                         *)
(* Every call of the database is a step of its own: it may fail, it does   *)
(* fail once the job's context is dead, and other jobs, the shutdown of    *)
(* the server or a crash may come between two of them.  A row outlives the *)
(* process, a job does not.  The walk itself is DagExecutor: here it is    *)
(* one step that yields the status of its summary.                         *)
(***************************************************************************)
EXTENDS Integers, Sequences

CONSTANTS
  Job,       \* calls of dispatch, fire and Retry; also the ids of the rows they create
  NoRow,     \* no row
  DbFails,   \* whether to look at runs on a database that may fail at any call
  MaxStops   \* bound: exits of the server

ASSUME NoRowAssumption    == NoRow \notin Job
ASSUME DbFailsAssumption  == DbFails \in BOOLEAN
ASSUME MaxStopsAssumption == MaxStops \in Nat

VARIABLES
  faulty,    \* the database of this behaviour may fail on a live context
  server,    \* "up", "draining" (rootCancel was called), "down"
  stops,     \* how often the server went down
  kind,      \* kind[j]: how job j was started
  pc,        \* pc[j]: the call job j is about to make
  ctxDone,   \* ctxDone[j]: the outer context of j is dead
  use,       \* use[j]: the row j works on (the variable run of Execute)
  verdict,   \* verdict[j]: the status of j's RunSummary, "none" before it
  results,   \* results[j]: that summary has results of nodes
  told,      \* told[j]: the run id the client who started j was given
  row,       \* row[r]: column status, "absent" before the row is created
  logs,      \* logs[r]: batches of run_logs inserted for the row
  events     \* events[r]: run-level events published, with their status

vars == <<faulty, server, stops, kind, pc, ctxDone, use, verdict, results, told, row, logs, events>>

Final == {"success", "failed", "partial"}
Alive == server # "down"
Ended == {"new", "refused", "ended", "lost"}

Init ==
  /\ faulty \in {FALSE, DbFails}
  /\ server = "up"
  /\ stops = 0
  /\ kind = [j \in Job |-> "none"]
  /\ pc = [j \in Job |-> "new"]
  /\ ctxDone = [j \in Job |-> FALSE]
  /\ use = [j \in Job |-> NoRow]
  /\ verdict = [j \in Job |-> "none"]
  /\ results = [j \in Job |-> FALSE]
  /\ told = [j \in Job |-> NoRow]
  /\ row = [r \in Job |-> "absent"]
  /\ logs = [r \in Job |-> 0]
  /\ events = [r \in Job |-> <<>>]

DbError(j) == faulty \/ ctxDone[j]

Goto(j, there) == pc' = [pc EXCEPT ![j] = there]

----------------------------------------------------------------------------
(* Three ways in *)

(***************************************************************************)
(* Handler.Trigger: CreateRunRow in the request, then `go dispatch'.  The  *)
(* answer carries the row's id.                                            *)
(***************************************************************************)
Trigger(j) ==
  /\ server = "up"
  /\ pc[j] = "new"
  /\ kind' = [kind EXCEPT ![j] = "manual"]
  /\ \/ /\ row' = [row EXCEPT ![j] = "running"]
        /\ told' = [told EXCEPT ![j] = j]
        /\ Goto(j, "reloading")
     \/ /\ faulty
        /\ Goto(j, "refused")
        /\ UNCHANGED <<row, told>>
  /\ UNCHANGED <<faulty, server, stops, ctxDone, use, verdict, results, logs, events>>

(* Mutant: the retried row is put back to running first. *)
RetryResetting(j, src) ==
  /\ server = "up"
  /\ pc[j] = "new"
  /\ row[src] # "absent"
  /\ kind' = [kind EXCEPT ![j] = "retry"]
  /\ told' = [told EXCEPT ![j] = src]
  /\ row' = [row EXCEPT ![src] = "running"]
  /\ Goto(j, "resolving")
  /\ UNCHANGED <<faulty, server, stops, ctxDone, use, verdict, results, logs, events>>

(***************************************************************************)
(* Executor.Retry on an existing row: the answer carries the id of the     *)
(* row that is retried; the new run makes a row of its own.                *)
(***************************************************************************)
Retry(j, src) ==
  /\ server = "up"
  /\ pc[j] = "new"
  /\ row[src] # "absent"
  /\ kind' = [kind EXCEPT ![j] = "retry"]
  /\ told' = [told EXCEPT ![j] = src]
  /\ Goto(j, "resolving")
  /\ UNCHANGED <<faulty, server, stops, ctxDone, use, verdict, results, row, logs, events>>

(***************************************************************************)
(* Scheduler.fire inside a session: the context is a child of the server's *)
(* root context.                                                           *)
(***************************************************************************)
Fire(j) ==
  /\ Alive
  /\ pc[j] = "new"
  /\ kind' = [kind EXCEPT ![j] = "cron"]
  /\ ctxDone' = [ctxDone EXCEPT ![j] = server = "draining"]
  /\ Goto(j, "resolving")
  /\ UNCHANGED <<faulty, server, stops, use, verdict, results, told, row, logs, events>>

----------------------------------------------------------------------------
(* Handler.dispatch and Executor.Execute *)

(* The job returns its error and leaves the row as it is. *)
GiveUp(j) == Goto(j, "ended") /\ UNCHANGED <<use, row>>

(* dispatch loads the row Trigger made; if it cannot, the job is gone. *)
Reload(j) ==
  /\ Alive
  /\ pc[j] = "reloading"
  /\ \/ /\ ~ctxDone[j]
        /\ use' = [use EXCEPT ![j] = j]
        /\ Goto(j, "resolving")
        /\ UNCHANGED row
     \/ DbError(j) /\ GiveUp(j)
  /\ UNCHANGED <<faulty, server, stops, kind, ctxDone, verdict, results, told, logs, events>>

(***************************************************************************)
(* strategy.Get, ParseDAG, Validate: the strategy may be gone or its graph *)
(* invalid.                                                                *)
(***************************************************************************)
Resolve(j) ==
  /\ Alive
  /\ pc[j] = "resolving"
  /\ \/ /\ ~ctxDone[j]
        /\ Goto(j, IF use[j] = NoRow THEN "creating" ELSE "walking")
        /\ UNCHANGED <<use, row>>
     \/ GiveUp(j)
  /\ UNCHANGED <<faulty, server, stops, kind, ctxDone, verdict, results, told, logs, events>>

Create(j) ==
  /\ Alive
  /\ pc[j] = "creating"
  /\ \/ /\ ~ctxDone[j]
        /\ row' = [row EXCEPT ![j] = "running"]
        /\ use' = [use EXCEPT ![j] = j]
        /\ Goto(j, "walking")
     \/ DbError(j) /\ GiveUp(j)
  /\ UNCHANGED <<faulty, server, stops, kind, ctxDone, verdict, results, told, logs, events>>

(* Mutant: a failed walk returns at once, as an error path easily does. *)
WalkReturningEarly(j) ==
  /\ Alive
  /\ pc[j] = "walking"
  /\ \E s \in Final :
       /\ verdict' = [verdict EXCEPT ![j] = s]
       /\ events' = [events EXCEPT ![use[j]] = @ \o <<"started", s>>]
       /\ Goto(j, IF s = "failed" THEN "ended" ELSE "logging")
  /\ results' = [results EXCEPT ![j] = TRUE]
  /\ UNCHANGED <<faulty, server, stops, kind, ctxDone, use, told, row, logs>>

(***************************************************************************)
(* orchestrator.Executor.Execute.  It always comes back with a summary,    *)
(* also when the context dies under it.  The summary has no result of any  *)
(* node when none of a cyclic graph's nodes is a root, which is a success, *)
(* and when the graph has a node of unknown type, which is rejected before *)
(* anything is published.                                                  *)
(***************************************************************************)
Walk(j) ==
  /\ Alive
  /\ pc[j] = "walking"
  /\ \E s \in Final, some \in BOOLEAN :
       /\ verdict' = [verdict EXCEPT ![j] = s]
       /\ results' = [results EXCEPT ![j] = some]
       /\ \/ /\ some \/ s = "success"
             /\ events' = [events EXCEPT ![use[j]] = @ \o <<"started", s>>]
          \/ ~some /\ s = "failed" /\ UNCHANGED events
  /\ Goto(j, "logging")
  /\ UNCHANGED <<faulty, server, stops, kind, ctxDone, use, told, row, logs>>

(* Mutant: the logs are offered to the database until it takes them. *)
PersistLogsInsisting(j) ==
  /\ Alive
  /\ pc[j] = "logging"
  /\ \/ results[j] /\ ~ctxDone[j] /\ logs' = [logs EXCEPT ![use[j]] = @ + 1]
     \/ ~results[j] /\ UNCHANGED logs
  /\ Goto(j, "saving")
  /\ UNCHANGED <<faulty, server, stops, kind, ctxDone, use, verdict, results, told, row, events>>

(***************************************************************************)
(* persistLogs: without results there is nothing to insert; an error is    *)
(* logged and the row is saved all the same.                               *)
(***************************************************************************)
PersistLogs(j) ==
  /\ Alive
  /\ pc[j] = "logging"
  /\ \/ results[j] /\ ~ctxDone[j] /\ logs' = [logs EXCEPT ![use[j]] = @ + 1]
     \/ (results[j] => DbError(j)) /\ UNCHANGED logs
  /\ Goto(j, "saving")
  /\ UNCHANGED <<faulty, server, stops, kind, ctxDone, use, verdict, results, told, row, events>>

(* Mutant: an error of Save is returned. *)
SaveOrReturn(j) ==
  /\ Alive
  /\ pc[j] = "saving"
  /\ \/ ~ctxDone[j] /\ row' = [row EXCEPT ![use[j]] = verdict[j]] /\ Goto(j, "announcing")
     \/ DbError(j) /\ Goto(j, "ended") /\ UNCHANGED row
  /\ UNCHANGED <<faulty, server, stops, kind, ctxDone, use, verdict, results, told, logs, events>>

(* finalizeRun and Save; an error is logged and the run announced as ended. *)
Save(j) ==
  /\ Alive
  /\ pc[j] = "saving"
  /\ \/ ~ctxDone[j] /\ row' = [row EXCEPT ![use[j]] = verdict[j]]
     \/ DbError(j) /\ UNCHANGED row
  /\ Goto(j, "announcing")
  /\ UNCHANGED <<faulty, server, stops, kind, ctxDone, use, verdict, results, told, logs, events>>

(* Mutant: the status announced is derived from the error Execute returns. *)
AnnounceError(j) ==
  /\ Alive
  /\ pc[j] = "announcing"
  /\ events' = [events EXCEPT ![use[j]] =
                  Append(@, IF verdict[j] = "failed" THEN "failed" ELSE "success")]
  /\ Goto(j, "ended")
  /\ UNCHANGED <<faulty, server, stops, kind, ctxDone, use, verdict, results, told, row, logs>>

(* publishRunCompleted: the run's second run.completed. *)
Announce(j) ==
  /\ Alive
  /\ pc[j] = "announcing"
  /\ events' = [events EXCEPT ![use[j]] = Append(@, verdict[j])]
  /\ Goto(j, "ended")
  /\ UNCHANGED <<faulty, server, stops, kind, ctxDone, use, verdict, results, told, row, logs>>

----------------------------------------------------------------------------
(* The environment *)

(***************************************************************************)
(* The deadline of the job's outer context.  The context of the walk is    *)
(* its child with the same timeout, so both are dead from here on.         *)
(***************************************************************************)
Expire(j) ==
  /\ Alive
  /\ pc[j] \notin Ended
  /\ ~ctxDone[j]
  /\ ctxDone' = [ctxDone EXCEPT ![j] = TRUE]
  /\ UNCHANGED <<faulty, server, stops, kind, pc, use, verdict, results, told, row, logs, events>>

(* SIGTERM: no more requests; the contexts of cron runs are cancelled. *)
Shutdown ==
  /\ server = "up"
  /\ server' = "draining"
  /\ ctxDone' = [j \in Job |-> ctxDone[j] \/ kind[j] = "cron"]
  /\ UNCHANGED <<faulty, stops, kind, pc, use, verdict, results, told, row, logs, events>>

(* main returns, or the process dies: nobody waits for a job. *)
Stop ==
  /\ Alive
  /\ stops < MaxStops
  /\ server' = "down"
  /\ stops' = stops + 1
  /\ pc' = [j \in Job |-> IF pc[j] \in Ended THEN pc[j] ELSE "lost"]
  /\ UNCHANGED <<faulty, kind, ctxDone, use, verdict, results, told, row, logs, events>>

(* A start looks at no row: what was running stays as it is. *)
Start ==
  /\ server = "down"
  /\ server' = "up"
  /\ UNCHANGED <<faulty, stops, kind, pc, ctxDone, use, verdict, results, told, row, logs, events>>

Idle ==
  /\ \A j \in Job : pc[j] \in Ended \ {"new"}
  /\ UNCHANGED vars

Step(j) ==
  Reload(j) \/ Resolve(j) \/ Create(j) \/ Walk(j) \/ PersistLogs(j) \/ Save(j) \/ Announce(j)

Next ==
  \/ \E j \in Job : \/ Trigger(j) \/ Fire(j) \/ Step(j) \/ Expire(j)
                    \/ \E src \in Job : Retry(j, src)
  \/ Shutdown \/ Stop \/ Start \/ Idle

Spec == Init /\ [][Next]_vars

(* Goroutines run; every walk ends (DagExecutor!Terminates). *)
FairSpec == Spec /\ \A j \in Job : WF_vars(Step(j))

----------------------------------------------------------------------------
(* Properties *)

TypeOK ==
  /\ faulty \in BOOLEAN
  /\ server \in {"up", "draining", "down"}
  /\ stops \in 0..MaxStops
  /\ kind \in [Job -> {"none", "manual", "cron", "retry"}]
  /\ pc \in [Job -> {"reloading", "resolving", "creating", "walking", "logging",
                    "saving", "announcing"} \cup Ended]
  /\ ctxDone \in [Job -> BOOLEAN]
  /\ use \in [Job -> Job \cup {NoRow}]
  /\ verdict \in [Job -> Final \cup {"none"}]
  /\ results \in [Job -> BOOLEAN]
  /\ told \in [Job -> Job \cup {NoRow}]
  /\ row \in [Job -> Final \cup {"absent", "running"}]
  /\ logs \in [Job -> Nat]
  /\ events \in [Job -> Seq(Final \cup {"started"})]

(***************************************************************************)
(* No two jobs work on one row, and a row has at most one batch of logs:   *)
(* a retry never walks, or writes logs, into the run it retries.           *)
(***************************************************************************)
OneWalkPerRow ==
  /\ \A j, k \in Job : use[j] = use[k] /\ use[j] # NoRow => j = k
  /\ \A r \in Job : logs[r] <= 1

FinishedBy(j, r) == pc[j] = "saving" /\ pc'[j] = "announcing" /\ row'[r] = verdict[j]

(***************************************************************************)
(* "The original run row is left untouched": a row goes from running to    *)
(* one final status, which never changes, whatever is retried, restarted   *)
(* or expires later.  It is its own job that finishes it, with the verdict *)
(* of its walk: a run cut off by a restart is finished by nobody.          *)
(***************************************************************************)
RowsFinal ==
  [][\A r \in Job :
       \/ row'[r] = row[r]
       \/ row[r] = "absent" /\ row'[r] = "running"
       \/ row[r] = "running" /\ \E j \in Job : use[j] = r /\ FinishedBy(j, r)]_vars

(***************************************************************************)
(* Whatever run.completed tells a client is what the row says, now or once *)
(* it is saved: all the statuses announced for a row agree, with each      *)
(* other and with the final row.                                           *)
(***************************************************************************)
AnnouncedAgrees ==
  \A r \in Job : \A i \in DOMAIN events[r] :
    events[r][i] \in Final =>
      /\ row[r] \in {"running", events[r][i]}
      /\ \A k \in DOMAIN events[r] : events[r][k] \in {"started", events[r][i]}

(***************************************************************************)
(* A walk that ended is announced: its job goes through the logs and the   *)
(* row whether the run succeeded or failed, unless the process died.  A    *)
(* client that waits for run.completed is not left alone by an error.      *)
(***************************************************************************)
WalkAnnounced ==
  \A j \in Job : pc[j] = "ended" /\ verdict[j] # "none" =>
    events[use[j]] # <<>> /\ events[use[j]][Len(events[use[j]])] = verdict[j]

(***************************************************************************)
(* A row with a final status was given it by the walk of its own job: no   *)
(* error path, retry or restart makes one up.                              *)
(***************************************************************************)
FinalIsVerdict ==
  \A r \in Job : row[r] \in Final => \E j \in Job : use[j] = r /\ verdict[j] = row[r]

(***************************************************************************)
(* A row is left running, while the server runs, only for one of three     *)
(* reasons: its job gave up before the walk, the context died before Save, *)
(* or the database refused.  With a database that works and a job that got *)
(* its verdict in time the row is saved, and the results of the nodes, if  *)
(* the walk had any, are in one batch of logs.                             *)
(***************************************************************************)
TimelySaved ==
  \A j \in Job : pc[j] = "ended" /\ verdict[j] # "none" /\ ~ctxDone[j] /\ ~faulty =>
    row[use[j]] = verdict[j] /\ logs[use[j]] = (IF results[j] THEN 1 ELSE 0)

(* Every job that is started ends, or is lost with the process. *)
JobsEnd == \A j \in Job : pc[j] # "new" ~> pc[j] \in Ended

(***************************************************************************)
(* The status column goes pending/running -> success, failed or partial,   *)
(* "driven by the database fields" (design.md): no run stays running.      *)
(***************************************************************************)
RunsSettle == \A r \in Job : row[r] = "running" ~> row[r] \in Final
=============================================================================
