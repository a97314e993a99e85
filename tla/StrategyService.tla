-------------------------- MODULE StrategyService --------------------------
(***************************************************************************)
(* One strategy, its version rows, and its entry in the cron runner:       *)
(* orchestrator.StrategyService (Update, Delete) with the executor's       *)
(* Scheduler (Add, Remove, LoadFromDB) as its ScheduleReloader.            *)
(*                                                                         *)
(* An Update reads the row in a transaction without locking it and saves   *)
(* ALL of its columns at the commit; scheduleSync then tells the scheduler *)
(* what was saved, outside the transaction.  Add takes the scheduler's     *)
(* mutex twice and registers the new entry in between.  Requests overlap.  *)
(***************************************************************************)
EXTENDS Integers, FiniteSets, FiniteSetsExt

CONSTANTS
  Request,    \* calls of Update and Delete
  Dag,        \* graphs
  Expr,       \* cron expressions the parser accepts
  Keep,       \* an empty field of UpdateStrategyInput: unchanged
  MaxVersion  \* bound: version numbers

ASSUME KeepAssumption       == Keep \notin Dag \cup Expr
ASSUME MaxVersionAssumption == MaxVersion \in Nat \ {0}

Status  == {"draft", "active", "disabled"}
NoCron  == "none"
NoEntry == 0

VARIABLES
  strat,      \* the row: status, cron, dag, current (version), deleted
  versions,   \* versions[v]: the graph of version row v
  pc,         \* pc[q]: where request q is
  input,      \* input[q]: what q asks for
  row,        \* row[q]: the row as q has read or saved it
  mine,       \* mine[q]: the cron entry q registered
  entries,    \* the cron runner: records [id, cron]
  active,     \* Scheduler.active for this strategy, NoEntry if absent
  nextId,     \* the runner's next entry id
  overlapped  \* two requests were under way at once since the last start

vars == <<strat, versions, pc, input, row, mine, entries, active, nextId, overlapped>>

Busy == {q \in Request : pc[q] \notin {"new", "done"}}

Goto(q, there) == pc' = [pc EXCEPT ![q] = there]

Input == [dag : Dag \cup {Keep}, cron : Expr \cup {Keep}, status : Status \cup {Keep}]

(* Create: version 1, a draft without a cron expression. *)
Init ==
  /\ \E d \in Dag :
       /\ strat = [status |-> "draft", cron |-> NoCron, dag |-> d, current |-> 1,
                   deleted |-> FALSE]
       /\ versions = [v \in {1} |-> d]
  /\ pc = [q \in Request |-> "new"]
  /\ input = [q \in Request |-> [dag |-> Keep, cron |-> Keep, status |-> Keep]]
  /\ row = [q \in Request |-> strat]
  /\ mine = [q \in Request |-> NoEntry]
  /\ entries = {}
  /\ active = NoEntry
  /\ nextId = 1
  /\ overlapped = FALSE

----------------------------------------------------------------------------
(* Update: the transaction *)

(* tx.First: a request on a deleted row is answered 404. *)
Load(q, there) ==
  /\ pc[q] = "new"
  /\ ~strat.deleted
  /\ row' = [row EXCEPT ![q] = strat]
  /\ overlapped' = (overlapped \/ Busy # {})
  /\ Goto(q, there)
  /\ UNCHANGED <<strat, versions, mine, entries, active, nextId>>

Update(q, in) ==
  /\ Load(q, "saving")
  /\ input' = [input EXCEPT ![q] = in]

DagChanged(q) == input[q].dag \notin {Keep, row[q].dag}

Pick(new, old) == IF new = Keep THEN old ELSE new

(* Mutant: sending a graph counts as changing it. *)
EditedCounting(q) ==
  [status  |-> Pick(input[q].status, row[q].status),
   cron    |-> Pick(input[q].cron, row[q].cron),
   dag     |-> Pick(input[q].dag, row[q].dag),
   current |-> IF input[q].dag # Keep THEN row[q].current + 1 ELSE row[q].current,
   deleted |-> FALSE]

(* The row Save writes. *)
Edited(q) ==
  [status  |-> Pick(input[q].status, row[q].status),
   cron    |-> Pick(input[q].cron, row[q].cron),
   dag     |-> Pick(input[q].dag, row[q].dag),
   current |-> IF DagChanged(q) THEN row[q].current + 1 ELSE row[q].current,
   deleted |-> FALSE]

(* Mutant: the save leaves out the graph, which has its own table. *)
CommitKeepingDag(q) ==
  /\ pc[q] = "saving"
  /\ DagChanged(q) => Edited(q).current \in (1..MaxVersion) \ DOMAIN versions
  /\ strat' = [Edited(q) EXCEPT !.dag = strat.dag]
  /\ row' = [row EXCEPT ![q] = Edited(q)]
  /\ versions' = IF DagChanged(q)
                 THEN [v \in DOMAIN versions \cup {Edited(q).current} |->
                         IF v = Edited(q).current THEN input[q].dag ELSE versions[v]]
                 ELSE versions
  /\ Goto(q, "syncing")
  /\ UNCHANGED <<input, mine, entries, active, nextId, overlapped>>

(***************************************************************************)
(* The commit.  Save is an UPDATE of every column; when no row is left to  *)
(* update, because the strategy was deleted meanwhile, gorm falls back to  *)
(* an upsert, which writes the deleted row alive again.                    *)
(***************************************************************************)
Commit(q) ==
  /\ pc[q] = "saving"
  /\ DagChanged(q) => Edited(q).current \in (1..MaxVersion) \ DOMAIN versions
  /\ strat' = Edited(q)
  /\ row' = [row EXCEPT ![q] = Edited(q)]
  /\ versions' = IF DagChanged(q)
                 THEN [v \in DOMAIN versions \cup {Edited(q).current} |->
                         IF v = Edited(q).current THEN input[q].dag ELSE versions[v]]
                 ELSE versions
  /\ Goto(q, "syncing")
  /\ UNCHANGED <<input, mine, entries, active, nextId, overlapped>>

(***************************************************************************)
(* The unique index on (strategy_id, version) refuses the version row: the *)
(* transaction is rolled back.                                             *)
(***************************************************************************)
Conflict(q) ==
  /\ pc[q] = "saving"
  /\ DagChanged(q)
  /\ Edited(q).current \in DOMAIN versions
  /\ Goto(q, "done")
  /\ UNCHANGED <<strat, versions, input, row, mine, entries, active, nextId, overlapped>>

----------------------------------------------------------------------------
(* scheduleSync: Scheduler.Add or Scheduler.Remove *)

(* LoadFromDB and scheduleSync agree on which rows are scheduled. *)
Scheduled(r) == r.status = "active" /\ r.cron # NoCron

WithoutActive == {e \in entries : e.id # active}

(* Mutant: a strategy that is no longer active is left alone. *)
RemoveNothing(q) ==
  /\ pc[q] = "syncing"
  /\ ~Scheduled(row[q])
  /\ Goto(q, "done")
  /\ UNCHANGED <<strat, versions, input, row, mine, entries, active, nextId, overlapped>>

Unschedule(q) ==
  /\ pc[q] = "syncing"
  /\ ~Scheduled(row[q])
  /\ entries' = WithoutActive
  /\ active' = NoEntry
  /\ Goto(q, "done")
  /\ UNCHANGED <<strat, versions, input, row, mine, nextId, overlapped>>

(* Add, first critical section. *)
AddEvict(q) ==
  /\ pc[q] = "syncing"
  /\ Scheduled(row[q])
  /\ entries' = WithoutActive
  /\ Goto(q, "scheduling")
  /\ UNCHANGED <<strat, versions, input, row, mine, active, nextId, overlapped>>

(* Add, between the two: s.c.Schedule. *)
AddSchedule(q) ==
  /\ pc[q] = "scheduling"
  /\ entries' = entries \cup {[id |-> nextId, cron |-> row[q].cron]}
  /\ mine' = [mine EXCEPT ![q] = nextId]
  /\ nextId' = nextId + 1
  /\ Goto(q, "registering")
  /\ UNCHANGED <<strat, versions, input, row, active, overlapped>>

(* Add, second critical section. *)
AddRegister(q) ==
  /\ pc[q] = "registering"
  /\ active' = mine[q]
  /\ Goto(q, "done")
  /\ UNCHANGED <<strat, versions, input, row, mine, entries, nextId, overlapped>>

----------------------------------------------------------------------------
(* Delete, and a restart of the server *)

Delete(q) == Load(q, "deleting") /\ UNCHANGED input

(* Save with status disabled, then the soft delete: one transaction. *)
CommitDelete(q) ==
  /\ pc[q] = "deleting"
  /\ strat' = [row[q] EXCEPT !.status = "disabled", !.deleted = TRUE]
  /\ Goto(q, "done")
  /\ UNCHANGED <<versions, input, row, mine, entries, active, nextId, overlapped>>

(* The process starts again: requests are gone, LoadFromDB fills the runner. *)
Restart ==
  /\ pc' = [q \in Request |-> IF q \in Busy THEN "done" ELSE pc[q]]
  /\ LET load == Scheduled(strat) /\ ~strat.deleted
     IN /\ entries' = IF load THEN {[id |-> 1, cron |-> strat.cron]} ELSE {}
        /\ active' = IF load THEN 1 ELSE NoEntry
        /\ nextId' = IF load THEN 2 ELSE 1
  /\ overlapped' = FALSE
  /\ UNCHANGED <<strat, versions, input, row, mine>>

Next ==
  \/ \E q \in Request :
       \/ \E in \in Input : Update(q, in)
       \/ Commit(q) \/ Conflict(q)
       \/ Unschedule(q) \/ AddEvict(q) \/ AddSchedule(q) \/ AddRegister(q)
       \/ Delete(q) \/ CommitDelete(q)
  \/ Restart

Spec == Init /\ [][Next]_vars

----------------------------------------------------------------------------
(* Properties *)

Row == [status : Status, cron : Expr \cup {NoCron}, dag : Dag, current : 1..MaxVersion,
        deleted : BOOLEAN]

TypeOK ==
  /\ strat \in Row
  /\ DOMAIN versions \subseteq 1..MaxVersion
  /\ versions \in [DOMAIN versions -> Dag]
  /\ pc \in [Request -> {"new", "saving", "syncing", "scheduling", "registering",
                        "deleting", "done"}]
  /\ input \in [Request -> Input]
  /\ row \in [Request -> Row]
  /\ mine \in [Request -> Nat]
  /\ entries \subseteq [id : 1..nextId, cron : Expr]
  /\ active \in 0..nextId
  /\ nextId \in Nat
  /\ overlapped \in BOOLEAN

(***************************************************************************)
(* "DAGJson is the JSON-encoded DAG of the current version" (strategy.go): *)
(* a trial run, which reads the column, and a real run, which reads the    *)
(* version row, see the same graph, however updates overlap.               *)
(***************************************************************************)
DagOfCurrentVersion ==
  strat.current \in DOMAIN versions /\ versions[strat.current] = strat.dag

(***************************************************************************)
(* "StrategyVersion is an immutable snapshot" (strategy.go): no update,    *)
(* however stale what it read, rewrites or removes a version row.          *)
(***************************************************************************)
VersionsImmutable ==
  [][\A v \in DOMAIN versions : v \in DOMAIN versions' /\ versions'[v] = versions[v]]_vars

Quiet == Busy = {}

(***************************************************************************)
(* Unless two requests have overlapped since the last start, what fires is *)
(* what the row says: one entry with the saved expression for an active    *)
(* strategy, none for another.  A start brings the runner back in step,    *)
(* wherever it cut requests off and whatever overlapping ones had left in  *)
(* it.  (A deleted strategy keeps its entry until then.)                   *)
(***************************************************************************)
SerialInSync ==
  Quiet /\ ~overlapped /\ ~strat.deleted =>
    {e.cron : e \in entries} = (IF Scheduled(strat) THEN {strat.cron} ELSE {})
    /\ Cardinality(entries) <= 1

Linear == DOMAIN versions = 1..strat.current

(* The save q is about to make writes an outdated version pointer back. *)
Outdated(q) == pc[q] \in {"saving", "deleting"} /\ row[q].current # strat.current

(***************************************************************************)
(* The history is linear: the strategy points at its newest version, and a *)
(* later change of the graph finds a free number.  Of all steps, in any    *)
(* interleaving, only the save of a request that read the row before       *)
(* another moved the pointer breaks it.                                    *)
(***************************************************************************)
LinearUnlessOutdated ==
  Linear /\ [][Linear /\ ~Linear' => \E q \in Request : Outdated(q) /\ pc'[q] # pc[q]]_vars

(***************************************************************************)
(* "It is safe to call Add / Remove concurrently", and Add replaces the    *)
(* entry that exists (scheduler.go): once the calls are over a strategy    *)
(* has at most the one entry active names.                                 *)
(***************************************************************************)
NoOrphanEntry == Quiet => \A e \in entries : e.id = active
=============================================================================
