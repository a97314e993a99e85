----------------------- MODULE StrategyProofs -----------------------------
(***************************************************************************)
(* Theorems about one strategy under overlapping requests, for every       *)
(* number of requests, graphs and cron expressions, and about many next    *)
(* to each other and next to the templates, for any texts, clients, codes  *)
(* and bundled templates.                                                  *)
(***************************************************************************)
EXTENDS StrategyService, TemplateGallery, ListsProofs, SequenceTheorems, FiniteSetTheorems,
        TLAPS

(***************************************************************************)
(* Where a request is says what it holds: one that is about to save holds  *)
(* a row as it was read, whose version is still there with the graph it    *)
(* had then; one that registers an entry holds a row to schedule.          *)
(***************************************************************************)
HoldsVersion(r) == r.current \in DOMAIN versions /\ versions[r.current] = r.dag

RequestInv(q) ==
  /\ pc[q] \in {"saving", "deleting"} => HoldsVersion(row[q])
  /\ pc[q] \in {"scheduling", "registering"} => Scheduled(row[q])
  /\ pc[q] = "registering" => mine[q] \in 1..nextId

IInv ==
  /\ TypeOK
  /\ DagOfCurrentVersion
  /\ nextId >= 1
  /\ \A q \in Request : RequestInv(q)

----------------------------------------------------------------------------
(* The invariant is inductive *)

LEMMA InitIInv == Init => IInv
<1> SUFFICES ASSUME Init PROVE IInv
  OBVIOUS
<1> USE DEF Init
<1>1. PICK d \in Dag :
        /\ strat = [status |-> "draft", cron |-> NoCron, dag |-> d, current |-> 1,
                    deleted |-> FALSE]
        /\ versions = [v \in {1} |-> d]
  OBVIOUS
<1>2. strat \in Row
  BY <1>1, MaxVersionAssumption DEF Row, Status
<1>3. DOMAIN versions \subseteq 1..MaxVersion /\ versions \in [DOMAIN versions -> Dag]
  BY <1>1, MaxVersionAssumption
<1>4. TypeOK
  <2>1. input \in [Request -> Input]
    BY DEF Input
  <2>2. row \in [Request -> Row] /\ mine \in [Request -> Nat]
    BY <1>2 DEF NoEntry
  <2>3. pc \in [Request -> {"new", "saving", "syncing", "scheduling", "registering",
                           "deleting", "done"}]
    OBVIOUS
  <2>4. entries \subseteq [id : 1..nextId, cron : Expr] /\ active \in 0..nextId
    BY DEF NoEntry
  <2>5. QED
    BY <1>2, <1>3, <2>1, <2>2, <2>3, <2>4 DEF TypeOK
<1>5. DagOfCurrentVersion
  BY <1>1 DEF DagOfCurrentVersion
<1>6. QED
  BY <1>4, <1>5 DEF IInv, RequestInv

(* The row an update saves. *)
LEMMA EditedType ==
  ASSUME IInv, NEW q \in Request, DagChanged(q) => Edited(q).current \in 1..MaxVersion
  PROVE  Edited(q) \in Row
<1>1. row[q] \in Row /\ input[q] \in Input
  BY DEF IInv, TypeOK
<1>2. Pick(input[q].status, row[q].status) \in Status
  BY <1>1 DEF Pick, Row, Input
<1>3. Pick(input[q].cron, row[q].cron) \in Expr \cup {NoCron}
  BY <1>1 DEF Pick, Row, Input
<1>4. Pick(input[q].dag, row[q].dag) \in Dag
  BY <1>1 DEF Pick, Row, Input
<1>5. Edited(q).current \in 1..MaxVersion
  BY <1>1 DEF Edited, Row
<1>6. QED
  BY <1>2, <1>3, <1>4, <1>5 DEF Edited, Row

LEMMA LoadInv ==
  ASSUME IInv, NEW q \in Request, NEW there \in {"saving", "deleting"}, Load(q, there),
         input' \in [Request -> Input]
  PROVE  IInv'
<1> USE DEF Load, Goto, IInv
<1>1. TypeOK'
  BY DEF TypeOK
<1>2. DagOfCurrentVersion'
  BY DEF DagOfCurrentVersion
<1>3. \A p \in Request : RequestInv(p)'
  BY DEF RequestInv, DagOfCurrentVersion, HoldsVersion, Scheduled, TypeOK
<1>4. QED
  BY <1>1, <1>2, <1>3

LEMMA CommitInv ==
  ASSUME IInv, NEW q \in Request, Commit(q)
  PROVE  IInv'
<1> DEFINE new == Edited(q)
<1>1. new \in Row
  BY EditedType DEF Commit
<1>2. /\ \A v \in DOMAIN versions : v \in DOMAIN versions' /\ versions'[v] = versions[v]
      /\ DOMAIN versions' \subseteq 1..MaxVersion
      /\ versions' \in [DOMAIN versions' -> Dag]
      /\ new.current \in DOMAIN versions' /\ versions'[new.current] = new.dag
  <2>1. row[q] \in Row /\ input[q] \in Input /\ HoldsVersion(row[q])
    BY DEF IInv, TypeOK, RequestInv, Commit
  <2>2. CASE DagChanged(q)
    <3>1. new.dag = input[q].dag /\ input[q].dag \in Dag
      BY <2>1, <2>2 DEF Edited, DagChanged, Pick, Input
    <3>2. new.current \in (1..MaxVersion) \ DOMAIN versions
      BY <2>2 DEF Commit
    <3>3. versions' = [v \in DOMAIN versions \cup {new.current} |->
                         IF v = new.current THEN input[q].dag ELSE versions[v]]
      BY <2>2 DEF Commit
    <3>4. QED
      BY <3>1, <3>2, <3>3 DEF IInv, TypeOK
  <2>3. CASE ~DagChanged(q)
    <3>1. versions' = versions
      BY <2>3 DEF Commit
    <3>2. new.current = row[q].current /\ new.dag = row[q].dag
      BY <2>1, <2>3 DEF Edited, DagChanged, Pick
    <3>3. QED
      BY <2>1, <3>1, <3>2 DEF HoldsVersion, IInv, TypeOK
  <2>4. QED
    BY <2>2, <2>3
<1>3. TypeOK'
  BY <1>1, <1>2 DEF Commit, Goto, IInv, TypeOK
<1>4. DagOfCurrentVersion'
  BY <1>2 DEF Commit, DagOfCurrentVersion
<1>5. \A p \in Request : RequestInv(p)'
  <2> SUFFICES ASSUME NEW p \in Request PROVE RequestInv(p)'
    OBVIOUS
  <2>1. CASE p = q
    BY <2>1 DEF Commit, Goto, RequestInv, IInv, TypeOK
  <2>2. CASE p # q
    BY <1>2, <2>2 DEF Commit, Goto, RequestInv, HoldsVersion, Scheduled, IInv, TypeOK
  <2>3. QED
    BY <2>1, <2>2
<1>6. QED
  BY <1>3, <1>4, <1>5 DEF IInv, Commit

(* The runner's entries and the scheduler's map. *)
LEMMA RunnerInv ==
  ASSUME IInv, NEW q \in Request,
         Conflict(q) \/ Unschedule(q) \/ AddEvict(q) \/ AddSchedule(q) \/ AddRegister(q)
  PROVE  IInv'
<1> USE DEF IInv, Goto, DagOfCurrentVersion, RequestInv, HoldsVersion, Scheduled
<1>1. CASE Conflict(q)
  BY <1>1 DEF Conflict, TypeOK
<1>2. CASE Unschedule(q)
  BY <1>2 DEF Unschedule, WithoutActive, TypeOK, NoEntry
<1>3. CASE AddEvict(q)
  BY <1>3 DEF AddEvict, WithoutActive, TypeOK
<1>4. CASE AddSchedule(q)
  <2>1. row[q].cron \in Expr
    BY <1>4 DEF AddSchedule, TypeOK, Row
  <2>2. entries' \subseteq [id : 1..nextId', cron : Expr]
    <3>1. nextId \in 1..nextId' /\ 1..nextId \subseteq 1..nextId'
      BY <1>4 DEF AddSchedule, TypeOK
    <3>2. [id |-> nextId, cron |-> row[q].cron] \in [id : 1..nextId', cron : Expr]
      BY <2>1, <3>1
    <3>3. [id : 1..nextId, cron : Expr] \subseteq [id : 1..nextId', cron : Expr]
      BY <3>1
    <3>4. QED
      BY <1>4, <3>2, <3>3 DEF AddSchedule, TypeOK
  <2>3. QED
    BY <1>4, <2>2 DEF AddSchedule, TypeOK
<1>5. CASE AddRegister(q)
  BY <1>5 DEF AddRegister, TypeOK
<1>6. QED
  BY <1>1, <1>2, <1>3, <1>4, <1>5

LEMMA DeleteInv ==
  ASSUME IInv, NEW q \in Request, CommitDelete(q)
  PROVE  IInv'
<1> USE DEF IInv, CommitDelete, Goto
<1>1. strat' \in Row /\ strat'.current = row[q].current /\ strat'.dag = row[q].dag
  BY DEF TypeOK, Row, Status
<1>2. TypeOK'
  BY <1>1 DEF TypeOK
<1>3. DagOfCurrentVersion'
  BY <1>1 DEF DagOfCurrentVersion, RequestInv, HoldsVersion
<1>4. \A p \in Request : RequestInv(p)'
  BY DEF RequestInv, HoldsVersion, Scheduled, TypeOK
<1>5. QED
  BY <1>2, <1>3, <1>4

LEMMA RestartInv == ASSUME IInv, Restart PROVE IInv'
<1> USE DEF IInv, Restart
<1>1. Scheduled(strat) => strat.cron \in Expr
  BY DEF Scheduled, TypeOK, Row
<1>2. TypeOK'
  <2>1. /\ entries' \in SUBSET [id : 1..nextId', cron : Expr] /\ active' \in 0..nextId'
        /\ nextId' \in Nat
    BY <1>1 DEF TypeOK, NoEntry
  <2>2. overlapped' \in BOOLEAN
    OBVIOUS
  <2>3. pc' \in [Request -> {"new", "saving", "syncing", "scheduling", "registering",
                            "deleting", "done"}]
    BY DEF TypeOK
  <2>4. UNCHANGED <<strat, versions, input, row, mine>>
    OBVIOUS
  <2>5. QED
    BY <2>1, <2>2, <2>3, <2>4 DEF TypeOK
<1>3. DagOfCurrentVersion'
  BY DEF DagOfCurrentVersion
<1>4. \A p \in Request : pc'[p] \in {"new", "done"}
  BY DEF Busy
<1>5. QED
  BY <1>2, <1>3, <1>4 DEF RequestInv

LEMMA NextIInv == IInv /\ [Next]_vars => IInv'
<1> SUFFICES ASSUME IInv, [Next]_vars PROVE IInv'
  OBVIOUS
<1>1. CASE \E q \in Request : \E in \in Input : Update(q, in)
  <2>1. PICK q \in Request, in \in Input : Update(q, in)
    BY <1>1
  <2>2. input' \in [Request -> Input]
    BY <2>1 DEF Update, IInv, TypeOK
  <2>3. QED
    BY <2>1, <2>2, LoadInv DEF Update
<1>2. CASE \E q \in Request : Delete(q)
  <2>1. PICK q \in Request : Delete(q)
    BY <1>2
  <2>2. input' \in [Request -> Input]
    BY <2>1 DEF Delete, IInv, TypeOK
  <2>3. QED
    BY <2>1, <2>2, LoadInv DEF Delete
<1>3. CASE \E q \in Request : Commit(q) \/ CommitDelete(q)
  BY <1>3, CommitInv, DeleteInv
<1>4. CASE \E q \in Request :
             Conflict(q) \/ Unschedule(q) \/ AddEvict(q) \/ AddSchedule(q) \/ AddRegister(q)
  BY <1>4, RunnerInv
<1>5. CASE Restart
  BY <1>5, RestartInv
<1>6. CASE UNCHANGED vars
  BY <1>6 DEF vars, IInv, TypeOK, DagOfCurrentVersion, RequestInv, HoldsVersion, Scheduled
<1>7. QED
  BY <1>1, <1>2, <1>3, <1>4, <1>5, <1>6 DEF Next

----------------------------------------------------------------------------
(* Theorems *)

(* The inductive invariant holds, and with it every variable is of its type. *)
THEOREM Invariance == Spec => []IInv
  BY InitIInv, NextIInv, PTL DEF Spec

THEOREM TypeCorrect == Spec => []TypeOK
  BY Invariance, PTL DEF IInv

(***************************************************************************)
(* However updates and deletes overlap and whatever stale rows they save,  *)
(* the graph in the strategy's row is that of the version row it points    *)
(* at: trial runs and real runs walk the same graph (strategy_service.go   *)
(* 249-335).                                                               *)
(***************************************************************************)
THEOREM OneGraph == Spec => []DagOfCurrentVersion
  BY Invariance, PTL DEF IInv

(* A version row is written once: no update rewrites or removes one. *)
THEOREM Immutable == Spec => VersionsImmutable
<1> DEFINE Kept == \A v \in DOMAIN versions : v \in DOMAIN versions' /\ versions'[v] = versions[v]
<1>1. ASSUME [Next]_vars PROVE [Kept]_vars
  <2>1. CASE \E q \in Request : Commit(q)
    BY <2>1 DEF Commit
  <2>2. CASE ~\E q \in Request : Commit(q)
    BY <1>1, <2>2 DEF Next, Update, Delete, Load, Conflict, Unschedule, AddEvict, AddSchedule,
                      AddRegister, CommitDelete, Restart, vars
  <2>3. QED
    BY <2>1, <2>2
<1>2. QED
  BY <1>1, PTL DEF Spec, VersionsImmutable

(***************************************************************************)
(* Requests that take turns.  While no two have overlapped since the last  *)
(* start, at most one is under way, and the row it read is the row.        *)
(***************************************************************************)
Turns ==
  ~overlapped =>
    /\ \A p, q \in Busy : p = q
    /\ \A q \in Request : pc[q] \in {"saving", "deleting"} => row[q] = strat

LEMMA InitTurns == Init => Turns
  BY DEF Init, Turns, Busy

LEMMA RestartTurns == ASSUME IInv, Restart PROVE Turns'
<1>1. \A q \in Request : pc'[q] \in {"new", "done"}
  BY DEF Restart, Busy, IInv, TypeOK
<1>2. QED
  BY <1>1 DEF Turns, Busy

LEMMA NextTurns == IInv /\ Turns /\ [Next]_vars => Turns'
<1> SUFFICES ASSUME IInv, Turns, [Next]_vars, ~overlapped', ~Restart PROVE Turns'
  BY RestartTurns DEF Turns
<1> USE DEF Goto
<1>1. ~overlapped
  BY DEF Next, Update, Delete, Load, Commit, Conflict, Unschedule, AddEvict, AddSchedule,
         AddRegister, CommitDelete, vars, IInv, TypeOK
<1>2. /\ \A p, q \in Busy : p = q
      /\ \A q \in Request : pc[q] \in {"saving", "deleting"} => row[q] = strat
  BY <1>1 DEF Turns
<1>3. ASSUME NEW q \in Request, Delete(q) \/ \E in \in Input : Update(q, in)
      PROVE  Turns'
  <2>1. PICK there \in {"saving", "deleting"} : Load(q, there)
    BY <1>3 DEF Update, Delete
  <2>2. Busy = {} /\ Busy' = {q}
    BY <1>1, <2>1 DEF Load, Busy, IInv, TypeOK
  <2>3. QED
    BY <1>2, <2>1, <2>2 DEF Load, Turns, Busy, IInv, TypeOK
<1>4. ASSUME NEW q \in Request, Commit(q)
      PROVE  Turns'
  <2>1. Busy' \subseteq Busy /\ \A p \in Request : pc'[p] \notin {"saving", "deleting"}
    <3>1. pc[q] = "saving" /\ pc'[q] = "syncing" /\ \A p \in Request \ {q} : pc'[p] = pc[p]
      BY <1>4 DEF Commit, IInv, TypeOK
    <3>2. q \in Busy /\ \A p \in Request \ {q} : pc[p] \in {"new", "done"}
      BY <1>2, <3>1 DEF Busy
    <3>3. QED
      BY <3>1, <3>2 DEF Busy
  <2>2. QED
    BY <1>2, <2>1 DEF Turns
<1>5. ASSUME NEW q \in Request, CommitDelete(q)
      PROVE  Turns'
  <2>1. Busy' \subseteq Busy /\ \A p \in Request : pc'[p] \notin {"saving", "deleting"}
    <3>1. pc[q] = "deleting" /\ pc'[q] = "done" /\ \A p \in Request \ {q} : pc'[p] = pc[p]
      BY <1>5 DEF CommitDelete, IInv, TypeOK
    <3>2. q \in Busy /\ \A p \in Request \ {q} : pc[p] \in {"new", "done"}
      BY <1>2, <3>1 DEF Busy
    <3>3. QED
      BY <3>1, <3>2 DEF Busy
  <2>2. QED
    BY <1>2, <2>1 DEF Turns
<1>6. ASSUME NEW q \in Request,
             Conflict(q) \/ Unschedule(q) \/ AddEvict(q) \/ AddSchedule(q) \/ AddRegister(q)
      PROVE  Turns'
  <2>1. Busy' \subseteq Busy
    BY <1>6 DEF Conflict, Unschedule, AddEvict, AddSchedule, AddRegister, Busy, IInv, TypeOK
  <2>2. /\ UNCHANGED <<strat, versions, row>>
        /\ \A p \in Request : pc'[p] \in {"saving", "deleting"} => pc'[p] = pc[p]
    BY <1>6 DEF Conflict, Unschedule, AddEvict, AddSchedule, AddRegister, IInv, TypeOK
  <2>3. QED
    BY <1>2, <2>1, <2>2 DEF Turns
<1>7. CASE UNCHANGED vars
  BY <1>2, <1>7 DEF vars, Turns, Busy
<1>8. QED
  BY <1>3, <1>4, <1>5, <1>6, <1>7 DEF Next

(***************************************************************************)
(* A strategy points at its newest version and its history has no gaps, so *)
(* that the next change of the graph finds a free number: only the save of *)
(* a request that read the row before another moved the pointer can change *)
(* that (strategy_service.go 298).                                         *)
(***************************************************************************)
THEOREM LinearHistory == Spec => LinearUnlessOutdated
<1> DEFINE Breaks == Linear /\ ~Linear' => \E q \in Request : Outdated(q) /\ pc'[q] # pc[q]
<1>1. Init => Linear
  BY DEF Init, Linear
<1>2. ASSUME IInv, [Next]_vars PROVE Breaks
  <2> SUFFICES ASSUME Linear, ~Linear' PROVE \E q \in Request : Outdated(q) /\ pc'[q] # pc[q]
    OBVIOUS
  <2>1. PICK q \in Request : Commit(q) \/ CommitDelete(q)
    BY <1>2 DEF Next, Update, Delete, Load, Conflict, Unschedule, AddEvict, AddSchedule,
                AddRegister, Restart, Linear, vars
  <2>2. pc[q] \in {"saving", "deleting"} /\ pc'[q] # pc[q]
    BY <1>2, <2>1 DEF Commit, CommitDelete, Goto, IInv, TypeOK
  <2>3. ASSUME row[q].current = strat.current PROVE FALSE
    <3>1. strat.current \in Nat /\ row[q] \in Row
      BY <1>2 DEF IInv, TypeOK, Row
    <3>2. CASE Commit(q) /\ DagChanged(q)
      <4>1. strat'.current = strat.current + 1
        BY <2>3, <3>2 DEF Commit, Edited
      <4>2. DOMAIN versions' = DOMAIN versions \cup {strat'.current}
        BY <3>2 DEF Commit
      <4>3. QED
        BY <3>1, <4>1, <4>2 DEF Linear
    <3>3. CASE Commit(q) /\ ~DagChanged(q)
      BY <2>3, <3>3 DEF Commit, Edited, Linear
    <3>4. CASE CommitDelete(q)
      BY <2>3, <3>1, <3>4 DEF CommitDelete, Row, Linear
    <3>5. QED
      BY <2>1, <3>2, <3>3, <3>4
  <2>4. QED
    BY <2>2, <2>3 DEF Outdated
<1>3. IInv /\ [Next]_vars => [Breaks]_vars
  BY <1>2
<1>4. QED
  BY <1>1, <1>3, Invariance, PTL DEF Spec, LinearUnlessOutdated
----------------------------------------------------------------------------
(***************************************************************************)
(* While requests take turns, what is between a save and the scheduler's   *)
(* answer to it is known: the row of the one request, and what is left of  *)
(* the entries.                                                            *)
(***************************************************************************)
Syncing == {"syncing", "scheduling", "registering"}

InSync == entries = IF Scheduled(strat) THEN {[id |-> active, cron |-> strat.cron]} ELSE {}

CronInv ==
  ~overlapped =>
    /\ \A q \in Request : pc[q] \in {"saving", "deleting"} => ~strat.deleted
    /\ ~strat.deleted =>
         /\ (\A q \in Request : pc[q] \notin Syncing) => InSync
         /\ \A q \in Request : pc[q] \in Syncing => row[q] = strat
         /\ \A q \in Request : pc[q] = "syncing" => WithoutActive = {}
         /\ \A q \in Request : pc[q] = "scheduling" => Scheduled(strat) /\ entries = {}
         /\ \A q \in Request : pc[q] = "registering" =>
              Scheduled(strat) /\ entries = {[id |-> mine[q], cron |-> strat.cron]}

LEMMA InitCron == Init => CronInv
BY DEF Init, CronInv, InSync, Scheduled, Syncing

LEMMA SyncIsTidy == InSync => WithoutActive = {}
BY DEF InSync, WithoutActive

(* A request that is answering its own save is the only one under way. *)
LEMMA OnlySyncing ==
  ASSUME Turns, ~overlapped, NEW q \in Request, pc[q] \in Syncing, NEW p \in Request, p # q
  PROVE  pc[p] \in {"new", "done"}
BY DEF Turns, Busy, Syncing

(* A start fills the runner from the row, whatever was in it. *)
LEMMA RestartCron == ASSUME IInv, Restart PROVE CronInv'
<1>1. \A p \in Request : pc'[p] \in {"new", "done"}
  BY DEF Restart, Busy, IInv, TypeOK
<1>2. ~strat.deleted => InSync'
  BY DEF Restart, InSync, Scheduled
<1>3. strat' = strat
  BY DEF Restart
<1>4. QED
  BY <1>1, <1>2, <1>3 DEF CronInv, Syncing

LEMMA NextCron == IInv /\ Turns /\ CronInv /\ [Next]_vars => CronInv'
<1> SUFFICES ASSUME IInv, Turns, CronInv, [Next]_vars, ~overlapped', ~Restart PROVE CronInv'
  BY RestartCron DEF CronInv
<1> USE DEF Goto
<1>1. ~overlapped
  BY DEF Next, Update, Delete, Load, Commit, Conflict, Unschedule, AddEvict, AddSchedule,
         AddRegister, CommitDelete, vars, IInv, TypeOK
<1>2. /\ pc \in [Request -> {"new", "saving", "syncing", "scheduling", "registering",
                             "deleting", "done"}]
      /\ row = [q \in Request |-> row[q]] /\ mine = [q \in Request |-> mine[q]]
  BY DEF IInv, TypeOK
<1>3. ASSUME NEW q \in Request, Delete(q) \/ \E in \in Input : Update(q, in)
      PROVE  CronInv'
  <2>1. PICK there \in {"saving", "deleting"} : Load(q, there)
    BY <1>3 DEF Update, Delete
  <2>2. Busy = {}
    BY <1>1, <2>1 DEF Load, Busy, IInv, TypeOK
  <2>3. \A p \in Request : pc[p] \notin Syncing /\ pc'[p] \notin Syncing
    BY <1>2, <2>1, <2>2 DEF Load, Busy, Syncing
  <2>4. ~strat.deleted /\ UNCHANGED <<strat, entries, active>> /\ InSync
    BY <1>1, <2>1, <2>3 DEF Load, CronInv
  <2>5. InSync'
    BY <2>4 DEF InSync, Scheduled
  <2>6. QED
    BY <2>3, <2>4, <2>5 DEF CronInv, Syncing
<1>4. ASSUME NEW q \in Request, Commit(q)
      PROVE  CronInv'
  <2>1. /\ pc[q] = "saving" /\ pc' = [pc EXCEPT ![q] = "syncing"] /\ strat' = Edited(q)
        /\ row' = [row EXCEPT ![q] = Edited(q)] /\ UNCHANGED <<entries, active>>
    BY <1>4 DEF Commit
  <2>2. /\ \A p \in Request \ {q} : pc[p] \in {"new", "done"} /\ pc'[p] = pc[p]
        /\ pc'[q] = "syncing" /\ row'[q] = strat'
    BY <1>1, <1>2, <2>1 DEF Turns, Busy
  <2>3. InSync
    BY <1>1, <2>1, <2>2 DEF CronInv, Syncing
  <2>4. WithoutActive' = {}
    BY <2>1, <2>3, SyncIsTidy DEF WithoutActive
  <2>5. QED
    BY <2>2, <2>4 DEF CronInv, Syncing
<1>5. ASSUME NEW q \in Request, CommitDelete(q)
      PROVE  CronInv'
  <2>1. /\ pc[q] = "deleting" /\ pc' = [pc EXCEPT ![q] = "done"]
        /\ strat' = [row[q] EXCEPT !.status = "disabled", !.deleted = TRUE]
    BY <1>5 DEF CommitDelete
  <2>2. strat'.deleted = TRUE
    BY <2>1 DEF IInv, TypeOK, Row
  <2>3. \A p \in Request : pc'[p] \in {"new", "done"}
    BY <1>1, <1>2, <2>1 DEF Turns, Busy
  <2>4. QED
    BY <2>2, <2>3 DEF CronInv
<1>6. ASSUME NEW q \in Request, Conflict(q)
      PROVE  CronInv'
  <2>1. /\ pc[q] = "saving" /\ pc' = [pc EXCEPT ![q] = "done"]
        /\ UNCHANGED <<strat, row, mine, entries, active>>
    BY <1>6 DEF Conflict
  <2>2. /\ \A p \in Request \ {q} : pc[p] \in {"new", "done"} /\ pc'[p] = pc[p]
        /\ pc'[q] = "done"
    BY <1>1, <1>2, <2>1 DEF Turns, Busy
  <2>3. InSync
    BY <1>1, <2>1, <2>2 DEF CronInv, Syncing
  <2>4. InSync'
    BY <2>1, <2>3 DEF InSync, Scheduled
  <2>5. QED
    BY <2>2, <2>4 DEF CronInv, Syncing
<1>7. ASSUME NEW q \in Request,
             Unschedule(q) \/ AddEvict(q) \/ AddSchedule(q) \/ AddRegister(q)
      PROVE  CronInv'
  <2>1. pc[q] \in Syncing /\ UNCHANGED <<strat, row>>
    BY <1>7 DEF Unschedule, AddEvict, AddSchedule, AddRegister, Syncing
  <2>2. \A p \in Request \ {q} : pc[p] \in {"new", "done"}
    BY <1>1, <2>1, OnlySyncing
  <2>3. \A p \in Request \ {q} : pc'[p] \in {"new", "done"}
    BY <1>2, <1>7, <2>2 DEF Unschedule, AddEvict, AddSchedule, AddRegister
  <2>4. CASE strat.deleted
    <3>1. pc'[q] \notin {"saving", "deleting"}
      BY <1>2, <1>7 DEF Unschedule, AddEvict, AddSchedule, AddRegister
    <3>2. QED
      BY <2>1, <2>3, <2>4, <3>1 DEF CronInv
  <2>5. CASE ~strat.deleted
    <3>1. row[q] = strat
      BY <1>1, <2>1, <2>5 DEF CronInv
    <3>2. CASE Unschedule(q)
      <4>1. entries' = {} /\ pc'[q] = "done" /\ ~Scheduled(strat)
        BY <1>1, <1>2, <2>5, <3>1, <3>2 DEF Unschedule, CronInv
      <4>2. InSync'
        BY <2>1, <4>1 DEF InSync, Scheduled
      <4>3. QED
        BY <2>3, <4>1, <4>2 DEF CronInv, Syncing
    <3>3. CASE AddEvict(q)
      <4>1. entries' = {} /\ pc'[q] = "scheduling" /\ Scheduled(strat)
        BY <1>1, <1>2, <2>5, <3>1, <3>3 DEF AddEvict, CronInv
      <4>2. QED
        BY <2>1, <2>3, <3>1, <4>1 DEF CronInv, Syncing, Scheduled
    <3>4. CASE AddSchedule(q)
      <4>1. entries = {} /\ Scheduled(strat)
        BY <1>1, <2>5, <3>4 DEF AddSchedule, CronInv
      <4>2. /\ entries' = {[id |-> mine'[q], cron |-> strat.cron]} /\ pc'[q] = "registering"
        BY <1>2, <3>1, <3>4, <4>1 DEF AddSchedule
      <4>3. QED
        BY <2>1, <2>3, <3>1, <4>1, <4>2 DEF CronInv, Syncing, Scheduled
    <3>5. CASE AddRegister(q)
      <4>1. entries = {[id |-> mine[q], cron |-> strat.cron]} /\ Scheduled(strat)
        BY <1>1, <2>5, <3>5 DEF AddRegister, CronInv
      <4>2. active' = mine[q] /\ entries' = entries /\ pc'[q] = "done"
        BY <1>2, <3>5 DEF AddRegister
      <4>3. InSync'
        BY <2>1, <4>1, <4>2 DEF InSync, Scheduled
      <4>4. QED
        BY <2>3, <4>2, <4>3 DEF CronInv, Syncing
    <3>6. QED
      BY <1>7, <3>2, <3>3, <3>4, <3>5
  <2>6. QED
    BY <2>4, <2>5
<1>8. CASE UNCHANGED vars
  BY <1>8 DEF vars, CronInv, InSync, WithoutActive, Scheduled
<1>9. QED
  BY <1>3, <1>4, <1>5, <1>6, <1>7, <1>8 DEF Next

(***************************************************************************)
(* Unless two requests have overlapped since the last start, what fires is *)
(* what the row says, whatever the start cut off or found in the runner.   *)
(***************************************************************************)
THEOREM TurnsInSync == Spec => []SerialInSync
<1>1. Init => IInv /\ Turns /\ CronInv
  BY InitIInv, InitTurns, InitCron
<1>2. IInv /\ Turns /\ CronInv /\ [Next]_vars => (IInv /\ Turns /\ CronInv)'
  BY NextIInv, NextTurns, NextCron
<1>3. ASSUME CronInv, Quiet, ~overlapped, ~strat.deleted
      PROVE  /\ {e.cron : e \in entries} = (IF Scheduled(strat) THEN {strat.cron} ELSE {})
             /\ Cardinality(entries) <= 1
  <2>1. InSync
    BY <1>3 DEF CronInv, Quiet, Busy, Syncing
  <2>2. CASE Scheduled(strat)
    <3>1. entries = {[id |-> active, cron |-> strat.cron]}
      BY <2>1, <2>2 DEF InSync
    <3>2. Cardinality(entries) = 1
      BY <3>1, FS_Singleton
    <3>3. QED
      BY <2>2, <3>1, <3>2
  <2>3. CASE ~Scheduled(strat)
    <3>1. entries = {}
      BY <2>1, <2>3 DEF InSync
    <3>2. Cardinality(entries) = 0
      BY <3>1, FS_EmptySet
    <3>3. QED
      BY <2>3, <3>1, <3>2
  <2>4. QED
    BY <2>2, <2>3
<1>4. CronInv => SerialInSync
  BY <1>3 DEF SerialInSync
<1>5. QED
  BY <1>1, <1>2, <1>4, PTL DEF Spec

----------------------------------------------------------------------------
(* The library: what is stored and sent is well formed *)

NodeOf(id, params) == [id |-> id, params |-> params]
Written(value)     == [quoted |-> FALSE, value |-> value]

Struct(t) ==
  /\ t = [nodes |-> t.nodes, edges |-> t.edges]
  /\ IsList(t.nodes) /\ IsList(t.edges)
  /\ \A i \in DOMAIN t.nodes :
       /\ IsList(t.nodes[i].id)
       /\ t.nodes[i] = NodeOf(t.nodes[i].id, t.nodes[i].params)

(* A graph ParseDAG reads; its nodes have been cloned equally often. *)
Graph(t) ==
  /\ Struct(t) /\ Parses(t)
  /\ \A x, y \in Ids(t) : Len(x) = Len(y)

TextOk(t) == t = NoText \/ Graph(t)

(* What a copy has to do with what it is a copy of. *)
Faithful(r) ==
  /\ r.how = "clone" => /\ SameShape(ParseDAG(r.from), ParseDAG(r.text))
                        /\ Ids(r.from) \cap Ids(r.text) = {}
  /\ r.how \in {"import", "template"} => r.text = r.from

RowOf(code, name, text, deleted, from, how) ==
  [code |-> code, name |-> name, text |-> text, deleted |-> deleted, from |-> from, how |-> how]

RowOk(r) ==
  /\ r = RowOf(r.code, r.name, r.text, r.deleted, r.from, r.how)
  /\ Graph(r.text)
  /\ Faithful(r)

Sent(of, name, text) == [of |-> of, name |-> name, text |-> text]

RequestOk(q) ==
  /\ what[q] = Sent(what[q].of, what[q].name, what[q].text)
  /\ TextOk(what[q].text)

(* A request that applies has the name that is stored, unless the strategy was saved since. *)
NameRead(q) ==
  at[q] = "applying" => /\ what[q].of \in Strategies
                        /\ raced[q] \/ what[q].name = library[what[q].of].name

(* The gallery: what is stored can be made into a strategy, and what was meant is stored. *)
TemplateOk(r) ==
  r = [text |-> r.text, builtIn |-> r.builtIn, deleted |-> r.deleted] /\ Graph(r.text)

LibraryInv ==
  /\ IsList(library) /\ \A s \in Strategies : RowOk(library[s])
  /\ TextOk(file.text)
  /\ DOMAIN at = Client /\ DOMAIN what = Client /\ DOMAIN raced = Client
  /\ \A q \in Client : RequestOk(q) /\ NameRead(q)

GalleryInv ==
  /\ \A c \in DOMAIN templates : TemplateOk(templates[c])
  /\ DOMAIN meant = Template
  /\ \A c \in Template : meant[c] = NoText \/ (c \in Stored /\ templates[c].text = meant[c])

----------------------------------------------------------------------------
(* Copies of a text *)

LEMMA AllOfIt ==
  ASSUME NEW s, IsList(s), NEW K, K = DOMAIN s
  PROVE  Sublist(s, K) = s
<1>1. Len(s) \in Nat /\ K = 1..Len(s) /\ s = [i \in 1..Len(s) |-> s[i]]
  BY ListFacts
<1>2. Cardinality(K) = Len(s)
  <2>1. 1 \in Int /\ Len(s) \in Int
    BY <1>1
  <2>2. Cardinality(1..Len(s)) = IF 1 > Len(s) THEN 0 ELSE Len(s) - 1 + 1
    BY <2>1, FS_Interval
  <2>3. QED
    BY <1>1, <2>2
<1>3. ASSUME NEW i \in K PROVE Cardinality({j \in K : j <= i}) = i
  <2>1. i \in Nat /\ 1 <= i /\ {j \in K : j <= i} = 1..i
    BY <1>1
  <2>2. 1 \in Int /\ i \in Int
    BY <2>1
  <2>3. Cardinality(1..i) = IF 1 > i THEN 0 ELSE i - 1 + 1
    BY <2>2, FS_Interval
  <2>4. Cardinality(1..i) = i
    BY <2>1, <2>3
  <2>5. QED
    BY <2>1, <2>4
<1>4. ASSUME NEW k \in 1..Len(s)
      PROVE  s[CHOOSE i \in K : Cardinality({j \in K : j <= i}) = k] = s[k]
  <2>1. k \in K /\ Cardinality({j \in K : j <= k}) = k
    BY <1>1, <1>3
  <2>2. \A i \in K : Cardinality({j \in K : j <= i}) = k => i = k
    BY <1>3
  <2>3. (CHOOSE i \in K : Cardinality({j \in K : j <= i}) = k) = k
    BY <2>1, <2>2
  <2>4. QED
    BY <2>3
<1>5. Sublist(s, K) = [k \in 1..Len(s) |-> s[k]]
  BY <1>2, <1>4 DEF Sublist
<1>6. QED
  BY <1>1, <1>5

LEMMA Suffixed ==
  ASSUME NEW x, NEW y, IsList(x), IsList(y), NEW k
  PROVE  /\ IsList(Append(x, k)) /\ Len(Append(x, k)) = Len(x) + 1 /\ Len(x) \in Nat
         /\ Append(x, k) = Append(y, k) => x = y
<1> DEFINE U == Range(x) \cup Range(y) \cup {k}
<1>1. x \in Seq(U) /\ y \in Seq(U) /\ k \in U
  BY DEF IsList
<1> HIDE DEF U
<1>2. /\ Append(x, k) \in Seq(U) /\ Append(y, k) \in Seq(U)
      /\ Len(Append(x, k)) = Len(x) + 1 /\ Len(Append(y, k)) = Len(y) + 1
      /\ Len(x) \in Nat /\ Len(y) \in Nat
      /\ \A i \in 1..Len(x) : Append(x, k)[i] = x[i]
      /\ \A i \in 1..Len(y) : Append(y, k)[i] = y[i]
  BY <1>1
<1>3. IsList(Append(x, k))
  BY <1>2, SeqIsList
<1>4. ASSUME Append(x, k) = Append(y, k) PROVE x = y
  <2>1. Len(x) = Len(y)
    BY <1>2, <1>4
  <2>2. \A i \in 1..Len(x) : x[i] = y[i]
    BY <1>2, <1>4, <2>1
  <2>3. QED
    BY <2>1, <2>2, ListFacts
<1>5. QED
  BY <1>2, <1>3, <1>4

LEMMA FiniteIds ==
  ASSUME NEW t, IsList(t.nodes)
  PROVE  IsFiniteSet(Ids(t))
<1> DEFINE f == [i \in DOMAIN t.nodes |-> t.nodes[i].id]
<1>1. IsFiniteSet(DOMAIN t.nodes)
  <2>1. 1 \in Int /\ Len(t.nodes) \in Int /\ DOMAIN t.nodes = 1..Len(t.nodes)
    BY ListFacts
  <2>2. QED
    BY <2>1, FS_Interval
<1>2. f \in Surjection(DOMAIN t.nodes, Ids(t))
  BY DEF Surjection, Ids
<1> HIDE DEF f
<1>3. QED
  BY <1>1, <1>2, FS_Surjection

LEMMA ParsedIs ==
  ASSUME NEW t, Struct(t)
  PROVE  /\ ParseDAG(t).edges = t.edges
         /\ DOMAIN ParseDAG(t).nodes = 1..Len(t.nodes)
         /\ Len(ParseDAG(t).nodes) = Len(t.nodes)
         /\ \A i \in 1..Len(t.nodes) :
              ParseDAG(t).nodes[i] = NodeOf(t.nodes[i].id, Normalized(t.nodes[i].params))
         /\ Ids(ParseDAG(t)) = Ids(t)
<1> DEFINE g == ParseDAG(t)
           n == Len(t.nodes)
<1>1. IsList(t.nodes) /\ n \in Nat /\ DOMAIN t.nodes = 1..n
  BY ListFacts DEF Struct
<1>2. /\ g.edges = t.edges /\ DOMAIN g.nodes = 1..n
      /\ \A i \in 1..n : g.nodes[i] = NodeOf(t.nodes[i].id, Normalized(t.nodes[i].params))
  <2>1. /\ g.edges = t.edges
        /\ g.nodes = [i \in 1..n |-> [t.nodes[i] EXCEPT !.params = Normalized(t.nodes[i].params)]]
    BY <1>1 DEF ParseDAG
  <2>2. ASSUME NEW i \in 1..n
        PROVE  g.nodes[i] = NodeOf(t.nodes[i].id, Normalized(t.nodes[i].params))
    <3>1. t.nodes[i] = NodeOf(t.nodes[i].id, t.nodes[i].params)
      BY <1>1 DEF Struct
    <3>2. [t.nodes[i] EXCEPT !.params = Normalized(t.nodes[i].params)]
            = NodeOf(t.nodes[i].id, Normalized(t.nodes[i].params))
      BY <3>1 DEF NodeOf
    <3>3. QED
      BY <2>1, <3>2
  <2>3. QED
    BY <2>1, <2>2
<1>4. Len(g.nodes) = n
  <2>1. g.nodes = [i \in 1..n |-> g.nodes[i]]
    BY <1>1 DEF ParseDAG
  <2>2. QED
    BY <1>1, <2>1, ListOf
<1> HIDE DEF g
<1>3. Ids(g) = Ids(t)
  <2>1. ASSUME NEW i \in 1..n PROVE g.nodes[i].id = t.nodes[i].id
    <3>1. g.nodes[i] = NodeOf(t.nodes[i].id, Normalized(t.nodes[i].params))
      BY <1>2
    <3>2. QED
      BY <3>1 DEF NodeOf
  <2>2. Ids(g) = {g.nodes[i].id : i \in 1..n} /\ Ids(t) = {t.nodes[i].id : i \in 1..n}
    BY <1>1, <1>2, Zenon DEF Ids
  <2>3. QED
    BY <2>1, <2>2
<1>5. QED
  BY <1>2, <1>3, <1>4 DEF g

(* What Clone stores of text t. *)
Cloned(t, k) == MarshalDAG(RemapDAG(ParseDAG(t), k))

Renaming(t, k) == [x \in Ids(t) |-> Append(x, k)]

LEMMA ClonedIs ==
  ASSUME NEW t, Graph(t), NEW k
  PROVE  /\ DOMAIN Cloned(t, k).nodes = 1..Len(t.nodes)
         /\ DOMAIN Cloned(t, k).edges = 1..Len(t.edges)
         /\ Len(t.nodes) \in Nat /\ Len(t.edges) \in Nat
         /\ Struct(Cloned(t, k))
         /\ Len(Cloned(t, k).nodes) = Len(t.nodes) /\ Len(Cloned(t, k).edges) = Len(t.edges)
         /\ \A i \in 1..Len(t.nodes) :
              Cloned(t, k).nodes[i] =
                NodeOf(Append(t.nodes[i].id, k), Written(Normalized(t.nodes[i].params)))
         /\ \A i \in 1..Len(t.edges) :
              Cloned(t, k).edges[i] = <<Append(t.edges[i][1], k), Append(t.edges[i][2], k)>>
<1> DEFINE g == ParseDAG(t)
           K == {i \in DOMAIN g.edges : g.edges[i][1] \in Ids(g) /\ g.edges[i][2] \in Ids(g)}
           h == RemapDAG(g, k)
           n == Len(t.nodes)
           m == Len(t.edges)
           c == Cloned(t, k)
<1>1. /\ Struct(t) /\ IsList(t.nodes) /\ IsList(t.edges) /\ n \in Nat /\ m \in Nat
      /\ DOMAIN t.nodes = 1..n /\ DOMAIN t.edges = 1..m
  BY ListFacts DEF Graph, Struct
<1>2. /\ g.edges = t.edges /\ DOMAIN g.nodes = 1..n
      /\ \A i \in 1..n : g.nodes[i] = NodeOf(t.nodes[i].id, Normalized(t.nodes[i].params))
  BY <1>1, ParsedIs
<1>3. Ids(g) = Ids(t)
  BY <1>1, ParsedIs
<1> HIDE DEF g
<1>4. K = DOMAIN t.edges
  BY <1>1, <1>2, <1>3 DEF Graph, Parses, Valid, IsEdgeList
<1>5. Sublist(g.edges, K) = t.edges
  BY <1>1, <1>2, <1>4, AllOfIt
<1>6. /\ DOMAIN h.nodes = 1..n /\ DOMAIN h.edges = 1..m
      /\ \A i \in 1..n :
           h.nodes[i] = NodeOf(Append(t.nodes[i].id, k), Normalized(t.nodes[i].params))
      /\ h.edges = [i \in 1..m |-> <<Append(t.edges[i][1], k), Append(t.edges[i][2], k)>>]
  <2>1. /\ h.nodes = [i \in 1..n |-> [g.nodes[i] EXCEPT !.id = Append(g.nodes[i].id, k)]]
        /\ h.edges = [i \in DOMAIN t.edges |->
                        <<Append(t.edges[i][1], k), Append(t.edges[i][2], k)>>]
    BY <1>2, <1>5 DEF RemapDAG
  <2>2. ASSUME NEW i \in 1..n
        PROVE  h.nodes[i] = NodeOf(Append(t.nodes[i].id, k), Normalized(t.nodes[i].params))
    <3>1. g.nodes[i] = NodeOf(t.nodes[i].id, Normalized(t.nodes[i].params))
      BY <1>2
    <3>2. [g.nodes[i] EXCEPT !.id = Append(g.nodes[i].id, k)]
            = NodeOf(Append(t.nodes[i].id, k), Normalized(t.nodes[i].params))
      BY <3>1, SMTT(30) DEF NodeOf
    <3>3. QED
      BY <2>1, <3>2
  <2>3. QED
    BY <1>1, <2>1, <2>2
<1> HIDE DEF h, K
<1>7. c = MarshalDAG(h)
  BY DEF Cloned, h, g
<1>8. /\ c = [nodes |-> c.nodes, edges |-> c.edges] /\ c.edges = h.edges
      /\ c.nodes = [i \in 1..n |-> NodeOf(Append(t.nodes[i].id, k),
                                          Written(Normalized(t.nodes[i].params)))]
  <2>1. /\ c = [nodes |-> c.nodes, edges |-> c.edges] /\ c.edges = h.edges
        /\ c.nodes = [i \in 1..n |-> [h.nodes[i] EXCEPT !.params = Written(h.nodes[i].params)]]
    BY <1>6, <1>7 DEF MarshalDAG, Written
  <2>2. ASSUME NEW i \in 1..n
        PROVE  [h.nodes[i] EXCEPT !.params = Written(h.nodes[i].params)]
                 = NodeOf(Append(t.nodes[i].id, k), Written(Normalized(t.nodes[i].params)))
    <3>1. h.nodes[i] = NodeOf(Append(t.nodes[i].id, k), Normalized(t.nodes[i].params))
      BY <1>6
    <3>2. h.nodes[i].params = Normalized(t.nodes[i].params)
      BY <3>1 DEF NodeOf
    <3> DEFINE id == Append(t.nodes[i].id, k)
               v  == Normalized(t.nodes[i].params)
               w  == Written(v)
    <3>3. h.nodes[i] = NodeOf(id, v) /\ h.nodes[i].params = v
      BY <3>1, <3>2
    <3> HIDE DEF id, v, w
    <3>4. [NodeOf(id, v) EXCEPT !.params = w] = NodeOf(id, w)
      BY DEF NodeOf
    <3>5. [h.nodes[i] EXCEPT !.params = Written(h.nodes[i].params)] = NodeOf(id, Written(v))
      BY <3>3, <3>4 DEF w
    <3>6. QED
      BY <3>5 DEF id, v
  <2>3. QED
    BY <2>1, <2>2
<1> HIDE DEF c
<1>9. IsList(c.nodes) /\ Len(c.nodes) = n
  BY <1>1, <1>8, ListOf
<1>10. IsList(c.edges) /\ Len(c.edges) = m
  BY <1>1, <1>6, <1>8, ListOf
<1>11. \A i \in 1..n : IsList(Append(t.nodes[i].id, k))
  BY <1>1, Suffixed DEF Struct
<1>12. ASSUME NEW i \in 1..n
       PROVE  /\ IsList(c.nodes[i].id)
              /\ c.nodes[i] = NodeOf(c.nodes[i].id, c.nodes[i].params)
  <2>1. c.nodes[i] = NodeOf(Append(t.nodes[i].id, k), Written(Normalized(t.nodes[i].params)))
    BY <1>8
  <2>2. /\ c.nodes[i].id = Append(t.nodes[i].id, k)
        /\ c.nodes[i] = NodeOf(c.nodes[i].id, c.nodes[i].params)
    BY <2>1 DEF NodeOf
  <2>3. QED
    BY <1>11, <2>2
<1>13. Struct(c)
  BY <1>1, <1>8, <1>9, <1>10, <1>12 DEF Struct
<1>14. QED
  BY <1>1, <1>6, <1>8, <1>9, <1>10, <1>13 DEF c

LEMMA ClonedGraph ==
  ASSUME NEW t, Graph(t), NEW k
  PROVE  /\ Graph(Cloned(t, k))
         /\ SameShape(ParseDAG(t), ParseDAG(Cloned(t, k)))
         /\ Ids(t) \cap Ids(Cloned(t, k)) = {}
<1> DEFINE c == Cloned(t, k)
           n == Len(t.nodes)
           m == Len(t.edges)
           f == Renaming(t, k)
<1>1. /\ DOMAIN c.nodes = 1..n /\ DOMAIN c.edges = 1..m /\ n \in Nat /\ m \in Nat
      /\ Struct(c) /\ Len(c.nodes) = n /\ Len(c.edges) = m
      /\ \A i \in 1..n :
           c.nodes[i] = NodeOf(Append(t.nodes[i].id, k), Written(Normalized(t.nodes[i].params)))
      /\ \A i \in 1..m : c.edges[i] = <<Append(t.edges[i][1], k), Append(t.edges[i][2], k)>>
  BY ClonedIs
<1>2. /\ Struct(t) /\ IsList(t.nodes) /\ IsList(t.edges)
      /\ DOMAIN t.nodes = 1..n /\ DOMAIN t.edges = 1..m
      /\ \A x, y \in Ids(t) : Len(x) = Len(y)
      /\ \A i \in 1..n : ~Malformed(t.nodes[i].params)
      /\ Cardinality(Ids(t)) = n /\ Valid(t.edges, Ids(t))
  BY ListFacts DEF Graph, Struct, Parses
<1>3. Ids(t) = {t.nodes[i].id : i \in 1..n} /\ Ids(c) = {c.nodes[i].id : i \in 1..n}
  BY <1>1, <1>2, Zenon DEF Ids
<1> HIDE DEF c, n, m
<1>4. ASSUME NEW i \in 1..n
      PROVE  /\ c.nodes[i].id = Append(t.nodes[i].id, k)
             /\ c.nodes[i].params = Written(Normalized(t.nodes[i].params))
             /\ t.nodes[i].id \in Ids(t) /\ IsList(t.nodes[i].id)
  <2>1. c.nodes[i] = NodeOf(Append(t.nodes[i].id, k), Written(Normalized(t.nodes[i].params)))
    BY <1>1
  <2>2. /\ c.nodes[i].id = Append(t.nodes[i].id, k)
        /\ c.nodes[i].params = Written(Normalized(t.nodes[i].params))
    BY <2>1 DEF NodeOf
  <2>3. t.nodes[i].id \in Ids(t) /\ IsList(t.nodes[i].id)
    BY <1>2, <1>3 DEF Struct
  <2>4. QED
    BY <2>2, <2>3
<1>5. \A x \in Ids(t) : IsList(x)
  BY <1>3, <1>4
<1>6. Ids(c) = {Append(x, k) : x \in Ids(t)}
  <2>1. ASSUME NEW i \in 1..n
        PROVE  c.nodes[i].id \in {Append(x, k) : x \in Ids(t)}
    BY <1>4
  <2>2. ASSUME NEW x \in Ids(t) PROVE Append(x, k) \in Ids(c)
    <3>1. PICK i \in 1..n : x = t.nodes[i].id
      BY <1>3
    <3>2. c.nodes[i].id = Append(x, k)
      BY <1>4, <3>1
    <3>3. QED
      BY <1>3, <3>2
  <2>3. QED
    BY <1>3, <2>1, <2>2
<1>7. /\ f \in [Ids(t) -> Ids(c)]
      /\ \A x, y \in Ids(t) : f[x] = f[y] => x = y
      /\ \A x \in Ids(t) : f[x] = Append(x, k)
      /\ \A z \in Ids(c) : \E x \in Ids(t) : f[x] = z
  BY <1>5, <1>6, Suffixed DEF Renaming
<1> HIDE DEF f
<1>8. Ids(t) \cap Ids(c) = {}
  <2>1. ASSUME NEW x \in Ids(t), NEW y \in Ids(t) PROVE Append(y, k) # x
    <3>1. Len(Append(y, k)) = Len(y) + 1 /\ Len(y) \in Nat
      BY <1>5, Suffixed
    <3>2. Len(x) = Len(y)
      BY <1>2
    <3>3. QED
      BY <3>1, <3>2
  <2>2. QED
    BY <1>6, <2>1
<1>9. Cardinality(Ids(c)) = n
  <2>1. f \in Surjection(Ids(t), Ids(c)) /\ f \in Injection(Ids(t), Ids(c))
    BY <1>7 DEF Surjection, Injection, IsInjective
  <2>2. IsFiniteSet(Ids(t))
    BY <1>2, FiniteIds
  <2>3. Cardinality(Ids(c)) = Cardinality(Ids(t))
    BY <2>1, <2>2, FS_Surjection
  <2>4. QED
    BY <1>2, <2>3
<1>10. Valid(c.edges, Ids(c))
  <2>1. /\ Ids(t) # {} /\ IsFiniteSet(1..m)
        /\ \A i \in 1..m : /\ t.edges[i][1] \in Ids(t) /\ t.edges[i][2] \in Ids(t)
                           /\ t.edges[i][1] # t.edges[i][2]
    BY <1>2 DEF Valid, IsEdgeList
  <2>2. ASSUME NEW i \in 1..m
        PROVE  /\ c.edges[i] = <<f[t.edges[i][1]], f[t.edges[i][2]]>>
               /\ c.edges[i] \in Ids(c) \X Ids(c)
               /\ c.edges[i][1] # c.edges[i][2]
    <3> DEFINE a == t.edges[i][1]
               b == t.edges[i][2]
    <3>1. a \in Ids(t) /\ b \in Ids(t) /\ a # b
      BY <2>1
    <3>2. c.edges[i] = <<Append(a, k), Append(b, k)>>
      BY <1>1
    <3> HIDE DEF a, b
    <3>3. /\ c.edges[i] = <<f[a], f[b]>>
          /\ f[a] \in Ids(c) /\ f[b] \in Ids(c) /\ f[a] # f[b]
      BY <1>7, <3>1, <3>2
    <3>4. QED
      BY <3>3 DEF a, b
  <2>3. IsList(c.edges)
    BY <1>1 DEF Struct
  <2>4. c.edges = [i \in 1..m |-> c.edges[i]]
    BY <1>1, <2>3, ListFacts
  <2>5. Ids(c) # {}
    BY <1>6, <2>1
  <2>6. QED
    BY <1>1, <2>1, <2>2, <2>4, <2>5 DEF Valid, IsEdgeList
<1>11. \A i \in 1..n : Normalized(t.nodes[i].params) \notin {"missing", "garbage"}
  BY <1>2 DEF Normalized, Malformed
<1>12. ASSUME NEW i \in 1..n PROVE ~Malformed(c.nodes[i].params)
  <2> DEFINE v == Normalized(t.nodes[i].params)
  <2>1. c.nodes[i].params = Written(v) /\ v # "garbage"
    BY <1>4, <1>11
  <2> HIDE DEF v
  <2>2. QED
    BY <2>1 DEF Malformed, Written
<1>13. \A x, y \in Ids(c) : Len(x) = Len(y)
  BY <1>2, <1>5, <1>6, Suffixed
<1>14. Graph(c)
  BY <1>1, <1>9, <1>10, <1>12, <1>13 DEF Graph, Parses

<1>15. SameShape(ParseDAG(t), ParseDAG(c))
  <2> DEFINE g == ParseDAG(t)
             h == ParseDAG(c)
  <2>1. /\ Len(g.nodes) = n /\ Len(h.nodes) = n /\ DOMAIN g.nodes = 1..n
        /\ g.edges = t.edges /\ h.edges = c.edges /\ Ids(g) = Ids(t) /\ Ids(h) = Ids(c)
    BY <1>1, <1>2, ParsedIs DEF n
  <2>2. ASSUME NEW i \in 1..n
        PROVE  /\ g.nodes[i] = NodeOf(t.nodes[i].id, Normalized(t.nodes[i].params))
               /\ h.nodes[i] = NodeOf(c.nodes[i].id, Normalized(c.nodes[i].params))
    BY <1>1, <1>2, ParsedIs DEF n
  <2> HIDE DEF g, h
  <2>3. ASSUME NEW i \in 1..n
        PROVE  h.nodes[i] = [g.nodes[i] EXCEPT !.id = f[@]]
    <3> DEFINE v == Normalized(t.nodes[i].params)
    <3>1. /\ c.nodes[i].id = f[t.nodes[i].id]
          /\ c.nodes[i].params = Written(v)
      BY <1>4, <1>7
    <3>2. v # "missing"
      BY <1>11
    <3> HIDE DEF v
    <3>3. Normalized(Written(v)) = v
      BY <3>2 DEF Normalized, Written
    <3>4. g.nodes[i] = NodeOf(t.nodes[i].id, v) /\ h.nodes[i] = NodeOf(f[t.nodes[i].id], v)
      BY <2>2, <3>1, <3>3 DEF v
    <3>5. [NodeOf(t.nodes[i].id, v) EXCEPT !.id = f[@]] = NodeOf(f[t.nodes[i].id], v)
      BY DEF NodeOf
    <3>6. QED
      BY <3>4, <3>5
  <2>4. ASSUME NEW i \in 1..m
        PROVE  h.edges[i] = <<f[g.edges[i][1]], f[g.edges[i][2]]>>
    <3>1. t.edges[i][1] \in Ids(t) /\ t.edges[i][2] \in Ids(t)
      BY <1>2 DEF Valid, IsEdgeList
    <3>2. c.edges[i] = <<Append(t.edges[i][1], k), Append(t.edges[i][2], k)>>
      BY <1>1
    <3>3. c.edges[i] = <<f[t.edges[i][1]], f[t.edges[i][2]]>>
      BY <1>7, <3>1, <3>2
    <3>4. QED
      BY <2>1, <3>3
  <2>5. Len(g.edges) = Len(h.edges) /\ DOMAIN g.edges = 1..m
    BY <1>1, <1>2, <2>1 DEF m
  <2>6. f \in [Ids(g) -> Ids(h)] /\ IsInjective(f)
    BY <1>7, <2>1 DEF IsInjective
  <2>7. QED
    BY <2>1, <2>3, <2>4, <2>5, <2>6 DEF SameShape, g, h
<1>16. QED
  BY <1>8, <1>14, <1>15 DEF c

----------------------------------------------------------------------------
(* The library's invariant *)

LEMMA OneName ==
  ASSUME NEW x \in [{1} -> STRING]
  PROVE  IsList(x) /\ Len(x) = 1
<1>1. {1} = 1..1
  OBVIOUS
<1>2. x = [i \in 1..1 |-> x[i]]
  BY <1>1
<1>3. QED
  BY <1>2, ListOf

(* What a user sends and ParseDAG accepts is a graph. *)
LEMMA UserGraph ==
  ASSUME NEW t \in UserText, Parses(t)
  PROVE  Graph(t)
<1> DEFINE Node == [id : [{1} -> STRING], params : [quoted : BOOLEAN, value : STRING]]
           Edge == [{1} -> STRING] \X [{1} -> STRING]
<1>1. t \in [nodes : Seq(Node), edges : Seq(Edge)]
  BY DEF UserText
<1>2. \A n \in Node : n = NodeOf(n.id, n.params) /\ n.id \in [{1} -> STRING]
  BY DEF NodeOf
<1> HIDE DEF Node, Edge
<1>3. /\ t = [nodes |-> t.nodes, edges |-> t.edges]
      /\ t.nodes \in Seq(Node) /\ t.edges \in Seq(Edge)
  BY <1>1
<1>4. IsList(t.nodes) /\ IsList(t.edges)
  BY <1>3, SeqIsList
<1>5. \A i \in DOMAIN t.nodes : t.nodes[i] \in Node
  BY <1>3
<1>6. \A i \in DOMAIN t.nodes : /\ IsList(t.nodes[i].id) /\ Len(t.nodes[i].id) = 1
                                /\ t.nodes[i] = NodeOf(t.nodes[i].id, t.nodes[i].params)
  BY <1>2, <1>5, OneName
<1>7. \A x \in Ids(t) : Len(x) = 1
  BY <1>6 DEF Ids
<1>8. QED
  BY <1>3, <1>4, <1>6, <1>7 DEF Graph, Struct

LEMMA NoTextFails == ~Parses(NoText)
<1>1. Ids(NoText) = {}
  BY DEF Ids, NoText
<1>2. QED
  BY <1>1 DEF Parses, Valid

LEMMA AppendedTo ==
  ASSUME NEW x, IsList(x), NEW k
  PROVE  /\ IsList(Append(x, k)) /\ Len(x) \in Nat
         /\ DOMAIN x = 1..Len(x) /\ DOMAIN Append(x, k) = 1..(Len(x) + 1)
         /\ \A i \in 1..Len(x) : Append(x, k)[i] = x[i]
         /\ Append(x, k)[Len(x) + 1] = k
<1> DEFINE U == Range(x) \cup {k}
<1>1. x \in Seq(U) /\ k \in U
  BY DEF IsList
<1> HIDE DEF U
<1>2. Append(x, k) \in Seq(U)
  BY <1>1
<1>3. IsList(Append(x, k))
  BY <1>2, SeqIsList
<1>4. QED
  BY <1>1, <1>2, <1>3

LEMMA LibraryInitInv == LibraryInit => LibraryInv
<1> SUFFICES ASSUME LibraryInit PROVE LibraryInv
  OBVIOUS
<1>1. IsList(library) /\ Strategies = {}
  BY EmptyList DEF LibraryInit, Strategies
<1>2. TextOk(file.text)
  BY DEF LibraryInit, TextOk
<1>3. DOMAIN at = Client /\ DOMAIN what = Client /\ DOMAIN raced = Client
  BY DEF LibraryInit
<1>4. ASSUME NEW q \in Client PROVE RequestOk(q) /\ NameRead(q)
  <2>1. what[q] = Nothing /\ at[q] = "idle"
    BY DEF LibraryInit
  <2>2. Nothing = Sent(0, <<>>, NoText)
    BY DEF Nothing, Sent
  <2>3. what[q].of = 0 /\ what[q].name = <<>> /\ what[q].text = NoText
    BY <2>1, <2>2 DEF Sent
  <2>4. QED
    BY <2>1, <2>2, <2>3 DEF RequestOk, NameRead, TextOk
<1>5. QED
  BY <1>1, <1>2, <1>3, <1>4 DEF LibraryInv

(* A new row: Create, Clone, Import and Instantiate. *)
LEMMA InsertInv ==
  ASSUME LibraryInv, NEW code, NEW name, NEW text, NEW from, NEW how,
         Insert(code, name, text, from, how), UNCHANGED <<file, at, what, raced>>,
         Graph(text), Faithful(RowOf(Given(code), name, text, FALSE, from, how))
  PROVE  LibraryInv'
<1> DEFINE r == RowOf(Given(code), name, text, FALSE, from, how)
           n == Len(library)
<1>1. library' = Append(library, r) /\ IsList(library)
  BY DEF Insert, RowOf, LibraryInv
<1>2. /\ r.code = Given(code) /\ r.name = name /\ r.text = text /\ r.deleted = FALSE
      /\ r.from = from /\ r.how = how
  BY DEF RowOf
<1>3. RowOk(r)
  BY <1>2 DEF RowOk
<1> HIDE DEF r
<1>4. /\ IsList(library') /\ n \in Nat
      /\ DOMAIN library = 1..n /\ DOMAIN library' = 1..(n + 1)
      /\ \A i \in 1..n : library'[i] = library[i]
      /\ library'[n + 1] = r
  BY <1>1, AppendedTo
<1>5. ASSUME NEW s \in Strategies' PROVE RowOk(library'[s])
  <2>1. s \in 1..n \/ s = n + 1
    BY <1>4 DEF Strategies
  <2>2. CASE s \in 1..n
    BY <1>4, <2>2 DEF Strategies, LibraryInv
  <2>3. CASE s = n + 1
    BY <1>3, <1>4, <2>3
  <2>4. QED
    BY <2>1, <2>2, <2>3
<1>6. \A q \in Client : NameRead(q)'
  BY <1>4 DEF LibraryInv, NameRead, Strategies
<1>7. \A q \in Client : RequestOk(q)'
  BY DEF LibraryInv, RequestOk
<1>8. QED
  BY <1>4, <1>5, <1>6, <1>7 DEF LibraryInv

LEMMA CreateInv ==
  ASSUME LibraryInv, NEW code, NEW name, NEW text \in Text, Create(code, name, text)
  PROVE  LibraryInv'
<1>1. Graph(text)
  BY TextAssumption, UserGraph DEF Create
<1>2. Faithful(RowOf(Given(code), <<name>>, text, FALSE, NoText, "drawn"))
  BY DEF Faithful, RowOf
<1>3. QED
  BY <1>1, <1>2, InsertInv DEF Create

LEMMA CloneInv ==
  ASSUME LibraryInv, NEW code, NEW s \in Live, Clone(s, code)
  PROVE  LibraryInv'
<1> DEFINE t == library[s].text
           k == Len(library) + 1
           name == Append(library[s].name, "(clone)")
           c == Cloned(t, k)
<1>1. Graph(t)
  BY DEF LibraryInv, Live, RowOk
<1>2. /\ Graph(c) /\ SameShape(ParseDAG(t), ParseDAG(c)) /\ Ids(t) \cap Ids(c) = {}
  BY <1>1, ClonedGraph
<1>3. Insert(code, name, c, t, "clone") /\ UNCHANGED <<file, at, what, raced>>
  BY DEF Clone, Cloned
<1> HIDE DEF t, k, name, c
<1>4. Faithful(RowOf(Given(code), name, c, FALSE, t, "clone"))
  BY <1>2 DEF Faithful, RowOf
<1>5. QED
  BY <1>2, <1>3, <1>4, InsertInv

LEMMA ImportInv ==
  ASSUME LibraryInv, NEW code, Import(code)
  PROVE  LibraryInv'
<1>1. Graph(file.text)
  BY NoTextFails DEF Import, LibraryInv, TextOk
<1>2. Faithful(RowOf(Given(code), file.name, file.text, FALSE, file.text, "import"))
  BY DEF Faithful, RowOf
<1>3. QED
  BY <1>1, <1>2, InsertInv DEF Import

LEMMA ExportInv ==
  ASSUME LibraryInv, NEW s \in Live, Export(s)
  PROVE  LibraryInv'
<1>1. TextOk(file'.text)
  BY DEF Export, Live, LibraryInv, RowOk, TextOk
<1>2. \A q \in Client : RequestOk(q)' /\ NameRead(q)'
  BY DEF Export, LibraryInv, RequestOk, NameRead, Strategies
<1>3. IsList(library') /\ \A r \in Strategies' : RowOk(library'[r])
  BY DEF Export, LibraryInv, Strategies
<1>4. QED
  BY <1>1, <1>2, <1>3 DEF Export, LibraryInv

(* One row changes. *)
LEMMA ChangedList ==
  ASSUME NEW x, IsList(x), NEW s \in DOMAIN x, NEW r
  PROVE  IsList([x EXCEPT ![s] = r])
<1> DEFINE y == [x EXCEPT ![s] = r]
<1>1. Len(x) \in Nat /\ DOMAIN x = 1..Len(x)
  BY ListFacts
<1>2. y = [i \in 1..Len(x) |-> y[i]]
  BY <1>1
<1>3. QED
  BY <1>1, <1>2, ListOf

LEMMA RowChanged ==
  ASSUME LibraryInv, NEW s \in Live, NEW d, RowOk(d), library' = [library EXCEPT ![s] = d]
  PROVE  /\ IsList(library') /\ Strategies' = Strategies
         /\ \A p \in Strategies : library'[p] = IF p = s THEN d ELSE library[p]
         /\ \A p \in Strategies' : RowOk(library'[p])
<1>1. s \in Strategies /\ IsList(library) /\ \A p \in Strategies : RowOk(library[p])
  BY DEF LibraryInv, Live
<1>2. IsList(library')
  BY <1>1, ChangedList DEF Strategies
<1>3. /\ Strategies' = Strategies
      /\ \A p \in Strategies : library'[p] = IF p = s THEN d ELSE library[p]
  BY <1>1 DEF Strategies
<1>4. QED
  BY <1>1, <1>2, <1>3

LEMMA RowFields ==
  ASSUME NEW code, NEW name, NEW text, NEW deleted, NEW from, NEW how,
         NEW r, r = RowOf(code, name, text, deleted, from, how)
  PROVE  /\ r.code = code /\ r.name = name /\ r.text = text /\ r.deleted = deleted
         /\ r.from = from /\ r.how = how
         /\ r = RowOf(r.code, r.name, r.text, r.deleted, r.from, r.how)
BY DEF RowOf

LEMMA RowWithout ==
  ASSUME NEW code, NEW name, NEW text, NEW deleted, NEW from, NEW how, NEW gone
  PROVE  [RowOf(code, name, text, deleted, from, how) EXCEPT !.deleted = gone]
           = RowOf(code, name, text, gone, from, how)
BY DEF RowOf

LEMMA DeletedInv ==
  ASSUME LibraryInv, NEW s \in Live, DeleteStrategy(s)
  PROVE  LibraryInv'
<1> DEFINE r == library[s]
<1>1. RowOk(r)
  BY DEF LibraryInv, Live
<1>2. PICK gone : gone = TRUE
  OBVIOUS
<1>3. PICK d : d = RowOf(r.code, r.name, r.text, gone, r.from, r.how)
  OBVIOUS
<1>4. /\ d.code = r.code /\ d.name = r.name /\ d.text = r.text
      /\ d.from = r.from /\ d.how = r.how
      /\ d = RowOf(d.code, d.name, d.text, d.deleted, d.from, d.how)
  BY <1>3, RowFields
<1>5. library' = [library EXCEPT ![s] = d]
  <2>1. library' = [library EXCEPT ![s] = [r EXCEPT !.deleted = gone]]
    BY <1>2 DEF DeleteStrategy
  <2> DEFINE e == RowOf(r.code, r.name, r.text, r.deleted, r.from, r.how)
  <2>2. [e EXCEPT !.deleted = gone] = d
    BY <1>3, RowWithout
  <2>3. r = e
    BY <1>1 DEF RowOk
  <2> HIDE DEF e, r
  <2>4. QED
    BY <2>1, <2>2, <2>3
<1>6. RowOk(d)
  BY <1>1, <1>4 DEF RowOk, Faithful
<1>7. /\ IsList(library') /\ Strategies' = Strategies
      /\ \A p \in Strategies : library'[p] = IF p = s THEN d ELSE library[p]
      /\ \A p \in Strategies' : RowOk(library'[p])
  BY <1>5, <1>6, RowChanged
<1>8. \A q \in Client : RequestOk(q)' /\ NameRead(q)'
  BY <1>4, <1>7 DEF DeleteStrategy, LibraryInv, RequestOk, NameRead
<1>9. QED
  BY <1>7, <1>8 DEF DeleteStrategy, LibraryInv

(* A request that begins, or goes on, without touching the library. *)
LEMMA MovedInv ==
  ASSUME LibraryInv, UNCHANGED <<library, file>>, NEW q \in Client,
         NEW of, NEW name, NEW text,
         what' = [what EXCEPT ![q] = Sent(of, name, text)], TextOk(text),
         \E there : /\ at' = [at EXCEPT ![q] = there]
                    /\ there = "applying" => of \in Strategies /\ name = library[of].name,
         raced' = raced \/ raced' = [raced EXCEPT ![q] = FALSE]
  PROVE  LibraryInv'
<1>1. PICK there : /\ at' = [at EXCEPT ![q] = there]
                   /\ there = "applying" => of \in Strategies /\ name = library[of].name
  OBVIOUS
<1>2. /\ DOMAIN at' = Client /\ DOMAIN what' = Client /\ DOMAIN raced' = Client
      /\ \A p \in Client \ {q} : at'[p] = at[p] /\ what'[p] = what[p] /\ raced'[p] = raced[p]
      /\ at'[q] = there /\ what'[q] = Sent(of, name, text)
  BY <1>1 DEF LibraryInv
<1>3. what'[q].of = of /\ what'[q].name = name /\ what'[q].text = text
  BY <1>2 DEF Sent
<1>4. RequestOk(q)' /\ NameRead(q)'
  BY <1>1, <1>2, <1>3 DEF RequestOk, NameRead, Strategies
<1>5. \A p \in Client \ {q} : RequestOk(p)' /\ NameRead(p)'
  BY <1>2 DEF LibraryInv, RequestOk, NameRead, Strategies
<1>6. QED
  BY <1>2, <1>4, <1>5 DEF LibraryInv, Strategies

LEMMA EditInv ==
  ASSUME LibraryInv, NEW q \in Client, NEW s \in Live, NEW text \in Text \cup {NoText},
         \/ \E name \in Name : UpdateStrategy(q, s, name, text)
         \/ text \in Text /\ Preview(q, s, text)
  PROVE  LibraryInv'
<1>1. PICK name, there :
        /\ what' = [what EXCEPT ![q] = Sent(s, name, text)]
        /\ at' = [at EXCEPT ![q] = there] /\ there # "applying"
        /\ text = NoText \/ Parses(text)
        /\ raced' = raced \/ raced' = [raced EXCEPT ![q] = FALSE]
        /\ UNCHANGED <<library, file>>
  <2>1. CASE \E name \in Name : UpdateStrategy(q, s, name, text)
    <3>1. PICK name \in Name : UpdateStrategy(q, s, name, text)
      BY <2>1
    <3>2. /\ what' = [what EXCEPT ![q] = Sent(s, <<name>>, text)]
          /\ at' = [at EXCEPT ![q] = "saving"] /\ "saving" # "applying"
          /\ text = NoText \/ Parses(text)
          /\ raced' = [raced EXCEPT ![q] = FALSE]
          /\ UNCHANGED <<library, file>>
      BY <3>1 DEF UpdateStrategy, Sent
    <3>3. QED
      BY <3>2
  <2>2. CASE Preview(q, s, text)
    <3>1. /\ what' = [what EXCEPT ![q] = Sent(s, library[s].name, text)]
          /\ at' = [at EXCEPT ![q] = "shown"] /\ "shown" # "applying"
          /\ Parses(text) /\ raced' = raced
          /\ UNCHANGED <<library, file>>
      BY <2>2 DEF Preview, Sent
    <3>2. QED
      BY <3>1
  <2>3. QED
    BY <2>1, <2>2
<1>2. TextOk(text)
  BY <1>1, TextAssumption, UserGraph DEF TextOk
<1>3. QED
  BY <1>1, <1>2, MovedInv

LEMMA ApplyInv ==
  ASSUME LibraryInv, NEW q \in Client, Apply(q)
  PROVE  LibraryInv'
<1> DEFINE of   == what[q].of
           text == what[q].text
           name == library[of].name
<1>1. what[q] = Sent(of, what[q].name, text) /\ TextOk(text) /\ of \in Strategies
  BY DEF Apply, LibraryInv, RequestOk, Live
<1>2. what' = [what EXCEPT ![q] = Sent(of, name, text)]
  <2>1. [Sent(of, what[q].name, text) EXCEPT !.name = name] = Sent(of, name, text)
    BY DEF Sent
  <2>2. what' = [what EXCEPT ![q] = [what[q] EXCEPT !.name = name]]
    BY DEF Apply
  <2>3. QED
    BY <1>1, <2>1, <2>2
<1>3. /\ at' = [at EXCEPT ![q] = "applying"] /\ raced' = [raced EXCEPT ![q] = FALSE]
      /\ UNCHANGED <<library, file>> /\ name = library[of].name
  BY DEF Apply
<1> HIDE DEF of, text, name
<1>4. QED
  BY <1>1, <1>2, <1>3, MovedInv

LEMMA FinishInv ==
  ASSUME LibraryInv, NEW q \in Client, Finish(q), UNCHANGED <<library, file, raced>>
  PROVE  LibraryInv'
<1>1. what' = [what EXCEPT ![q] = Sent(0, <<>>, NoText)] /\ TextOk(NoText)
  BY DEF Finish, Nothing, Sent, TextOk
<1>2. at' = [at EXCEPT ![q] = "idle"] /\ "idle" # "applying"
  BY DEF Finish
<1>3. QED
  BY <1>1, <1>2, MovedInv

(* What Save makes of the row r. *)
SavedRow(r, w) ==
  IF w.text \in {NoText, r.text}
  THEN RowOf(r.code, w.name, r.text, r.deleted, r.from, r.how)
  ELSE RowOf(r.code, w.name, w.text, r.deleted, NoText, "drawn")

LEMMA SavedRowOk ==
  ASSUME NEW r, RowOk(r), NEW w, TextOk(w.text)
  PROVE  RowOk(SavedRow(r, w))
<1> DEFINE d == SavedRow(r, w)
<1>1. CASE w.text \in {NoText, r.text}
  <2>1. d = RowOf(r.code, w.name, r.text, r.deleted, r.from, r.how)
    BY <1>1 DEF SavedRow
  <2> HIDE DEF d
  <2>2. /\ d.text = r.text /\ d.from = r.from /\ d.how = r.how
        /\ d = RowOf(d.code, d.name, d.text, d.deleted, d.from, d.how)
    BY <2>1, RowFields
  <2>3. RowOk(d)
    BY <2>2 DEF RowOk, Faithful
  <2>4. QED
    BY <2>3 DEF d
<1>2. CASE w.text \notin {NoText, r.text}
  <2>1. d = RowOf(r.code, w.name, w.text, r.deleted, NoText, "drawn")
    BY <1>2 DEF SavedRow
  <2> HIDE DEF d
  <2>2. /\ d.text = w.text /\ d.how = "drawn"
        /\ d = RowOf(d.code, d.name, d.text, d.deleted, d.from, d.how)
    BY <2>1, RowFields
  <2>3. Graph(w.text)
    BY <1>2 DEF TextOk
  <2>4. RowOk(d)
    BY <2>2, <2>3 DEF RowOk, Faithful
  <2>5. QED
    BY <2>4 DEF d
<1>3. QED
  BY <1>1, <1>2

LEMMA SavedIs ==
  ASSUME LibraryInv, NEW q \in Client, Save(q)
  PROVE  /\ what[q].of \in Live
         /\ library' = [library EXCEPT ![what[q].of] = SavedRow(library[what[q].of], what[q])]
<1> DEFINE s == what[q].of
           r == library[s]
           w == what[q]
           same == w.text \in {NoText, r.text}
           text2 == IF same THEN r.text ELSE w.text
           from2 == IF same THEN r.from ELSE NoText
           how2  == IF same THEN r.how ELSE "drawn"
<1>1. s \in Live /\ s \in DOMAIN library /\ RowOk(r)
  BY DEF Save, LibraryInv, Live, Strategies
<1>2. r = RowOf(r.code, r.name, r.text, r.deleted, r.from, r.how)
  BY <1>1 DEF RowOk
<1>3. SavedRow(r, w) = RowOf(r.code, w.name, text2, r.deleted, from2, how2)
  BY DEF SavedRow
<1>4. library' = [library EXCEPT ![s].name = w.name, ![s].text = text2,
                                 ![s].from = from2, ![s].how = how2]
  BY <1>1 DEF Save
<1>5. [r EXCEPT !.name = w.name, !.text = text2, !.from = from2, !.how = how2]
        = RowOf(r.code, w.name, text2, r.deleted, from2, how2)
  <2> DEFINE name2 == w.name
             code == r.code
             name == r.name
             text == r.text
             deleted == r.deleted
             from == r.from
             how == r.how
  <2> HIDE DEF text2, from2, how2, name2, code, name, text, deleted, from, how
  <2>1. r = RowOf(code, name, text, deleted, from, how)
    BY <1>2 DEF code, name, text, deleted, from, how
  <2> HIDE DEF r
  <2>2. [r EXCEPT !.name = name2] = RowOf(code, name2, text, deleted, from, how)
    BY <2>1 DEF RowOf
  <2>3. [RowOf(code, name2, text, deleted, from, how) EXCEPT !.text = text2]
          = RowOf(code, name2, text2, deleted, from, how)
    BY DEF RowOf
  <2>4. [RowOf(code, name2, text2, deleted, from, how) EXCEPT !.from = from2]
          = RowOf(code, name2, text2, deleted, from2, how)
    BY DEF RowOf
  <2>5. [RowOf(code, name2, text2, deleted, from2, how) EXCEPT !.how = how2]
          = RowOf(code, name2, text2, deleted, from2, how2)
    BY DEF RowOf
  <2>6. [r EXCEPT !.name = name2, !.text = text2, !.from = from2, !.how = how2]
          = [[[[r EXCEPT !.name = name2] EXCEPT !.text = text2] EXCEPT !.from = from2]
               EXCEPT !.how = how2]
    OBVIOUS
  <2>7. [r EXCEPT !.name = name2, !.text = text2, !.from = from2, !.how = how2]
          = RowOf(code, name2, text2, deleted, from2, how2)
    BY <2>2, <2>3, <2>4, <2>5, <2>6
  <2>8. QED
    BY <2>7 DEF name2, code, deleted
<1> HIDE DEF text2, from2, how2, w
<1>6. library' = [library EXCEPT ![s] =
                    [r EXCEPT !.name = w.name, !.text = text2, !.from = from2, !.how = how2]]
  BY <1>1, <1>4
<1>7. QED
  BY <1>1, <1>3, <1>5, <1>6 DEF w

LEMMA SaveInv ==
  ASSUME LibraryInv, NEW q \in Client, Save(q)
  PROVE  LibraryInv'
<1> DEFINE s == what[q].of
           d == SavedRow(library[s], what[q])
<1>1. s \in Live /\ library' = [library EXCEPT ![s] = d]
  BY SavedIs
<1>2. RowOk(d)
  BY <1>1, SavedRowOk DEF LibraryInv, RequestOk, Live
<1> HIDE DEF d
<1>3. /\ IsList(library') /\ Strategies' = Strategies
      /\ \A p \in Strategies : library'[p] = IF p = s THEN d ELSE library[p]
      /\ \A p \in Strategies' : RowOk(library'[p])
  BY <1>1, <1>2, RowChanged
<1>4. /\ what' = [what EXCEPT ![q] = Sent(0, <<>>, NoText)]
      /\ at' = [at EXCEPT ![q] = "idle"]
      /\ raced' = [p \in Client |-> p # q /\ (raced[p] \/ what[p].of = s)]
      /\ file' = file
  BY DEF Save, Finish, Nothing, Sent
<1>5. RequestOk(q)' /\ NameRead(q)'
  <2>1. what'[q] = Sent(0, <<>>, NoText) /\ at'[q] = "idle"
    BY <1>4 DEF LibraryInv
  <2>2. what'[q].of = 0 /\ what'[q].name = <<>> /\ what'[q].text = NoText
    BY <2>1 DEF Sent
  <2>3. QED
    BY <2>1, <2>2 DEF RequestOk, NameRead, TextOk
<1>6. ASSUME NEW p \in Client \ {q} PROVE RequestOk(p)' /\ NameRead(p)'
  <2>1. /\ what'[p] = what[p] /\ at'[p] = at[p]
        /\ raced'[p] <=> raced[p] \/ what[p].of = s
    BY <1>4 DEF LibraryInv
  <2>2. RequestOk(p) /\ NameRead(p)
    BY DEF LibraryInv
  <2>3. RequestOk(p)'
    BY <2>1, <2>2 DEF RequestOk
  <2>4. NameRead(p)'
    BY <1>3, <2>1, <2>2 DEF NameRead
  <2>5. QED
    BY <2>3, <2>4
<1>7. DOMAIN at' = Client /\ DOMAIN what' = Client /\ DOMAIN raced' = Client
  BY <1>4 DEF LibraryInv
<1>8. QED
  BY <1>3, <1>4, <1>5, <1>6, <1>7 DEF LibraryInv

LEMMA LibraryNextInv ==
  ASSUME LibraryInv, LibraryNext PROVE LibraryInv'
<1>1. CASE \E code \in Code \cup {NoCode}, name \in Name, text \in Text : Create(code, name, text)
  BY <1>1, CreateInv
<1>2. CASE \E code \in Code \cup {NoCode}, s \in Live : Clone(s, code)
  BY <1>2, CloneInv
<1>3. CASE \E code \in Code \cup {NoCode} : Import(code)
  BY <1>3, ImportInv
<1>4. CASE \E s \in Live : Export(s)
  BY <1>4, ExportInv
<1>5. CASE \E s \in Live : DeleteStrategy(s)
  BY <1>5, DeletedInv
<1>6. CASE \E q \in Client, s \in Live, text \in Text \cup {NoText}, name \in Name :
             UpdateStrategy(q, s, name, text)
  BY <1>6, EditInv
<1>7. CASE \E q \in Client, s \in Live, text \in Text : Preview(q, s, text)
  <2>1. PICK q \in Client, s \in Live, text \in Text : Preview(q, s, text)
    BY <1>7
  <2>2. text \in Text \cup {NoText}
    OBVIOUS
  <2>3. QED
    BY <2>1, <2>2, EditInv
<1>8. CASE \E q \in Client : Apply(q)
  BY <1>8, ApplyInv
<1>9. CASE \E q \in Client : Dismiss(q) \/ Fail(q)
  BY <1>9, FinishInv DEF Dismiss, Fail
<1>10. CASE \E q \in Client : Save(q)
  BY <1>10, SaveInv
<1>11. QED
  BY <1>1, <1>2, <1>3, <1>4, <1>5, <1>6, <1>7, <1>8, <1>9, <1>10, Zenon DEF LibraryNext

----------------------------------------------------------------------------
(* The gallery's invariant *)

TemplateRow(text, builtIn, deleted) == [text |-> text, builtIn |-> builtIn, deleted |-> deleted]

LEMMA BundledGraph == Graph(BundledText) /\ BundledText # NoText
BY BundledAssumption, UserGraph, NoTextFails

LEMMA GalleryInitInv == GalleryInit => GalleryInv
<1>1. DOMAIN <<>> = {}
  OBVIOUS
<1>2. QED
  BY <1>1 DEF GalleryInit, GalleryInv

LEMMA StartInv ==
  ASSUME GalleryInv, Start PROVE GalleryInv'
<1>1. PICK failed \in SUBSET Bundled :
        /\ templates' = Synced(failed)
        /\ meant' = [c \in Template |-> IF c \in Bundled \ failed THEN NoText ELSE meant[c]]
  BY DEF Start
<1> DEFINE done == Bundled \ failed
<1>2. /\ DOMAIN templates' = DOMAIN templates \cup done
      /\ \A c \in DOMAIN templates' \ done : templates'[c] = templates[c]
      /\ \A c \in done :
           templates'[c] = [text |-> BundledText, builtIn |-> TRUE,
                            deleted |-> c \in DOMAIN templates /\ templates[c].deleted]
  BY <1>1 DEF Synced
<1> HIDE DEF done
<1>3. ASSUME NEW c \in DOMAIN templates' PROVE TemplateOk(templates'[c])
  <2>1. CASE c \in done
    <3>1. PICK gone : gone = (c \in DOMAIN templates /\ templates[c].deleted)
      OBVIOUS
    <3>2. PICK builtIn : builtIn = TRUE
      OBVIOUS
    <3>3. templates'[c] = TemplateRow(BundledText, builtIn, gone)
      BY <1>2, <2>1, <3>1, <3>2 DEF TemplateRow
    <3>4. QED
      BY <3>3, BundledGraph DEF TemplateRow, TemplateOk
  <2>2. CASE c \notin done
    BY <1>2, <2>2 DEF GalleryInv
  <2>3. QED
    BY <2>1, <2>2
<1>4. ASSUME NEW c \in Template
      PROVE  meant'[c] = NoText \/ (c \in Stored' /\ templates'[c].text = meant'[c])
  <2>1. CASE c \in done
    BY <1>1, <2>1 DEF done
  <2>2. CASE c \notin done
    <3>1. meant'[c] = meant[c]
      BY <1>1, <2>2 DEF done
    <3>2. meant[c] = NoText \/ (c \in Stored /\ templates[c].text = meant[c])
      BY DEF GalleryInv
    <3>3. c \in Stored => c \in Stored' /\ templates'[c] = templates[c]
      BY <1>2, <2>2 DEF Stored
    <3>4. QED
      BY <3>1, <3>2, <3>3
  <2>3. QED
    BY <2>1, <2>2
<1>5. DOMAIN meant' = Template
  BY <1>1
<1>6. QED
  BY <1>3, <1>4, <1>5 DEF GalleryInv

LEMMA SaveTemplateInv ==
  ASSUME GalleryInv, NEW t \in Template, NEW text \in Text, SaveTemplate(t, text)
  PROVE  GalleryInv'
<1>1. Graph(text)
  BY TextAssumption, UserGraph DEF SaveTemplate
<1>2. PICK no : no = FALSE
  OBVIOUS
<1>3. /\ DOMAIN templates' = DOMAIN templates \cup {t}
      /\ \A c \in DOMAIN templates \ {t} : templates'[c] = templates[c]
      /\ templates'[t] = TemplateRow(text, no, no)
      /\ meant' = [meant EXCEPT ![t] = text]
  BY <1>2 DEF SaveTemplate, TemplateRow
<1>4. templates'[t].text = text /\ templates'[t].deleted = no /\ TemplateOk(templates'[t])
  BY <1>1, <1>3 DEF TemplateRow, TemplateOk
<1>5. \A c \in DOMAIN templates' : TemplateOk(templates'[c])
  BY <1>3, <1>4 DEF GalleryInv
<1>6. DOMAIN meant' = Template /\ meant'[t] = text
  BY <1>3 DEF GalleryInv
<1>7. t \in Stored'
  BY <1>2, <1>3, <1>4 DEF Stored
<1>8. ASSUME NEW c \in Template \ {t}
      PROVE  meant'[c] = NoText \/ (c \in Stored' /\ templates'[c].text = meant'[c])
  <2>1. meant'[c] = meant[c]
    BY <1>3 DEF GalleryInv
  <2>2. meant[c] = NoText \/ (c \in Stored /\ templates[c].text = meant[c])
    BY DEF GalleryInv
  <2>3. c \in Stored => c \in Stored' /\ templates'[c] = templates[c]
    BY <1>3 DEF Stored
  <2>4. QED
    BY <2>1, <2>2, <2>3
<1>9. QED
  BY <1>4, <1>5, <1>6, <1>7, <1>8 DEF GalleryInv

LEMMA WithdrawInv ==
  ASSUME GalleryInv, NEW t \in Template, Withdraw(t)
  PROVE  GalleryInv'
<1>1. t \in DOMAIN templates /\ TemplateOk(templates[t])
  BY DEF Withdraw, Stored, GalleryInv
<1>2. PICK yes : yes = TRUE
  OBVIOUS
<1> DEFINE r == templates[t]
<1>3. [r EXCEPT !.deleted = yes] = TemplateRow(r.text, r.builtIn, yes)
  <2> DEFINE e == TemplateRow(r.text, r.builtIn, r.deleted)
  <2>1. [e EXCEPT !.deleted = yes] = TemplateRow(r.text, r.builtIn, yes)
    BY DEF TemplateRow
  <2>2. r = e
    BY <1>1 DEF TemplateOk, TemplateRow
  <2> HIDE DEF e, r
  <2>3. QED
    BY <2>1, <2>2
<1>4. /\ templates' = [templates EXCEPT ![t] = [r EXCEPT !.deleted = yes]]
      /\ meant' = [meant EXCEPT ![t] = NoText]
  BY <1>2 DEF Withdraw
<1>5. /\ DOMAIN templates' = DOMAIN templates
      /\ \A c \in DOMAIN templates \ {t} : templates'[c] = templates[c]
      /\ templates'[t] = TemplateRow(r.text, r.builtIn, yes)
  BY <1>1, <1>3, <1>4
<1>6. TemplateOk(templates'[t])
  BY <1>1, <1>5 DEF TemplateRow, TemplateOk
<1>7. \A c \in DOMAIN templates' : TemplateOk(templates'[c])
  BY <1>5, <1>6 DEF GalleryInv
<1>8. DOMAIN meant' = Template /\ meant'[t] = NoText
  BY <1>4 DEF GalleryInv
<1>9. ASSUME NEW c \in Template \ {t}
      PROVE  meant'[c] = NoText \/ (c \in Stored' /\ templates'[c].text = meant'[c])
  <2>1. meant'[c] = meant[c]
    BY <1>4 DEF GalleryInv
  <2>2. meant[c] = NoText \/ (c \in Stored /\ templates[c].text = meant[c])
    BY DEF GalleryInv
  <2>3. c \in Stored => c \in Stored' /\ templates'[c] = templates[c]
    BY <1>5 DEF Stored
  <2>4. QED
    BY <2>1, <2>2, <2>3
<1>10. QED
  BY <1>7, <1>8, <1>9 DEF GalleryInv

LEMMA GetIsGraph ==
  ASSUME GalleryInv, NEW c \in Bundled \cup Stored
  PROVE  Graph(Get(c))
<1>1. c \in Stored => Graph(templates[c].text)
  BY DEF GalleryInv, Stored, TemplateOk
<1>2. QED
  BY <1>1, BundledGraph DEF Get

LEMMA InstantiateInv ==
  ASSUME LibraryInv, GalleryInv, NEW c \in Template, Instantiate(c)
  PROVE  LibraryInv' /\ GalleryInv'
<1> DEFINE code == TemplateCode(c)
           name == <<"(from template)">>
           text == Get(c)
<1>1. /\ text # NoText /\ Insert(code, name, text, text, "template")
      /\ UNCHANGED <<file, at, what, raced>> /\ UNCHANGED <<templates, meant>>
  BY DEF Instantiate, galleryVars
<1>2. Graph(text)
  <2>1. c \in Bundled \cup Stored
    BY <1>1 DEF Get
  <2>2. QED
    BY <2>1, GetIsGraph
<1> HIDE DEF code, name, text
<1>3. Faithful(RowOf(Given(code), name, text, FALSE, text, "template"))
  BY DEF Faithful, RowOf
<1>4. LibraryInv'
  BY <1>1, <1>2, <1>3, InsertInv
<1>5. GalleryInv'
  BY <1>1 DEF GalleryInv, Stored
<1>6. QED
  BY <1>4, <1>5

----------------------------------------------------------------------------
(* The library and the gallery together *)

GallerySystem == GalleryNext \/ (LibraryNext /\ UNCHANGED galleryVars)

bothVars == <<libraryVars, galleryVars>>

LEMMA StutterInv ==
  ASSUME LibraryInv, UNCHANGED libraryVars PROVE LibraryInv'
BY DEF LibraryInv, libraryVars, Strategies, RequestOk, NameRead

LEMMA GalleryStutterInv ==
  ASSUME GalleryInv, UNCHANGED <<templates, meant>> PROVE GalleryInv'
BY DEF GalleryInv, Stored

LEMMA SystemInv ==
  ASSUME LibraryInv, GalleryInv, [GallerySystem]_bothVars PROVE LibraryInv' /\ GalleryInv'
<1>1. CASE Start
  BY <1>1, StutterInv, StartInv DEF Start
<1>2. CASE Second
  BY <1>2, StutterInv, GalleryStutterInv DEF Second
<1>3. CASE \E c \in Template, text \in Text : SaveTemplate(c, text)
  BY <1>3, StutterInv, SaveTemplateInv DEF SaveTemplate
<1>4. CASE \E c \in Template : Withdraw(c)
  BY <1>4, StutterInv, WithdrawInv DEF Withdraw
<1>5. CASE \E c \in Template : Instantiate(c)
  BY <1>5, InstantiateInv
<1>6. CASE LibraryNext /\ UNCHANGED galleryVars
  BY <1>6, LibraryNextInv, GalleryStutterInv DEF galleryVars
<1>7. CASE UNCHANGED bothVars
  BY <1>7, StutterInv, GalleryStutterInv DEF bothVars, galleryVars
<1>8. QED
  BY <1>1, <1>2, <1>3, <1>4, <1>5, <1>6, <1>7, Zenon DEF GallerySystem, GalleryNext

(***************************************************************************)
(* The inductive invariant: every stored row and every text under way is a *)
(* graph ParseDAG reads, whose nodes were all cloned equally often; a      *)
(* request that applies holds the stored name unless the strategy was      *)
(* saved since; and what the administrator meant is what the table has.    *)
(***************************************************************************)
THEOREM LibraryInvariance == GallerySpec => [](LibraryInv /\ GalleryInv)
<1>1. LibraryInit /\ GalleryInit => LibraryInv /\ GalleryInv
  BY LibraryInitInv, GalleryInitInv
<1>2. LibraryInv /\ GalleryInv /\ [GallerySystem]_bothVars => (LibraryInv /\ GalleryInv)'
  BY SystemInv
<1>3. QED
  BY <1>1, <1>2, PTL DEF GallerySpec, GallerySystem, bothVars

(***************************************************************************)
(* Whatever was created, cloned, imported, made from a template or edited, *)
(* every strategy on record has a graph that ParseDAG reads; a clone has   *)
(* the structure of what it was cloned from and shares no node id with it, *)
(* and imports and instances of templates are exact (Clone, Import,        *)
(* Instantiate, Update).                                                   *)
(***************************************************************************)
THEOREM CopiesKeepStructure == GallerySpec => []CopiesFaithful
<1>1. LibraryInv => CopiesFaithful
  BY DEF LibraryInv, RowOk, Graph, Faithful, CopiesFaithful
<1>2. QED
  BY <1>1, LibraryInvariance, PTL

(***************************************************************************)
(* Until the next start the administrator's text is what the gallery       *)
(* serves; what it lists it lists once and can be made into a strategy     *)
(* (Get, List, SyncToDB).                                                  *)
(***************************************************************************)
THEOREM GalleryWorks == GallerySpec => []GalleryServes
<1>1. ASSUME LibraryInv, GalleryInv PROVE GalleryServes
  <2>1. \A c \in DOMAIN meant : meant[c] # NoText => Get(c) = meant[c]
    BY <1>1 DEF GalleryInv, Get
  <2>2. \A e \in List : e.code \in Bundled \cup Stored
    BY DEF List
  <2>3. \A e \in List : Parses(Get(e.code))
    BY <1>1, <2>2, GetIsGraph DEF Graph
  <2>4. ASSUME NEW e \in List, NEW f \in List, e.code = f.code PROVE e = f
    <3>1. CASE e.code \in Bundled
      <4>1. \A x \in List : x.code \in Bundled => x = [code |-> x.code, builtIn |-> TRUE]
        BY DEF List
      <4>2. QED
        BY <2>4, <3>1, <4>1
    <3>2. CASE e.code \notin Bundled
      <4>1. \A x \in List : x.code \notin Bundled => x = [code |-> x.code, builtIn |-> FALSE]
        BY DEF List
      <4>2. QED
        BY <2>4, <3>2, <4>1
    <3>3. QED
      BY <3>1, <3>2
  <2>5. QED
    BY <2>1, <2>3, <2>4 DEF GalleryServes
<1>2. LibraryInv /\ GalleryInv => GalleryServes
  BY <1>1
<1>3. QED
  BY <1>2, LibraryInvariance, PTL

(* What one step does to a request that applies. *)
KeepsRest ==
  \A q \in DOMAIN at :
    at[q] = "applying" /\ at'[q] = "idle" /\ ~raced[q] /\ what[q].of \in Strategies =>
      library'[what[q].of].name = library[what[q].of].name

LEMMA SaveKeepsRest ==
  ASSUME LibraryInv, NEW p \in Client, Save(p) PROVE KeepsRest
<1> SUFFICES ASSUME NEW q \in Client, at[q] = "applying", at'[q] = "idle", ~raced[q],
                    what[q].of \in Strategies
             PROVE  library'[what[q].of].name = library[what[q].of].name
  BY DEF KeepsRest, LibraryInv
<1>1. at' = [at EXCEPT ![p] = "idle"]
  BY DEF Save, Finish
<1>2. p = q
  BY <1>1 DEF LibraryInv
<1> DEFINE s == what[q].of
           r == library[s]
<1>3. library' = [library EXCEPT ![s] = SavedRow(r, what[q])]
  BY <1>2, SavedIs
<1>4. library'[s] = SavedRow(r, what[q])
  BY <1>3 DEF Strategies
<1>5. SavedRow(r, what[q]).name = what[q].name
  BY DEF SavedRow, RowOf
<1>6. what[q].name = r.name
  BY DEF LibraryInv, NameRead
<1>7. QED
  BY <1>4, <1>5, <1>6

LEMMA StepKeepsRest ==
  ASSUME LibraryInv, [GallerySystem]_bothVars PROVE [KeepsRest]_libraryVars
<1>1. CASE \E q \in Client : Save(q)
  BY <1>1, SaveKeepsRest
<1>2. CASE UNCHANGED library
  BY <1>2 DEF KeepsRest
<1>3. CASE UNCHANGED at
  BY <1>3 DEF KeepsRest
<1>4. CASE LibraryNext
  <2>1. \/ UNCHANGED library \/ UNCHANGED at \/ \E q \in Client : Save(q)
    BY <1>4 DEF LibraryNext, Create, Clone, Import, Export, DeleteStrategy, UpdateStrategy,
                Preview, Apply, Dismiss, Fail
  <2>2. QED
    BY <1>1, <1>2, <1>3, <2>1
<1>5. CASE GalleryNext
  <2>1. UNCHANGED at
    BY <1>5 DEF GalleryNext, Start, Second, SaveTemplate, Withdraw, Instantiate, libraryVars
  <2>2. QED
    BY <1>3, <2>1
<1>6. CASE UNCHANGED bothVars
  BY <1>6 DEF bothVars
<1>7. QED
  BY <1>4, <1>5, <1>6 DEF GallerySystem

(***************************************************************************)
(* What the assistant applies keeps the rest of the strategy, also what    *)
(* was edited since the preview, unless another request saved the strategy *)
(* while the apply was under way (Apply, then Update).                     *)
(***************************************************************************)
THEOREM ApplyKeeps == GallerySpec => ApplyKeepsRest
<1>1. LibraryInv /\ GalleryInv /\ [GallerySystem]_bothVars => [KeepsRest]_libraryVars
  BY StepKeepsRest
<1>2. QED
  BY <1>1, LibraryInvariance, PTL
     DEF GallerySpec, GallerySystem, bothVars, ApplyKeepsRest, KeepsRest
=============================================================================
