------------------------------- MODULE MCDesk -------------------------------
(***************************************************************************)
(* What strategies recommend and what the operator then works with, in one *)
(* run.  A behaviour works one of                                          *)
(*   run       one run of one of MCSelection's strategies;                 *)
(*   pages     two settings pages over the provider chain;                 *)
(*   older     one settings page next to the older single-provider route;  *)
(*   report    one settings page while a review is written;                *)
(*   book      overlapping edits and lists of the positions;               *)
(*   figures   a client that pages through the report on the returns,      *)
(* and the rest of the system keeps still meanwhile.                       *)
(***************************************************************************)
EXTENDS MCSelection, Positions, Assistant, PerformanceReport, TLC

VARIABLE focus

NoChain == <<>>
Never   == {}

(* What the older route is sent. *)
SomeOlder ==
  {[entry |-> [kind |-> "remote", key |-> k, enabled |-> on], keep |-> TRUE] :
     k \in Key \cup {NoKey}, on \in BOOLEAN}

(* The constants of Assistant are those of a report; pages alone have a sound database. *)
Pages  == INSTANCE Assistant WITH Faulty <- FALSE
Routes == INSTANCE Assistant WITH Older <- SomeOlder, MaxId <- 3

reportVars == <<wrote, reports>>
allVars    == <<focus, vars, assistVars, bookVars, figureVars>>

Alike == Permutations(Page) \cup Permutations(Key) \cup Permutations(Rec)

(* The strategy of a behaviour that runs none. *)
NoStrategy == Strategy([n \in {} |-> Dedup], <<>>)
Worked == Templates \cup {Scenario(NoStrategy, <<>>)}

MCInit ==
  /\ focus \in {"run", "pages", "older", "report", "book", "figures"}
  /\ Init /\ AssistInit /\ BookInit /\ ReportInit
  /\ focus \in {"run", "book", "figures"} => legacy = {}
  /\ focus = "run" <=> strategy # NoStrategy
  /\ focus # "figures" => size = 1 /\ labels = [r \in Rec |-> {}]
  /\ focus # "run" => ~live /\ enabled = {} /\ minute = CHOOSE m \in Clock : TRUE

(* At most one page is in use. *)
OnePage ==
  Cardinality({p \in Page : view'[p] \notin {"booting", "idle"} \/ shown'[p] # <<>>}) <= 1

MCNext ==
  /\ UNCHANGED focus
  /\ IF focus = "figures" THEN ReportNext ELSE UNCHANGED figureVars
  /\ \/ focus = "run" /\ Next /\ UNCHANGED <<assistVars, bookVars>>
     \/ focus = "pages" /\ UNCHANGED <<vars, reportVars, bookVars>> /\ Pages!AssistNext
     \/ focus = "older" /\ UNCHANGED <<vars, reportVars, bookVars>> /\ Routes!AssistNext /\ OnePage
     \/ focus = "report" /\ UNCHANGED <<vars, bookVars>> /\ AssistNext /\ OnePage
     \/ focus = "book" /\ UNCHANGED <<vars, assistVars>> /\ BookNext
     \/ focus = "figures" /\ UNCHANGED <<vars, assistVars, bookVars>>

MCSpec == MCInit /\ [][MCNext]_allVars

----------------------------------------------------------------------------
(* The properties of the instances; the others are inherited. *)

(* Every part of the state is of its type. *)
TypesOK == TypeOK /\ Routes!AssistTypeOK /\ BookTypeOK
=============================================================================
