-------------------------- MODULE StrategyLibrary --------------------------
(***************************************************************************)
(* The strategies next to each other: creating, cloning, exporting,        *)
(* importing and deleting them (orchestrator/strategy_service.go), the     *)
(* text their graphs are stored as (orchestrator/dag.go), and the          *)
(* assistant, which proposes a graph and applies it (ai/service.go).       *)
(* How overlapping updates of one strategy meet its versions and its cron  *)
(* entry is StrategyService's subject; here a version is the stored text.  *)
(*                                                                         *)
(* A text has the nodes' ids, types and parameters and the edges.  An id   *)
(* is a sequence: what the user called the node, then a suffix for every   *)
(* time it was cloned.  A name stands for description and tags as well.    *)
(***************************************************************************)
EXTENDS Lists, Dag

CONSTANTS
  Client,      \* requests that edit: updates and the assistant's
  Name, Code,  \* names; codes a user may choose, numbers below Generated
  Text,        \* texts a user or the assistant may send
  MaxStrategy  \* bound: strategies

(* What the user called a node is one name. *)
UserText ==
  [nodes : Seq([id : [{1} -> STRING], params : [quoted : BOOLEAN, value : STRING]]),
   edges : Seq([{1} -> STRING] \X [{1} -> STRING])]

ASSUME TextAssumption == \A text \in Text : text \in UserText

NoCode    == 0
NoText    == [nodes |-> <<>>, edges |-> <<>>]
Generated == 10   \* codes from here on are generated

(* What a request that is not under way is about. *)
Nothing == [of |-> 0, name |-> <<>>, text |-> NoText]

VARIABLES
  library,   \* library[s]: code, name, text, deleted, and what text it was copied from, and how
  file,      \* the last export: code, name and text
  at,        \* at[q]: where request q is
  what,      \* what[q]: the strategy q edits, the name it sends, the text it sends
  raced      \* raced[q]: the strategy was saved by another request while q was under way

libraryVars == <<library, file, at, what, raced>>

Strategies == DOMAIN library
Live == {s \in Strategies : ~library[s].deleted}

LibraryInit ==
  /\ library = <<>>
  /\ file = [code |-> NoCode, name |-> <<>>, text |-> NoText]
  /\ at = [q \in Client |-> "idle"]
  /\ what = [q \in Client |-> Nothing]
  /\ raced = [q \in Client |-> FALSE]

----------------------------------------------------------------------------
(* dag.go *)

Ids(g) == {g.nodes[i].id : i \in DOMAIN g.nodes}

(* normalizeParams: a string is decoded, and what is missing is an empty object. *)
Normalized(p) == IF p.value = "missing" THEN "{}" ELSE p.value
Malformed(p)  == p.value = "garbage"

(* ParseDAG accepts the text. *)
Parses(text) ==
  /\ \A i \in DOMAIN text.nodes : ~Malformed(text.nodes[i].params)
  /\ Cardinality(Ids(text)) = Len(text.nodes)
  /\ Valid(text.edges, Ids(text))

ParseDAG(text) ==
  [nodes |-> [i \in DOMAIN text.nodes |->
                [text.nodes[i] EXCEPT !.params = Normalized(@)]],
   edges |-> text.edges]

MarshalDAG(g) ==
  [nodes |-> [i \in DOMAIN g.nodes |->
                [g.nodes[i] EXCEPT !.params = [quoted |-> FALSE, value |-> @]]],
   edges |-> g.edges]

(* Mutant: only the nodes get new ids. *)
RemapNodesOnly(g, suffix) ==
  [nodes |-> [i \in DOMAIN g.nodes |-> [g.nodes[i] EXCEPT !.id = Append(@, suffix)]],
   edges |-> g.edges]

(* remapDAG: every id gets the suffix, edges between unknown nodes are left out. *)
RemapDAG(g, suffix) ==
  LET known == Sublist(g.edges, {i \in DOMAIN g.edges : /\ g.edges[i][1] \in Ids(g)
                                                        /\ g.edges[i][2] \in Ids(g)})
  IN [nodes |-> [i \in DOMAIN g.nodes |-> [g.nodes[i] EXCEPT !.id = Append(@, suffix)]],
      edges |-> [i \in DOMAIN known |->
                   <<Append(known[i][1], suffix), Append(known[i][2], suffix)>>]]

----------------------------------------------------------------------------
(* Create, Clone, Export, Import, Delete: each a transaction, or one statement *)

(* The unique index on the code covers deleted rows; generated codes are fresh. *)
Free(code) == code = NoCode \/ \A s \in Strategies : library[s].code # code
Given(code) == IF code = NoCode THEN Generated + Len(library) ELSE code

Insert(code, name, text, from, how) ==
  /\ Len(library) < MaxStrategy
  /\ Free(code)
  /\ library' = Append(library, [code |-> Given(code), name |-> name, text |-> text,
                                 deleted |-> FALSE, from |-> from, how |-> how])

Create(code, name, text) ==
  /\ Parses(text)
  /\ Insert(code, <<name>>, text, NoText, "drawn")
  /\ UNCHANGED <<file, at, what, raced>>

Clone(s, code) ==
  /\ s \in Live
  /\ Parses(library[s].text)
  /\ LET copy == MarshalDAG(RemapDAG(ParseDAG(library[s].text), Len(library) + 1))
     IN Insert(code, Append(library[s].name, "(clone)"), copy, library[s].text, "clone")
  /\ UNCHANGED <<file, at, what, raced>>

Export(s) ==
  /\ s \in Live
  /\ file' = [code |-> library[s].code, name |-> library[s].name, text |-> library[s].text]
  /\ UNCHANGED <<library, at, what, raced>>

(* The user may have taken the code out of the file. *)
Import(code) ==
  /\ code \in {NoCode, file.code}
  /\ file.name # <<>>
  /\ Parses(file.text)
  /\ Insert(code, file.name, file.text, file.text, "import")
  /\ UNCHANGED <<file, at, what, raced>>

DeleteStrategy(s) ==
  /\ s \in Live
  /\ library' = [library EXCEPT ![s].deleted = TRUE]
  /\ UNCHANGED <<file, at, what, raced>>

----------------------------------------------------------------------------
(* Update, and the assistant *)

(* The request is over. *)
Finish(q) ==
  /\ at' = [at EXCEPT ![q] = "idle"]
  /\ what' = [what EXCEPT ![q] = Nothing]

(* An update carries a name and, unless the graph is to stay, a text. *)
UpdateStrategy(q, s, name, text) ==
  /\ at[q] = "idle"
  /\ s \in Live
  /\ text = NoText \/ Parses(text)
  /\ what' = [what EXCEPT ![q] = [of |-> s, name |-> <<name>>, text |-> text]]
  /\ raced' = [raced EXCEPT ![q] = FALSE]
  /\ at' = [at EXCEPT ![q] = "saving"]
  /\ UNCHANGED <<library, file>>

(***************************************************************************)
(* Preview: what Get returned goes to the provider, whose answer takes a   *)
(* while; what it proposes and ParseDAG refuses never reaches the user.    *)
(***************************************************************************)
Preview(q, s, text) ==
  /\ at[q] = "idle"
  /\ s \in Live
  /\ Parses(text)
  /\ what' = [what EXCEPT ![q] = [of |-> s, name |-> library[s].name, text |-> text]]
  /\ at' = [at EXCEPT ![q] = "shown"]
  /\ UNCHANGED <<library, file, raced>>

(* Mutant: the name of the preview is as good. *)
ApplyPreviewed(q) ==
  /\ at[q] = "shown"
  /\ what[q].of \in Live
  /\ raced' = [raced EXCEPT ![q] = FALSE]
  /\ at' = [at EXCEPT ![q] = "applying"]
  /\ UNCHANGED <<library, file, what>>

(* Apply, first half: the proposal is parsed again, and Get fetches what is to be kept. *)
Apply(q) ==
  /\ at[q] = "shown"
  /\ Parses(what[q].text)
  /\ what[q].of \in Live
  /\ what' = [what EXCEPT ![q].name = library[what[q].of].name]
  /\ raced' = [raced EXCEPT ![q] = FALSE]
  /\ at' = [at EXCEPT ![q] = "applying"]
  /\ UNCHANGED <<library, file>>

(* The user drops the proposal, or the strategy is gone. *)
Dismiss(q) ==
  /\ at[q] = "shown"
  /\ Finish(q)
  /\ UNCHANGED <<library, file, raced>>

(* Update's transaction saves what the request carries. *)
Save(q) ==
  /\ at[q] \in {"saving", "applying"}
  /\ LET s == what[q].of
         same == what[q].text \in {NoText, library[s].text}
     IN /\ s \in Live
        /\ library' = [library EXCEPT
             ![s].name = what[q].name,
             ![s].text = IF same THEN @ ELSE what[q].text,
             ![s].from = IF same THEN @ ELSE NoText,
             ![s].how  = IF same THEN @ ELSE "drawn"]
        /\ raced' = [p \in Client |-> p # q /\ (raced[p] \/ what[p].of = s)]
  /\ Finish(q)
  /\ UNCHANGED file

(* It fails: the strategy is gone, or the version number is taken. *)
Fail(q) ==
  /\ at[q] \in {"saving", "applying"}
  /\ Finish(q)
  /\ UNCHANGED <<library, file, raced>>

LibraryNext ==
  \/ \E code \in Code \cup {NoCode} :
       \/ \E name \in Name, text \in Text : Create(code, name, text)
       \/ \E s \in Live : Clone(s, code)
       \/ Import(code)
  \/ \E s \in Live : Export(s) \/ DeleteStrategy(s)
  \/ \E q \in Client :
       \/ \E s \in Live, text \in Text \cup {NoText}, name \in Name : UpdateStrategy(q, s, name, text)
       \/ \E s \in Live, text \in Text : Preview(q, s, text)
       \/ Apply(q) \/ Dismiss(q) \/ Save(q) \/ Fail(q)

----------------------------------------------------------------------------
(* Properties *)

(* The graph of a text without the names of its nodes. *)
SameShape(g, h) ==
  \E f \in [Ids(g) -> Ids(h)] :
    /\ IsInjective(f)
    /\ Len(g.nodes) = Len(h.nodes) /\ Len(g.edges) = Len(h.edges)
    /\ \A i \in DOMAIN g.nodes :
         h.nodes[i] = [g.nodes[i] EXCEPT !.id = f[@]]
    /\ \A i \in DOMAIN g.edges : h.edges[i] = <<f[g.edges[i][1]], f[g.edges[i][2]]>>

(***************************************************************************)
(* "All node IDs in the DAG are remapped and the edges are re-pointed to   *)
(* the new IDs to keep the graph structure intact" (Clone), also for       *)
(* clones of clones and of imports; an import is what was exported, a      *)
(* strategy from a template what the gallery served; and whatever was      *)
(* created, copied, proposed or edited, every strategy on record has a     *)
(* graph that ParseDAG, and so a run, can read.                            *)
(***************************************************************************)
CopiesFaithful ==
  \A s \in Strategies :
    LET r == library[s]
    IN /\ Parses(r.text)
       /\ r.how = "clone" => /\ SameShape(ParseDAG(r.from), ParseDAG(r.text))
                             /\ Ids(r.from) \cap Ids(r.text) = {}
       /\ r.how \in {"import", "template"} => r.text = r.from

(***************************************************************************)
(* "An AI edit that only touches the DAG must preserve the rest" (Apply),  *)
(* also of what was edited between preview and apply; an edit that         *)
(* overlaps the apply itself may be lost.                                  *)
(***************************************************************************)
ApplyKeepsRest ==
  [][\A q \in DOMAIN at :
       at[q] = "applying" /\ at'[q] = "idle" /\ ~raced[q] /\ what[q].of \in Strategies =>
         library'[what[q].of].name = library[what[q].of].name]_libraryVars
=============================================================================
