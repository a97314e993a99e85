----------------------------- MODULE Selection -----------------------------
(***************************************************************************)
(* What the nodes of a strategy do in one run (executor/nodes): a          *)
(* data_source fetches rows or candles, an indicator reduces candles to    *)
(* one row per stock, filter, rank and dedupe select rows, session_tag     *)
(* names the trading session, persist records the picks as recommendations *)
(* and notify sends them through NotifyManager.                            *)
(*                                                                         *)
(* DagExecutor says in which order nodes run; here a node runs when its    *)
(* predecessors have succeeded, and a failure skips its descendants.  The  *)
(* nodes that only compute take one step, for nothing they read can change *)
(* under them; persist and notify take one step per call they make.        *)
(*                                                                         *)
(* A payload is the set of its []any slices (none or one) and the set of   *)
(* its typed candle series: findFirstSlice sees only the former.  A row    *)
(* has a stock code, the numbers it knows and the words of its text fields. *)
(***************************************************************************)
EXTENDS NotifyManager, Dag, Lists

CONSTANTS
  Node,        \* node names
  Scenarios,   \* graphs with the parameters of their nodes, and what the
               \* sources know: rows and candles of every stock
  Clock        \* minutes of the day at which nodes may look at the clock

ASSUME ClockAssumption == Clock \subseteq 0..1439

(* Send is called by notify nodes, here by nothing else. *)
ASSUME SenderAssumption == Sender \subseteq Node

(***************************************************************************)
(* A strategy is a graph that DAG.Validate accepts, with the parameters of *)
(* its nodes as they are after defaults (rank.go: a top below 1 is 10; a   *)
(* period below 1 is the indicator's own).  Numbers are whole.             *)
(***************************************************************************)
ASSUME ScenariosAssumption ==
  \A s \in Scenarios :
    /\ s = [strategy |-> s.strategy, market |-> s.market]
    /\ s.strategy.nodes \subseteq Node
    /\ IsEdgeList(s.strategy.edges, s.strategy.nodes)
    /\ \A n \in s.strategy.nodes :
         LET p == s.strategy.params[n]
         IN /\ p.kind = "rank" => p.top \in Nat
            /\ p.kind = "indicator" => p.period \in Nat \ {0}
            /\ p.kind = "notify" => n \in Sender
            /\ p.kind = "data_source" =>
                 /\ IsList(p.codes) /\ IsList(p.universe)
                 /\ \A c \in (Range(p.codes) \cup Range(p.universe)) \ {""} :
                      /\ IsList(s.market.rows[c]) /\ IsList(s.market.candles[c])
                      /\ \A row \in Range(s.market.rows[c]) :
                           \A f \in DOMAIN row.num : row.num[f] \in Int
                      /\ \A bar \in Range(s.market.candles[c]) :
                           bar.day \in Int /\ bar.close \in Int

VARIABLES
  strategy,   \* the run's strategy: nodes, edges, params
  market,     \* the market while the run lasts
  live,       \* rc.DB, rc.DataSource and rc.Notify are set; FALSE: a trial run
  minute,     \* rc.Now()
  state,      \* state[n]
  payload,    \* payload[n], once n has succeeded
  sessionTag, \* rc.Vars["session_tag"], "" when not set
  picks,      \* picks[n]: what persist or notify took from its input
  tags,       \* tags[n]: the tags persist attaches
  created,    \* created[n]: rows written in persist's open transaction
  recorded,   \* recorded[n]: the recommendations n has committed, by id
  message     \* message[n]: the kind of message notify built

runVars == <<strategy, market, live, minute, state, payload, sessionTag, picks,
             tags, created, recorded, message>>
vars == <<runVars, mailVars>>

kind(n)  == strategy.params[n].kind
param(n) == strategy.params[n]
preds(n) == Predecessors(strategy.edges, n)

NoPayload == [slices |-> {}, series |-> {}]
Rows(s)   == [slices |-> {s}, series |-> {}]

NodesOf(kinds) == {n \in strategy.nodes : kind(n) \in kinds}

Init ==
  /\ MailInit
  /\ \E s \in Scenarios : strategy = s.strategy /\ market = s.market
  /\ live \in BOOLEAN
  /\ minute \in Clock
  /\ state = [n \in Node |-> "idle"]
  /\ payload = [n \in Node |-> NoPayload]
  /\ sessionTag = ""
  /\ picks = [n \in Node |-> <<>>]
  /\ tags = [n \in Node |-> {}]
  /\ created = [n \in Node |-> <<>>]
  /\ recorded = [n \in Node |-> <<>>]
  /\ message = [n \in Node |-> ""]

Ready(n) ==
  /\ n \in strategy.nodes
  /\ state[n] = "idle"
  /\ \A p \in preds(n) : state[p] = "success"

(* Mutant: the run's payloads are not narrowed to the predecessors'. *)
SlicesOfAnyNode(n) == UNION {payload[p].slices : p \in Node \ {n}}

(* findFirstSlice ranges over a Go map: any predecessor's slice may come first. *)
Slices(n) == UNION {payload[p].slices : p \in preds(n)}
Series(n) == UNION {payload[p].series : p \in preds(n)}

Succeed(n, out) ==
  /\ state' = [state EXCEPT ![n] = "success"]
  /\ payload' = [payload EXCEPT ![n] = out]

(* The node fails, and its descendants are skipped. *)
Fail(n) ==
  /\ state' = [m \in Node |->
                 IF m = n THEN "failed"
                 ELSE IF m \in Descendants(strategy.edges, strategy.nodes, n)
                      THEN "skipped" ELSE state[m]]
  /\ UNCHANGED payload

OnlyComputed ==
  UNCHANGED <<strategy, market, live, minute, sessionTag, picks, tags, created,
              recorded, message, mailVars>>

----------------------------------------------------------------------------
(* data_source *)

(* mergeCodes: explicit codes, then the universe's, each once. *)
MergeCodes(explicit, universe) ==
  LET all == explicit \o universe
  IN Sublist(all, {i \in DOMAIN all : all[i] # "" /\ \A j \in 1..(i - 1) : all[j] # all[i]})

(***************************************************************************)
(* The codes to fetch.  p.universe is what the named universe resolves to, *)
(* <<>> when none is named (<<"">> when it resolves to no code); without   *)
(* one the explicit codes are taken as they are, repeated or blank.        *)
(***************************************************************************)
CodesOf(p) == IF p.universe = <<>> THEN p.codes ELSE MergeCodes(p.codes, p.universe)

Subtypes == {"quote", "kline", "fundamental", "news"}

(* What one code contributes: a row, several (news), or candles. *)
Answer(p, code) ==
  IF p.subtype = "kline" THEN market.candles[code] ELSE market.rows[code]

(***************************************************************************)
(* fetchQuotes, fetchKLines, fetchFundamentals, fetchNews: a code whose    *)
(* fetch fails is left out, and the node succeeds with what remains, be it *)
(* nothing; a blank code has no answer.  A universe that cannot be         *)
(* resolved, no codes at all, or an unknown subtype fails the node; a      *)
(* trial run only looks at whether a universe or codes are given.          *)
(***************************************************************************)
Fetched(p, codes, answering) ==
  FlattenSeq([i \in DOMAIN codes |->
                IF codes[i] \in answering THEN Answer(p, codes[i]) ELSE <<>>])

DataSource(n) ==
  LET p     == param(n)
      codes == CodesOf(p)
      given == p.universe # <<>> \/ codes # <<>>
  IN /\ Ready(n)
     /\ kind(n) = "data_source"
     /\ \/ given /\ ~live /\ Succeed(n, NoPayload)
        \/ ~given /\ Fail(n)
        \/ live /\ (p.universe # <<>> \/ p.subtype \notin Subtypes) /\ Fail(n)
        \/ /\ live /\ codes # <<>> /\ p.subtype \in Subtypes
           /\ \E answering \in SUBSET (Range(codes) \ {""}) :
                LET got == Fetched(p, codes, answering)
                IN Succeed(n, IF p.subtype = "kline"
                              THEN [slices |-> {}, series |-> {got}] ELSE Rows(got))
     /\ OnlyComputed

----------------------------------------------------------------------------
(* indicator *)

(* groupByStock: a stock's candles in chronological order. *)
BarsOf(series, code) ==
  LET bars == Sublist(series, {i \in DOMAIN series : series[i].code = code})
  IN SortBy(bars, [i \in DOMAIN bars |-> bars[i].day])

(***************************************************************************)
(* lastFinite(MA(closes, period)): while there are fewer closes than the   *)
(* period, MA has no finite value and the row says 0.  (The sum stands for *)
(* the mean: thresholds are scaled by the period.)                         *)
(***************************************************************************)
MovingAverage(bars, period) ==
  IF Len(bars) < period THEN 0
  ELSE SumFunction([i \in 1..period |-> bars[Len(bars) - period + i].close])

IndicatorRow(series, code, period) ==
  LET bars == BarsOf(series, code)
  IN [code |-> code, text |-> << >>,
      num |-> [close |-> bars[Len(bars)].close, ma |-> MovingAverage(bars, period)]]

Indicator(n) ==
  /\ Ready(n)
  /\ kind(n) = "indicator"
  /\ \/ /\ \A s \in Series(n) : s = <<>>
        /\ Fail(n)
     \/ \E s \in Series(n) :
          LET codes == MergeCodes([i \in DOMAIN s |-> s[i].code], <<>>)
          IN /\ s # <<>>
             /\ Succeed(n, Rows([i \in DOMAIN codes |->
                                   IndicatorRow(s, codes[i], param(n).period)]))
  /\ OnlyComputed

----------------------------------------------------------------------------
(* filter, rank, dedupe *)

(* toFloat(lookupField): a number the row does not know counts as 0. *)
Number(row, f) == IF f \in DOMAIN row.num THEN row.num[f] ELSE 0

(* The field is text; its words, none when it is not. *)
IsText(row, f) == f \in DOMAIN row.text
Words(row, f)  == IF IsText(row, f) THEN row.text[f] ELSE {}

(* toFloat of the value: a list or no value counts as 0. *)
Bound(p) == IF p.list \/ p.value = <<>> THEN 0 ELSE p.value[1]

(* equalish, for numbers: the field equals a member of the value. *)
Equals(row, p) == p.field \in DOMAIN row.num /\ row.num[p.field] \in Range(p.value)

(***************************************************************************)
(* matchExpr: p.value lists the members of a list value (p.list), or the   *)
(* one scalar, or the needles of a comma-separated string.                 *)
(***************************************************************************)
MatchExpr(row, p) ==
  CASE p.op = "=="      -> ~p.list /\ Equals(row, p)
    [] p.op = "!="      -> p.list \/ ~Equals(row, p)
    [] p.op = ">"       -> Number(row, p.field) > Bound(p)
    [] p.op = "<"       -> Number(row, p.field) < Bound(p)
    [] p.op = ">="      -> Number(row, p.field) >= Bound(p)
    [] p.op = "<="      -> Number(row, p.field) <= Bound(p)
    [] p.op = "between" -> /\ p.value[1] <= Number(row, p.field)
                           /\ Number(row, p.field) <= p.value[2]
    [] p.op = "in"       -> Equals(row, p)
    [] p.op = "contains" -> ~p.list /\ Words(row, p.field) \cap Range(p.value) # {}
    [] p.op = "contains_any" -> Words(row, p.field) \cap Range(p.value) # {}
    [] OTHER            -> FALSE

Operators ==
  {"==", "!=", ">", "<", ">=", "<=", "between", "in", "contains", "contains_any"}

(* The errors of matchExpr, of a field that is text or is not. *)
Refuses(p, isText) ==
  \/ p.op \notin Operators
  \/ p.op = "between" /\ ~(p.list /\ Len(p.value) = 2)
  \/ p.op = "in" /\ ~p.list
  \/ p.op = "contains_any" /\ p.value = <<>> /\ isText

(***************************************************************************)
(* Target "root": the fields of one predecessor's output itself decide, of *)
(* which a model of rows knows nothing; no rows come out either way.       *)
(***************************************************************************)
MatchRoot(n) ==
  \E isText \in BOOLEAN :
    IF preds(n) # {} /\ Refuses(param(n), isText) THEN Fail(n) ELSE Succeed(n, NoPayload)

(* Target "each": the rows that match, unless one is refused. *)
MatchEach(n) ==
  LET p == param(n)
  IN \/ Slices(n) = {} /\ Succeed(n, Rows(<<>>))
     \/ \E s \in Slices(n) :
          IF \E i \in DOMAIN s : Refuses(p, IsText(s[i], p.field)) THEN Fail(n)
          ELSE Succeed(n, Rows(Sublist(s, {i \in DOMAIN s : MatchExpr(s[i], p)})))

Filter(n) ==
  /\ Ready(n)
  /\ kind(n) = "filter"
  /\ IF param(n).field = "" THEN Fail(n)
     ELSE IF param(n).target = "root" THEN MatchRoot(n) ELSE MatchEach(n)
  /\ OnlyComputed

(* What rows are ranked by, the less the better. *)
Score(p, row) == IF p.order = "asc" THEN Number(row, p.field) ELSE -Number(row, p.field)

Better(p, x, y) == Score(p, x) < Score(p, y)

(* A stable sort, then the first p.top rows. *)
Ranked(p, s) ==
  SubSeq(SortBy(s, [i \in DOMAIN s |-> Score(p, s[i])]),
         1, IF p.top < Len(s) THEN p.top ELSE Len(s))

Rank(n) ==
  /\ Ready(n)
  /\ kind(n) = "rank"
  /\ \/ Slices(n) = {} /\ Succeed(n, Rows(<<>>))
     \/ \E s \in Slices(n) : Succeed(n, Rows(Ranked(param(n), s)))
  /\ OnlyComputed

(* The first row of every stock; rows without a code are all kept. *)
Deduped(s) ==
  Sublist(s, {i \in DOMAIN s : s[i].code = "" \/ \A j \in 1..(i - 1) : s[j].code # s[i].code})

Dedupe(n) ==
  /\ Ready(n)
  /\ kind(n) = "dedupe"
  /\ \/ Slices(n) = {} /\ Succeed(n, Rows(<<>>))
     \/ \E s \in Slices(n) : Succeed(n, Rows(Deduped(s)))
  /\ OnlyComputed

----------------------------------------------------------------------------
(* session_tag *)

(* Mutant: the tag is published for nobody. *)
SessionTagUnpublished(n) ==
  /\ Ready(n)
  /\ kind(n) = "session_tag"
  /\ Succeed(n, NoPayload)
  /\ UNCHANGED <<strategy, market, live, minute, sessionTag, picks, tags, created,
                 recorded, message, mailVars>>

DeriveSessionTag(hm) ==
  CASE hm \in (9 * 60)..(11 * 60 + 30)  -> "MORNING"
    [] hm \in (13 * 60)..(15 * 60 - 1)  -> "AFTERNOON"
    [] hm \in (15 * 60)..(17 * 60 - 1)  -> "REVIEW"
    [] OTHER                            -> "NO_POST"

SessionTag(n) ==
  /\ Ready(n)
  /\ kind(n) = "session_tag"
  /\ sessionTag' = IF param(n).force # "" THEN param(n).force ELSE DeriveSessionTag(minute)
  /\ Succeed(n, NoPayload)
  /\ UNCHANGED <<strategy, market, live, minute, picks, tags, created, recorded,
                 message, mailVars>>

----------------------------------------------------------------------------
(* persist *)

WithCode(s) == Sublist(s, {i \in DOMAIN s : s[i].code # ""})

(* No input or a trial run: a summary and no writes.  Otherwise Begin. *)
PersistBegin(n) ==
  /\ Ready(n)
  /\ kind(n) = "persist"
  /\ \/ /\ Slices(n) = {} \/ ~live
        /\ Succeed(n, NoPayload)
        /\ UNCHANGED <<picks, tags>>
     \/ live /\ Slices(n) # {} /\ Fail(n) /\ UNCHANGED <<picks, tags>>
     \/ /\ live
        /\ \E s \in Slices(n) : picks' = [picks EXCEPT ![n] = WithCode(s)]
        /\ tags' = [tags EXCEPT ![n] = ({sessionTag} \cup param(n).extra) \ {""}]
        /\ state' = [state EXCEPT ![n] = "writing"]
        /\ UNCHANGED payload
  /\ UNCHANGED <<strategy, market, live, minute, sessionTag, created, recorded,
                 message, mailVars>>

Recommendation(n, row) == [code |-> row.code, row |-> row, tags |-> tags[n]]

(* Mutant: the rows are not written in the transaction. *)
CreateOutsideTx(n) ==
  /\ state[n] = "writing"
  /\ Len(created[n]) < Len(picks[n])
  /\ \/ /\ created' = [created EXCEPT ![n] = Append(@, picks[n][Len(@) + 1])]
        /\ recorded' = [recorded EXCEPT
                           ![n] = Append(@, Recommendation(n, picks[n][Len(created[n]) + 1]))]
        /\ UNCHANGED <<state, payload>>
     \/ Fail(n) /\ UNCHANGED <<created, recorded>>
  /\ UNCHANGED <<strategy, market, live, minute, sessionTag, picks, tags, message,
                 mailVars>>

(* Create and attachTags for the next pick, or an error and a rollback. *)
PersistCreate(n) ==
  /\ state[n] = "writing"
  /\ Len(created[n]) < Len(picks[n])
  /\ \/ /\ created' = [created EXCEPT ![n] = Append(@, picks[n][Len(@) + 1])]
        /\ UNCHANGED <<state, payload>>
     \/ Fail(n) /\ created' = [created EXCEPT ![n] = <<>>]
  /\ UNCHANGED <<strategy, market, live, minute, sessionTag, picks, tags, recorded,
                 message, mailVars>>

(***************************************************************************)
(* Commit: the rows become visible, and the node succeeds; or the commit   *)
(* fails; or it takes effect and its answer is lost.                       *)
(***************************************************************************)
PersistCommit(n) ==
  LET rows == [i \in DOMAIN created[n] |-> Recommendation(n, created[n][i])]
  IN /\ state[n] = "writing"
     /\ Len(created[n]) = Len(picks[n])
     /\ created' = [created EXCEPT ![n] = <<>>]
     /\ \/ recorded' = [recorded EXCEPT ![n] = @ \o rows] /\ Succeed(n, NoPayload)
        \/ recorded' = recorded /\ Fail(n)
        \/ recorded' = [recorded EXCEPT ![n] = @ \o rows] /\ Fail(n)
     /\ UNCHANGED <<strategy, market, live, minute, sessionTag, picks, tags, message,
                    mailVars>>

----------------------------------------------------------------------------
(* notify *)

SubtypeForSession ==
  CASE sessionTag = "MORNING"   -> "morning"
    [] sessionTag = "AFTERNOON" -> "afternoon"
    [] sessionTag = "REVIEW"    -> "review"
    [] OTHER                    -> "alert"

(* The message is built; a trial run or a server without channels stops here. *)
NotifyBegin(n) ==
  /\ Ready(n)
  /\ kind(n) = "notify"
  /\ \/ Slices(n) = {} /\ picks' = [picks EXCEPT ![n] = <<>>]
     \/ \E s \in Slices(n) : picks' = [picks EXCEPT ![n] = WithCode(s)]
  /\ message' = [message EXCEPT ![n] =
                   IF param(n).subtype # "" THEN param(n).subtype ELSE SubtypeForSession]
  /\ IF live /\ HasChannel
     THEN /\ state' = [state EXCEPT ![n] = "sending"]
          /\ Send(n)
          /\ UNCHANGED payload
     ELSE Succeed(n, NoPayload) /\ UNCHANGED mailVars
  /\ UNCHANGED <<strategy, market, live, minute, sessionTag, tags, created, recorded>>

NotifyStep(n) == Step(n) /\ UNCHANGED runVars

(* Send has returned: its error fails the node. *)
NotifyEnd(n) ==
  /\ state[n] = "sending"
  /\ \/ stage[n] = "sent" /\ Succeed(n, NoPayload)
     \/ stage[n] = "failed" /\ Fail(n)
  /\ OnlyComputed

----------------------------------------------------------------------------
Tick ==
  /\ minute' \in {m \in Clock : m > minute}
  /\ UNCHANGED <<strategy, market, live, state, payload, sessionTag, picks, tags,
                 created, recorded, message, mailVars>>

Over ==
  /\ \A n \in strategy.nodes : state[n] \in {"success", "failed", "skipped"}
  /\ UNCHANGED vars

NodeStep(n) ==
  \/ DataSource(n) \/ Indicator(n) \/ Filter(n) \/ Rank(n) \/ Dedupe(n)
  \/ SessionTag(n)
  \/ PersistBegin(n) \/ PersistCreate(n) \/ PersistCommit(n)
  \/ NotifyBegin(n) \/ NotifyEnd(n)

Next ==
  \/ \E n \in strategy.nodes : NodeStep(n)
  \/ \E n \in Sender : NotifyStep(n)
  \/ Tick
  \/ Over

Spec == Init /\ [][Next]_vars

----------------------------------------------------------------------------
(* Properties *)

(***************************************************************************)
(* Types, and: a node is sending exactly while its call of Send runs.      *)
(***************************************************************************)
TypeOK ==
  /\ MailTypeOK
  /\ [strategy |-> strategy, market |-> market] \in Scenarios
  /\ live \in BOOLEAN
  /\ minute \in Clock
  /\ state \in [Node -> {"idle", "writing", "sending", "success", "failed", "skipped"}]
  /\ \A n \in Node : \A s \in payload[n].slices \cup payload[n].series : IsList(s)
  /\ \A n \in Sender : state[n] \in {"idle", "skipped"} => stage[n] = "idle"
  /\ \A n \in Node : state[n] # "writing" => created[n] = <<>>

(***************************************************************************)
(* Graphs laid out like the bundled templates: sources come first, nothing *)
(* selects behind a ranking or a dedupe, and no edge cuts a longer way     *)
(* short.  An edit may draw others, for which the choice promises less.    *)
(***************************************************************************)
LaidOut(g) ==
  LET Of(kinds) == {n \in g.nodes : g.params[n].kind \in kinds}
      Behind(n) == Descendants(g.edges, g.nodes, n)
  IN /\ \A n \in Of({"data_source"}) : Predecessors(g.edges, n) = {}
     /\ \A n \in Of({"rank", "dedupe"}) : Behind(n) \cap Of({"filter", "rank"}) = {}
     /\ \A n \in g.nodes : \A p, q \in Predecessors(g.edges, n) : p \notin Behind(q)

(***************************************************************************)
(* A branch to n: one way from a source to n, node by node.                *)
(***************************************************************************)
Branches(n) ==
  {S \in SUBSET strategy.nodes :
     /\ n \in S
     /\ \A m \in S : \/ preds(m) = {}
                     \/ Cardinality(preds(m) \cap S) = 1
     /\ \A m \in S \ {n} : Successors(strategy.edges, m) \cap S # {}
     /\ S \cap NodesOf({"data_source"}) # {}}

(* The rows that enter a branch's selection: of its source or indicator. *)
Feed(S) ==
  LET rowers == {m \in S : payload[m].slices # {} /\ kind(m) \in {"data_source", "indicator"}}
  IN UNION {Range(s) : s \in UNION {payload[m].slices : m \in rowers}}

PassesAll(S, row) == \A f \in S : kind(f) = "filter" => MatchExpr(row, param(f))

(***************************************************************************)
(* The recommendations of a run are the choice of one branch of its graph: *)
(* each passes every filter of the branch, and no stock whose row passes   *)
(* them and ranks better is passed over (filter.go, rank.go, dedupe.go,    *)
(* persist.go).                                                            *)
(***************************************************************************)
PicksAreABranchsBest ==
  \A n \in NodesOf({"persist"}) :
    recorded[n] # <<>> =>
      \E S \in Branches(n) :
        \A r \in Range(recorded[n]) :
          /\ r.row \in Feed(S)
          /\ PassesAll(S, r.row)
          /\ \A row \in Feed(S), k \in S :
               (/\ row.code # "" /\ PassesAll(S, row)
                /\ kind(k) = "rank" /\ Better(param(k), row, r.row))
                 => \E q \in Range(recorded[n]) : q.code = row.code

(***************************************************************************)
(* persist records all of its picks or none, whichever row, commit or      *)
(* answer fails; a node that succeeds in a real run has recorded them all, *)
(* and a trial run records nothing and sends nothing.                      *)
(***************************************************************************)
PersistAllOrNothing ==
  /\ \A n \in NodesOf({"persist"}) :
       (recorded[n] # <<>> \/ state[n] = "success") =>
         [i \in DOMAIN recorded[n] |-> recorded[n][i].row] = picks[n]
  /\ ~live => /\ \A n \in Node : recorded[n] = <<>>
              /\ \A n \in Sender : stage[n] = "idle"

(***************************************************************************)
(* When the session_tag of a strategy precedes persist, a recommendation   *)
(* carries the run's session and no other tag but the extra ones of its    *)
(* node, and an automatic message sent after session_tag is of that        *)
(* session's family, however far the clock has moved meanwhile.            *)
(***************************************************************************)
SessionAgrees ==
  \A t \in strategy.nodes : NodesOf({"session_tag"}) = {t} =>
    \A n \in Descendants(strategy.edges, strategy.nodes, t) :
      /\ kind(n) = "persist" =>
           \A r \in Range(recorded[n]) :
             sessionTag \in r.tags /\ r.tags \subseteq {sessionTag} \cup param(n).extra
      /\ kind(n) = "notify" /\ message[n] # "" /\ param(n).subtype = "" =>
           message[n] = SubtypeForSession

(***************************************************************************)
(* "PE<15 + ... + ROE>10%" (templates/low_valuation_high_dividend.json): a *)
(* recommendation passes every filter its strategy has upstream.           *)
(***************************************************************************)
PicksPassEveryFilter ==
  \A f \in NodesOf({"filter"}) :
    \A n \in Descendants(strategy.edges, strategy.nodes, f) :
      \A r \in Range(recorded[n]) : MatchExpr(r.row, param(f))
=============================================================================
