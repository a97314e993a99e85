---------------------------- MODULE MCSelection ----------------------------
(***************************************************************************)
(* Selection on three strategies built like the bundled templates: Value   *)
(* (low_valuation_high_dividend.json, with a notify node after persist),   *)
(* Trend (candles through an indicator, persist and notify side by side)   *)
(* and News (several rows per stock); and on Edited, a graph as an edit    *)
(* may leave it, with codes given twice or not at all and filters that     *)
(* look at an output's own fields or have the wrong parameters.            *)
(***************************************************************************)
EXTENDS Selection

DS(subtype, codes, universe) ==
  [kind |-> "data_source", subtype |-> subtype, codes |-> codes, universe |-> universe]
F(field, op, value) ==
  [kind |-> "filter", target |-> "each", field |-> field, op |-> op, value |-> value,
   list |-> op \in {"between", "contains_any"}]
R(field, order, top) == [kind |-> "rank", field |-> field, order |-> order, top |-> top]
Dedup == [kind |-> "dedupe"]
Tag(force) == [kind |-> "session_tag", force |-> force]
Persist(extra) == [kind |-> "persist", extra |-> extra]
Notify(subtype) == [kind |-> "notify", subtype |-> subtype]
Ind(period) == [kind |-> "indicator", period |-> period]

Strategy(params, edges) == [nodes |-> DOMAIN params, params |-> params, edges |-> edges]

Value == Strategy(
  [src |-> DS("fundamental", <<"a", "b">>, <<"b", "c">>), f1 |-> F("pe", "<", <<15>>),
   f2 |-> F("dy", ">", <<3>>), f3 |-> F("roe", ">=", <<10>>), rank |-> R("dy", "desc", 2),
   dedupe |-> Dedup, session |-> Tag(""), persist |-> Persist({"value"}),
   notify |-> Notify("")],
  << <<"src", "f1">>, <<"src", "f2">>, <<"f1", "f3">>, <<"f2", "f3">>, <<"f3", "rank">>,
     <<"rank", "dedupe">>, <<"dedupe", "persist">>, <<"session", "persist">>,
     <<"persist", "notify">> >>)

Trend == Strategy(
  [src |-> DS("kline", <<"a", "b", "c">>, <<>>), f1 |-> Ind(2), f2 |-> F("ma", "between", <<0, 9>>),
   rank |-> R("ma", "asc", 2), dedupe |-> Dedup, session |-> Tag(""),
   persist |-> Persist({}), notify |-> Notify("")],
  << <<"src", "f1">>, <<"f1", "f2">>, <<"f2", "rank">>, <<"rank", "dedupe">>,
     <<"dedupe", "persist">>, <<"session", "persist">>, <<"dedupe", "notify">> >>)

News == Strategy(
  [src |-> DS("news", <<"a", "b">>, <<>>), f1 |-> F("title", "contains_any", <<"gain">>),
   dedupe |-> Dedup, session |-> Tag("NO_POST"), persist |-> Persist({}),
   notify |-> Notify("alert")],
  << <<"src", "f1">>, <<"f1", "dedupe">>, <<"dedupe", "persist">>, <<"session", "persist">>,
     <<"session", "notify">>, <<"dedupe", "notify">> >>)

(* spare has no codes, f1 looks at the root, f2 names no field, and f3's list is no list. *)
Edited == Strategy(
  [src |-> DS("fundamental", <<"a", "", "a">>, <<>>), spare |-> DS("quote", <<>>, <<>>),
   f1 |-> [F("count", ">", <<0>>) EXCEPT !.target = "root"], f2 |-> F("", ">", <<0>>),
   f3 |-> F("pe", "in", <<10>>), dedupe |-> Dedup, persist |-> Persist({})],
  << <<"src", "f1">>, <<"f1", "f2">>, <<"src", "f3">>, <<"src", "dedupe">>,
     <<"dedupe", "persist">>, <<"f1", "persist">> >>)

Fund(c, pe, dy) == << [code |-> c, text |-> << >>, num |-> [pe |-> pe, dy |-> dy, roe |-> 10]] >>
Item(c, w)      == [code |-> c, text |-> [title |-> {w}], num |-> << >>]
Bar(c, d, x)    == [code |-> c, day |-> d, close |-> x]

(* a passes everything, b is too dear, c pays too little; and the candles *)
(* arrive out of order, of b too few for the average.                     *)
Today ==
  [rows    |-> [a |-> Fund("a", 10, 4), b |-> Fund("b", 20, 9), c |-> Fund("c", 9, 2)],
   candles |-> [a |-> << Bar("a", 2, 5), Bar("a", 1, 3) >>, b |-> << Bar("b", 2, 1) >>,
                c |-> << Bar("c", 1, 1), Bar("c", 2, 2) >>]]

(* The same with news for rows: the stocks' items are interleaved. *)
Headlines ==
  [Today EXCEPT !.rows =
     [a |-> <<Item("a", "gain"), Item("b", "gain"), Item("a", "gain"), Item("a", "loss")>>,
      b |-> <<Item("b", "gain")>>, c |-> <<>>]]

Scenario(s, m) == [strategy |-> s, market |-> m]
Templates == {Scenario(Value, Today), Scenario(Trend, Today), Scenario(News, Headlines),
              Scenario(Edited, Today)}

(* The graphs that the choice of a branch is promised for. *)
ASSUME TemplatesLaidOut == \A s \in Templates : LaidOut(s.strategy)

OnlyValue == {Scenario(Value, Today)}

NoneOneTwo == {{}, {"feishu"}, {"feishu", "dingtalk"}}

(* 11:30 and 11:31, the two sides of the end of the morning. *)
Noon == {690, 691}

Names == {"src", "spare", "f1", "f2", "f3", "rank", "dedupe", "session", "persist", "notify"}

FeishuTwice == <<"wecom", "feishu", "dingtalk">>
=============================================================================
