---------------------------- MODULE MCApplications ----------------------------
(***************************************************************************)
(* What applications are built from, in one instance for TLC: dynamic      *)
(* menus, flows and their analysis, plugins, the market demo, the local    *)
(* workbench and the replay of what it recorded.  The parts share nothing: *)
(* a behaviour is of one part, and the others stay as they are.            *)
(***************************************************************************)
EXTENDS MCMenu, ExampleFlows, Market, Plugins, Workbench, Replay

VARIABLE part

SeedDef == [maize |-> 2]
PhoneDef == [a |-> 1, b |-> 1]
RequiresDef == [base |-> {}, pay |-> {"base"}, pay_now |-> {"base"}]
NamesDef ==
  [base |-> {<<"base_menu">>},
   pay |-> {<<"pay_start", "pay_now_confirm">>, <<"shop_pay_start", "shop_pay_now_confirm">>},
   pay_now |-> {<<"pay_now_ask", "pay_now_confirm">>}]

HistoriesDef == {<<1, 2>>, <<2, 1>>, <<1, 0, 2>>, <<1, 2, 1>>}
Effect(op, at) == [op |-> op, at |-> at]
ScriptsDef ==
  {<<>>, <<Effect("pay", 0)>>, <<Effect("stock", 0), Effect("pay", 1)>>, <<Effect("pay", 2)>>}

AppInit ==
  /\ part \in {"menu", "flow", "market", "plugins", "workbench", "replay"}
  /\ Init /\ FlowInit /\ MarketInit /\ PluginInit /\ BenchInit /\ ReplayInit
  /\ part # "flow" => flow = Generated(0)
  /\ part # "plugins" => strict
  /\ part # "replay" => Len(fixture.turns) = 3

AppNext ==
  /\ UNCHANGED part
  /\ \/ /\ part = "menu" /\ Next
        /\ UNCHANGED <<flowVars, marketVars, pluginVars, benchVars, replayVars>>
     \/ /\ part = "flow" /\ FlowNext
        /\ UNCHANGED <<vars, marketVars, pluginVars, benchVars, replayVars>>
     \/ /\ part = "market" /\ MarketNext
        /\ UNCHANGED <<vars, flowVars, pluginVars, benchVars, replayVars>>
     \/ /\ part = "plugins" /\ PluginNext
        /\ UNCHANGED <<vars, flowVars, marketVars, benchVars, replayVars>>
     \/ /\ part = "workbench" /\ BenchNext
        /\ UNCHANGED <<vars, flowVars, marketVars, pluginVars, replayVars>>
     \/ /\ part = "replay" /\ ReplayNext
        /\ UNCHANGED <<vars, flowVars, marketVars, pluginVars, benchVars>>

AppSpec ==
  AppInit /\ [][AppNext]_<<part, vars, flowVars, marketVars, pluginVars, benchVars, replayVars>>
=============================================================================
