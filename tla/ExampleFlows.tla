---------------------------- MODULE ExampleFlows ----------------------------
(***************************************************************************)
(* The flows that are checked: those of the repository's examples, of the  *)
(* SDK through the compiler and written by hand as tables of answers; a    *)
(* form; and every flow of three states over eight shapes.  "text" stands  *)
(* for whatever a free prompt accepts; a number may also be an amount.     *)
(***************************************************************************)
EXTENDS Flow, TLC

\* Answers of handlers written by hand.
Asks(s) == [says |-> "CON", shows |-> s, next |-> s, saves |-> {}]
AsksSaving(s, field) == [Asks(s) EXCEPT !.saves = {field}]
Stays(s) == [Asks(s) EXCEPT !.next = NoState]
Farewell == [says |-> "END", shows |-> NoState, next |-> NoState, saves |-> {}]

\* A handler answers the inputs of its table in their own way, all others alike.
ByHand(table, other) ==
  [handler |-> [key \in Inputs |-> IF key \in DOMAIN table THEN table[key] ELSE other],
   allowed |-> Inputs, local |-> {}, terminal |-> "unknown", dynamic |-> TRUE,
   edges |-> {}, role |-> "none", field |-> NoField]
Always(answer) == ByHand(<<>>, answer)
Accepting(keys, state) == [state EXCEPT !.allowed = keys]
Declaring(edges, state) == [state EXCEPT !.dynamic = FALSE, !.terminal = "no", !.edges = edges]
Edge(key, s) == [input |-> key, terminal |-> s = NoState, to |-> s]

Number == {"1", "2", "3", "4"}
FourOptions(first, second, third, fourth) ==
  [k \in Number |-> CASE k = "1" -> first [] k = "2" -> second
                      [] k = "3" -> third [] OTHER -> fourth]

\* basic-menu.js: each handler shows the prompt of the state it leads to.
BasicMenu ==
  [initial |-> "WELCOME", states |->
     [WELCOME |-> Always(Asks("MAIN_MENU")),
      MAIN_MENU |-> ByHand(FourOptions(Farewell, Asks("SEND_MONEY_PHONE"), Asks("BUY_AIRTIME"),
                                   Asks("MY_ACCOUNT")), Asks("MAIN_MENU")),
      SEND_MONEY_PHONE |-> Always(AsksSaving("SEND_MONEY_AMOUNT", "recipientPhone")),
      SEND_MONEY_AMOUNT |-> Always(AsksSaving("SEND_MONEY_CONFIRM", "amount")),
      SEND_MONEY_CONFIRM |-> Always(Farewell),
      BUY_AIRTIME |-> ByHand(FourOptions(Farewell, Farewell, Farewell, Asks("BUY_AIRTIME_CUSTOM")),
                             Asks("BUY_AIRTIME")),
      BUY_AIRTIME_CUSTOM |-> ByHand([k \in Number |-> Farewell], Asks("BUY_AIRTIME_CUSTOM")),
      MY_ACCOUNT |-> ByHand(FourOptions(Farewell, Asks("CHANGE_PIN"), Farewell, Asks("MY_ACCOUNT")),
                            Asks("MY_ACCOUNT")),
      CHANGE_PIN |-> Always(Asks("CHANGE_PIN_NEW")),
      CHANGE_PIN_NEW |-> ByHand([k \in {"text"} |-> Farewell], Asks("CHANGE_PIN_NEW"))]]

\* with-validation.js: a registration; "text" passes each validator.
Registration ==
  [initial |-> "WELCOME", states |->
     [WELCOME |-> Always(Asks("MAIN_MENU")),
      MAIN_MENU |-> ByHand([k \in {"1", "2"} |-> IF k = "1" THEN Asks("ENTER_NAME")
                                                 ELSE Asks("LOGIN_PHONE")], Asks("MAIN_MENU")),
      ENTER_NAME |-> Accepting({"text"}, Always(AsksSaving("ENTER_PHONE", "name"))),
      ENTER_PHONE |-> Accepting({"text", NoInput}, Always(AsksSaving("ENTER_EMAIL", "phone"))),
      ENTER_EMAIL |-> Accepting({"text", NoInput}, Always(AsksSaving("ENTER_AGE", "email"))),
      ENTER_AGE |-> Accepting({"text", NoInput}, Always(AsksSaving("CREATE_PIN", "age"))),
      CREATE_PIN |-> Accepting({"text", NoInput}, Always(AsksSaving("CONFIRM_PIN", "pin"))),
      CONFIRM_PIN |-> ByHand([k \in {"text"} |-> Farewell], Asks("CREATE_PIN")),
      LOGIN_PHONE |-> Accepting({"text", NoInput}, Always(AsksSaving("LOGIN_PIN", "loginPhone"))),
      LOGIN_PIN |-> Accepting({"text", NoInput}, Always(Farewell))]]

\* multi-language.js.
Languages ==
  [initial |-> "LANG_SELECT", states |->
     [LANG_SELECT |-> Always(Asks("SET_LANGUAGE")),
      SET_LANGUAGE |-> ByHand([k \in {"1", "2", "3"} |-> AsksSaving("MAIN_MENU", "language")],
                              Asks("SET_LANGUAGE")),
      MAIN_MENU |-> ByHand(FourOptions(Farewell, Asks("TRANSFER_PHONE"), Asks("BUY_AIRTIME"),
                                   Asks("SETTINGS")), Asks("MAIN_MENU")),
      TRANSFER_PHONE |-> Always(AsksSaving("TRANSFER_AMOUNT", "recipient")),
      TRANSFER_AMOUNT |-> Always(Farewell),
      BUY_AIRTIME |-> ByHand([k \in {"1", "2", "3"} |-> Farewell], Asks("BUY_AIRTIME")),
      SETTINGS |-> ByHand([k \in {"1"} |-> Asks("SET_LANGUAGE")], Asks("SETTINGS"))]]

\* The menus of express-integration.js, error-recovery.js and health-checks.js.
Express ==
  [initial |-> "WELCOME", states |->
     [WELCOME |-> Always(Asks("MENU")),
      MENU |-> ByHand([k \in {"1", "2", "3"} |-> Farewell], Asks("MENU"))]]
ErrorRecovery ==
  [initial |-> "WELCOME", states |->
     [WELCOME |-> Always(Asks("MENU")),
      MENU |-> ByHand([k \in {"1", "2"} |-> Farewell], Stays("MENU"))]]
HealthChecks ==
  [initial |-> "WELCOME", states |->
     [s \in {"WELCOME", "ACTION"} |->
        IF s = "WELCOME" THEN Always(Asks("ACTION")) ELSE Always(Farewell)]]

\* sdk-basic.js.
Transfer(field, next) == Saves(Continues(Message, next), field, {"text", NoInput})
Question == On(Runs(Message), [k \in {"1", "2"} |-> EndRoute])
MyBank ==
  Build("welcome",
   <<[welcome |-> On(Message, [k \in {"1", "2", "3"} |->
                                Goto(CASE k = "1" -> "balance" [] k = "2" -> "sendMoney"
                                       [] OTHER -> "airtime")]),
     balance |-> Ends(Runs(Message)),
     sendMoney |-> Transfer("phone", "enterAmount"),
     enterAmount |-> Transfer("amount", "confirmSend"),
     confirmSend |-> Question,
     airtime |-> Transfer("airtimeAmount", "confirmAirtime"),
     confirmAirtime |-> Question]>>)

\* workbench/flows.js: one shop, by the SDK and by hand.
AskQuantity ==
  Declaring({Edge("any", "PIN")},
    Accepting(Number, ByHand([k \in {NoInput} |-> Stays("QUANTITY")],
                             AsksSaving("PIN", "quantity"))))
Shop ==
  LET compiled == Compile("MENU",
        [MENU |-> On(Message, [k \in {"1", "2"} |-> IF k = "1" THEN Goto("QUANTITY") ELSE EndRoute]),
         QUANTITY |-> Message,
         PIN |-> Saves(Continues(Message, "DONE"), "pin", Inputs),
         DONE |-> Ends(Message)])
  IN  [compiled EXCEPT !.states["QUANTITY"] = AskQuantity]
ShopByHand ==
  [initial |-> "MENU", states |->
     [MENU |-> Declaring({Edge("1", "QUANTITY"), Edge("2", NoState)},
                 ByHand([k \in {"1", "2"} |-> IF k = "1" THEN Asks("QUANTITY") ELSE Farewell],
                        Stays("MENU"))),
      QUANTITY |-> AskQuantity,
      PIN |-> Declaring({Edge("any", "DONE")},
                ByHand([k \in {NoInput} |-> Stays("PIN")],
                       [Farewell EXCEPT !.next = "DONE", !.saves = {"pin"}])),
      DONE |-> [Always([Farewell EXCEPT !.shows = "DONE"])
                  EXCEPT !.dynamic = FALSE, !.terminal = "yes"]]]

\* workbench/diagnostics.js: declarations with every kind of error.
Diagnostics ==
  [initial |-> "HOME", states |->
     [s \in {"HOME", "DONE", "TRAP", "ISLAND_A", "ISLAND_B"} |->
        CASE s = "HOME" -> Declaring({Edge("1", "DONE"), Edge("9", "MISSING"), Edge("0", "TRAP"),
                                      Edge("2", "DONE"), Edge("2", NoState)}, Always(Stays("HOME")))
          [] s = "DONE" -> [Always(Farewell) EXCEPT !.dynamic = FALSE, !.terminal = "yes"]
          [] s = "TRAP" -> [Declaring({}, Always(Stays(s))) EXCEPT !.local = {"0"}]
          [] s = "ISLAND_A" -> Declaring({Edge("any", "ISLAND_B")}, Always(Stays(s)))
          [] OTHER -> Declaring({Edge("any", "ISLAND_A")}, Always(Stays(s)))]]
-----------------------------------------------------------------------------
(* Flows for TLC.                                                          *)

Shapes == <<
  Ends(Message),
  Ends(Continues(Message, "b")),
  Continues(Message, "b"),
  Saves(Continues(Message, "gone"), "x", Inputs),
  On(Message, [k \in {"1", "text"} |-> IF k = "1" THEN Goto("c") ELSE Goto("a")]),
  On(Continues(Message, "b"), [k \in {"0", "1"} |-> IF k = "0" THEN ReplyRoute ELSE NoRoute]),
  On(Message, [k \in {"1", "*"} |-> IF k = "1" THEN [Goto("b") EXCEPT !.text = TRUE] ELSE Goto("c")]),
  MenuOf([k \in {"0", "1"} |-> IF k = "0" THEN Goto("b") ELSE EndRoute]) >>
Digit(n, place) == ((n \div place) % Len(Shapes)) + 1
Generated(n) ==
  Compile("a", [s \in {"a", "b", "c"} |->
                  Shapes[Digit(n, CASE s = "a" -> 1 [] s = "b" -> 8 [] OTHER -> 64)]])

\* A menu, a form and its confirmation; a second form of the same names is
\* refused.
FormFlow ==
  Build("menu",
    <<[s \in {"menu"} |-> On(Message, [k \in {"1"} |-> Goto("f")])],
      Form(<<"f", "g", "h">>, {NoInput, "1", "text"}, "confirm") @@
        [s \in {"confirm"} |->
           Confirmation([k \in {"1", "text"} |-> IF k = "1" THEN EndRoute ELSE Goto("menu")])],
      Form(<<"e", "g">>, Inputs, NoState)>>)

AllFlows ==
  {Generated(n) : n \in 0 .. 511} \cup {FormFlow, MyBank, Shop, ShopByHand, Diagnostics}
ByHandFlows == {BasicMenu, Registration, Languages, Express, ErrorRecovery, HealthChecks}
=============================================================================
