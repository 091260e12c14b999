------------------------------- MODULE Market -------------------------------
(***************************************************************************)
(* The market demo: carts kept in sessions, and orders placed, cancelled   *)
(* and updated by three Redis scripts (marketStore.js), which keep an      *)
(* effect's result under the turn's idempotency key so that a turn whose   *)
(* answer was lost is recovered (provider.js) or repeated, never redone.   *)
(*                                                                         *)
(* A session is keyed when its turns come through the turn gateway, and    *)
(* legacy when they come through POST /ussd, without a key.                *)
(***************************************************************************)
EXTENDS Naturals, Sequences, FiniteSets

CONSTANTS
  Skus, Seed,       \* the products and their initial stock
  Shoppers, Keyed,  \* session identifiers; those whose turns carry a key
  Phone,            \* the caller of each session
  Quantities,       \* quantities a subscriber asks for
  MaxTurns,         \* bound on the turns of a session that reach the store
  MaxVersion        \* bound on the versions of order events

ASSUME MarketAssumption ==
  /\ Seed \in [Skus -> Nat] /\ Quantities \subseteq Nat
  /\ Keyed \subseteq Shoppers /\ MaxTurns \in Nat \ {0}

VARIABLES
  stock, orders,         \* Redis: what is left of each product; the orders,
  orderEvents,           \* the version of the last update of each, 0 for none,
  checkout, operation,   \* and the keys of a day: of a session, of a turn
  visits,   \* of a session: state, cart, viewed order, number of its turn
  answered  \* of a turn with a key: the last answer composed for it
marketVars == <<stock, orders, orderEvents, checkout, operation, visits, answered>>

Nothing == [kind |-> "none"]
TurnKeys == Keyed \X (1 .. MaxTurns)
EmptyCart == [sku \in Skus |-> 0]
Visit(state, turn) == [state |-> state, cart |-> EmptyCart, viewed |-> 0, turn |-> turn]

KeyOf(s) == <<s, visits[s].turn>>
HasOperation(s) == s \in Keyed /\ operation[KeyOf(s)] # Nothing

\* finish(result): the result is kept under the key, when there is one.
Kept(s, result) ==
  operation' = IF s \in Keyed THEN [operation EXCEPT ![KeyOf(s)] = result] ELSE operation

-----------------------------------------------------------------------------
(* PLACE_ORDER                                                             *)

Short(cart) == {sku \in Skus : stock[sku] < cart[sku]}

PlacedResult(id) == [kind |-> "created", id |-> id]
ExistingResult(id) == [kind |-> "existing", id |-> id, status |-> orders[id].status]
ShortResult == [kind |-> "out_of_stock"]

PlaceResult(s) ==
  IF HasOperation(s) THEN operation[KeyOf(s)]
  ELSE IF checkout[s] # 0 THEN ExistingResult(checkout[s])
  ELSE IF Short(visits[s].cart) # {} THEN ShortResult
  ELSE PlacedResult(Len(orders) + 1)

Order(s) == [phone |-> Phone[s], items |-> visits[s].cart, status |-> "placed"]

Place(s) ==
  LET result == PlaceResult(s)
      places == ~HasOperation(s) /\ result.kind = "created"
  IN  /\ Kept(s, result)
      /\ IF places
         THEN /\ orders' = Append(orders, Order(s))
              /\ orderEvents' = Append(orderEvents, 0)
              /\ stock' = [sku \in Skus |-> stock[sku] - visits[s].cart[sku]]
              /\ checkout' = [checkout EXCEPT ![s] = result.id]
         ELSE UNCHANGED <<orders, orderEvents, stock, checkout>>

\* What placeOrder tells the handler: the status an existing order had when
\* the turn's key was stored, or has now for a turn without a key.
StatusNow(s, result) == orders[result.id].status  \* mutant
StatusTold(s, result) ==
  IF s \in Keyed THEN result.status ELSE orders[result.id].status
PlaceAnswer(s, result) ==
  CASE result.kind = "created"  -> [status |-> "created", id |-> result.id]
    [] result.kind = "existing" ->
         [id |-> result.id,
          status |-> IF StatusTold(s, result) = "placed" THEN "existing" ELSE StatusTold(s, result)]
    [] OTHER -> [status |-> "out_of_stock", id |-> 0]

-----------------------------------------------------------------------------
(* CANCEL_ORDER and ORDER_EVENT                                            *)

Owns(s, id) == orders[id].phone = Phone[s]

CancelResultTwice(s) ==  \* mutant: the order's status is not looked at
  LET id == visits[s].viewed IN
  IF HasOperation(s) THEN operation[KeyOf(s)]
  ELSE IF ~Owns(s, id) THEN [kind |-> "missing", id |-> id]
  ELSE [kind |-> "cancelled", id |-> id]

CancelResult(s) ==
  LET id == visits[s].viewed IN
  IF HasOperation(s) THEN operation[KeyOf(s)]
  ELSE IF ~Owns(s, id) THEN [kind |-> "missing", id |-> id]
  ELSE IF orders[id].status # "placed" THEN [kind |-> "already", id |-> id]
  ELSE [kind |-> "cancelled", id |-> id]

Cancel(s) ==
  LET result == CancelResult(s)
      cancels == ~HasOperation(s) /\ result.kind = "cancelled"
  IN  /\ Kept(s, result)
      /\ IF cancels
         THEN /\ orders' = [orders EXCEPT ![result.id].status = "cancelled"]
              /\ stock' = [sku \in Skus |-> stock[sku] + orders[result.id].items[sku]]
         ELSE UNCHANGED <<orders, stock>>
      /\ UNCHANGED <<orderEvents, checkout>>

CancelAnswer(result) == [status |-> result.kind, id |-> result.id]

\* An update is accepted when it is newer than the last and the order stands.
AcceptOrderEvent(id, version) ==
  /\ version > orderEvents[id]
  /\ orders[id].status = "placed"
  /\ orderEvents' = [orderEvents EXCEPT ![id] = version]
  /\ UNCHANGED <<stock, orders, checkout, operation, visits, answered>>

-----------------------------------------------------------------------------
(* The application's states (app.js)                                       *)

\* QUANTITY: the stock is read now, the cart is placed later.
Add(s, sku, quantity) ==
  /\ visits[s].state = "CART" /\ quantity <= stock[sku]
  /\ visits' = [visits EXCEPT ![s].cart[sku] = quantity]
  /\ UNCHANGED <<stock, orders, orderEvents, checkout, operation, answered>>

\* PICKUP: the total of the cart is shown and its confirmation asked for.
Pickup(s) ==
  /\ visits[s].state = "CART" /\ visits[s].cart # EmptyCart
  /\ visits' = [visits EXCEPT ![s].state = "CONFIRM"]
  /\ UNCHANGED <<stock, orders, orderEvents, checkout, operation, answered>>

\* ORDER_CODE: an order of the caller is looked up.
View(s, id) ==
  /\ visits[s].state = "CART" /\ Owns(s, id)
  /\ visits' = [visits EXCEPT ![s].state = "ORDER_DETAIL", ![s].viewed = id]
  /\ UNCHANGED <<stock, orders, orderEvents, checkout, operation, answered>>

\* Where the session goes with an answer: the subscriber edits the cart, or
\* the session is over.
Goes(s, answer) ==
  visits' = IF answer.status = "out_of_stock"
            THEN [visits EXCEPT ![s].state = IF visits[s].turn < MaxTurns THEN "CART" ELSE "over",
                                ![s].turn = IF @ < MaxTurns THEN @ + 1 ELSE @]
            ELSE [visits EXCEPT ![s].state = "over"]

\* The turn is committed with its answer, or lost after its effect.
Told(s, answer) ==
  /\ answered' = IF s \in Keyed THEN [answered EXCEPT ![KeyOf(s)] = answer] ELSE answered
  /\ Goes(s, answer) \/ UNCHANGED visits

\* CONFIRM and ORDER_DETAIL with input 1, run once or again with their key.
Confirm(s) ==
  /\ visits[s].state = "CONFIRM"
  /\ Place(s)
  /\ Told(s, PlaceAnswer(s, PlaceResult(s)))

CancelViewed(s) ==
  /\ visits[s].state = "ORDER_DETAIL"
  /\ Cancel(s)
  /\ Told(s, CancelAnswer(CancelResult(s)))

\* readOperation: the effect's result, not the order's present state; an
\* order that could not be placed is not reconstructed.
Recover(s) ==
  /\ HasOperation(s) /\ operation[KeyOf(s)].kind # "out_of_stock"
  /\ CASE visits[s].state = "CONFIRM" -> Told(s, PlaceAnswer(s, operation[KeyOf(s)]))
       [] visits[s].state = "ORDER_DETAIL" -> Told(s, CancelAnswer(operation[KeyOf(s)]))
       [] OTHER -> FALSE
  /\ UNCHANGED <<stock, orders, orderEvents, checkout, operation>>

\* The stored session's five minutes end: its identifier starts again, the
\* keys of a day still there.
Revisit(s) ==
  /\ visits[s].turn < MaxTurns /\ visits[s] # Visit("CART", visits[s].turn)
  /\ visits' = [visits EXCEPT ![s] = Visit("CART", @.turn + 1)]
  /\ UNCHANGED <<stock, orders, orderEvents, checkout, operation, answered>>

MarketInit ==
  /\ stock = Seed /\ orders = <<>> /\ orderEvents = <<>>
  /\ checkout = [s \in Shoppers |-> 0]
  /\ operation = [k \in TurnKeys |-> Nothing]
  /\ visits = [s \in Shoppers |-> Visit("CART", 1)]
  /\ answered = [k \in TurnKeys |-> Nothing]

MarketNext ==
  \/ \E s \in Shoppers :
       \/ Pickup(s) \/ Confirm(s) \/ CancelViewed(s) \/ Recover(s) \/ Revisit(s)
       \/ \E sku \in Skus, quantity \in Quantities : Add(s, sku, quantity)
       \/ \E id \in DOMAIN orders : View(s, id)
  \/ \E id \in DOMAIN orders, version \in 1 .. MaxVersion : AcceptOrderEvent(id, version)

MarketSpec == MarketInit /\ [][MarketNext]_marketVars

-----------------------------------------------------------------------------
(* Properties                                                              *)

\* The units of a product in the orders that stand.
Standing == {id \in DOMAIN orders : orders[id].status = "placed"}
Units(sku) == UNION {{id} \X (1 .. orders[id].items[sku]) : id \in Standing}
Reserved(sku) == Cardinality(Units(sku))

\* Stock is conserved: what is left and what stands in orders is what there
\* was, however turns are repeated, recovered, raced or cancelled, and none
\* of it is negative.
StockConserved ==
  \A sku \in Skus : stock[sku] \in Nat /\ stock[sku] + Reserved(sku) = Seed[sku]

\* A turn with a key gets one answer: repeated or recovered, whatever
\* happened to its order meanwhile.
AnswersStable ==
  [][\A k \in TurnKeys : answered[k] # Nothing => answered'[k] = answered[k]]_answered

\* What callers see of an order moves one way: cancelled orders stay
\* cancelled and take no update, and updates never go back.
OrdersMoveOn ==
  [][\A id \in DOMAIN orders :
       /\ orders[id].status = "cancelled" =>
            orders'[id].status = "cancelled" /\ orderEvents'[id] = orderEvents[id]
       /\ orderEvents'[id] >= orderEvents[id]]_marketVars

\* What a caller has been told stays true of what is told next.
OrdersAsTold == AnswersStable /\ OrdersMoveOn
=============================================================================
