-------------------------- MODULE CheckoutContract --------------------------
(***************************************************************************)
(* What the two services together promise about a checkout, with the       *)
(* databases, messages, leases and retries left out: stock is taken at     *)
(* most once per checkout and all items at a time, an order is confirmed   *)
(* only over stock it holds and then keeps it, and stock is given back at  *)
(* most once and only after the checkout was refused.                      *)
(*                                                                         *)
(* Take is allowed after Refuse: a ReserveStock call its caller gave up on *)
(* may still be executed (README.md, findings).                            *)
(***************************************************************************)
EXTENDS Integers

CONSTANTS Product, Checkout, Basket, Items, InitialStock, NoBasket

VARIABLES
    shelf,          \* units of each product nobody holds
    hold,           \* "NONE", "RESERVED" or "RELEASED" per checkout
    wants,          \* the basket asked for
    outcome         \* "open", "confirmed" or "refused"

contract == <<shelf, hold, wants, outcome>>

Init ==
    /\ shelf = InitialStock
    /\ hold = [c \in Checkout |-> "NONE"]
    /\ wants = [c \in Checkout |-> NoBasket]
    /\ outcome = [c \in Checkout |-> "open"]

Ask(c, b) ==
    /\ wants[c] = NoBasket
    /\ wants' = [wants EXCEPT ![c] = b]
    /\ UNCHANGED <<shelf, hold, outcome>>

Take(c) ==
    /\ wants[c] # NoBasket
    /\ hold[c] = "NONE"
    /\ outcome[c] # "confirmed"
    /\ \A p \in Product : shelf[p] >= Items[wants[c]][p]
    /\ shelf' = [p \in Product |-> shelf[p] - Items[wants[c]][p]]
    /\ hold' = [hold EXCEPT ![c] = "RESERVED"]
    /\ UNCHANGED <<wants, outcome>>

Confirm(c) ==
    /\ outcome[c] = "open"
    /\ hold[c] = "RESERVED"
    /\ outcome' = [outcome EXCEPT ![c] = "confirmed"]
    /\ UNCHANGED <<shelf, hold, wants>>

Refuse(c) ==
    /\ wants[c] # NoBasket
    /\ outcome[c] = "open"
    /\ outcome' = [outcome EXCEPT ![c] = "refused"]
    /\ UNCHANGED <<shelf, hold, wants>>

GiveBack(c) ==
    /\ outcome[c] = "refused"
    /\ hold[c] = "RESERVED"
    /\ shelf' = [p \in Product |-> shelf[p] + Items[wants[c]][p]]
    /\ hold' = [hold EXCEPT ![c] = "RELEASED"]
    /\ UNCHANGED <<wants, outcome>>

Next ==
    \E c \in Checkout :
        \/ \E b \in Basket : Ask(c, b)
        \/ Take(c) \/ Confirm(c) \/ Refuse(c) \/ GiveBack(c)

Spec == Init /\ [][Next]_contract
=============================================================================
