---------------------------- MODULE StockLedger ----------------------------
(***************************************************************************)
(* What product-service's stock-reservation service promises its callers:  *)
(* an atomic ledger of product stock and checkout reservations.  A         *)
(* reservation is keyed by the checkout (the order workflow's id) and      *)
(* carries the hash of its normalised items; here the hash IS the basket   *)
(* (SHA-256 taken as injective) and Items[b][p] is the quantity of product *)
(* p in basket b, 0 when absent.  A product that does not exist behaves    *)
(* as one whose stock is 0: the conditional update matches no row.         *)
(*                                                                         *)
(* StockTransactions shows that the SQL of the service implements this     *)
(* ledger; CheckoutSaga uses it as the far end of its RPCs.                *)
(***************************************************************************)
EXTENDS Integers, FiniteSets, FiniteSetsExt

CONSTANTS
    Product,        \* product ids
    Checkout,       \* workflow ids = reservation ids
    Basket,         \* normalised item lists (equivalently their hashes)
    Items,          \* Items[b][p]: quantity of p in b
    InitialStock,   \* stock of each product before the first checkout
    NoBasket        \* the basket of a reservation that does not exist

ASSUME LedgerAssumption ==
    /\ Items \in [Basket -> [Product -> Nat]]
    /\ InitialStock \in [Product -> Nat]
    /\ NoBasket \notin Basket

VARIABLES
    stock,          \* products.stock
    reservation,    \* stock_reservations.status, "NONE" when there is no row
    reserved        \* the basket (request hash and items) of the row

ledger == <<stock, reservation, reserved>>

ReservationStatus == {"NONE", "RESERVED", "RELEASED"}

LedgerTypeOK ==
    /\ stock \in [Product -> Nat]
    /\ reservation \in [Checkout -> ReservationStatus]
    /\ reserved \in [Checkout -> Basket \cup {NoBasket}]

LedgerInit ==
    /\ stock = InitialStock
    /\ reservation = [c \in Checkout |-> "NONE"]
    /\ reserved = [c \in Checkout |-> NoBasket]

Sufficient(b) == \A p \in Product : stock[p] >= Items[b][p]

(* getReservation: the row's status, unless it is of another request.      *)
GetReservation(c, b) ==
    IF reservation[c] # "NONE" /\ reserved[c] # b THEN "CONFLICT" ELSE reservation[c]

(* What reserveStock answers for checkout c and basket b in this state.    *)
ReserveAnswer(c, b) ==
    IF reservation[c] # "NONE"
    THEN IF reserved[c] = b THEN reservation[c] ELSE "CONFLICT"
    ELSE IF Sufficient(b) THEN "RESERVED" ELSE "INSUFFICIENT"

(* Mutant: stock is taken without looking at it.                           *)
ReserveUnchecked(c, b) ==
    IF reservation[c] = "NONE"
    THEN /\ stock' = [p \in Product |-> stock[p] - Items[b][p]]
         /\ reservation' = [reservation EXCEPT ![c] = "RESERVED"]
         /\ reserved' = [reserved EXCEPT ![c] = b]
    ELSE UNCHANGED ledger

(* reserveStock: all items or none; a repeated id changes nothing.         *)
Reserve(c, b) ==
    IF reservation[c] = "NONE" /\ Sufficient(b)
    THEN /\ stock' = [p \in Product |-> stock[p] - Items[b][p]]
         /\ reservation' = [reservation EXCEPT ![c] = "RESERVED"]
         /\ reserved' = [reserved EXCEPT ![c] = b]
    ELSE UNCHANGED ledger

(* releaseStock: only the RESERVED -> RELEASED step restores stock.        *)
Release(c, b) ==
    IF reservation[c] = "RESERVED" /\ reserved[c] = b
    THEN /\ stock' = [p \in Product |-> stock[p] + Items[b][p]]
         /\ reservation' = [reservation EXCEPT ![c] = "RELEASED"]
         /\ UNCHANGED reserved
    ELSE UNCHANGED ledger

LedgerNext ==
    \E c \in Checkout, b \in Basket : Reserve(c, b) \/ Release(c, b)

LedgerSpec == LedgerInit /\ [][LedgerNext]_ledger

-----------------------------------------------------------------------------
(* Units of p held by live reservations.                                   *)
Held(p) ==
    LET Taken(c) == IF reservation[c] = "RESERVED" THEN Items[reserved[c]][p] ELSE 0
    IN  MapThenSumSet(Taken, Checkout)

(* No unit is created or lost: what the shelf and the live reservations    *)
(* hold is always the stock the products started with (the rollback and    *)
(* the compare-and-set of reserveStock and releaseStock).                  *)
StockConserved == \A p \in Product : stock[p] + Held(p) = InitialStock[p]
=============================================================================
