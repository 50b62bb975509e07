----------------------------- MODULE StockCache -----------------------------
(***************************************************************************)
(* product-service's stock counters: PostgreSQL holds the stock, Redis a   *)
(* copy of it.  POST /products/:id/decrement takes a purchase from the     *)
(* Redis counter first and then, unconditionally, from PostgreSQL;         *)
(* reservations and the legacy RPCs change PostgreSQL alone; the sync job  *)
(* reseeds Redis from PostgreSQL.  Every command and statement is an       *)
(* action, so that all of them interleave.                                 *)
(*                                                                         *)
(* A purchase of an unknown product or an ended sale changes nothing and   *)
(* is left out.  The quantity of a purchase is whatever integer the        *)
(* request's body holds: nothing validates it, so that a negative one adds *)
(* to the stock.  Time is abstracted: a sync round may start at any time,  *)
(* also while an earlier one is not finished, and a key may expire (or     *)
(* Redis restart empty) whenever it exists, any number of times.           *)
(***************************************************************************)
EXTENDS Integers, FiniteSets, FiniteSetsExt

CONSTANTS
    Product,
    Buyer,          \* decrement requests
    Syncer,         \* sync rounds that may overlap
    Quantity,       \* quantities of reservations and RPCs, which are validated
    PurchaseQuantity,   \* quantities of purchases, which are not
    InitialStock,   \* stock a product is created with
    Missing,        \* no such row, or no such key
    MaxDisturbances \* bound on writes by reservations and RPCs and on resent commands

ASSUME CacheAssumption ==
    /\ Quantity \subseteq Nat \ {0}
    /\ PurchaseQuantity \subseteq Int
    /\ InitialStock \in Nat
    /\ Missing \notin Int
    /\ MaxDisturbances \in Nat

VARIABLES
    pg,         \* stock column of each product
    cache,      \* key stock:<id> of each product
    seeding,    \* products inserted and not yet seeded in Redis
    step,       \* next step of each request and sync round
    want,       \* product and quantity of each request
    snapshot,   \* what a round's findMany returned
    todo,       \* products a round has still to compare
    stale,      \* the product a round is about to reseed
    disturbances, \* writes by reservations and RPCs, and resent commands, so far
    overstated  \* history: the most by which Redis ever overstated a stock

processes == <<seeding, step, want, snapshot, todo, stale>>
vars == <<pg, cache, processes, disturbances, overstated>>

Existing == {p \in Product : pg[p] # Missing}
NoPurchase == [product |-> Missing, quantity |-> 0]

TypeOK ==
    /\ pg \in [Product -> Int \cup {Missing}]
    /\ cache \in [Product -> Int \cup {Missing}]
    /\ seeding \subseteq Existing
    /\ step \in [Buyer \cup Syncer ->
                    {"idle", "decrby", "undo", "commit", "done", "compare", "reseed"}]
    /\ want \in [Buyer -> [product : Product, quantity : PurchaseQuantity] \cup {NoPurchase}]
    /\ snapshot \in [Syncer -> [Product -> Int \cup {Missing}]]
    /\ todo \in [Syncer -> SUBSET Existing]
    /\ stale \in [Syncer -> Existing \cup {Missing}]
    /\ disturbances \in 0 .. MaxDisturbances
    /\ overstated \in [Product -> Nat]

Init ==
    /\ pg = [p \in Product |-> Missing]
    /\ cache = pg
    /\ seeding = {}
    /\ step = [x \in Buyer \cup Syncer |-> "idle"]
    /\ want = [b \in Buyer |-> NoPurchase]
    /\ snapshot = [s \in Syncer |-> pg]
    /\ todo = [s \in Syncer |-> {}]
    /\ stale = [s \in Syncer |-> Missing]
    /\ disturbances = 0
    /\ overstated = [p \in Product |-> 0]

Goto(x, l) == step' = [step EXCEPT ![x] = l]

(* A counter command treats a missing key as 0.                            *)
Counter(p) == IF cache[p] = Missing THEN 0 ELSE cache[p]

(* A request for a quantity above zero takes stock; others return some, or *)
(* do nothing.                                                             *)
Buys(b) == want[b].quantity > 0

(* Quantities of the requests that buy a product and are at a step.        *)
Outstanding(p, l) ==
    MapThenSumSet(LAMBDA b : want[b].quantity,
                  {b \in Buyer : step[b] = l /\ want[b].product = p /\ Buys(b)})

(* How much more Redis grants, once rejected requests are undone, or has   *)
(* granted, than PostgreSQL has left.                                      *)
Overstatement(p) ==
    Max({Counter(p) + Outstanding(p, "undo"), 0}) + Outstanding(p, "commit") - pg[p]

(* Every write that is not a step of a request that buys notes what it     *)
(* causes.                                                                 *)
NoteOverstatement(p) == overstated' = [overstated EXCEPT ![p] = Max({@, Overstatement(p)'})]

-----------------------------------------------------------------------------
(* Products                                                                *)

(* Mutant: the product is announced to Redis before it is inserted.        *)
CreateSeedFirst(p) ==
    /\ p \notin Existing
    /\ seeding' = seeding \cup {p}
    /\ UNCHANGED <<pg, cache, step, want, snapshot, todo, stale, disturbances, overstated>>

(* The row is committed before the key exists.                             *)
Create(p) ==
    /\ p \notin Existing
    /\ pg' = [pg EXCEPT ![p] = InitialStock]
    /\ seeding' = seeding \cup {p}
    /\ UNCHANGED <<cache, step, want, snapshot, todo, stale, disturbances, overstated>>

(* The stock that was inserted, whatever was taken meanwhile.              *)
Seed(p) ==
    /\ p \in seeding
    /\ cache' = [cache EXCEPT ![p] = InitialStock]
    /\ seeding' = seeding \ {p}
    /\ UNCHANGED <<pg, step, want, snapshot, todo, stale, disturbances>>
    /\ NoteOverstatement(p)

(* The SET fails or the process dies before it.                            *)
SeedFails(p) ==
    /\ p \in seeding
    /\ seeding' = seeding \ {p}
    /\ UNCHANGED <<pg, cache, step, want, snapshot, todo, stale, disturbances, overstated>>

Disturb == disturbances < MaxDisturbances /\ disturbances' = disturbances + 1

(* ReserveStock and DecrementStock: a conditional update of PostgreSQL.    *)
TakeStock(p, q) ==
    /\ Disturb
    /\ p \in Existing /\ pg[p] >= q
    /\ pg' = [pg EXCEPT ![p] = @ - q]
    /\ UNCHANGED <<cache, processes>>
    /\ NoteOverstatement(p)

(* ReleaseStock and IncrementStock.                                        *)
ReturnStock(p, q) ==
    /\ Disturb
    /\ p \in Existing
    /\ pg' = [pg EXCEPT ![p] = @ + q]
    /\ UNCHANGED <<cache, processes, overstated>>

(* The 24 hours since the key's last SET pass (DECRBY, INCRBY and a sync   *)
(* round that finds it healthy do not renew them), or Redis restarts empty.*)
LoseKey(p) ==
    /\ cache[p] # Missing
    /\ cache' = [cache EXCEPT ![p] = Missing]
    /\ UNCHANGED <<pg, processes, disturbances>>
    /\ NoteOverstatement(p)

-----------------------------------------------------------------------------
(* A purchase: decrementStock                                              *)
FindProduct(b, p, q) ==
    /\ step[b] = "idle" /\ p \in Existing
    /\ want' = [want EXCEPT ![b] = [product |-> p, quantity |-> q]]
    /\ Goto(b, "decrby")
    /\ UNCHANGED <<pg, cache, seeding, snapshot, todo, stale, disturbances, overstated>>

AddToCounter(b, n) ==
    LET p == want[b].product IN
    /\ cache' = [cache EXCEPT ![p] = Counter(p) + n]
    /\ UNCHANGED <<pg, seeding, want, snapshot, todo, stale, disturbances>>
    /\ IF Buys(b) THEN UNCHANGED overstated ELSE NoteOverstatement(p)

(* Mutant: the purchase is granted when any stock was left before it.      *)
DecrByOffByQuantity(b) ==
    /\ step[b] = "decrby"
    /\ Goto(b, IF Counter(want[b].product) <= 0 THEN "undo" ELSE "commit")
    /\ AddToCounter(b, -want[b].quantity)

DecrBy(b) ==
    /\ step[b] = "decrby"
    /\ Goto(b, IF Counter(want[b].product) - want[b].quantity < 0 THEN "undo" ELSE "commit")
    /\ AddToCounter(b, -want[b].quantity)

IncrBy(b) ==
    /\ step[b] = "undo"
    /\ Goto(b, "done")
    /\ AddToCounter(b, want[b].quantity)

(* The decrement of PostgreSQL has no condition.                           *)
CommitPurchase(b) ==
    /\ step[b] = "commit"
    /\ pg' = [pg EXCEPT ![want[b].product] = @ - want[b].quantity]
    /\ Goto(b, "done")
    /\ UNCHANGED <<cache, seeding, want, snapshot, todo, stale, disturbances, overstated>>

(* The connection breaks between a command and its answer, and the client  *)
(* library sends the command again.                                        *)
Resend(b) ==
    LET p == want[b].product IN
    /\ Disturb
    /\ \/ step[b] = "decrby" /\ cache' = [cache EXCEPT ![p] = Counter(p) - want[b].quantity]
       \/ step[b] = "undo" /\ cache' = [cache EXCEPT ![p] = Counter(p) + want[b].quantity]
    /\ UNCHANGED <<pg, processes>>
    /\ NoteOverstatement(p)

(* A command or statement fails (also for a quantity Redis or Prisma does  *)
(* not take), or the process dies: the request ends half done.  DECRBY may *)
(* have taken effect.                                                      *)
PurchaseFails(b) ==
    /\ Goto(b, "done")
    /\ \/ step[b] = "decrby" /\ AddToCounter(b, -want[b].quantity)
       \/ /\ step[b] \in {"decrby", "undo", "commit"}
          /\ UNCHANGED <<pg, cache, seeding, want, snapshot, todo, stale, disturbances, overstated>>

-----------------------------------------------------------------------------
(* The sync job                                                            *)
StartSync(s) ==
    /\ step[s] = "idle" /\ Existing # {}
    /\ snapshot' = [snapshot EXCEPT ![s] = pg]
    /\ todo' = [todo EXCEPT ![s] = Existing]
    /\ Goto(s, "compare")
    /\ UNCHANGED <<pg, cache, seeding, want, stale, disturbances, overstated>>

(* The loop goes on to the other products; p's row is not used again.      *)
GoOn(s, p) ==
    /\ Goto(s, IF todo'[s] = {} THEN "idle" ELSE "compare")
    /\ snapshot' = [snapshot EXCEPT ![s][p] = Missing]

(* Mutant: a missing key counts as healthy.                                *)
CompareSkippingMissing(s, p) ==
    /\ step[s] = "compare" /\ p \in todo[s]
    /\ todo' = [todo EXCEPT ![s] = @ \ {p}]
    /\ IF cache[p] \notin {snapshot[s][p], Missing}
       THEN Goto(s, "reseed") /\ stale' = [stale EXCEPT ![s] = p] /\ UNCHANGED snapshot
       ELSE GoOn(s, p) /\ UNCHANGED stale
    /\ UNCHANGED <<pg, cache, seeding, want, disturbances, overstated>>

(* GET: a key that is missing or differs from the snapshot is reseeded.    *)
Compare(s, p) ==
    /\ step[s] = "compare" /\ p \in todo[s]
    /\ todo' = [todo EXCEPT ![s] = @ \ {p}]
    /\ IF cache[p] # snapshot[s][p]
       THEN Goto(s, "reseed") /\ stale' = [stale EXCEPT ![s] = p] /\ UNCHANGED snapshot
       ELSE GoOn(s, p) /\ UNCHANGED stale
    /\ UNCHANGED <<pg, cache, seeding, want, disturbances, overstated>>

(* SET to the stock of the snapshot.                                       *)
Reseed(s, p) ==
    /\ step[s] = "reseed" /\ p = stale[s]
    /\ cache' = [cache EXCEPT ![p] = snapshot[s][p]]
    /\ stale' = [stale EXCEPT ![s] = Missing]
    /\ UNCHANGED <<pg, seeding, want, todo, disturbances>>
    /\ GoOn(s, p)
    /\ NoteOverstatement(p)

(* A Redis command fails and ends the round.                               *)
SyncFails(s) ==
    /\ step[s] \in {"compare", "reseed"}
    /\ Goto(s, "idle")
    /\ todo' = [todo EXCEPT ![s] = {}]
    /\ snapshot' = [snapshot EXCEPT ![s] = [p \in Product |-> Missing]]
    /\ stale' = [stale EXCEPT ![s] = Missing]
    /\ UNCHANGED <<pg, cache, seeding, want, disturbances, overstated>>

-----------------------------------------------------------------------------
Purchase(b) == DecrBy(b) \/ IncrBy(b) \/ CommitPurchase(b)
Sync(s) == StartSync(s) \/ \E p \in Product : Compare(s, p) \/ Reseed(s, p)

Next ==
    \/ \E p \in Product : Create(p) \/ Seed(p) \/ SeedFails(p) \/ LoseKey(p)
    \/ \E p \in Product, q \in Quantity : TakeStock(p, q) \/ ReturnStock(p, q)
    \/ \E b \in Buyer, p \in Product, q \in PurchaseQuantity : FindProduct(b, p, q)
    \/ \E b \in Buyer : Purchase(b) \/ Resend(b) \/ PurchaseFails(b)
    \/ \E s \in Syncer : Sync(s) \/ SyncFails(s)

Spec == Init /\ [][Next]_vars

(* A request that was accepted ends, a created product is seeded or not,   *)
(* setInterval starts rounds forever and each ends; in one of the slots    *)
(* rounds overlap in, not every command fails.                             *)
LiveSpec ==
    /\ Spec
    /\ \A p \in Product : WF_vars(Seed(p) \/ SeedFails(p))
    /\ \A b \in Buyer : WF_vars(Purchase(b) \/ PurchaseFails(b))
    /\ \A s \in Syncer : WF_vars(Sync(s) \/ SyncFails(s))
    /\ \E s \in Syncer : \A p \in Product : SF_vars(Compare(s, p)) /\ SF_vars(Reseed(s, p))

-----------------------------------------------------------------------------
(* Requests that buy, however many interleave or end half done, take no    *)
(* more than there is, except for what something else made Redis           *)
(* overstate: a reservation or RPC it does not know of, a seed or reseed   *)
(* of a stock that has changed or does not count purchases granted but not *)
(* committed, a key lost between DECRBY and INCRBY, a command executed     *)
(* twice, a request for a negative quantity, which DECRBY adds to the      *)
(* counter before PostgreSQL has it (decrementStock, StockSyncJob.run).    *)
OversellIsAccounted == \A p \in Existing : pg[p] >= -overstated[p]

(* "A background sync job [...] detects drift, and reseeds from Postgres   *)
(* as the source of truth" (README.md:95), although keys expire for ever   *)
(* and rounds overlap: Redis agrees with PostgreSQL again and again, and,  *)
(* some time after purchases and other writes cease, a key that is there   *)
(* shows no other stock.                                                   *)
DriftHeals ==
    \A p \in Product :
        /\ []<>(p \in Existing => cache[p] = pg[p])
        /\ <>[](p \in Existing => cache[p] \in {pg[p], Missing})

(* "Undo the decrement -- stock can't go negative" (product.services.ts).  *)
StockNotNegative == \A p \in Existing : pg[p] >= 0
=============================================================================
