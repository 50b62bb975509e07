------------------------- MODULE StockTransactions -------------------------
(***************************************************************************)
(* The SQL of product-service's reserveStock and releaseStock, statement   *)
(* by statement, as PostgreSQL runs it at READ COMMITTED (Prisma's         *)
(* default): a statement sees the rows committed when it starts; an UPDATE *)
(* waits for the lock of the row and re-evaluates its WHERE on the row the *)
(* lock's last holder left; an INSERT waits for an uncommitted row of the  *)
(* same key and fails on the unique index (P2002) once that row commits.   *)
(*                                                                         *)
(* stock, reservation and reserved hold the COMMITTED rows.  Row locks are *)
(* not variables: a transaction in "update" holds its reservation row and  *)
(* the product rows in updated[t].                                         *)
(***************************************************************************)
EXTENDS StockLedger

CONSTANTS
    Tx,             \* database connections, one running transaction each
    Rank            \* the order normalizeItems sorts product ids in

ASSUME TransactionAssumption ==
    /\ Rank \in [Product -> Nat]
    /\ \A p, q \in Product : Rank[p] = Rank[q] => p = q

VARIABLES
    pc,             \* next statement of t, or the answer its call ended with
    op,             \* "reserve" or "release"
    cid,            \* the reservation id t was called with
    bas,            \* the basket (hash) t was called with
    updated         \* product rows t has updated and keeps locked

txVars == <<pc, op, cid, bas, updated>>
vars == <<ledger, txVars>>

Statement == {"find", "create", "claim", "update", "reread", "current"}
Answer == {"idle", "RESERVED", "RELEASED", "INSUFFICIENT", "NOT_FOUND", "CONFLICT", "ERROR"}

TypeOK ==
    /\ stock \in [Product -> Int]
    /\ reservation \in [Checkout -> ReservationStatus]
    /\ reserved \in [Checkout -> Basket \cup {NoBasket}]
    /\ pc \in [Tx -> Statement \cup Answer]
    /\ op \in [Tx -> {"reserve", "release"}]
    /\ cid \in [Tx -> Checkout]
    /\ bas \in [Tx -> Basket]
    /\ updated \in [Tx -> SUBSET Product]

Init ==
    /\ LedgerInit
    /\ pc = [t \in Tx |-> "idle"]
    /\ op = [t \in Tx |-> "reserve"]
    /\ cid \in [Tx -> Checkout]
    /\ bas \in [Tx -> Basket]
    /\ updated = [t \in Tx |-> {}]

-----------------------------------------------------------------------------
(* Row locks.                                                              *)
HoldsKey(t, c) == pc[t] = "update" /\ cid[t] = c
KeyFree(t, c) == \A u \in Tx \ {t} : ~HoldsKey(u, c)
RowFree(t, p) == \A u \in Tx \ {t} : p \notin updated[u]

(* Product rows t still has to update, and the one the sorted loop takes   *)
(* next.                                                                   *)
Remaining(t) == {p \in Product : Items[bas[t]][p] > 0} \ updated[t]
IsRemaining(t, p) == p \in Remaining(t)     \* mutant of IsNext: items not sorted
IsNext(t, p) == p \in Remaining(t) /\ \A q \in Remaining(t) : Rank[p] <= Rank[q]

Goto(t, l) ==
    /\ pc' = [pc EXCEPT ![t] = l]
    /\ UNCHANGED <<ledger, op, cid, bas, updated>>

(* The transaction ends without effect and drops its locks.                *)
Rollback(t, answer) ==
    /\ pc' = [pc EXCEPT ![t] = answer]
    /\ updated' = [updated EXCEPT ![t] = {}]
    /\ UNCHANGED <<ledger, op, cid, bas>>

-----------------------------------------------------------------------------
Call(t, o, c, b) ==
    /\ pc[t] \in Answer
    /\ pc' = [pc EXCEPT ![t] = "find"]
    /\ op' = [op EXCEPT ![t] = o]
    /\ cid' = [cid EXCEPT ![t] = c]
    /\ bas' = [bas EXCEPT ![t] = b]
    /\ UNCHANGED <<ledger, updated>>

(* Mutant: the stored hash is not compared.                                *)
MatchAnyHash(t) == reservation[cid[t]]

(* The answer an existing row gives to a call with t's hash.               *)
Match(t) == IF reserved[cid[t]] = bas[t] THEN reservation[cid[t]] ELSE "CONFLICT"

FindForReserve(t) ==
    /\ pc[t] = "find" /\ op[t] = "reserve"
    /\ Goto(t, IF reservation[cid[t]] = "NONE" THEN "create" ELSE Match(t))

(* Mutant: no unique key on the reservation.                               *)
CreateAgain(t) ==
    /\ pc[t] = "create"
    /\ Goto(t, "update")

CreateReservation(t) ==
    /\ pc[t] = "create"
    /\ KeyFree(t, cid[t])
    /\ Goto(t, IF reservation[cid[t]] = "NONE" THEN "update" ELSE "reread")

(* P2002: the losing creator re-reads the committed winner.                *)
RereadWinner(t) ==
    /\ pc[t] = "reread"
    /\ Goto(t, Match(t))

(* Mutant: the decrement does not look at the stock.                       *)
DecrementUnchecked(t, p) ==
    /\ pc[t] = "update" /\ op[t] = "reserve"
    /\ IsNext(t, p)
    /\ RowFree(t, p)
    /\ updated' = [updated EXCEPT ![t] = @ \cup {p}]
    /\ UNCHANGED <<ledger, pc, op, cid, bas>>

(* UPDATE ... SET stock = stock - q WHERE id = p AND stock >= q            *)
(* A row that does not match is not waited for.                            *)
Enough(t, p) == stock[p] >= Items[bas[t]][p]

DecrementRow(t, p) ==
    /\ pc[t] = "update" /\ op[t] = "reserve"
    /\ IsNext(t, p)
    /\ IF Enough(t, p)
       THEN /\ RowFree(t, p)
            /\ updated' = [updated EXCEPT ![t] = @ \cup {p}]
            /\ UNCHANGED <<ledger, pc, op, cid, bas>>
       ELSE Rollback(t, "INSUFFICIENT")

(* Mutant: a missing reservation is not told apart.                        *)
FindUnguarded(t) ==
    /\ pc[t] = "find" /\ op[t] = "release"
    /\ Goto(t, IF reservation[cid[t]] = "RESERVED" THEN "claim" ELSE reservation[cid[t]])

FindForRelease(t) ==
    LET c == cid[t] IN
    /\ pc[t] = "find" /\ op[t] = "release"
    /\ Goto(t, CASE reservation[c] = "NONE" -> "NOT_FOUND"
                 [] reservation[c] # "NONE" /\ reserved[c] # bas[t] -> "CONFLICT"
                 [] reservation[c] = "RELEASED" /\ reserved[c] = bas[t] -> "RELEASED"
                 [] OTHER -> "claim")

(* Mutant: the release is not claimed by compare-and-set.                  *)
ClaimUnconditional(t) ==
    /\ pc[t] = "claim"
    /\ KeyFree(t, cid[t])
    /\ Goto(t, "update")

(* UPDATE ... SET status = 'RELEASED' WHERE id = c AND status = 'RESERVED' *)
ClaimRelease(t) ==
    /\ pc[t] = "claim"
    /\ KeyFree(t, cid[t])
    /\ Goto(t, IF reservation[cid[t]] = "RESERVED" THEN "update" ELSE "current")

RereadStatus(t) ==
    /\ pc[t] = "current"
    /\ Goto(t, IF reservation[cid[t]] = "RELEASED" THEN "RELEASED" ELSE "ERROR")

IncrementRow(t, p) ==
    /\ pc[t] = "update" /\ op[t] = "release"
    /\ IsNext(t, p)
    /\ RowFree(t, p)
    /\ updated' = [updated EXCEPT ![t] = @ \cup {p}]
    /\ UNCHANGED <<ledger, pc, op, cid, bas>>

(* The rows written by t become visible together and its locks go.         *)
Commit(t) ==
    LET Change(p) == IF op[t] = "reserve" THEN -Items[bas[t]][p] ELSE Items[bas[t]][p]
        status == IF op[t] = "reserve" THEN "RESERVED" ELSE "RELEASED"
    IN
    /\ pc[t] = "update"
    /\ Remaining(t) = {}
    /\ stock' = [p \in Product |-> IF p \in updated[t] THEN stock[p] + Change(p) ELSE stock[p]]
    /\ reservation' = [reservation EXCEPT ![cid[t]] = status]
    /\ reserved' = [reserved EXCEPT ![cid[t]] = bas[t]]
    /\ pc' = [pc EXCEPT ![t] = status]
    /\ updated' = [updated EXCEPT ![t] = {}]
    /\ UNCHANGED <<op, cid, bas>>

(* The transaction's timeout, a lost connection or the end of the process: *)
(* PostgreSQL rolls it back.                                               *)
Abort(t) ==
    /\ pc[t] \in Statement
    /\ Rollback(t, "ERROR")

Step(t) ==
    \/ FindForReserve(t) \/ CreateReservation(t) \/ RereadWinner(t)
    \/ FindForRelease(t) \/ ClaimRelease(t) \/ RereadStatus(t)
    \/ \E p \in Product : DecrementRow(t, p) \/ IncrementRow(t, p)
    \/ Commit(t)

Next ==
    \E t \in Tx :
        \/ \E o \in {"reserve", "release"}, c \in Checkout, b \in Basket : Call(t, o, c, b)
        \/ Step(t)
        \/ Abort(t)

Spec == Init /\ [][Next]_vars

-----------------------------------------------------------------------------
(* No oversell: concurrent conditional decrements never take a product row *)
(* below zero, whatever their interleaving.                                *)
NoOversell == \A p \in Product : stock[p] >= 0

(* t's next statement waits for a lock u holds.                            *)
WaitsFor(t, u) ==
    /\ t # u
    /\ \/ pc[t] \in {"create", "claim"} /\ HoldsKey(u, cid[t])
       \/ pc[t] = "update" /\ \E p \in updated[u] :
            IsNext(t, p) /\ (op[t] = "reserve" => Enough(t, p))

(* Reserve and release calls with overlapping baskets never wait for each  *)
(* other in a cycle: every set of transactions has one that waits for no   *)
(* other of the set (both loops update product rows in sorted order, after *)
(* the reservation row).                                                   *)
NoDeadlock ==
    \A S \in SUBSET Tx :
        S # {} => \E t \in S : \A u \in S : ~WaitsFor(t, u)

(* An answer describes the durable row: a call answered RESERVED or        *)
(* RELEASED named the basket the reservation was made with, a CONFLICT     *)
(* another one, and a released reservation stays released.                 *)
AnswersHold ==
    \A t \in Tx : LET c == cid[t] IN
        /\ pc[t] = "RESERVED" => reserved[c] = bas[t] /\ reservation[c] # "NONE"
        /\ pc[t] = "RELEASED" => reserved[c] = bas[t] /\ reservation[c] = "RELEASED"
        /\ pc[t] = "CONFLICT" => reserved[c] \in Basket \ {bas[t]}

(* The transactions implement the atomic ledger: every commit is one       *)
(* Reserve or Release of the ledger, every other statement invisible.      *)
ImplementsLedger == LedgerSpec
=============================================================================
