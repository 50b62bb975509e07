---------------------- MODULE StockTransactionsProofs ----------------------
(***************************************************************************)
(* Stock transactions, for any number of connections, products, baskets    *)
(* and reservations.  The argument is what the row locks give: the row of  *)
(* a reservation and the product rows already updated stay as the          *)
(* transaction read them until it commits.                                 *)
(***************************************************************************)
EXTENDS StockTransactions, StockLedgerProofs, TLAPS

(* At most one transaction works on a reservation, at most one on a row.   *)
Exclusive ==
    /\ \A t, u \in Tx : pc[t] = "update" /\ pc[u] = "update" /\ t # u => cid[t] # cid[u]
    /\ \A t, u \in Tx : t # u => updated[t] \cap updated[u] = {}
    /\ \A t \in Tx : updated[t] # {} => pc[t] = "update"

(* What a transaction found stays true while it relies on it.              *)
Relies ==
    \A t \in Tx : LET c == cid[t] IN
        /\ pc[t] \in {"create", "reread"} => op[t] = "reserve"
        /\ pc[t] = "reread" => reservation[c] # "NONE"
        /\ pc[t] \in {"claim", "current"} =>
            op[t] = "release" /\ reservation[c] # "NONE" /\ reserved[c] = bas[t]
        /\ pc[t] = "update" /\ op[t] = "reserve" =>
            /\ reservation[c] = "NONE"
            /\ \A p \in updated[t] : stock[p] >= Items[bas[t]][p]
        /\ pc[t] = "update" /\ op[t] = "release" =>
            reservation[c] = "RESERVED" /\ reserved[c] = bas[t]

(* Rows are updated in ascending order, and only rows of the basket.       *)
Ascending ==
    \A t \in Tx :
        /\ \A p \in updated[t] : Items[bas[t]][p] > 0
        /\ \A p \in updated[t], q \in Remaining(t) : Rank[p] < Rank[q]

Recorded ==
    /\ \A c \in Checkout : reservation[c] # "NONE" <=> reserved[c] \in Basket
    /\ stock \in [Product -> Nat]

IInv == TypeOK /\ Exclusive /\ Relies /\ Ascending /\ Recorded /\ AnswersHold

-----------------------------------------------------------------------------
LEMMA InitHolds == Init => IInv
  <1> SUFFICES ASSUME Init PROVE IInv
    OBVIOUS
  <1>1. TypeOK
    BY LedgerAssumption DEF Init, LedgerInit, TypeOK, Answer, ReservationStatus
  <1>2. Exclusive /\ Relies /\ Ascending /\ Recorded /\ AnswersHold
    BY LedgerAssumption
    DEF Init, LedgerInit, Exclusive, Relies, Ascending, Recorded, AnswersHold
  <1> QED
    BY <1>1, <1>2 DEF IInv

(* A statement that only moves the transaction on.                         *)
LEMMA GotoStep ==
    ASSUME IInv, NEW t \in Tx, NEW l \in Statement \cup Answer, Goto(t, l),
           updated[t] = {},
           LET c == cid[t] IN
           /\ l \in {"create", "reread"} => op[t] = "reserve"
           /\ l = "reread" => reservation[c] # "NONE"
           /\ l \in {"claim", "current"} =>
                op[t] = "release" /\ reservation[c] # "NONE" /\ reserved[c] = bas[t]
           /\ l = "update" => KeyFree(t, c)
           /\ l = "update" /\ op[t] = "reserve" => reservation[c] = "NONE"
           /\ l = "update" /\ op[t] = "release" =>
                reservation[c] = "RESERVED" /\ reserved[c] = bas[t]
           /\ l = "RESERVED" => reserved[c] = bas[t] /\ reservation[c] # "NONE"
           /\ l = "RELEASED" => reserved[c] = bas[t] /\ reservation[c] = "RELEASED"
           /\ l = "CONFLICT" => reserved[c] \in Basket \ {bas[t]}
    PROVE  IInv'
  <1> USE DEF IInv, Goto, TypeOK, ledger
  <1>1. TypeOK'
    OBVIOUS
  <1>2. Exclusive'
    BY DEF Exclusive, KeyFree, HoldsKey
  <1>3. Relies'
    BY DEF Relies
  <1>4. Ascending' /\ Recorded'
    BY DEF Ascending, Recorded, Remaining
  <1>5. AnswersHold'
    BY DEF AnswersHold
  <1> QED
    BY <1>1, <1>2, <1>3, <1>4, <1>5

(* A transaction that is rolled back.                                      *)
LEMMA RollbackStep ==
    ASSUME IInv, NEW t \in Tx, NEW answer \in {"INSUFFICIENT", "ERROR"}, Rollback(t, answer)
    PROVE  IInv'
  <1> USE DEF IInv, Rollback, TypeOK, ledger
  <1>1. TypeOK'
    BY DEF Answer
  <1>2. Exclusive'
    BY DEF Exclusive
  <1>3. Relies'
    BY DEF Relies
  <1>4. Ascending' /\ Recorded'
    BY DEF Ascending, Recorded, Remaining
  <1>5. AnswersHold'
    BY DEF AnswersHold
  <1> QED
    BY <1>1, <1>2, <1>3, <1>4, <1>5

LEMMA CallStep ==
    ASSUME IInv, NEW t \in Tx, NEW o \in {"reserve", "release"}, NEW c \in Checkout,
           NEW b \in Basket, Call(t, o, c, b)
    PROVE  IInv'
  <1> USE DEF IInv, Call, TypeOK, ledger
  <1>1. TypeOK'
    BY DEF Statement
  <1>2. updated[t] = {}
    BY DEF Exclusive, Answer
  <1>3. Exclusive'
    BY <1>2 DEF Exclusive
  <1>4. Relies'
    BY DEF Relies
  <1>5. Ascending' /\ Recorded'
    BY <1>2 DEF Ascending, Recorded, Remaining
  <1>6. AnswersHold'
    BY DEF AnswersHold
  <1> QED
    BY <1>1, <1>3, <1>4, <1>5, <1>6

(* One more product row, in ascending order, locked and not short.         *)
LEMMA UpdateStep ==
    ASSUME IInv, NEW t \in Tx, NEW p \in Product, pc[t] = "update", IsNext(t, p), RowFree(t, p),
           op[t] = "reserve" => stock[p] >= Items[bas[t]][p],
           updated' = [updated EXCEPT ![t] = @ \cup {p}], UNCHANGED <<ledger, pc, op, cid, bas>>
    PROVE  IInv'
  <1> USE DEF IInv, TypeOK, ledger
  <1>1. TypeOK'
    OBVIOUS
  <1>2. Exclusive'
    BY DEF Exclusive, RowFree
  <1>3. Relies'
    BY DEF Relies
  <1>4. Ascending'
    <2>1. Items[bas[t]][p] > 0 /\ p \notin updated[t]
      BY DEF IsNext, Remaining
    <2>2. \A q \in Remaining(t) : q # p => Rank[p] < Rank[q]
      <3> SUFFICES ASSUME NEW q \in Remaining(t), q # p PROVE Rank[p] < Rank[q]
        OBVIOUS
      <3>1. Rank[p] <= Rank[q] /\ q \in Product
        BY DEF IsNext, Remaining
      <3>2. Rank[p] # Rank[q] /\ Rank[p] \in Nat /\ Rank[q] \in Nat
        BY <3>1, TransactionAssumption
      <3> QED
        BY <3>1, <3>2
    <2>3. Remaining(t)' = Remaining(t) \ {p}
      BY DEF Remaining
    <2>4. \A u \in Tx \ {t} : Remaining(u)' = Remaining(u)
      BY DEF Remaining
    <2> QED
      BY <2>1, <2>2, <2>3, <2>4 DEF Ascending
  <1>5. Recorded' /\ AnswersHold'
    BY DEF Recorded, AnswersHold
  <1> QED
    BY <1>1, <1>2, <1>3, <1>4, <1>5

-----------------------------------------------------------------------------
(* A commit is one atomic call of the ledger.                              *)
LEMMA CommitIsCall ==
    ASSUME IInv, NEW t \in Tx, Commit(t)
    PROVE  IF op[t] = "reserve"
           THEN Sufficient(bas[t]) /\ reservation[cid[t]] = "NONE" /\ Reserve(cid[t], bas[t])
           ELSE /\ reservation[cid[t]] = "RESERVED" /\ reserved[cid[t]] = bas[t]
                /\ Release(cid[t], bas[t])
  <1> USE LedgerAssumption DEF IInv, TypeOK, Commit
  <1>1. \A p \in Product : Items[bas[t]][p] \in Nat /\ stock[p] \in Nat
    BY DEF Recorded
  <1>2. \A p \in Product : p \notin updated[t] => Items[bas[t]][p] = 0
    BY <1>1 DEF Remaining
  <1>3. CASE op[t] = "reserve"
    <2>1. reservation[cid[t]] = "NONE" /\ \A p \in updated[t] : stock[p] >= Items[bas[t]][p]
      BY <1>3 DEF Relies
    <2>2. Sufficient(bas[t])
      BY <1>1, <1>2, <2>1 DEF Sufficient
    <2>3. stock' = [p \in Product |-> stock[p] - Items[bas[t]][p]]
      <3>1. \A p \in Product : stock'[p] = stock[p] - Items[bas[t]][p]
        BY <1>1, <1>2, <1>3
      <3> QED
        BY <3>1
    <2> QED
      BY <1>3, <2>1, <2>2, <2>3 DEF Reserve
  <1>4. CASE op[t] = "release"
    <2>1. reservation[cid[t]] = "RESERVED" /\ reserved[cid[t]] = bas[t]
      BY <1>4 DEF Relies
    <2>2. stock' = [p \in Product |-> stock[p] + Items[bas[t]][p]]
      <3>1. \A p \in Product : stock'[p] = stock[p] + Items[bas[t]][p]
        BY <1>1, <1>2, <1>4
      <3> QED
        BY <3>1
    <2>3. reserved' = reserved
      BY <2>1
    <2> QED
      BY <1>4, <2>1, <2>2, <2>3 DEF Release
  <1> QED
    BY <1>3, <1>4

LEMMA CommitStep ==
    ASSUME IInv, NEW t \in Tx, Commit(t)
    PROVE  IInv'
  <1> USE LedgerAssumption DEF IInv, TypeOK
  <1>1. /\ pc' = [pc EXCEPT ![t] = IF op[t] = "reserve" THEN "RESERVED" ELSE "RELEASED"]
        /\ reservation' = [reservation EXCEPT ![cid[t]] =
                                IF op[t] = "reserve" THEN "RESERVED" ELSE "RELEASED"]
        /\ reserved' = [reserved EXCEPT ![cid[t]] = bas[t]]
        /\ updated' = [updated EXCEPT ![t] = {}] /\ UNCHANGED <<op, cid, bas>>
        /\ pc[t] = "update"
    BY DEF Commit
  <1>2. \A p \in Product : stock'[p] \in Nat /\ (p \notin updated[t] => stock'[p] = stock[p])
    <2> SUFFICES ASSUME NEW p \in Product
                 PROVE  stock'[p] \in Nat /\ (p \notin updated[t] => stock'[p] = stock[p])
      OBVIOUS
    <2>1. stock[p] \in Nat /\ Items[bas[t]][p] \in Nat
      BY DEF Recorded
    <2>2. CASE op[t] = "reserve" /\ p \in updated[t]
      BY <1>1, <2>1, <2>2 DEF Commit, Relies
    <2>3. CASE op[t] = "release" \/ p \notin updated[t]
      BY <2>1, <2>3 DEF Commit
    <2> QED
      BY <2>2, <2>3
  <1>3. stock' \in [Product -> Nat]
    BY <1>2 DEF Commit
  <1>4. TypeOK'
    BY <1>1, <1>3 DEF Answer, ReservationStatus
  <1>5. Exclusive'
    BY <1>1 DEF Exclusive
  <1>6. Relies'
    <2> SUFFICES ASSUME NEW u \in Tx, u # t
                 PROVE  LET c == cid[u] IN
                        /\ pc[u] \in {"create", "reread"} => op[u] = "reserve"
                        /\ pc[u] = "reread" => reservation'[c] # "NONE"
                        /\ pc[u] \in {"claim", "current"} =>
                            op[u] = "release" /\ reservation'[c] # "NONE" /\ reserved'[c] = bas[u]
                        /\ pc[u] = "update" /\ op[u] = "reserve" =>
                            /\ reservation'[c] = "NONE"
                            /\ \A p \in updated[u] : stock'[p] >= Items[bas[u]][p]
                        /\ pc[u] = "update" /\ op[u] = "release" =>
                            reservation'[c] = "RESERVED" /\ reserved'[c] = bas[u]
      BY <1>1 DEF Relies
    <2>1. \A p \in updated[u] : stock'[p] = stock[p]
      BY <1>2 DEF Exclusive
    <2>2. pc[u] = "update" => cid[u] # cid[t]
      BY <1>1 DEF Exclusive
    <2>3. reservation[cid[u]] # "NONE" => reserved'[cid[u]] = reserved[cid[u]]
      <3>1. CASE cid[u] # cid[t]
        BY <1>1, <3>1
      <3>2. CASE cid[u] = cid[t]
        BY <1>1, <3>2 DEF Relies
      <3> QED
        BY <3>1, <3>2
    <2>4. reservation[cid[u]] # "NONE" => reservation'[cid[u]] # "NONE"
      BY <1>1
    <2>5. CASE pc[u] = "update"
      BY <1>1, <2>1, <2>2, <2>5 DEF Relies
    <2>6. CASE pc[u] # "update"
      BY <2>3, <2>4, <2>6 DEF Relies
    <2> QED
      BY <2>5, <2>6
  <1>7. Ascending'
    BY <1>1 DEF Ascending, Remaining
  <1>8. Recorded'
    BY <1>1, <1>3 DEF Recorded
  <1>9. AnswersHold'
    <2>1. \A c \in Checkout : reservation[c] # "NONE" => reserved'[c] = reserved[c]
      BY <1>1 DEF Relies
    <2>2. \A c \in Checkout :
            /\ reservation[c] # "NONE" => reservation'[c] # "NONE"
            /\ reservation[c] = "RELEASED" => reservation'[c] = "RELEASED"
      BY <1>1 DEF Relies
    <2>3. \A c \in Checkout : reserved[c] \in Basket => reservation[c] # "NONE"
      BY DEF Recorded
    <2> SUFFICES ASSUME NEW u \in Tx
                 PROVE  LET c == cid[u] IN
                        /\ pc'[u] = "RESERVED" => reserved'[c] = bas[u] /\ reservation'[c] # "NONE"
                        /\ pc'[u] = "RELEASED" => reserved'[c] = bas[u] /\ reservation'[c] = "RELEASED"
                        /\ pc'[u] = "CONFLICT" => reserved'[c] \in Basket \ {bas[u]}
      BY <1>1 DEF AnswersHold
    <2>4. CASE u = t
      BY <1>1, <2>4
    <2>5. CASE u # t
      <3>1. pc'[u] = pc[u] /\ cid[u] \in Checkout
        BY <1>1, <2>5
      <3> QED
        BY <2>1, <2>2, <2>3, <3>1 DEF AnswersHold
    <2> QED
      BY <2>4, <2>5
  <1> QED
    BY <1>4, <1>5, <1>6, <1>7, <1>8, <1>9

-----------------------------------------------------------------------------
(* Every statement of a transaction keeps the invariant.                   *)
LEMMA StatementStep ==
    ASSUME IInv, NEW t \in Tx, Step(t)
    PROVE  IInv'
  <1> USE DEF IInv
  <1>1. pc[t] # "update" => updated[t] = {}
    BY DEF Exclusive
  <1>2. /\ reservation[cid[t]] \in ReservationStatus
        /\ reservation[cid[t]] # "NONE" <=> reserved[cid[t]] \in Basket
    BY DEF TypeOK, Recorded
  <1>3. CASE FindForReserve(t)
    BY <1>1, <1>2, <1>3, GotoStep
    DEF FindForReserve, Match, Statement, Answer, ReservationStatus
  <1>4. CASE CreateReservation(t)
    BY <1>1, <1>2, <1>4, GotoStep DEF CreateReservation, Relies, Statement
  <1>5. CASE RereadWinner(t)
    BY <1>1, <1>2, <1>5, GotoStep DEF RereadWinner, Match, Relies, Answer, ReservationStatus
  <1>6. CASE FindForRelease(t)
    BY <1>1, <1>2, <1>6, GotoStep DEF FindForRelease, Statement, Answer, ReservationStatus
  <1>7. CASE ClaimRelease(t)
    BY <1>1, <1>2, <1>7, GotoStep DEF ClaimRelease, Relies, Statement
  <1>8. CASE RereadStatus(t)
    BY <1>1, <1>2, <1>8, GotoStep DEF RereadStatus, Relies, Answer
  <1>9. CASE \E p \in Product : DecrementRow(t, p) \/ IncrementRow(t, p)
    <2>1. PICK p \in Product : DecrementRow(t, p) \/ IncrementRow(t, p)
      BY <1>9
    <2>2. CASE DecrementRow(t, p) /\ stock[p] >= Items[bas[t]][p]
      BY <2>2, UpdateStep DEF DecrementRow, Enough
    <2>3. CASE DecrementRow(t, p) /\ ~(stock[p] >= Items[bas[t]][p])
      BY <2>3, RollbackStep DEF DecrementRow, Enough
    <2>4. CASE IncrementRow(t, p)
      BY <2>4, UpdateStep DEF IncrementRow
    <2> QED
      BY <2>1, <2>2, <2>3, <2>4
  <1>10. CASE Commit(t)
    BY <1>10, CommitStep
  <1> QED
    BY <1>3, <1>4, <1>5, <1>6, <1>7, <1>8, <1>9, <1>10 DEF Step

LEMMA NextStep == IInv /\ [Next]_vars => IInv'
  <1> SUFFICES ASSUME IInv, [Next]_vars PROVE IInv'
    OBVIOUS
  <1>1. CASE UNCHANGED vars
    BY <1>1 DEF IInv, TypeOK, Exclusive, Relies, Ascending, Remaining, Recorded, AnswersHold,
                vars, txVars, ledger
  <1>2. ASSUME NEW t \in Tx, NEW o \in {"reserve", "release"}, NEW c \in Checkout,
               NEW b \in Basket, Call(t, o, c, b)
        PROVE  IInv'
    BY <1>2, CallStep
  <1>3. ASSUME NEW t \in Tx, Step(t) PROVE IInv'
    BY <1>3, StatementStep
  <1>4. ASSUME NEW t \in Tx, Abort(t) PROVE IInv'
    BY <1>4, RollbackStep DEF Abort
  <1> QED
    BY <1>1, <1>2, <1>3, <1>4 DEF Next

(* The inductive invariant: locks are exclusive, what a transaction read   *)
(* stays true while it relies on it, and rows are locked in sorted order.  *)
THEOREM Invariant == Spec => []IInv
  BY InitHolds, NextStep, PTL DEF Spec

(* Rows, statements and answers have their types.                          *)
THEOREM Types == Spec => []TypeOK
  <1>1. IInv => TypeOK
    BY DEF IInv
  <1> QED
    BY <1>1, Invariant, PTL

(* No product row of stockReservation.service.ts goes below zero, however  *)
(* many reserve and release calls overlap.                                 *)
THEOREM NeverOversold == Spec => []NoOversell
  <1>1. IInv => NoOversell
    BY DEF IInv, Recorded, NoOversell
  <1> QED
    BY <1>1, Invariant, PTL

(* What a call answered stays true of the reservation's row.               *)
THEOREM AnswersStay == Spec => []AnswersHold
  <1>1. IInv => AnswersHold
    BY DEF IInv
  <1> QED
    BY <1>1, Invariant, PTL

(* From any set of transactions take, of those in the update loop, the one *)
(* whose next row ranks highest: it waits for none of the set.             *)
LEMMA HighestWaitsForNone ==
    ASSUME NEW MaxRank \in Nat, \A p \in Product : Rank[p] <= MaxRank, IInv,
           NEW S \in SUBSET Tx, S # {}
    PROVE  \E t \in S : \A u \in S : ~WaitsFor(t, u)
  <1> USE DEF IInv
  <1> DEFINE Looping == {t \in S : pc[t] = "update"}
             Blocked == {t \in Looping : \E p \in Product : IsNext(t, p)}
             Room(t, n) == \E p \in Product : IsNext(t, p) /\ n = MaxRank - Rank[p]
             Rooms == {n \in Nat : \E t \in Blocked : Room(t, n)}
  <1>1. \A t, u \in S : WaitsFor(t, u) => u \in Looping
    BY DEF WaitsFor, HoldsKey, Exclusive
  <1>2. CASE Looping = {}
    BY <1>1, <1>2
  <1>3. CASE \E t \in Looping : t \notin Blocked
    BY <1>3 DEF WaitsFor, IsNext, Remaining
  <1>4. CASE Looping # {} /\ Looping = Blocked
    <2>1. \A p \in Product : Rank[p] \in Nat /\ MaxRank - Rank[p] \in Nat
      BY TransactionAssumption
    <2>2. \A t \in Blocked : \E n \in Rooms : Room(t, n)
      BY <2>1
    <2>3. Rooms \subseteq Nat /\ Rooms # {}
      BY <1>4, <2>2
    <2>4. PICK n \in Rooms : \A k \in Rooms : n <= k
      <3> HIDE DEF Rooms
      <3> QED
        BY <2>3, Smallest
    <2>5. PICK t \in Blocked, p \in Product : IsNext(t, p) /\ n = MaxRank - Rank[p]
      BY <2>4
    <2>6. ASSUME NEW u \in S, WaitsFor(t, u) PROVE FALSE
      <3>1. u \in Blocked /\ u \in Tx /\ t \in Tx /\ pc[t] = "update" /\ pc[u] = "update"
        BY <1>1, <1>4, <2>6
      <3>2. PICK r \in updated[u] : IsNext(t, r)
        BY <2>6, <3>1 DEF WaitsFor, HoldsKey
      <3>3. r = p
        <4>1. Rank[r] <= Rank[p] /\ Rank[p] <= Rank[r] /\ r \in Product
          BY <2>5, <3>2 DEF IsNext, Remaining
        <4> QED
          BY <2>1, <4>1, TransactionAssumption
      <3>4. PICK q \in Product : IsNext(u, q)
        BY <3>1
      <3>5. Rank[p] < Rank[q]
        BY <3>1, <3>2, <3>3, <3>4 DEF Ascending, IsNext
      <3>6. MaxRank - Rank[q] \in Rooms
        BY <2>1, <3>1, <3>4
      <3> QED
        BY <2>1, <2>4, <2>5, <3>5, <3>6
    <2> QED
      BY <2>5, <2>6
  <1> QED
    BY <1>2, <1>3, <1>4

(* Sorting the items of a basket (normalizeItems) rules deadlocks out, as  *)
(* soon as the ranks of the products are bounded.                          *)
THEOREM NeverDeadlocked ==
    ASSUME NEW MaxRank \in Nat, \A p \in Product : Rank[p] <= MaxRank
    PROVE  Spec => []NoDeadlock
  <1>1. IInv => NoDeadlock
    BY HighestWaitsForNone DEF NoDeadlock
  <1> QED
    BY <1>1, Invariant, PTL

(* Every statement but a commit leaves the committed rows alone.           *)
LEMMA StepIsCall == IInv /\ [Next]_vars => [LedgerNext]_ledger
  <1> SUFFICES ASSUME IInv, [Next]_vars PROVE [LedgerNext]_ledger
    OBVIOUS
  <1>1. ASSUME NEW t \in Tx, Commit(t) PROVE LedgerNext
    <2>1. cid[t] \in Checkout /\ bas[t] \in Basket
      BY DEF IInv, TypeOK
    <2> QED
      BY <1>1, <2>1, CommitIsCall DEF LedgerNext
  <1>2. ASSUME NEW t \in Tx, Step(t), ~Commit(t) PROVE UNCHANGED ledger
    BY <1>2 DEF Step, FindForReserve, CreateReservation, RereadWinner, FindForRelease,
                ClaimRelease, RereadStatus, DecrementRow, IncrementRow, Goto, Rollback
  <1>3. ASSUME NEW t \in Tx,
               Abort(t) \/ \E o \in {"reserve", "release"}, c \in Checkout, b \in Basket :
                                Call(t, o, c, b)
        PROVE  UNCHANGED ledger
    BY <1>3 DEF Abort, Rollback, Call
  <1> QED
    BY <1>1, <1>2, <1>3 DEF Next, vars

(* The SQL implements the atomic ledger the checkout saga calls: every     *)
(* commit is one Reserve or Release, every other statement invisible.      *)
THEOREM LedgerImplemented == Spec => ImplementsLedger
  <1>1. Init => LedgerInit
    BY DEF Init
  <1> QED
    BY <1>1, Invariant, StepIsCall, PTL DEF Spec, ImplementsLedger, LedgerSpec

(* Committed stock and live reservations always add up to the stock the    *)
(* products started with, however statements interleave and whichever      *)
(* transactions are rolled back (reserveStock, releaseStock).              *)
THEOREM TransactionsConserve ==
    ASSUME IsFiniteSet(Checkout)
    PROVE  Spec => []StockConserved
  <1>1. Spec => LedgerSpec
    BY LedgerImplemented DEF ImplementsLedger
  <1> QED
    BY <1>1, LedgerConserved, PTL
=============================================================================
