------------------------- MODULE StockLedgerProofs -------------------------
(***************************************************************************)
(* Facts about the reservation ledger, for any products, baskets and       *)
(* checkouts.                                                              *)
(***************************************************************************)
EXTENDS StockLedger, FiniteSums, TLAPS

(* What a Reserve may change: only a checkout without a reservation gets   *)
(* one, with the basket asked for, and the answer tells the row.           *)
LEMMA ReserveEffect ==
    ASSUME LedgerTypeOK, NEW c \in Checkout, NEW b \in Basket, Reserve(c, b)
    PROVE  /\ LedgerTypeOK'
           /\ \A d \in Checkout \ {c} :
                reservation'[d] = reservation[d] /\ reserved'[d] = reserved[d]
           /\ reservation[c] # "NONE" =>
                reservation'[c] = reservation[c] /\ reserved'[c] = reserved[c]
           /\ reservation[c] = "NONE" =>
                \/ reservation'[c] = "NONE"
                \/ reservation'[c] = "RESERVED" /\ reserved'[c] = b
           /\ ReserveAnswer(c, b) \in {"RESERVED", "RELEASED"} =>
                reservation'[c] = ReserveAnswer(c, b)
  <1> USE LedgerAssumption DEF LedgerTypeOK, ReservationStatus
  <1>1. CASE reservation[c] = "NONE" /\ Sufficient(b)
    <2>1. /\ stock' = [p \in Product |-> stock[p] - Items[b][p]]
          /\ reservation' = [reservation EXCEPT ![c] = "RESERVED"]
          /\ reserved' = [reserved EXCEPT ![c] = b]
      BY <1>1 DEF Reserve
    <2>2. \A p \in Product : stock[p] - Items[b][p] \in Nat
      BY <1>1 DEF Sufficient
    <2>3. stock' \in [Product -> Nat]
      BY <2>1, <2>2
    <2> QED
      BY <1>1, <2>1, <2>3 DEF ReserveAnswer
  <1>2. CASE ~(reservation[c] = "NONE" /\ Sufficient(b))
    BY <1>2 DEF Reserve, ReserveAnswer, ledger
  <1> QED
    BY <1>1, <1>2

(* What a Release may change: only RESERVED -> RELEASED of its checkout.   *)
LEMMA ReleaseEffect ==
    ASSUME LedgerTypeOK, NEW c \in Checkout, NEW b \in Basket, Release(c, b)
    PROVE  /\ LedgerTypeOK'
           /\ reserved' = reserved
           /\ \A d \in Checkout \ {c} : reservation'[d] = reservation[d]
           /\ reservation'[c] = IF reservation[c] = "RESERVED" /\ reserved[c] = b
                                THEN "RELEASED" ELSE reservation[c]
  <1> USE LedgerAssumption DEF LedgerTypeOK, ReservationStatus
  <1>1. CASE reservation[c] = "RESERVED" /\ reserved[c] = b
    <2>1. /\ stock' = [p \in Product |-> stock[p] + Items[b][p]]
          /\ reservation' = [reservation EXCEPT ![c] = "RELEASED"]
          /\ reserved' = reserved
      BY <1>1 DEF Release
    <2> QED
      BY <1>1, <2>1
  <1>2. CASE ~(reservation[c] = "RESERVED" /\ reserved[c] = b)
    BY <1>2 DEF Release, ledger
  <1> QED
    BY <1>1, <1>2

(* The ledger never oversells: stock stays a natural number, whatever is   *)
(* reserved and released (the conditional decrement of reserveStock).      *)
THEOREM LedgerType == LedgerSpec => []LedgerTypeOK
  <1>1. LedgerInit => LedgerTypeOK
    BY LedgerAssumption DEF LedgerInit, LedgerTypeOK, ReservationStatus
  <1>2. LedgerTypeOK /\ [LedgerNext]_ledger => LedgerTypeOK'
    <2> SUFFICES ASSUME LedgerTypeOK, [LedgerNext]_ledger PROVE LedgerTypeOK'
      OBVIOUS
    <2>1. ASSUME NEW c \in Checkout, NEW b \in Basket, Reserve(c, b) PROVE LedgerTypeOK'
      BY <2>1, ReserveEffect
    <2>2. ASSUME NEW c \in Checkout, NEW b \in Basket, Release(c, b) PROVE LedgerTypeOK'
      BY <2>2, ReleaseEffect
    <2>3. CASE UNCHANGED ledger
      BY <2>3 DEF ledger, LedgerTypeOK
    <2> QED
      BY <2>1, <2>2, <2>3 DEF LedgerNext
  <1> QED
    BY <1>1, <1>2, PTL DEF LedgerSpec

-----------------------------------------------------------------------------
(* Conservation.  What each checkout holds of a product; a reservation was *)
(* made with a basket the service knows.                                   *)
HeldBy(p) == [c \in Checkout |-> IF reservation[c] = "RESERVED" THEN Items[reserved[c]][p] ELSE 0]
Known == \A c \in Checkout : reservation[c] # "NONE" => reserved[c] \in Basket

(* Held is the sum of these values.                                        *)
LEMMA HeldIsSum ==
    ASSUME IsFiniteSet(Checkout)
    PROVE  LedgerTypeOK /\ Known => \A p \in Product :
             /\ HeldBy(p) \in [Checkout -> Nat]
             /\ Held(p) = Sum(HeldBy(p), Checkout)
  <1> SUFFICES ASSUME LedgerTypeOK, Known, NEW p \in Product
               PROVE  HeldBy(p) \in [Checkout -> Nat] /\ Held(p) = Sum(HeldBy(p), Checkout)
    OBVIOUS
  <1> DEFINE f == HeldBy(p)
             first(s) == CHOOSE x \in s : TRUE
             entry(i, s) ==
               IF s = {} THEN 0
               ELSE (IF reservation[first(s)] = "RESERVED"
                     THEN Items[reserved[first(s)]][p] ELSE 0) + i[s \ {first(s)}]
             g == CHOOSE i : i = [s \in SUBSET Checkout |-> entry(i, s)]
  <1>1. f \in [Checkout -> Nat]
    BY LedgerAssumption DEF HeldBy, LedgerTypeOK, Known
  <1>2. Held(p) = g[Checkout]
    BY DEF Held, MapThenSumSet, MapThenFoldSet
  <1>3. ASSUME NEW i, NEW s \in SUBSET Checkout PROVE entry(i, s) = SumFrom(f, i, s)
    BY DEF SumFrom, Picked, HeldBy
  <1>4. \A i : [s \in SUBSET Checkout |-> entry(i, s)] = [s \in SUBSET Checkout |-> SumFrom(f, i, s)]
    BY <1>3
  <1> HIDE DEF entry, f
  <1>5. PICK k \in [SUBSET Checkout -> Int] : IsTable(k, f, Checkout)
    <2>1. \A c \in Checkout : f[c] \in Int
      BY <1>1
    <2> QED
      BY <2>1, TableExists
  <1>6. g = [s \in SUBSET Checkout |-> entry(g, s)]
    <2>1. k = [s \in SUBSET Checkout |-> entry(k, s)]
      BY <1>4, <1>5 DEF IsTable
    <2> QED
      BY <2>1
  <1> HIDE DEF g
  <1>7. IsTable(g, f, Checkout)
    BY <1>4, <1>6 DEF IsTable
  <1>8. Held(p) = Sum(f, Checkout)
    BY <1>1, <1>2, <1>7, FoldIsSum
  <1> QED
    BY <1>1, <1>8 DEF f

(* The inductive invariant of conservation: stock and the live reservations *)
(* are well formed, and nothing was lost so far.                           *)
LedgerInv == LedgerTypeOK /\ Known /\ StockConserved

(* One reservation changes: its hold moves by what the shelf moves.        *)
LEMMA MovesOneHold ==
    ASSUME IsFiniteSet(Checkout), LedgerInv, LedgerTypeOK', Known', NEW c \in Checkout,
           \A d \in Checkout \ {c} : reservation'[d] = reservation[d] /\ reserved'[d] = reserved[d],
           \A p \in Product : HeldBy(p)'[c] - HeldBy(p)[c] = stock[p] - stock'[p],
           \A p \in Product : /\ HeldBy(p)' \in [Checkout -> Nat]
                              /\ Held(p)' = Sum(HeldBy(p)', Checkout)
    PROVE  StockConserved'
  <1> SUFFICES ASSUME NEW p \in Product PROVE stock'[p] + Held(p)' = InitialStock[p]
    BY DEF StockConserved
  <1> DEFINE f == HeldBy(p)
             h == HeldBy(p)'
  <1>1. f \in [Checkout -> Nat] /\ Held(p) = Sum(f, Checkout)
    BY HeldIsSum DEF LedgerInv
  <1>2. h \in [Checkout -> Nat] /\ Held(p)' = Sum(h, Checkout)
    OBVIOUS
  <1>3. \A d \in Checkout \ {c} : f[d] = h[d]
    BY DEF HeldBy
  <1>4. h[c] - f[c] = stock[p] - stock'[p] /\ f[c] \in Int /\ h[c] \in Int
    BY <1>1, <1>2
  <1> HIDE DEF f, h
  <1>5. \A d \in Checkout : f[d] \in Int /\ h[d] \in Int
    BY <1>1, <1>2
  <1>6. Held(p)' = Held(p) - f[c] + h[c]
    BY <1>1, <1>2, <1>3, <1>5, SumChange
  <1>7. stock[p] \in Int /\ stock'[p] \in Int /\ stock[p] + Held(p) = InitialStock[p]
    BY DEF LedgerInv, LedgerTypeOK, StockConserved
  <1>8. Held(p) \in Int
    BY <1>1, <1>5, SumInt
  <1> QED
    BY <1>4, <1>6, <1>7, <1>8

LEMMA LedgerInvHolds ==
    ASSUME IsFiniteSet(Checkout)
    PROVE  LedgerSpec => []LedgerInv
  <1> USE LedgerAssumption
  <1>1. LedgerInit => LedgerInv
    <2> SUFFICES ASSUME LedgerInit PROVE LedgerInv
      OBVIOUS
    <2>1. LedgerTypeOK /\ Known
      BY DEF LedgerInit, LedgerTypeOK, ReservationStatus, Known
    <2>2. ASSUME NEW p \in Product PROVE Held(p) = 0
      <3>1. Held(p) = Sum(HeldBy(p), Checkout)
        BY <2>1, HeldIsSum
      <3>2. \A c \in Checkout : HeldBy(p)[c] = 0
        BY DEF HeldBy, LedgerInit
      <3> HIDE DEF HeldBy
      <3> QED
        BY <3>1, <3>2, SumZero
    <2> QED
      BY <2>1, <2>2 DEF LedgerInv, StockConserved, LedgerInit
  <1>2. LedgerInv /\ [LedgerNext]_ledger => LedgerInv'
    <2> SUFFICES ASSUME LedgerInv, [LedgerNext]_ledger PROVE LedgerInv'
      OBVIOUS
    <2>1. (LedgerTypeOK /\ Known => \A p \in Product :
             /\ HeldBy(p) \in [Checkout -> Nat]
             /\ Held(p) = Sum(HeldBy(p), Checkout))'
      BY HeldIsSum, PTL
    <2>2. ASSUME UNCHANGED ledger PROVE LedgerInv'
      <3>1. LedgerTypeOK' /\ Known'
        BY <2>2 DEF ledger, LedgerInv, LedgerTypeOK, Known
      <3>2. ASSUME NEW p \in Product PROVE Held(p)' = Held(p)
        <4>1. HeldBy(p)' = HeldBy(p)
          BY <2>2 DEF ledger, HeldBy
        <4>2. Held(p) = Sum(HeldBy(p), Checkout) /\ Held(p)' = Sum(HeldBy(p)', Checkout)
          BY <2>1, <3>1, HeldIsSum DEF LedgerInv
        <4> QED
          BY <4>1, <4>2
      <3> QED
        BY <2>2, <3>1, <3>2 DEF ledger, LedgerInv, StockConserved
    <2>3. ASSUME NEW c \in Checkout, NEW b \in Basket, Reserve(c, b) PROVE LedgerInv'
      <3>1. LedgerTypeOK' /\ Known'
        BY <2>3, ReserveEffect DEF LedgerInv, Known
      <3>2. CASE reservation[c] = "NONE" /\ Sufficient(b)
        <4>1. \A p \in Product : HeldBy(p)'[c] - HeldBy(p)[c] = stock[p] - stock'[p]
          BY <2>3, <3>2 DEF Reserve, HeldBy, LedgerInv, LedgerTypeOK
        <4> QED
          BY <2>1, <2>3, <3>1, <4>1, ReserveEffect, MovesOneHold DEF LedgerInv
      <3>3. CASE ~(reservation[c] = "NONE" /\ Sufficient(b))
        BY <2>3, <2>2, <3>3 DEF Reserve
      <3> QED
        BY <3>2, <3>3
    <2>4. ASSUME NEW c \in Checkout, NEW b \in Basket, Release(c, b) PROVE LedgerInv'
      <3>1. LedgerTypeOK' /\ Known'
        BY <2>4, ReleaseEffect DEF LedgerInv, Known
      <3>2. CASE reservation[c] = "RESERVED" /\ reserved[c] = b
        <4>1. \A p \in Product : HeldBy(p)'[c] - HeldBy(p)[c] = stock[p] - stock'[p]
          BY <2>4, <3>2 DEF Release, HeldBy, LedgerInv, LedgerTypeOK, ReservationStatus
        <4> QED
          BY <2>1, <2>4, <3>1, <4>1, ReleaseEffect, MovesOneHold DEF LedgerInv
      <3>3. CASE ~(reservation[c] = "RESERVED" /\ reserved[c] = b)
        BY <2>4, <2>2, <3>3 DEF Release
      <3> QED
        BY <3>2, <3>3
    <2> QED
      BY <2>2, <2>3, <2>4 DEF LedgerNext
  <1> QED
    BY <1>1, <1>2, PTL DEF LedgerSpec

(* No unit of stock is created or lost by reservations and releases, for   *)
(* any number of checkouts.                                                *)
THEOREM LedgerConserved ==
    ASSUME IsFiniteSet(Checkout)
    PROVE  LedgerSpec => []StockConserved
  <1>1. LedgerInv => StockConserved
    BY DEF LedgerInv
  <1> QED
    BY <1>1, LedgerInvHolds, PTL
=============================================================================
