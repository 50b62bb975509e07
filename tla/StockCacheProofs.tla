-------------------------- MODULE StockCacheProofs --------------------------
(***************************************************************************)
(* The stock counters, for any products, quantities (also negative ones of *)
(* purchases), sync rounds and disturbances and any finite number of       *)
(* purchases.  The argument is one balance per product: what Redis still   *)
(* grants and has granted, less what PostgreSQL has left, grows only where *)
(* the history variable notes it; a request that buys moves units from one *)
(* side of it to the other.                                                *)
(***************************************************************************)
EXTENDS StockCache, FiniteSums, TLAPS

Busy == {"decrby", "undo", "commit"}

(* A purchase or a sync round at work is about a product that exists, and  *)
(* so is every key.                                                        *)
Linked ==
    /\ \A b \in Buyer : step[b] \in Busy => want[b].product \in Existing
    /\ \A s \in Syncer : step[s] = "reseed" => stale[s] \in Existing
    /\ \A p \in Product : cache[p] # Missing => p \in Existing

(* The balance.                                                            *)
Accounted == \A p \in Existing : Overstatement(p) <= overstated[p]

(* The types but that of the history variable, which takes the balance.    *)
Typed ==
    /\ pg \in [Product -> Int \cup {Missing}]
    /\ cache \in [Product -> Int \cup {Missing}]
    /\ seeding \subseteq Existing
    /\ step \in [Buyer \cup Syncer ->
                    {"idle", "decrby", "undo", "commit", "done", "compare", "reseed"}]
    /\ want \in [Buyer -> [product : Product, quantity : PurchaseQuantity] \cup {NoPurchase}]
    /\ snapshot \in [Syncer -> [Product -> Int \cup {Missing}]]
    /\ todo \in [Syncer -> SUBSET Existing]
    /\ stale \in [Syncer -> Existing \cup {Missing}]
    /\ disturbances \in 0 .. MaxDisturbances

IInv == Typed /\ Linked /\ overstated \in [Product -> Nat] /\ Accounted

-----------------------------------------------------------------------------
LEMMA MaxOfTwo ==
    ASSUME NEW i \in Int, NEW j \in Int
    PROVE  Max({i, j}) \in {i, j} /\ Max({i, j}) >= i /\ Max({i, j}) >= j
  <1>1. \E x \in {i, j} : \A y \in {i, j} : x >= y
    OBVIOUS
  <1> QED
    BY <1>1 DEF Max

LEMMA MaxWithZero ==
    ASSUME NEW i \in Int
    PROVE  Max({i, 0}) = IF i >= 0 THEN i ELSE 0
  <1>1. Max({i, 0}) \in {i, 0} /\ Max({i, 0}) >= i /\ Max({i, 0}) >= 0
    BY MaxOfTwo
  <1> QED
    BY <1>1

(* The quantities of the requests that buy and are at a step, as a sum.    *)
Asked == [b \in Buyer |-> want[b].quantity]
At(p, l) == {b \in Buyer : step[b] = l /\ want[b].product = p /\ Buys(b)}

LEMMA AskedIsInteger ==
    Typed => Asked \in [Buyer -> Int] /\ \A b \in Buyer : Buys(b) => want[b].quantity \in Nat
  <1> SUFFICES ASSUME Typed, NEW b \in Buyer PROVE want[b].quantity \in Int
    BY DEF Asked, Buys
  <1>1. CASE want[b] \in [product : Product, quantity : PurchaseQuantity]
    BY <1>1, CacheAssumption
  <1>2. CASE want[b] = NoPurchase
    BY <1>2 DEF NoPurchase
  <1> QED
    BY <1>1, <1>2 DEF Typed

LEMMA OutstandingIsSum ==
    ASSUME IsFiniteSet(Buyer)
    PROVE  Typed => \A p \in Product, l \in {"undo", "commit"} :
             /\ Outstanding(p, l) = Sum(Asked, At(p, l))
             /\ Outstanding(p, l) \in Nat
  <1> SUFFICES ASSUME Typed, NEW p \in Product, NEW l \in {"undo", "commit"}
               PROVE  /\ Outstanding(p, l) = Sum(Asked, At(p, l))
                      /\ Outstanding(p, l) \in Nat
    OBVIOUS
  <1> DEFINE S == At(p, l)
             f == Asked
             first(s) == CHOOSE x \in s : TRUE
             entry(i, s) == IF s = {} THEN 0 ELSE want[first(s)].quantity + i[s \ {first(s)}]
             g == CHOOSE i : i = [s \in SUBSET S |-> entry(i, s)]
  <1>1. f \in [Buyer -> Int] /\ S \subseteq Buyer /\ IsFiniteSet(S)
    BY AskedIsInteger, FS_Subset DEF At
  <1>2. Outstanding(p, l) = g[S]
    BY DEF Outstanding, At, MapThenSumSet, MapThenFoldSet
  <1>3. ASSUME NEW i, NEW s \in SUBSET S PROVE entry(i, s) = SumFrom(f, i, s)
    BY <1>1 DEF SumFrom, Picked, Asked
  <1>4. \A i : [s \in SUBSET S |-> entry(i, s)] = [s \in SUBSET S |-> SumFrom(f, i, s)]
    BY <1>3
  <1>5. \A b \in S : f[b] \in Int /\ f[b] \in Nat
    BY <1>1, AskedIsInteger DEF Asked, At
  <1> HIDE DEF entry, f, S
  <1>6. PICK k \in [SUBSET S -> Int] : IsTable(k, f, S)
    BY <1>1, <1>5, TableExists
  <1>7. g = [s \in SUBSET S |-> entry(g, s)]
    <2>1. k = [s \in SUBSET S |-> entry(k, s)]
      BY <1>4, <1>6 DEF IsTable
    <2> QED
      BY <2>1
  <1> HIDE DEF g
  <1>8. IsTable(g, f, S)
    BY <1>4, <1>7 DEF IsTable
  <1>9. g[S] = Sum(f, S)
    BY <1>1, <1>5, <1>8, FoldIsSum
  <1>10. Sum(f, S) \in Nat
    BY <1>1, <1>5, SumNat
  <1> QED
    BY <1>2, <1>9, <1>10 DEF f, S

(* The same in the next state.                                             *)
LEMMA OutstandingNext ==
    ASSUME IsFiniteSet(Buyer), Typed'
    PROVE  /\ Asked' \in [Buyer -> Int]
           /\ \A p \in Product, l \in {"undo", "commit"} :
                /\ Outstanding(p, l)' = Sum(Asked', At(p, l)')
                /\ Outstanding(p, l)' \in Nat
  <1>1. (Typed => Asked \in [Buyer -> Int] /\ \A b \in Buyer : Buys(b) => want[b].quantity \in Nat)'
    BY AskedIsInteger, PTL
  <1>2. (Typed => \A p \in Product, l \in {"undo", "commit"} :
             /\ Outstanding(p, l) = Sum(Asked, At(p, l))
             /\ Outstanding(p, l) \in Nat)'
    BY OutstandingIsSum, PTL
  <1> QED
    BY <1>1, <1>2

(* Steps that leave the requests that buy and are at "undo" or "commit"    *)
(* alone.                                                                  *)
NoPurchaseMoves ==
    \A b \in Buyer, l \in {"undo", "commit"} :
        /\ step'[b] = l /\ Buys(b)' <=> step[b] = l /\ Buys(b)
        /\ step[b] = l /\ Buys(b) => want'[b] = want[b]

LEMMA OutstandingStays ==
    ASSUME IsFiniteSet(Buyer), Typed, Typed', NoPurchaseMoves
    PROVE  \A p \in Product, l \in {"undo", "commit"} :
             Outstanding(p, l)' = Outstanding(p, l)
  <1> SUFFICES ASSUME NEW p \in Product, NEW l \in {"undo", "commit"}
               PROVE  Outstanding(p, l)' = Outstanding(p, l)
    OBVIOUS
  <1> DEFINE S == At(p, l)
  <1>1. At(p, l)' = S
    BY DEF At, NoPurchaseMoves, Buys
  <1>2. S \subseteq Buyer /\ IsFiniteSet(S)
    BY FS_Subset DEF At
  <1>3. \A b \in S : Asked[b] \in Int /\ Asked'[b] = Asked[b]
    <2>1. \A b \in S : want'[b] = want[b]
      BY DEF At, NoPurchaseMoves
    <2>2. Asked \in [Buyer -> Int]
      BY AskedIsInteger
    <2>3. \A b \in S : Asked'[b] = Asked[b]
      BY <1>2, <2>1 DEF Asked
    <2> HIDE DEF S
    <2> QED
      BY <1>2, <2>2, <2>3
  <1> HIDE DEF S
  <1>4. Sum(Asked', S) = Sum(Asked, S)
    BY <1>2, <1>3, SumEqual
  <1>5. Outstanding(p, l)' = Sum(Asked', S) /\ Outstanding(p, l) = Sum(Asked, S)
    BY <1>1, OutstandingNext, OutstandingIsSum DEF S
  <1> QED
    BY <1>4, <1>5

(* One request that buys starts or ends its undo or commit.                *)
LEMMA OutstandingMoves ==
    ASSUME IsFiniteSet(Buyer), Typed, Typed', NEW b \in Buyer, Buys(b),
           NEW to, step[b] # to, step' = [step EXCEPT ![b] = to],
           want' = want
    PROVE  \A p \in Product, l \in {"undo", "commit"} :
             Outstanding(p, l)' = Outstanding(p, l)
               + (IF l = to /\ p = want[b].product THEN want[b].quantity ELSE 0)
               - (IF l = step[b] /\ p = want[b].product THEN want[b].quantity ELSE 0)
  <1> SUFFICES ASSUME NEW p \in Product, NEW l \in {"undo", "commit"}
               PROVE  Outstanding(p, l)' = Outstanding(p, l)
                        + (IF l = to /\ p = want[b].product THEN want[b].quantity ELSE 0)
                        - (IF l = step[b] /\ p = want[b].product THEN want[b].quantity ELSE 0)
    OBVIOUS
  <1> DEFINE S == At(p, l)
             T == At(p, l)'
             f == Asked
             q == want[b].quantity
  <1>1. S \subseteq Buyer /\ IsFiniteSet(S) /\ T \subseteq Buyer /\ IsFiniteSet(T)
    BY FS_Subset DEF At
  <1>2. f \in [Buyer -> Int] /\ f[b] = q /\ Asked' = f
    BY AskedIsInteger DEF Asked
  <1>3. Outstanding(p, l)' = Sum(f, T) /\ Outstanding(p, l) = Sum(f, S) /\ Outstanding(p, l) \in Int
    BY <1>2, OutstandingNext, OutstandingIsSum
  <1>4. q \in Int /\ \A x \in Buyer : f[x] \in Int
    BY <1>2
  <1>5. \A x \in Buyer \ {b} : step'[x] = step[x]
    BY DEF Typed
  <1>6. step'[b] = to
    BY DEF Typed
  <1>7. CASE l = to /\ p = want[b].product
    <2>1. T = S \cup {b} /\ b \notin S
      BY <1>5, <1>6, <1>7 DEF At, Buys
    <2>2. Sum(f, T) = Sum(f, S) + f[b]
      <3> HIDE DEF S, T, f
      <3> QED
        BY <1>1, <1>4, <2>1, SumAdd
    <2> QED
      BY <1>2, <1>3, <1>4, <1>7, <2>2
  <1>8. CASE l = step[b] /\ p = want[b].product
    <2>1. T = S \ {b} /\ b \in S
      BY <1>5, <1>6, <1>8 DEF At, Buys
    <2>2. Sum(f, S) = f[b] + Sum(f, T)
      <3> HIDE DEF S, T, f
      <3> QED
        BY <1>1, <1>4, <2>1, SumRemove
    <2>3. Sum(f, T) \in Int
      <3> HIDE DEF S, T, f
      <3> QED
        BY <1>1, <1>4, SumInt
    <2> QED
      BY <1>2, <1>3, <1>4, <1>8, <2>2, <2>3
  <1>9. CASE ~ ((l = to \/ l = step[b]) /\ p = want[b].product)
    <2>1. T = S
      BY <1>5, <1>6, <1>9 DEF At, Buys
    <2> QED
      BY <1>3, <1>9, <2>1
  <1> QED
    BY <1>7, <1>8, <1>9

-----------------------------------------------------------------------------
(* The balance, in this state and in the next.                             *)
LEMMA BalanceIsInteger ==
    ASSUME IsFiniteSet(Buyer)
    PROVE  Typed => \A p \in Existing :
             /\ p \in Product /\ pg[p] \in Int /\ Counter(p) \in Int
             /\ Outstanding(p, "undo") \in Nat /\ Outstanding(p, "commit") \in Nat
             /\ Max({Counter(p) + Outstanding(p, "undo"), 0}) \in Nat
             /\ Overstatement(p) \in Int
  <1> SUFFICES ASSUME Typed, NEW p \in Existing
               PROVE  /\ p \in Product /\ pg[p] \in Int /\ Counter(p) \in Int
                      /\ Outstanding(p, "undo") \in Nat /\ Outstanding(p, "commit") \in Nat
                      /\ Max({Counter(p) + Outstanding(p, "undo"), 0}) \in Nat
                      /\ Overstatement(p) \in Int
    OBVIOUS
  <1>1. p \in Product /\ pg[p] \in Int /\ Counter(p) \in Int
    BY DEF Typed, Existing, Counter
  <1>2. Outstanding(p, "undo") \in Nat /\ Outstanding(p, "commit") \in Nat
    BY <1>1, OutstandingIsSum
  <1>3. Max({Counter(p) + Outstanding(p, "undo"), 0}) \in Nat
    <2> DEFINE n == Counter(p) + Outstanding(p, "undo")
    <2>1. n \in Int
      BY <1>1, <1>2
    <2> HIDE DEF n
    <2>2. Max({n, 0}) \in {n, 0} /\ Max({n, 0}) >= 0
      BY <2>1, MaxOfTwo
    <2>3. Max({n, 0}) \in Nat
      BY <2>1, <2>2
    <2> QED
      BY <2>3 DEF n
  <1> QED
    BY <1>1, <1>2, <1>3 DEF Overstatement

LEMMA BalanceNext ==
    ASSUME IsFiniteSet(Buyer), Typed'
    PROVE  \A p \in Existing' :
             /\ p \in Product /\ pg'[p] \in Int /\ Counter(p)' \in Int
             /\ Outstanding(p, "undo")' \in Nat /\ Outstanding(p, "commit")' \in Nat
             /\ Max({Counter(p)' + Outstanding(p, "undo")', 0}) \in Nat
             /\ Overstatement(p)' \in Int
  <1>1. (Typed => \A p \in Existing :
             /\ p \in Product /\ pg[p] \in Int /\ Counter(p) \in Int
             /\ Outstanding(p, "undo") \in Nat /\ Outstanding(p, "commit") \in Nat
             /\ Max({Counter(p) + Outstanding(p, "undo"), 0}) \in Nat
             /\ Overstatement(p) \in Int)'
    BY BalanceIsInteger, PTL
  <1> QED
    BY <1>1

LEMMA QuietBalance ==
    ASSUME IsFiniteSet(Buyer), IInv, Typed', NoPurchaseMoves, UNCHANGED <<pg, cache, overstated>>
    PROVE  Accounted'
  <1>1. \A p \in Product, l \in {"undo", "commit"} : Outstanding(p, l)' = Outstanding(p, l)
    BY OutstandingStays DEF IInv
  <1>2. ASSUME NEW p \in Existing' PROVE Overstatement(p)' <= overstated'[p]
    <2>1. p \in Existing /\ p \in Product
      BY DEF Existing
    <2>2. Overstatement(p)' = Overstatement(p)
      BY <1>1, <2>1 DEF Overstatement, Counter
    <2> QED
      BY <2>1, <2>2 DEF IInv, Accounted
  <1> QED
    BY <1>2 DEF Accounted

LEMMA NotedBalance ==
    ASSUME IsFiniteSet(Buyer), IInv, Typed', NoPurchaseMoves, NEW p \in Existing',
           \A r \in Product \ {p} : pg'[r] = pg[r] /\ cache'[r] = cache[r],
           NoteOverstatement(p)
    PROVE  overstated' \in [Product -> Nat] /\ Accounted'
  <1>1. \A r \in Product, l \in {"undo", "commit"} : Outstanding(r, l)' = Outstanding(r, l)
    BY OutstandingStays DEF IInv
  <1> DEFINE new == Max({overstated[p], Overstatement(p)'})
  <1>2. Overstatement(p)' \in Int /\ p \in Product
    BY BalanceNext
  <1>3. overstated' = [overstated EXCEPT ![p] = new]
    BY DEF NoteOverstatement
  <1>4. new \in Nat /\ Overstatement(p)' <= new
    <2>1. overstated[p] \in Nat
      BY <1>2 DEF IInv
    <2> QED
      BY <1>2, <2>1, MaxOfTwo
  <1> HIDE DEF new
  <1>5. overstated' \in [Product -> Nat] /\ overstated'[p] = new
    BY <1>2, <1>3, <1>4 DEF IInv
  <1>6. ASSUME NEW r \in Existing', r # p PROVE Overstatement(r)' <= overstated'[r]
    <2>1. r \in Product /\ pg'[r] = pg[r] /\ cache'[r] = cache[r] /\ r \in Existing
      BY <1>6 DEF Existing
    <2>2. Overstatement(r)' = Overstatement(r)
      BY <1>1, <2>1 DEF Overstatement, Counter
    <2>3. overstated'[r] = overstated[r]
      BY <1>3, <1>6, <2>1 DEF IInv
    <2> QED
      BY <2>1, <2>2, <2>3 DEF IInv, Accounted
  <1> QED
    BY <1>4, <1>5, <1>6 DEF Accounted

(* Stock that comes back to PostgreSQL only lowers the balance.            *)
LEMMA RaiseBalance ==
    ASSUME IsFiniteSet(Buyer), IInv, Typed', NoPurchaseMoves, NEW p \in Existing,
           NEW i \in Int, i <= 0, pg' = [pg EXCEPT ![p] = pg[p] - i], UNCHANGED <<cache, overstated>>
    PROVE  overstated' \in [Product -> Nat] /\ Accounted'
  <1>1. Typed /\ Accounted /\ overstated \in [Product -> Nat]
    BY DEF IInv
  <1>2. \A r \in Product, l \in {"undo", "commit"} : Outstanding(r, l)' = Outstanding(r, l)
    BY <1>1, OutstandingStays
  <1>3. ASSUME NEW r \in Existing' PROVE Overstatement(r)' <= overstated'[r]
    <2>1. /\ r \in Existing /\ r \in Product /\ pg[r] \in Int
          /\ pg'[r] = pg[r] \/ pg'[r] = pg[r] - i
      BY <1>1, <1>3 DEF Existing, Typed
    <2> DEFINE n == Max({Counter(r) + Outstanding(r, "undo"), 0})
               m == Outstanding(r, "commit")
    <2>2. n \in Nat /\ m \in Nat /\ Overstatement(r) = n + m - pg[r]
      BY <1>1, <2>1, BalanceIsInteger DEF Overstatement
    <2>3. Overstatement(r)' = n + m - pg'[r]
      BY <1>1, <1>2, <2>1 DEF Overstatement, Counter
    <2>4. n + m - pg[r] <= overstated[r] /\ overstated[r] \in Nat
      BY <1>1, <2>1, <2>2 DEF Accounted
    <2> HIDE DEF n, m
    <2> QED
      BY <1>1, <2>1, <2>2, <2>3, <2>4
  <1> QED
    BY <1>1, <1>3 DEF Accounted

(* A request that buys moves its quantity between Redis, its own promise   *)
(* and PostgreSQL; what it drops half way only lowers the balance.         *)
LEMMA PurchaseBalance ==
    ASSUME IsFiniteSet(Buyer), IInv, Typed', NEW b \in Buyer, Buys(b),
           Purchase(b) \/ PurchaseFails(b)
    PROVE  overstated' = overstated /\ Accounted'
  <1>1. /\ Typed /\ Linked /\ Accounted /\ step[b] \in Busy
        /\ want' = want /\ overstated' = overstated
    BY DEF IInv, Purchase, DecrBy, IncrBy, CommitPurchase, PurchaseFails, AddToCounter, Busy
  <1>2. PICK r \in Existing, q \in Nat : r = want[b].product /\ q = want[b].quantity
    <2>1. want[b].quantity \in Nat
      BY <1>1, AskedIsInteger
    <2> QED
      BY <1>1, <2>1 DEF Linked
  <1>3. r \in Product /\ pg[r] \in Int
    BY <1>1, <1>2 DEF Existing, Typed
  <1>4. \E to : step[b] # to /\ step' = [step EXCEPT ![b] = to]
    BY <1>1 DEF Purchase, DecrBy, IncrBy, CommitPurchase, PurchaseFails, Goto, Busy
  <1>5. ASSUME NEW to, step[b] # to, step' = [step EXCEPT ![b] = to]
        PROVE  \A p \in Product, l \in {"undo", "commit"} :
                 Outstanding(p, l)' = Outstanding(p, l)
                   + (IF l = to /\ p = r THEN q ELSE 0)
                   - (IF l = step[b] /\ p = r THEN q ELSE 0)
    <2>1. \A p \in Product, l \in {"undo", "commit"} :
             Outstanding(p, l)' = Outstanding(p, l)
               + (IF l = to /\ p = want[b].product THEN want[b].quantity ELSE 0)
               - (IF l = step[b] /\ p = want[b].product THEN want[b].quantity ELSE 0)
      BY <1>1, <1>5, OutstandingMoves
    <2> QED
      BY <1>2, <2>1
  <1>6. ASSUME NEW p \in Existing', p # r PROVE Overstatement(p)' <= overstated'[p]
    <2>1. p \in Product /\ pg'[p] = pg[p] /\ cache'[p] = cache[p]
      BY <1>1, <1>2, <1>6 DEF Purchase, DecrBy, IncrBy, CommitPurchase, PurchaseFails,
         AddToCounter, Typed, Existing
    <2>2. ASSUME NEW l \in {"undo", "commit"} PROVE Outstanding(p, l)' = Outstanding(p, l)
      <3>1. Outstanding(p, l) \in Nat
        BY <1>1, <2>1, OutstandingIsSum
      <3>2. PICK to : step[b] # to /\ step' = [step EXCEPT ![b] = to]
        BY <1>4
      <3>3. Outstanding(p, l)' = Outstanding(p, l) + (IF l = to /\ p = r THEN q ELSE 0)
                                   - (IF l = step[b] /\ p = r THEN q ELSE 0)
        BY <1>5, <2>1, <3>2
      <3>4. Outstanding(p, l)' = Outstanding(p, l) + 0 - 0
        BY <1>6, <3>3
      <3> QED
        BY <3>1, <3>4
    <2>3. Overstatement(p)' = Overstatement(p)
      BY <2>1, <2>2 DEF Overstatement, Counter
    <2> QED
      BY <1>1, <2>1, <2>3 DEF Accounted, Existing
  <1> SUFFICES Overstatement(r)' <= overstated[r]
    BY <1>1, <1>6 DEF Accounted
  <1> DEFINE c == Counter(r)
             u == Outstanding(r, "undo")
             m == Outstanding(r, "commit")
             n == c + u
  <1>7. /\ c \in Int /\ u \in Nat /\ m \in Nat
        /\ Overstatement(r) = Max({n, 0}) + m - pg[r]
        /\ Overstatement(r) <= overstated[r] /\ overstated[r] \in Nat
    BY <1>1, <1>2, <1>3, BalanceIsInteger DEF Accounted, Overstatement, IInv
  <1>8. Overstatement(r)' = Max({n', 0}) + m' - pg'[r]
    BY DEF Overstatement
  <1>9. ASSUME NEW l \in {"undo", "commit", "done"}, step[b] # l, step' = [step EXCEPT ![b] = l]
        PROVE  /\ u' = u + (IF l = "undo" THEN q ELSE 0) - (IF step[b] = "undo" THEN q ELSE 0)
               /\ m' = m + (IF l = "commit" THEN q ELSE 0) - (IF step[b] = "commit" THEN q ELSE 0)
    <2>1. \A p \in Product, k \in {"undo", "commit"} :
             Outstanding(p, k)' = Outstanding(p, k)
               + (IF k = l /\ p = r THEN q ELSE 0)
               - (IF k = step[b] /\ p = r THEN q ELSE 0)
      BY <1>5, <1>9
    <2>2. /\ u' = u + (IF "undo" = l /\ r = r THEN q ELSE 0)
                    - (IF "undo" = step[b] /\ r = r THEN q ELSE 0)
          /\ m' = m + (IF "commit" = l /\ r = r THEN q ELSE 0)
                    - (IF "commit" = step[b] /\ r = r THEN q ELSE 0)
      BY <1>3, <2>1
    <2> HIDE DEF u, m
    <2> QED
      BY <2>2
  <1>10. ASSUME NEW i \in Int, AddToCounter(b, i) PROVE c' = c + i /\ pg' = pg
    <2>1. cache' = [cache EXCEPT ![r] = c + i] /\ pg' = pg
      BY <1>2, <1>10 DEF AddToCounter
    <2>2. cache'[r] = c + i /\ c + i \in Int
      BY <1>1, <1>3, <1>7, <2>1 DEF Typed
    <2> QED
      BY <2>1, <2>2, CacheAssumption DEF Counter
  <1>11. n \in Int /\ Max({n, 0}) = IF n >= 0 THEN n ELSE 0
    BY <1>7, MaxWithZero
  <1>12. ASSUME c' \in Int, u' \in Int PROVE Max({n', 0}) = IF n' >= 0 THEN n' ELSE 0
    BY <1>12, MaxWithZero
  <1>13. n' = c' + u' /\ n = c + u
    OBVIOUS
  <1> HIDE DEF c, u, m, n
  <1>14. CASE /\ c' = c - q /\ pg' = pg
              /\ \/ c - q < 0 /\ u' = u + q /\ m' = m
                 \/ c - q >= 0 /\ u' = u /\ m' = m + q
                 \/ u' = u /\ m' = m
    BY <1>2, <1>3, <1>7, <1>8, <1>11, <1>12, <1>13, <1>14
  <1>15. CASE /\ pg' = pg
              /\ \/ c' = c + q /\ u' = u - q /\ m' = m
                 \/ c' = c /\ u' = u - q /\ m' = m
                 \/ c' = c /\ u' = u /\ m' = m - q
                 \/ c' = c /\ u' = u /\ m' = m
    BY <1>2, <1>3, <1>7, <1>8, <1>11, <1>12, <1>13, <1>15
  <1>16. CASE pg'[r] = pg[r] - q /\ c' = c /\ u' = u /\ m' = m - q
    BY <1>2, <1>3, <1>7, <1>8, <1>11, <1>12, <1>13, <1>16
  <1>17. CASE DecrBy(b)
    <2>1. AddToCounter(b, -q)
      BY <1>2, <1>17 DEF DecrBy
    <2>2. c' = c - q /\ pg' = pg
      BY <1>2, <1>7, <1>10, <2>1
    <2>3. CASE c - q < 0
      <3>1. step[b] = "decrby" /\ step' = [step EXCEPT ![b] = "undo"]
        BY <1>2, <1>17, <2>3 DEF DecrBy, Goto, c
      <3>2. u' = u + q - 0 /\ m' = m + 0 - 0
        BY <1>9, <3>1
      <3> QED
        BY <1>2, <1>7, <1>14, <2>2, <2>3, <3>2
    <2>4. CASE ~ (c - q < 0)
      <3>1. step[b] = "decrby" /\ step' = [step EXCEPT ![b] = "commit"]
        BY <1>2, <1>17, <2>4 DEF DecrBy, Goto, c
      <3>2. u' = u + 0 - 0 /\ m' = m + q - 0
        BY <1>9, <3>1
      <3> QED
        BY <1>2, <1>7, <1>14, <2>2, <2>4, <3>2
    <2> QED
      BY <2>3, <2>4
  <1>18. CASE IncrBy(b)
    <2>1. c' = c + q /\ pg' = pg
      BY <1>2, <1>10, <1>18 DEF IncrBy
    <2>2. step[b] = "undo" /\ step' = [step EXCEPT ![b] = "done"]
      BY <1>18 DEF IncrBy, Goto
    <2>3. u' = u + 0 - q /\ m' = m + 0 - 0
      BY <1>9, <2>2
    <2> QED
      BY <1>2, <1>7, <1>15, <2>1, <2>3
  <1>19. CASE CommitPurchase(b)
    <2>1. c' = c /\ pg'[r] = pg[r] - q
      BY <1>1, <1>2, <1>3, <1>19 DEF CommitPurchase, Counter, Typed, c
    <2>2. step[b] = "commit" /\ step' = [step EXCEPT ![b] = "done"]
      BY <1>19 DEF CommitPurchase, Goto
    <2>3. u' = u + 0 - 0 /\ m' = m + 0 - q
      BY <1>9, <2>2
    <2> QED
      BY <1>2, <1>7, <1>16, <2>1, <2>3
  <1>20. CASE PurchaseFails(b)
    <2>1. step' = [step EXCEPT ![b] = "done"] /\ step[b] # "done"
      BY <1>1, <1>20 DEF PurchaseFails, Goto, Busy
    <2>2. /\ u' = u + 0 - (IF step[b] = "undo" THEN q ELSE 0)
          /\ m' = m + 0 - (IF step[b] = "commit" THEN q ELSE 0)
      BY <1>9, <2>1
    <2>3. CASE step[b] = "decrby" /\ AddToCounter(b, -q)
      <3>1. c' = c - q /\ pg' = pg
        BY <1>2, <1>7, <1>10, <2>3
      <3>2. u' = u + 0 - 0 /\ m' = m + 0 - 0
        BY <2>2, <2>3
      <3> QED
        BY <1>2, <1>7, <1>14, <3>1, <3>2
    <2>4. CASE pg' = pg /\ cache' = cache
      <3>1. c' = c
        BY <2>4 DEF Counter, c
      <3> QED
        BY <1>1, <1>2, <1>7, <1>15, <2>2, <2>4, <3>1 DEF Busy
    <2> QED
      BY <1>2, <1>20, <2>3, <2>4 DEF PurchaseFails
  <1> QED
    BY <1>17, <1>18, <1>19, <1>20 DEF Purchase

(* A request for nothing or less has no part in the balance but through    *)
(* the counter, where it notes what it causes, and through PostgreSQL,     *)
(* where it only adds.                                                     *)
LEMMA OtherBalance ==
    ASSUME IsFiniteSet(Buyer), IInv, Typed', NEW b \in Buyer, ~ Buys(b),
           Purchase(b) \/ PurchaseFails(b)
    PROVE  overstated' \in [Product -> Nat] /\ Accounted'
  <1>1. Typed /\ Linked /\ Accounted /\ overstated \in [Product -> Nat] /\ step[b] \in Busy /\ want' = want
    BY DEF IInv, Purchase, DecrBy, IncrBy, CommitPurchase, PurchaseFails, AddToCounter, Busy
  <1>2. PICK r \in Existing : r = want[b].product
    BY <1>1 DEF Linked
  <1>3. r \in Product
    BY DEF Existing
  <1>4. NoPurchaseMoves
    <2>1. \A x \in Buyer \ {b} : step'[x] = step[x]
      BY <1>1 DEF Typed, Purchase, DecrBy, IncrBy, CommitPurchase, PurchaseFails, Goto
    <2> QED
      BY <1>1, <2>1 DEF NoPurchaseMoves, Buys
  <1>5. ASSUME NEW i \in Int, AddToCounter(b, i)
        PROVE  overstated' \in [Product -> Nat] /\ Accounted'
    <2>1. pg' = pg /\ cache' = [cache EXCEPT ![r] = Counter(r) + i] /\ NoteOverstatement(r)
      BY <1>1, <1>2, <1>5 DEF AddToCounter, NoteOverstatement
    <2>2. r \in Existing' /\ \A x \in Product \ {r} : pg'[x] = pg[x] /\ cache'[x] = cache[x]
      BY <1>1, <2>1 DEF Typed, Existing
    <2> QED
      BY <1>4, <2>1, <2>2, NotedBalance
  <1>6. want[b].quantity \in Int
    BY <1>1, AskedIsInteger DEF Asked
  <1>7. CASE DecrBy(b) \/ IncrBy(b)
    <2>1. -want[b].quantity \in Int
      BY <1>6
    <2>2. AddToCounter(b, -want[b].quantity) \/ AddToCounter(b, want[b].quantity)
      BY <1>7 DEF DecrBy, IncrBy
    <2> QED
      BY <1>5, <1>6, <2>1, <2>2
  <1>8. CASE CommitPurchase(b)
    <2>1. /\ pg' = [pg EXCEPT ![r] = pg[r] - want[b].quantity]
          /\ want[b].quantity <= 0 /\ UNCHANGED <<cache, overstated>>
      BY <1>2, <1>6, <1>8 DEF CommitPurchase, Buys
    <2> QED
      BY <1>4, <1>6, <2>1, RaiseBalance
  <1>9. CASE PurchaseFails(b)
    <2>1. CASE AddToCounter(b, -want[b].quantity)
      BY <1>5, <1>6, <2>1
    <2>2. CASE UNCHANGED <<pg, cache, overstated>>
      BY <1>1, <1>4, <2>2, QuietBalance
    <2> QED
      BY <1>9, <2>1, <2>2 DEF PurchaseFails
  <1> QED
    BY <1>7, <1>8, <1>9 DEF Purchase

(* A counter command executed twice.                                       *)
LEMMA ResendBalance ==
    ASSUME IsFiniteSet(Buyer), IInv, Typed', NEW b \in Buyer, Resend(b)
    PROVE  overstated' \in [Product -> Nat] /\ Accounted'
  <1>1. Typed /\ Linked /\ step[b] \in Busy /\ want' = want /\ step' = step /\ pg' = pg
    BY DEF IInv, Resend, Busy, processes
  <1>2. PICK r \in Existing : r = want[b].product
    BY <1>1 DEF Linked
  <1>3. NoteOverstatement(r) /\ \E i : cache' = [cache EXCEPT ![r] = i]
    BY <1>1, <1>2 DEF Resend, NoteOverstatement
  <1>4. r \in Existing' /\ \A x \in Product \ {r} : pg'[x] = pg[x] /\ cache'[x] = cache[x]
    BY <1>1, <1>3 DEF Typed, Existing
  <1>5. NoPurchaseMoves
    BY <1>1 DEF NoPurchaseMoves, Buys
  <1> QED
    BY <1>3, <1>4, <1>5, NotedBalance

-----------------------------------------------------------------------------
(* Products stay, processes work on products, whatever happens.            *)
LEMMA TypedStep ==
    ASSUME Typed, Linked, [Next]_vars
    PROVE  Typed' /\ Linked'
  <1> USE CacheAssumption DEF Typed, Linked, Existing, Busy, processes, Disturb, Goto
  <1>1. ASSUME NEW p \in Product, Create(p) \/ Seed(p) \/ SeedFails(p) \/ LoseKey(p)
        PROVE  Typed' /\ Linked'
    <2>1. CASE Create(p)
      BY <2>1 DEF Create
    <2>2. CASE Seed(p)
      BY <2>2 DEF Seed
    <2>3. CASE SeedFails(p)
      BY <2>3 DEF SeedFails
    <2>4. CASE LoseKey(p)
      BY <2>4 DEF LoseKey
    <2> QED
      BY <1>1, <2>1, <2>2, <2>3, <2>4
  <1>2. ASSUME NEW p \in Product, NEW q \in Quantity, TakeStock(p, q) \/ ReturnStock(p, q)
        PROVE  Typed' /\ Linked'
    BY <1>2 DEF TakeStock, ReturnStock
  <1>3. ASSUME NEW b \in Buyer, NEW p \in Product, NEW q \in PurchaseQuantity, FindProduct(b, p, q)
        PROVE  Typed' /\ Linked'
    BY <1>3 DEF FindProduct
  <1>4. ASSUME NEW b \in Buyer, Purchase(b) \/ Resend(b) \/ PurchaseFails(b)
        PROVE  Typed' /\ Linked'
    <2>1. PICK r \in Existing, q \in Int : r = want[b].product /\ q = want[b].quantity
      <3>1. want[b].quantity \in Int
        BY AskedIsInteger DEF Asked
      <3>2. step[b] \in Busy
        BY <1>4 DEF Purchase, DecrBy, IncrBy, CommitPurchase, Resend, PurchaseFails
      <3> QED
        BY <3>1, <3>2
    <2>2. r \in Product /\ pg[r] \in Int /\ Counter(r) \in Int
      BY <2>1 DEF Counter
    <2>3. ASSUME NEW i \in Int, AddToCounter(b, i),
                 NEW l \in {"undo", "commit", "done"}, Goto(b, l), step[b] \in Busy
          PROVE  Typed' /\ Linked'
      <3>1. /\ cache' = [cache EXCEPT ![r] = Counter(r) + i] /\ Counter(r) + i \in Int
            /\ UNCHANGED <<pg, seeding, want, snapshot, todo, stale, disturbances>>
        BY <2>1, <2>2, <2>3 DEF AddToCounter
      <3> QED
        BY <2>1, <2>3, <3>1
    <2>4. CASE DecrBy(b)
      <3>1. AddToCounter(b, -q) /\ -q \in Int /\ step[b] \in Busy
        BY <2>1, <2>4 DEF DecrBy
      <3>2. Goto(b, "undo") \/ Goto(b, "commit")
        BY <2>4 DEF DecrBy
      <3> QED
        BY <2>3, <3>1, <3>2
    <2>5. CASE IncrBy(b)
      BY <2>1, <2>3, <2>5 DEF IncrBy
    <2>6. CASE CommitPurchase(b)
      <3>1. pg' = [pg EXCEPT ![r] = pg[r] - q] /\ pg[r] - q \in Int
        BY <2>1, <2>2, <2>6 DEF CommitPurchase
      <3> QED
        BY <2>1, <2>2, <2>6, <3>1 DEF CommitPurchase
    <2>7. CASE PurchaseFails(b)
      <3>1. CASE step[b] = "decrby" /\ AddToCounter(b, -want[b].quantity)
        BY <2>1, <2>3, <2>7, <3>1 DEF PurchaseFails
      <3>2. CASE UNCHANGED <<pg, cache, seeding, want, snapshot, todo, stale, disturbances, overstated>>
        BY <2>7, <3>2 DEF PurchaseFails
      <3> QED
        BY <2>7, <3>1, <3>2 DEF PurchaseFails
    <2>8. CASE Resend(b)
      <3>1. PICK i \in Int : cache' = [cache EXCEPT ![r] = i]
        <4>1. Counter(r) - q \in Int /\ Counter(r) + q \in Int
          BY <2>1, <2>2
        <4> QED
          BY <2>1, <2>8, <4>1 DEF Resend
      <3>2. /\ UNCHANGED <<pg, processes>>
            /\ disturbances' \in 0 .. MaxDisturbances
        BY <2>8 DEF Resend
      <3> QED
        BY <2>1, <3>1, <3>2
    <2> QED
      BY <1>4, <2>4, <2>5, <2>6, <2>7, <2>8 DEF Purchase
  <1>5. ASSUME NEW s \in Syncer, Sync(s) \/ SyncFails(s)
        PROVE  Typed' /\ Linked'
    <2>1. CASE StartSync(s)
      BY <2>1 DEF StartSync
    <2>2. CASE SyncFails(s)
      BY <2>2 DEF SyncFails
    <2>3. ASSUME NEW p \in Product, Compare(s, p) PROVE Typed' /\ Linked'
      <3>1. CASE cache[p] # snapshot[s][p]
        <4>1. /\ stale' = [stale EXCEPT ![s] = p] /\ step' = [step EXCEPT ![s] = "reseed"]
              /\ step[s] = "compare" /\ p \in todo[s] /\ todo' = [todo EXCEPT ![s] = @ \ {p}]
              /\ UNCHANGED <<pg, cache, seeding, want, snapshot, disturbances, overstated>>
          BY <2>3, <3>1 DEF Compare
        <4>2. p \in Existing
          BY <4>1
        <4>3. Typed'
          BY <4>1, <4>2
        <4> QED
          BY <4>1, <4>2, <4>3
      <3>2. CASE cache[p] = snapshot[s][p]
        <4>1. PICK l \in {"idle", "compare"} : step' = [step EXCEPT ![s] = l]
          BY <2>3, <3>2 DEF Compare, GoOn
        <4>2. /\ todo' = [todo EXCEPT ![s] = @ \ {p}]
              /\ snapshot' = [snapshot EXCEPT ![s][p] = Missing]
              /\ UNCHANGED <<pg, cache, seeding, want, stale, disturbances, overstated>>
          BY <2>3, <3>2 DEF Compare, GoOn
        <4> QED
          BY <4>1, <4>2
      <3> QED
        BY <3>1, <3>2
    <2>4. ASSUME NEW p \in Product, Reseed(s, p) PROVE Typed' /\ Linked'
      <3>1. PICK l \in {"idle", "compare"} : step' = [step EXCEPT ![s] = l]
        BY <2>4 DEF Reseed, GoOn
      <3>2. /\ p \in Existing /\ snapshot[s][p] \in Int \cup {Missing}
            /\ cache' = [cache EXCEPT ![p] = snapshot[s][p]]
            /\ stale' = [stale EXCEPT ![s] = Missing]
            /\ snapshot' = [snapshot EXCEPT ![s][p] = Missing]
            /\ UNCHANGED <<pg, seeding, want, todo, disturbances>>
        BY <2>4 DEF Reseed, GoOn
      <3> QED
        BY <3>1, <3>2
    <2> QED
      BY <1>5, <2>1, <2>2, <2>3, <2>4 DEF Sync
  <1>6. CASE UNCHANGED vars
    BY <1>6 DEF vars
  <1> QED
    BY <1>1, <1>2, <1>3, <1>4, <1>5, <1>6 DEF Next

-----------------------------------------------------------------------------
(* A new product: nobody asked for it yet, and it has no key.              *)
LEMMA CreateBalance ==
    ASSUME IsFiniteSet(Buyer), IInv, Typed', NEW p \in Product, Create(p)
    PROVE  Accounted'
  <1>1. /\ Typed /\ Linked /\ Accounted /\ p \notin Existing
        /\ pg' = [pg EXCEPT ![p] = InitialStock]
        /\ UNCHANGED <<cache, step, want, overstated>>
    BY DEF IInv, Create
  <1>2. \A r \in Product, l \in {"undo", "commit"} : Outstanding(r, l)' = Outstanding(r, l)
    BY <1>1, OutstandingStays DEF NoPurchaseMoves, Buys
  <1>3. ASSUME NEW r \in Existing', r # p PROVE Overstatement(r)' <= overstated'[r]
    <2>1. r \in Existing /\ r \in Product /\ pg'[r] = pg[r]
      BY <1>1, <1>3 DEF Existing, Typed
    <2>2. Overstatement(r)' = Overstatement(r)
      BY <1>1, <1>2, <2>1 DEF Overstatement, Counter
    <2> QED
      BY <1>1, <2>1, <2>2 DEF Accounted
  <1>4. \A l \in {"undo", "commit"} : Outstanding(p, l)' = 0
    <2>1. ASSUME NEW l \in {"undo", "commit"} PROVE Outstanding(p, l)' = 0
      <3>1. At(p, l)' = {}
        BY <1>1 DEF At, Linked, Busy
      <3>2. Outstanding(p, l)' = Sum(Asked', {})
        BY <3>1, OutstandingNext
      <3> QED
        BY <3>2, SumEmpty
    <2> QED
      BY <2>1
  <1>5. Counter(p)' = 0
    BY <1>1 DEF Counter, Linked
  <1>6. Overstatement(p)' = Max({0, 0}) + 0 - InitialStock
    <2>1. pg'[p] = InitialStock
      BY <1>1 DEF Typed
    <2> DEFINE c == Counter(p)' u == Outstanding(p, "undo")' m == Outstanding(p, "commit")'
    <2>2. Overstatement(p)' = Max({c + u, 0}) + m - pg'[p]
      BY DEF Overstatement
    <2>3. c = 0 /\ u = 0 /\ m = 0
      BY <1>4, <1>5
    <2>4. c + u = 0
      BY <2>3
    <2> HIDE DEF c, u, m
    <2> QED
      BY <2>1, <2>2, <2>3, <2>4
  <1>7. Overstatement(p)' <= overstated'[p]
    <2>1. Max({0, 0}) = 0
      BY MaxWithZero
    <2>2. overstated'[p] \in Nat
      BY <1>1 DEF IInv
    <2> QED
      BY <1>6, <2>1, <2>2, CacheAssumption
  <1> QED
    BY <1>3, <1>7 DEF Accounted

-----------------------------------------------------------------------------
LEMMA InitHolds == Init => IInv
  BY CacheAssumption DEF Init, IInv, Typed, Linked, Accounted, Existing, Busy, NoPurchase

(* The balance, action by action.                                          *)
LEMMA StepHolds ==
    ASSUME IsFiniteSet(Buyer), IInv, [Next]_vars
    PROVE  IInv'
  <1>1. Typed' /\ Linked'
    BY TypedStep DEF IInv
  <1>2. Typed /\ Linked /\ overstated \in [Product -> Nat]
    BY DEF IInv
  <1> SUFFICES overstated' \in [Product -> Nat] /\ Accounted'
    BY <1>1 DEF IInv
  <1>3. ASSUME NEW p \in Product, Create(p) \/ Seed(p) \/ SeedFails(p) \/ LoseKey(p)
        PROVE  overstated' \in [Product -> Nat] /\ Accounted'
    <2>1. CASE Create(p)
      BY <1>1, <1>2, <2>1, CreateBalance DEF Create
    <2>2. CASE Seed(p)
      <3>1. /\ p \in Existing' /\ pg' = pg /\ NoteOverstatement(p) /\ NoPurchaseMoves
            /\ \A r \in Product \ {p} : cache'[r] = cache[r]
        BY <1>2, <2>2 DEF Seed, Typed, Existing, NoPurchaseMoves, Buys
      <3> QED
        BY <1>1, <3>1, NotedBalance
    <2>3. CASE SeedFails(p)
      BY <1>1, <1>2, <2>3, QuietBalance DEF SeedFails, NoPurchaseMoves, Buys
    <2>4. CASE LoseKey(p)
      <3>1. /\ p \in Existing' /\ pg' = pg /\ NoteOverstatement(p) /\ NoPurchaseMoves
            /\ \A r \in Product \ {p} : cache'[r] = cache[r]
        BY <1>2, <2>4 DEF LoseKey, Typed, Linked, Existing, NoPurchaseMoves, Buys, processes
      <3> QED
        BY <1>1, <3>1, NotedBalance
    <2> QED
      BY <1>3, <2>1, <2>2, <2>3, <2>4
  <1>4. ASSUME NEW p \in Product, NEW q \in Quantity, TakeStock(p, q)
        PROVE  overstated' \in [Product -> Nat] /\ Accounted'
    <2>1. /\ p \in Existing /\ cache' = cache /\ NoteOverstatement(p) /\ NoPurchaseMoves
          /\ pg' = [pg EXCEPT ![p] = pg[p] - q]
      BY <1>4 DEF TakeStock, NoPurchaseMoves, Buys, processes
    <2>2. p \in Existing' /\ \A r \in Product \ {p} : pg'[r] = pg[r]
      <3>1. pg[p] \in Int /\ q \in Int
        BY <1>2, <2>1, CacheAssumption DEF Typed, Existing
      <3>2. pg'[p] = pg[p] - q /\ pg[p] - q \in Int
        BY <1>2, <2>1, <3>1 DEF Typed
      <3> QED
        BY <1>2, <2>1, <3>2, CacheAssumption DEF Typed, Existing
    <2> QED
      BY <1>1, <2>1, <2>2, NotedBalance
  <1>5. ASSUME NEW p \in Product, NEW q \in Quantity, ReturnStock(p, q)
        PROVE  overstated' \in [Product -> Nat] /\ Accounted'
    <2>1. /\ p \in Existing /\ cache' = cache /\ overstated' = overstated /\ NoPurchaseMoves
          /\ pg' = [pg EXCEPT ![p] = pg[p] - (-q)] /\ -q \in Int /\ -q <= 0
      <3>1. pg[p] \in Int /\ q \in Nat /\ p \in Existing
        BY <1>2, <1>5, CacheAssumption DEF ReturnStock, Typed, Existing
      <3>2. pg[p] + q = pg[p] - (-q) /\ -q \in Int /\ -q <= 0
        BY <3>1
      <3>3. pg' = [pg EXCEPT ![p] = pg[p] + q]
        BY <1>5 DEF ReturnStock
      <3> QED
        BY <1>5, <3>1, <3>2, <3>3 DEF ReturnStock, NoPurchaseMoves, Buys, processes
    <2> QED
      BY <1>1, <2>1, RaiseBalance
  <1>6. ASSUME NEW b \in Buyer, NEW p \in Product, NEW q \in PurchaseQuantity, FindProduct(b, p, q)
        PROVE  overstated' \in [Product -> Nat] /\ Accounted'
    <2>1. NoPurchaseMoves /\ UNCHANGED <<pg, cache, overstated>>
      <3>1. /\ step[b] = "idle" /\ step' = [step EXCEPT ![b] = "decrby"]
            /\ \A x \in Buyer \ {b} : want'[x] = want[x] /\ step'[x] = step[x]
            /\ step'[b] = "decrby" /\ UNCHANGED <<pg, cache, overstated>>
        BY <1>2, <1>6 DEF FindProduct, Goto, Typed
      <3> QED
        BY <3>1 DEF NoPurchaseMoves, Buys
    <2> QED
      BY <1>1, <1>2, <2>1, QuietBalance
  <1>7. ASSUME NEW b \in Buyer, Purchase(b) \/ Resend(b) \/ PurchaseFails(b)
        PROVE  overstated' \in [Product -> Nat] /\ Accounted'
    <2>1. CASE Buys(b) /\ (Purchase(b) \/ PurchaseFails(b))
      BY <1>1, <1>2, <2>1, PurchaseBalance
    <2>2. CASE ~ Buys(b) /\ (Purchase(b) \/ PurchaseFails(b))
      BY <1>1, <2>2, OtherBalance
    <2>3. CASE Resend(b)
      BY <1>1, <2>3, ResendBalance
    <2> QED
      BY <1>7, <2>1, <2>2, <2>3
  <1>8. ASSUME NEW s \in Syncer, NEW p \in Product, Reseed(s, p)
        PROVE  overstated' \in [Product -> Nat] /\ Accounted'
    <2>1. /\ p \in Existing' /\ pg' = pg /\ NoteOverstatement(p)
          /\ \A r \in Product \ {p} : cache'[r] = cache[r]
      BY <1>2, <1>8 DEF Reseed, Typed, Linked, Existing
    <2>2. NoPurchaseMoves
      BY <1>2, <1>8 DEF Reseed, GoOn, Goto, Typed, NoPurchaseMoves, Buys
    <2> QED
      BY <1>1, <2>1, <2>2, NotedBalance
  <1>9. ASSUME NEW s \in Syncer,
               \/ StartSync(s) \/ SyncFails(s)
               \/ \E p \in Product : Compare(s, p)
        PROVE  overstated' \in [Product -> Nat] /\ Accounted'
    <2>1. NoPurchaseMoves /\ UNCHANGED <<pg, cache, overstated>>
      BY <1>2, <1>9 DEF StartSync, SyncFails, Compare, GoOn, Goto, Typed, NoPurchaseMoves, Buys
    <2> QED
      BY <1>1, <1>2, <2>1, QuietBalance
  <1>10. CASE UNCHANGED vars
    BY <1>1, <1>2, <1>10, QuietBalance DEF vars, processes, NoPurchaseMoves, Buys
  <1> QED
    BY <1>3, <1>4, <1>5, <1>6, <1>7, <1>8, <1>9, <1>10 DEF Next, Sync

LEMMA CacheInvariant == ASSUME IsFiniteSet(Buyer) PROVE Spec => []IInv
  <1>1. IInv /\ [Next]_vars => IInv'
    BY StepHolds
  <1> QED
    BY <1>1, InitHolds, PTL DEF Spec

-----------------------------------------------------------------------------
(* Rows, keys, requests and rounds keep their types: a round compares and  *)
(* reseeds only products that exist, and the history of what Redis         *)
(* overstated never turns negative, whatever fails or expires.             *)
THEOREM CacheTyped ==
    ASSUME IsFiniteSet(Buyer)
    PROVE  Spec => []TypeOK
  <1>1. IInv => TypeOK
    BY DEF IInv, Typed, TypeOK
  <1> QED
    BY <1>1, CacheInvariant, PTL

(* However purchases, reservations, sync rounds, lost keys and failures    *)
(* interleave, the stock in PostgreSQL falls below zero by no more than    *)
(* Redis was once made to overstate it by something else than a request    *)
(* that buys: the DECRBY gate of decrementStock itself never oversells.    *)
THEOREM OversellAccountedFor ==
    ASSUME IsFiniteSet(Buyer)
    PROVE  Spec => []OversellIsAccounted
  <1>1. IInv => OversellIsAccounted
    <2> SUFFICES ASSUME IInv, NEW p \in Existing PROVE pg[p] >= -overstated[p]
      BY DEF OversellIsAccounted
    <2> DEFINE n == Max({Counter(p) + Outstanding(p, "undo"), 0})
               m == Outstanding(p, "commit")
    <2>1. p \in Product /\ pg[p] \in Int /\ n \in Nat /\ m \in Nat
      BY BalanceIsInteger DEF IInv
    <2>2. n + m - pg[p] <= overstated[p] /\ overstated[p] \in Nat
      BY <2>1 DEF IInv, Accounted, Overstatement
    <2> HIDE DEF n, m
    <2> QED
      BY <2>1, <2>2
  <1> QED
    BY <1>1, CacheInvariant, PTL
=============================================================================
