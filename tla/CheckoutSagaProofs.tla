------------------------- MODULE CheckoutSagaProofs -------------------------
(***************************************************************************)
(* Proofs about CheckoutSaga, for any number of checkouts, handlers,       *)
(* workers, products and baskets: what needs no lease.  CheckoutLeaseProofs*)
(* adds what the lease gives.                                              *)
(*                                                                         *)
(* Every step lemma has one step per action of Next, in the order of Next. *)
(***************************************************************************)
EXTENDS CheckoutSaga, StockLedgerProofs, TLAPS

-----------------------------------------------------------------------------
(* Typing: an actor at work has a checkout, the checkout has a workflow    *)
(* row with a basket, and product-service knows it by the same basket.     *)
Linked ==
    /\ \A a \in Actor :
        /\ pc[a] # "idle" => cur[a] \in Checkout
        /\ pc[a] = "insert" => want[a] \in Basket
        /\ pc[a] \notin {"idle", "insert"} => status[cur[a]] # "NONE"
    /\ \A c \in Checkout :
        /\ status[c] # "NONE" => basket[c] \in Basket
        /\ reservation[c] # "NONE" => status[c] # "NONE" /\ reserved[c] = basket[c]
    /\ \A c \in lateReserve \cup lateRelease \cup inDoubt : status[c] # "NONE"

TypeInv == TypeOK /\ Linked

(* How the variables of one actor change: it enters a location with a      *)
(* checkout, or it leaves its request.                                     *)
LEMMA EnterTypes ==
  ASSUME ActorTypeOK, NEW a \in Actor, NEW l \in Location, NEW c \in Checkout,
         NEW b \in Basket \cup {NoBasket},
         Goto(a, l), cur' = [cur EXCEPT ![a] = c], want' = [want EXCEPT ![a] = b], seen' = seen
  PROVE  ActorTypeOK'
  <1>1. (pc \in [Actor -> Location])'
    BY DEF ActorTypeOK, Goto
  <1>2. (cur \in [Actor -> Checkout \cup {NoCheckout}])'
    BY DEF ActorTypeOK
  <1>3. (want \in [Actor -> Basket \cup {NoBasket}])'
    BY DEF ActorTypeOK
  <1>4. (seen \in [Actor -> Status])'
    BY DEF ActorTypeOK
  <1> QED
    BY <1>1, <1>2, <1>3, <1>4 DEF ActorTypeOK

Others(a) ==
  \A d \in Actor \ {a} : cur'[d] = cur[d] /\ want'[d] = want[d] /\ seen'[d] = seen[d]

LEMMA LeaveTypes ==
  ASSUME ActorTypeOK, NEW a \in Actor, Leave(a)
  PROVE  /\ ActorTypeOK'
         /\ pc' = [pc EXCEPT ![a] = "idle"]
         /\ Others(a)
  <1>1. (pc \in [Actor -> Location])'
    BY DEF ActorTypeOK, Leave, Goto, Location
  <1>2. (cur \in [Actor -> Checkout \cup {NoCheckout}])'
    BY DEF ActorTypeOK, Leave, Others
  <1>3. (want \in [Actor -> Basket \cup {NoBasket}])'
    BY DEF ActorTypeOK, Leave, Others
  <1>4. (seen \in [Actor -> Status])'
    BY DEF ActorTypeOK, Leave, Status
  <1>5. Others(a)
    BY DEF ActorTypeOK, Leave, Others
  <1> QED
    BY <1>1, <1>2, <1>3, <1>4, <1>5 DEF ActorTypeOK, Leave, Goto

(* The rows and actors of a service that has just been deployed are        *)
(* linked.                                                                 *)
LEMMA TypeInvInit == Init => TypeInv
  <1> SUFFICES ASSUME Init PROVE TypeInv
    OBVIOUS
  <1> USE LedgerAssumption, SagaAssumption DEF Init, LedgerInit
  <1>1. LedgerTypeOK
    BY DEF LedgerTypeOK, ReservationStatus
  <1>2. StoreTypeOK
    BY DEF StoreTypeOK, Status
  <1>3. ActorTypeOK
    BY DEF ActorTypeOK, Status, Location
  <1>4. HistoryTypeOK
    BY DEF HistoryTypeOK
  <1>5. Linked
    BY DEF Linked
  <1> QED
    BY <1>1, <1>2, <1>3, <1>4, <1>5 DEF TypeInv, TypeOK

(* Every statement, RPC, crash and late message keeps rows, actors and the *)
(* ledger linked: no step works on a checkout without a workflow row, and  *)
(* product-service knows a checkout only by the basket of its row.         *)
LEMMA TypeInvStep == TypeInv /\ [Next]_vars => TypeInv'
  <1> SUFFICES ASSUME TypeInv, [Next]_vars PROVE TypeInv'
    OBVIOUS
  <1> USE LedgerAssumption, SagaAssumption DEF TypeInv, TypeOK, StoreTypeOK,
      ActorTypeOK, HistoryTypeOK, LedgerTypeOK, Linked, Status, ReservationStatus,
      Location, Plain, Compensating, Open, Recoverable, Terminal, ledger, workflow,
      records, network, local, history
  <1>1. ASSUME NEW a \in Actor, a \in Handler, NEW c \in Checkout, NEW b \in Basket,
               Request(a, c, b)
        PROVE  TypeInv'
    <2>1. CASE status[c] = "NONE"
      <3> DEFINE l == "insert"
      <3>1. /\ Goto(a, l) /\ l \in Location /\ c \in Checkout
            /\ cur' = [cur EXCEPT ![a] = c] /\ want' = [want EXCEPT ![a] = b]
            /\ UNCHANGED <<seen, ledger, workflow, records, network, history, stalls>>
        BY <1>1, <2>1 DEF Request, Goto
      <3> HIDE DEF l
      <3>2. ActorTypeOK'
        BY <3>1, EnterTypes
      <3> USE DEF l
      <3>3. Linked'
        BY <1>1, <2>1 DEF Request, Goto
      <3> QED
        BY <3>1, <3>2, <3>3
    <2>2. CASE status[c] # "NONE" /\ basket[c] # b
      <3>1. Leave(a) /\ UNCHANGED <<ledger, workflow, records, network, history, stalls>>
        BY <1>1, <2>2 DEF Request, Recognise
      <3>2. ActorTypeOK' /\ pc' = [pc EXCEPT ![a] = "idle"] /\ Others(a)
        BY <3>1, LeaveTypes DEF Others
      <3>3. Linked'
        BY <3>1, <3>2 DEF Others
      <3> QED
        BY <3>1, <3>2, <3>3
    <2>3. CASE status[c] # "NONE" /\ basket[c] = b
      <3> DEFINE l == IF status[c] \in Open THEN "claim" ELSE "advance"
      <3>1. /\ Goto(a, l) /\ l \in Location /\ c \in Checkout
            /\ cur' = [cur EXCEPT ![a] = c] /\ want' = [want EXCEPT ![a] = NoBasket]
            /\ UNCHANGED <<seen, ledger, workflow, records, network, history, stalls>>
        BY <1>1, <2>3 DEF Request, Recognise, Goto
      <3> HIDE DEF l
      <3>2. ActorTypeOK'
        BY <3>1, EnterTypes
      <3> USE DEF l
      <3>3. Linked'
        BY <1>1, <2>3 DEF Request, Recognise, Goto
      <3> QED
        BY <3>1, <3>2, <3>3
    <2> QED
      BY <2>1, <2>2, <2>3
  <1>2. ASSUME NEW a \in Actor, a \in Handler, InsertWorkflow(a)
        PROVE  TypeInv'
    <2>1. CASE status[cur[a]] = "NONE"
      <3>1. ActorTypeOK'
        BY <1>2, <2>1 DEF InsertWorkflow, Goto
      <3>2. StoreTypeOK'
        BY <1>2, <2>1 DEF InsertWorkflow, Goto
      <3>3. LedgerTypeOK' /\ HistoryTypeOK'
        BY <1>2, <2>1 DEF InsertWorkflow, Goto
      <3>4. Linked'
        BY <1>2, <2>1 DEF InsertWorkflow, Goto
      <3> QED
        BY <3>1, <3>2, <3>3, <3>4
    <2>2. CASE status[cur[a]] # "NONE" /\ basket[cur[a]] # want[a]
      <3>1. Leave(a) /\ UNCHANGED <<ledger, workflow, records, network, history, stalls>>
        BY <1>2, <2>2 DEF InsertWorkflow, Recognise
      <3>2. ActorTypeOK' /\ pc' = [pc EXCEPT ![a] = "idle"] /\ Others(a)
        BY <3>1, LeaveTypes DEF Others
      <3>3. Linked'
        BY <3>1, <3>2 DEF Others
      <3> QED
        BY <3>1, <3>2, <3>3
    <2>3. CASE status[cur[a]] # "NONE" /\ basket[cur[a]] = want[a]
      <3> DEFINE l == IF status[cur[a]] \in Open THEN "claim" ELSE "advance"
      <3>1. /\ Goto(a, l) /\ l \in Location /\ cur[a] \in Checkout
            /\ cur' = [cur EXCEPT ![a] = cur[a]] /\ want' = [want EXCEPT ![a] = NoBasket]
            /\ UNCHANGED <<seen, ledger, workflow, records, network, history, stalls>>
        BY <1>2, <2>3 DEF InsertWorkflow, Recognise, Goto
      <3> HIDE DEF l
      <3>2. ActorTypeOK'
        BY <3>1, EnterTypes
      <3> USE DEF l
      <3>3. Linked'
        BY <1>2, <2>3 DEF InsertWorkflow, Recognise, Goto
      <3> QED
        BY <3>1, <3>2, <3>3
    <2> QED
      BY <2>1, <2>2, <2>3
  <1>3. ASSUME NEW a \in Actor, a \in Handler, ClaimLease(a)
        PROVE  TypeInv'
    <2>1. CASE status[cur[a]] \in Open /\ lease[cur[a]] = Free
      <3>1. ActorTypeOK'
        BY <1>3, <2>1 DEF ClaimLease, RowFree, Goto
      <3>2. StoreTypeOK'
        BY <1>3, <2>1 DEF ClaimLease, RowFree, Goto
      <3>3. LedgerTypeOK' /\ HistoryTypeOK'
        BY <1>3, <2>1 DEF ClaimLease, RowFree, Goto
      <3>4. Linked'
        BY <1>3, <2>1 DEF ClaimLease, RowFree, Goto
      <3> QED
        BY <3>1, <3>2, <3>3, <3>4
    <2>2. CASE ~(status[cur[a]] \in Open /\ lease[cur[a]] = Free)
      <3>1. ActorTypeOK'
        BY <1>3, <2>2 DEF ClaimLease, RowFree, Goto
      <3>2. StoreTypeOK'
        BY <1>3, <2>2 DEF ClaimLease, RowFree, Goto
      <3>3. LedgerTypeOK' /\ HistoryTypeOK'
        BY <1>3, <2>2 DEF ClaimLease, RowFree, Goto
      <3>4. Linked'
        BY <1>3, <2>2 DEF ClaimLease, RowFree, Goto
      <3> QED
        BY <3>1, <3>2, <3>3, <3>4
    <2> QED
      BY <2>1, <2>2
  <1>4. ASSUME NEW a \in Actor, a \in Handler, ClaimLost(a)
        PROVE  TypeInv'
    <2>1. CASE status[cur[a]] = "COMPLETED"
      <3>1. ActorTypeOK'
        BY <1>4, <2>1 DEF ClaimLost, Goto
      <3>2. StoreTypeOK'
        BY <1>4, <2>1 DEF ClaimLost, Goto
      <3>3. LedgerTypeOK' /\ HistoryTypeOK'
        BY <1>4, <2>1 DEF ClaimLost, Goto
      <3>4. Linked'
        BY <1>4, <2>1 DEF ClaimLost, Goto
      <3> QED
        BY <3>1, <3>2, <3>3, <3>4
    <2>2. CASE status[cur[a]] # "COMPLETED"
      <3>1. Leave(a) /\ UNCHANGED <<ledger, workflow, records, network, history, stalls>>
        BY <1>4, <2>2 DEF ClaimLost
      <3>2. ActorTypeOK' /\ pc' = [pc EXCEPT ![a] = "idle"] /\ Others(a)
        BY <3>1, LeaveTypes DEF Others
      <3>3. Linked'
        BY <3>1, <3>2 DEF Others
      <3> QED
        BY <3>1, <3>2, <3>3
    <2> QED
      BY <2>1, <2>2
  <1>5. ASSUME NEW w \in Actor, w \in Worker, NEW c \in Checkout, TakeCandidate(w, c)
        PROVE  TypeInv'
    BY <1>5 DEF TakeCandidate, RowFree, Goto
  <1>6. ASSUME NEW w \in Actor, w \in Worker, RecoverWorkflow(w)
        PROVE  TypeInv'
    BY <1>6 DEF RecoverWorkflow, Goto
  <1>7. ASSUME NEW a \in Actor, ReadWorkflow(a)
        PROVE  TypeInv'
    BY <1>7 DEF ReadWorkflow, Goto
  <1>8. ASSUME NEW a \in Actor, ReadOrder(a)
        PROVE  TypeInv'
    BY <1>8 DEF ReadOrder, Answer, Goto
  <1>9. ASSUME NEW a \in Actor, Reconcile(a)
        PROVE  TypeInv'
    BY <1>9 DEF Reconcile, GetReservation, Found, Answer, Goto
  <1>10. ASSUME NEW a \in Actor, ReserveStock(a)
        PROVE  TypeInv'
    <2> DEFINE c == cur[a]
    <2>1. c \in Checkout /\ basket[c] \in Basket /\ Reserve(c, basket[c])
      BY <1>10 DEF ReserveStock
    <2>2. LedgerTypeOK'
      BY <2>1, ReserveEffect
    <2>3. UNCHANGED <<workflow, records, network, local, history, stalls>>
          /\ \E l \in Location \ {"idle", "insert"} : pc' = [pc EXCEPT ![a] = l]
      BY <1>10 DEF ReserveStock, Found, Goto
    <2>4. Linked'
      BY <1>10, <2>1, <2>2, <2>3, ReserveEffect DEF ReserveStock
    <2> QED
      BY <2>2, <2>3, <2>4
  <1>11. ASSUME NEW a \in Actor, ConfirmReservation(a)
        PROVE  TypeInv'
    <2>1. /\ pc[a] \in {"confirmRejection", "confirmUnknown"}
          /\ UNCHANGED <<ledger, workflow, records, network, local, stalls>>
      BY <1>11 DEF ConfirmReservation
    <2>2. \/ /\ \E l \in {"markReleased", "markReserved", "fail"} : pc' = [pc EXCEPT ![a] = l]
             /\ UNCHANGED history
             /\ pc'[a] # "fail" => reservation[cur[a]] # "NONE"
             /\ pc'[a] = "markReserved" => reservation[cur[a]] = "RESERVED"
             /\ pc'[a] = "markReleased" => reservation[cur[a]] = "RELEASED"
          \/ Answer(a, "PENDING")
      BY <1>11 DEF ConfirmReservation, GetReservation, Found, Goto
    <2>3. CASE Answer(a, "PENDING")
      BY <2>1, <2>3 DEF Answer, Goto
    <2>4. CASE ~Answer(a, "PENDING")
      BY <2>1, <2>2, <2>4
    <2> QED
      BY <2>3, <2>4
  <1>12. ASSUME NEW a \in Actor, FailWorkflow(a)
        PROVE  TypeInv'
    BY <1>12 DEF FailWorkflow, Transition, SetStatus, RowFree, Answer, Goto
  <1>13. ASSUME NEW a \in Actor, MarkReleased(a)
        PROVE  TypeInv'
    BY <1>13 DEF MarkReleased, Transition, SetStatus, RowFree, Answer, Goto
  <1>14. ASSUME NEW a \in Actor, MarkReserved(a)
        PROVE  TypeInv'
    BY <1>14 DEF MarkReserved, SetStatus, RowFree, Goto
  <1>15. ASSUME NEW a \in Actor, Repersist(a)
        PROVE  TypeInv'
    <2>1. StoreTypeOK' /\ LedgerTypeOK' /\ HistoryTypeOK'
      BY <1>15 DEF Repersist, Answer, Goto
    <2>3. ActorTypeOK'
      BY <1>15 DEF Repersist, Answer, Goto
    <2>2. Linked'
      BY <1>15 DEF Repersist, Answer, Goto
    <2> QED
      BY <2>1, <2>2, <2>3
  <1>16. ASSUME NEW a \in Actor, PersistOrder(a)
        PROVE  TypeInv'
    BY <1>16 DEF PersistOrder, OrderCommitted, RowFree, Answer, Goto
  <1>17. ASSUME NEW a \in Actor, CheckOrder(a)
        PROVE  TypeInv'
    BY <1>17 DEF CheckOrder, Goto
  <1>18. ASSUME NEW a \in Actor, CheckStatus(a)
        PROVE  TypeInv'
    BY <1>18 DEF CheckStatus, Goto
  <1>19. ASSUME NEW a \in Actor, CancelWorkflow(a)
        PROVE  TypeInv'
    BY <1>19 DEF CancelWorkflow, Transition, SetStatus, RowFree, Goto
  <1>20. ASSUME NEW a \in Actor, Recheck(a)
        PROVE  TypeInv'
    BY <1>20 DEF Recheck, Goto
  <1>21. ASSUME NEW a \in Actor, ReleaseStock(a)
        PROVE  TypeInv'
    <2>1. UNCHANGED <<status, basket, lease, order, events, inDoubt, lateReserve, lateRelease,
                      local, acked, refused, stalls, reserved>>
      BY <1>21 DEF ReleaseStock, Release
    <2>2. (LedgerTypeOK /\ StoreTypeOK /\ HistoryTypeOK)'
      <3>1. LedgerTypeOK'
        BY <1>21, <2>1 DEF ReleaseStock, Release
      <3>2. (StoreTypeOK /\ HistoryTypeOK)'
        BY <2>1
      <3> QED
        BY <3>1, <3>2
    <2>3. (ActorTypeOK /\ Linked)'
      BY <1>21, <2>1 DEF ReleaseStock, Release, Goto
    <2> QED
      BY <2>2, <2>3
  <1>22. ASSUME NEW a \in Actor, MarkCompensated(a)
        PROVE  TypeInv'
    BY <1>22 DEF MarkCompensated, Transition, SetStatus, RowFree, Goto
  <1>23. ASSUME NEW a \in Actor, ReadOutcome(a)
        PROVE  TypeInv'
    BY <1>23 DEF ReadOutcome, Answer, Goto
  <1>24. ASSUME NEW a \in Actor, Finish(a)
        PROVE  TypeInv'
    BY <1>24 DEF Finish, RowFree, Leave, Goto
  <1>25. ASSUME NEW a \in Actor, ReserveStockFails(a)
        PROVE  TypeInv'
    <2> DEFINE c == cur[a]
    <2>1. c \in Checkout /\ basket[c] \in Basket /\ status[c] # "NONE"
      BY <1>25 DEF ReserveStockFails
    <2>2. UNCHANGED ledger \/ Reserve(c, basket[c])
      BY <1>25 DEF ReserveStockFails
    <2>3. LedgerTypeOK'
      BY <2>1, <2>2, ReserveEffect
    <2>4. UNCHANGED <<workflow, records, lateRelease, local, history, stalls>>
          /\ pc' = [pc EXCEPT ![a] = "confirmUnknown"]
          /\ lateReserve' \in {lateReserve, lateReserve \cup {c}}
      BY <1>25 DEF ReserveStockFails, Goto
    <2>5. Linked'
      BY <2>1, <2>2, <2>3, <2>4, ReserveEffect
    <2> QED
      BY <2>1, <2>3, <2>4, <2>5
  <1>26. ASSUME NEW a \in Actor, ReleaseStockFails(a)
        PROVE  TypeInv'
    <2>1. cur[a] \in Checkout /\ basket[cur[a]] \in Basket
      BY <1>26 DEF ReleaseStockFails
    <2>2. UNCHANGED ledger \/ Release(cur[a], basket[cur[a]])
      BY <1>26 DEF ReleaseStockFails
    <2>3. LedgerTypeOK'
      BY <2>1, <2>2, ReleaseEffect
    <2>4. /\ UNCHANGED <<workflow, records, lateReserve, local, acked, refused, stalls>>
          /\ pc' \in {[pc EXCEPT ![a] = "finish"], [pc EXCEPT ![a] = "outcome"]}
          /\ lateRelease' \in {lateRelease, lateRelease \cup {cur[a]}}
      BY <1>26 DEF ReleaseStockFails, ReadBack, Answer, Goto, history
    <2>5. pc[a] = "release" /\ status[cur[a]] # "NONE"
      BY <1>26 DEF ReleaseStockFails
    <2>6. Linked'
      BY <2>1, <2>2, <2>3, <2>4, <2>5, ReleaseEffect
    <2> QED
      BY <2>1, <2>3, <2>4, <2>6
  <1>27. ASSUME NEW a \in Actor, PersistFails(a)
        PROVE  TypeInv'
    <2>1. StoreTypeOK' /\ LedgerTypeOK' /\ HistoryTypeOK'
      BY <1>27 DEF PersistFails, RowFree, Answer, Goto
    <2>3. ActorTypeOK'
      BY <1>27 DEF PersistFails, RowFree, Answer, Goto
    <2>2. Linked'
      BY <1>27 DEF PersistFails, RowFree, Answer, Goto
    <2> QED
      BY <2>1, <2>2, <2>3
  <1>28. ASSUME NEW a \in Actor, QueryFails(a)
        PROVE  TypeInv'
    BY <1>28 DEF QueryFails, ReadBack, Goto
  <1>29. ASSUME NEW a \in Actor, Crash(a)
        PROVE  TypeInv'
    BY <1>29 DEF Crash, Leave, Goto
  <1>30. ASSUME NEW c \in Checkout, ResolveCommit(c)
        PROVE  TypeInv'
    BY <1>30 DEF ResolveCommit, OrderCommitted
  <1>31. ASSUME NEW c \in Checkout, ResolveAbort(c)
        PROVE  TypeInv'
    BY <1>31 DEF ResolveAbort
  <1>32. ASSUME NEW c \in Checkout, LateReserve(c)
        PROVE  TypeInv'
    <2>1. basket[c] \in Basket /\ Reserve(c, basket[c])
      BY <1>32 DEF LateReserve
    <2>2. LedgerTypeOK'
      BY <2>1, ReserveEffect
    <2>3. UNCHANGED <<workflow, records, lateRelease, pc, local, history, stalls>>
          /\ lateReserve' = lateReserve \ {c} /\ c \in lateReserve
      BY <1>32 DEF LateReserve
    <2>4. Linked'
      BY <2>1, <2>2, <2>3, ReserveEffect
    <2> QED
      BY <2>2, <2>3, <2>4
  <1>33. ASSUME NEW c \in Checkout, LateRelease(c)
        PROVE  TypeInv'
    <2>1. basket[c] \in Basket /\ Release(c, basket[c])
      BY <1>33 DEF LateRelease
    <2>2. LedgerTypeOK'
      BY <2>1, ReleaseEffect
    <2>3. UNCHANGED <<workflow, records, lateReserve, pc, local, history, stalls>>
          /\ lateRelease' = lateRelease \ {c} /\ c \in lateRelease
      BY <1>33 DEF LateRelease
    <2>4. Linked'
      BY <2>1, <2>2, <2>3, ReleaseEffect
    <2> QED
      BY <2>2, <2>3, <2>4
  <1>34. ASSUME NEW c \in Checkout, LeaseExpires(c)
        PROVE  TypeInv'
    BY <1>34 DEF LeaseExpires
  <1>35. ASSUME NEW c \in Checkout, LeaseOverrun(c)
        PROVE  TypeInv'
    BY <1>35 DEF LeaseOverrun
  <1>36. CASE UNCHANGED vars
    BY <1>36 DEF vars
  <1> QED
    BY <1>1, <1>2, <1>3, <1>4, <1>5, <1>6, <1>7, <1>8, <1>9, <1>10, <1>11, <1>12, <1>13,
        <1>14, <1>15, <1>16, <1>17, <1>18, <1>19, <1>20, <1>21, <1>22, <1>23, <1>24,
        <1>25, <1>26, <1>27, <1>28, <1>29, <1>30, <1>31, <1>32, <1>33, <1>34, <1>35,
        <1>36 DEF Next, Actor, Handle, Advance, Compensate, Fault, Environment

(* Type correctness of the saga, whatever the number of stalls: in         *)
(* particular the stock of a product never falls below zero                *)
(* (getOrCreateWorkflow, reserveStock).                                    *)
THEOREM TypeCorrect == Spec => []TypeOK
  <1>1. TypeInv => TypeOK
    BY DEF TypeInv
  <1> QED
    BY <1>1, TypeInvInit, TypeInvStep, PTL DEF Spec

-----------------------------------------------------------------------------
(* Orders and their events.                                                *)
Events == OneEventPerOrder /\ CompletedHasOrder

(* Order, event and COMPLETED are written together or not at all, also by  *)
(* a second driver and by a commit that is decided late                    *)
(* (persistOrderAndOutbox).                                                *)
LEMMA EventsStep == TypeInv /\ Events /\ [Next]_vars => Events'
  <1> SUFFICES ASSUME TypeInv, Events, [Next]_vars PROVE Events'
    OBVIOUS
  <1> USE LedgerAssumption, SagaAssumption DEF TypeInv, TypeOK, StoreTypeOK,
      ActorTypeOK, HistoryTypeOK, LedgerTypeOK, Status, ReservationStatus, Location,
      Plain, Compensating, Open, Recoverable, Terminal, Events, OneEventPerOrder,
      CompletedHasOrder, ledger, workflow, records, network, local, history
  <1>1. ASSUME NEW a \in Actor, a \in Handler, NEW c \in Checkout, NEW b \in Basket,
               Request(a, c, b)
        PROVE  Events'
    BY <1>1 DEF Request, Recognise, Leave, Goto
  <1>2. ASSUME NEW a \in Actor, a \in Handler, InsertWorkflow(a)
        PROVE  Events'
    BY <1>2 DEF InsertWorkflow, Recognise, Leave, Goto
  <1>3. ASSUME NEW a \in Actor, a \in Handler, ClaimLease(a)
        PROVE  Events'
    BY <1>3 DEF ClaimLease, RowFree, Goto
  <1>4. ASSUME NEW a \in Actor, a \in Handler, ClaimLost(a)
        PROVE  Events'
    BY <1>4 DEF ClaimLost, Leave, Goto
  <1>5. ASSUME NEW w \in Actor, w \in Worker, NEW c \in Checkout, TakeCandidate(w, c)
        PROVE  Events'
    BY <1>5 DEF TakeCandidate, RowFree, Goto
  <1>6. ASSUME NEW w \in Actor, w \in Worker, RecoverWorkflow(w)
        PROVE  Events'
    BY <1>6 DEF RecoverWorkflow, Goto
  <1>7. ASSUME NEW a \in Actor, ReadWorkflow(a)
        PROVE  Events'
    BY <1>7 DEF ReadWorkflow, Goto
  <1>8. ASSUME NEW a \in Actor, ReadOrder(a)
        PROVE  Events'
    BY <1>8 DEF ReadOrder, Answer, Goto
  <1>9. ASSUME NEW a \in Actor, Reconcile(a)
        PROVE  Events'
    BY <1>9 DEF Reconcile, GetReservation, Found, Answer, Goto
  <1>10. ASSUME NEW a \in Actor, ReserveStock(a)
        PROVE  Events'
    BY <1>10 DEF ReserveStock, ReserveAnswer, Reserve, Sufficient, Found, Goto
  <1>11. ASSUME NEW a \in Actor, ConfirmReservation(a)
        PROVE  Events'
    BY <1>11 DEF ConfirmReservation, GetReservation, Found, Answer, Goto
  <1>12. ASSUME NEW a \in Actor, FailWorkflow(a)
        PROVE  Events'
    BY <1>12 DEF FailWorkflow, Transition, SetStatus, RowFree, Answer, Goto
  <1>13. ASSUME NEW a \in Actor, MarkReleased(a)
        PROVE  Events'
    BY <1>13 DEF MarkReleased, Transition, SetStatus, RowFree, Answer, Goto
  <1>14. ASSUME NEW a \in Actor, MarkReserved(a)
        PROVE  Events'
    BY <1>14 DEF MarkReserved, SetStatus, RowFree, Goto
  <1>15. ASSUME NEW a \in Actor, Repersist(a)
        PROVE  Events'
    BY <1>15 DEF Repersist, Answer, Goto
  <1>16. ASSUME NEW a \in Actor, PersistOrder(a)
        PROVE  Events'
    BY <1>16 DEF PersistOrder, OrderCommitted, RowFree, Answer, Goto
  <1>17. ASSUME NEW a \in Actor, CheckOrder(a)
        PROVE  Events'
    BY <1>17 DEF CheckOrder, Goto
  <1>18. ASSUME NEW a \in Actor, CheckStatus(a)
        PROVE  Events'
    BY <1>18 DEF CheckStatus, Goto
  <1>19. ASSUME NEW a \in Actor, CancelWorkflow(a)
        PROVE  Events'
    BY <1>19 DEF CancelWorkflow, Transition, SetStatus, RowFree, Goto
  <1>20. ASSUME NEW a \in Actor, Recheck(a)
        PROVE  Events'
    BY <1>20 DEF Recheck, Goto
  <1>21. ASSUME NEW a \in Actor, ReleaseStock(a)
        PROVE  Events'
    BY <1>21 DEF ReleaseStock, Release, Goto
  <1>22. ASSUME NEW a \in Actor, MarkCompensated(a)
        PROVE  Events'
    BY <1>22 DEF MarkCompensated, Transition, SetStatus, RowFree, Goto
  <1>23. ASSUME NEW a \in Actor, ReadOutcome(a)
        PROVE  Events'
    BY <1>23 DEF ReadOutcome, Answer, Goto
  <1>24. ASSUME NEW a \in Actor, Finish(a)
        PROVE  Events'
    BY <1>24 DEF Finish, RowFree, Leave, Goto
  <1>25. ASSUME NEW a \in Actor, ReserveStockFails(a)
        PROVE  Events'
    BY <1>25 DEF ReserveStockFails, Reserve, Sufficient, Goto
  <1>26. ASSUME NEW a \in Actor, ReleaseStockFails(a)
        PROVE  Events'
    BY <1>26 DEF ReleaseStockFails, ReadBack, Release, Answer, Goto
  <1>27. ASSUME NEW a \in Actor, PersistFails(a)
        PROVE  Events'
    BY <1>27 DEF PersistFails, RowFree, Answer, Goto
  <1>28. ASSUME NEW a \in Actor, QueryFails(a)
        PROVE  Events'
    BY <1>28 DEF QueryFails, ReadBack, Goto
  <1>29. ASSUME NEW a \in Actor, Crash(a)
        PROVE  Events'
    BY <1>29 DEF Crash, Leave, Goto
  <1>30. ASSUME NEW c \in Checkout, ResolveCommit(c)
        PROVE  Events'
    BY <1>30 DEF ResolveCommit, OrderCommitted
  <1>31. ASSUME NEW c \in Checkout, ResolveAbort(c)
        PROVE  Events'
    BY <1>31 DEF ResolveAbort
  <1>32. ASSUME NEW c \in Checkout, LateReserve(c)
        PROVE  Events'
    BY <1>32 DEF LateReserve, Reserve, Sufficient
  <1>33. ASSUME NEW c \in Checkout, LateRelease(c)
        PROVE  Events'
    BY <1>33 DEF LateRelease, Release
  <1>34. ASSUME NEW c \in Checkout, LeaseExpires(c)
        PROVE  Events'
    BY <1>34 DEF LeaseExpires
  <1>35. ASSUME NEW c \in Checkout, LeaseOverrun(c)
        PROVE  Events'
    BY <1>35 DEF LeaseOverrun
  <1>36. CASE UNCHANGED vars
    BY <1>36 DEF vars
  <1> QED
    BY <1>1, <1>2, <1>3, <1>4, <1>5, <1>6, <1>7, <1>8, <1>9, <1>10, <1>11, <1>12, <1>13,
        <1>14, <1>15, <1>16, <1>17, <1>18, <1>19, <1>20, <1>21, <1>22, <1>23, <1>24,
        <1>25, <1>26, <1>27, <1>28, <1>29, <1>30, <1>31, <1>32, <1>33, <1>34, <1>35,
        <1>36 DEF Next, Actor, Handle, Advance, Compensate, Fault, Environment

-----------------------------------------------------------------------------
(* What an actor's location says about the reservation.                    *)

(* Steps an actor reaches only once product-service has a reservation.     *)
AfterReserve == {"markReserved", "persist", "release"} \cup Compensating

Reserved ==
    /\ \A a \in Actor :
        /\ pc[a] \in AfterReserve => reservation[cur[a]] # "NONE"
        /\ pc[a] \in {"markReleased", "released"} => reservation[cur[a]] = "RELEASED"
    /\ \A c \in Checkout :
        /\ status[c] = "COMPENSATION_PENDING" => reservation[c] # "NONE"
        /\ status[c] = "COMPENSATED" => reservation[c] = "RELEASED"

StallInv == TypeInv /\ Events /\ Reserved

(* A compensation is only stored over a reservation that exists, and       *)
(* finished only over one that was released; a release is never undone,    *)
(* not even by a ReserveStock executed late (releaseWorkflowReservation,   *)
(* reserveStock).                                                          *)
LEMMA ReservedStep == TypeInv /\ Events /\ Reserved /\ [Next]_vars => Reserved'
  <1> SUFFICES ASSUME TypeInv, Events, Reserved, [Next]_vars PROVE Reserved'
    OBVIOUS
  <1> USE LedgerAssumption, SagaAssumption DEF TypeInv, TypeOK, Linked, StoreTypeOK,
      ActorTypeOK, HistoryTypeOK, LedgerTypeOK, Status, ReservationStatus, Location,
      Plain, Compensating, Open, Recoverable, Terminal, Reserved, AfterReserve, ledger,
      workflow, records, network, local, history
  <1>1. ASSUME NEW a \in Actor, a \in Handler, NEW c \in Checkout, NEW b \in Basket,
               Request(a, c, b)
        PROVE  Reserved'
    BY <1>1 DEF Request, Recognise, Leave, Goto
  <1>2. ASSUME NEW a \in Actor, a \in Handler, InsertWorkflow(a)
        PROVE  Reserved'
    BY <1>2 DEF InsertWorkflow, Recognise, Leave, Goto
  <1>3. ASSUME NEW a \in Actor, a \in Handler, ClaimLease(a)
        PROVE  Reserved'
    BY <1>3 DEF ClaimLease, RowFree, Goto
  <1>4. ASSUME NEW a \in Actor, a \in Handler, ClaimLost(a)
        PROVE  Reserved'
    BY <1>4 DEF ClaimLost, Leave, Goto
  <1>5. ASSUME NEW w \in Actor, w \in Worker, NEW c \in Checkout, TakeCandidate(w, c)
        PROVE  Reserved'
    BY <1>5 DEF TakeCandidate, RowFree, Goto
  <1>6. ASSUME NEW w \in Actor, w \in Worker, RecoverWorkflow(w)
        PROVE  Reserved'
    BY <1>6 DEF RecoverWorkflow, Goto
  <1>7. ASSUME NEW a \in Actor, ReadWorkflow(a)
        PROVE  Reserved'
    BY <1>7 DEF ReadWorkflow, Goto
  <1>8. ASSUME NEW a \in Actor, ReadOrder(a)
        PROVE  Reserved'
    BY <1>8 DEF ReadOrder, Answer, Goto
  <1>9. ASSUME NEW a \in Actor, Reconcile(a)
        PROVE  Reserved'
    BY <1>9 DEF Reconcile, GetReservation, Found, Answer, Goto
  <1>10. ASSUME NEW a \in Actor, ReserveStock(a)
        PROVE  Reserved'
    BY <1>10 DEF ReserveStock, ReserveAnswer, Reserve, Sufficient, Found, Goto
  <1>11. ASSUME NEW a \in Actor, ConfirmReservation(a)
        PROVE  Reserved'
    BY <1>11 DEF ConfirmReservation, GetReservation, Found, Answer, Goto
  <1>12. ASSUME NEW a \in Actor, FailWorkflow(a)
        PROVE  Reserved'
    BY <1>12 DEF FailWorkflow, Transition, SetStatus, RowFree, Answer, Goto
  <1>13. ASSUME NEW a \in Actor, MarkReleased(a)
        PROVE  Reserved'
    BY <1>13 DEF MarkReleased, Transition, SetStatus, RowFree, Answer, Goto
  <1>14. ASSUME NEW a \in Actor, MarkReserved(a)
        PROVE  Reserved'
    BY <1>14 DEF MarkReserved, SetStatus, RowFree, Goto
  <1>15. ASSUME NEW a \in Actor, Repersist(a)
        PROVE  Reserved'
    BY <1>15 DEF Repersist, Answer, Goto
  <1>16. ASSUME NEW a \in Actor, PersistOrder(a)
        PROVE  Reserved'
    BY <1>16 DEF PersistOrder, OrderCommitted, RowFree, Answer, Goto
  <1>17. ASSUME NEW a \in Actor, CheckOrder(a)
        PROVE  Reserved'
    BY <1>17 DEF CheckOrder, Goto
  <1>18. ASSUME NEW a \in Actor, CheckStatus(a)
        PROVE  Reserved'
    BY <1>18 DEF CheckStatus, Goto
  <1>19. ASSUME NEW a \in Actor, CancelWorkflow(a)
        PROVE  Reserved'
    BY <1>19 DEF CancelWorkflow, Transition, SetStatus, RowFree, Goto
  <1>20. ASSUME NEW a \in Actor, Recheck(a)
        PROVE  Reserved'
    BY <1>20 DEF Recheck, Goto
  <1>21. ASSUME NEW a \in Actor, ReleaseStock(a)
        PROVE  Reserved'
    BY <1>21 DEF ReleaseStock, Release, Goto
  <1>22. ASSUME NEW a \in Actor, MarkCompensated(a)
        PROVE  Reserved'
    BY <1>22 DEF MarkCompensated, Transition, SetStatus, RowFree, Goto
  <1>23. ASSUME NEW a \in Actor, ReadOutcome(a)
        PROVE  Reserved'
    BY <1>23 DEF ReadOutcome, Answer, Goto
  <1>24. ASSUME NEW a \in Actor, Finish(a)
        PROVE  Reserved'
    BY <1>24 DEF Finish, RowFree, Leave, Goto
  <1>25. ASSUME NEW a \in Actor, ReserveStockFails(a)
        PROVE  Reserved'
    BY <1>25 DEF ReserveStockFails, Reserve, Sufficient, Goto
  <1>26. ASSUME NEW a \in Actor, ReleaseStockFails(a)
        PROVE  Reserved'
    BY <1>26 DEF ReleaseStockFails, ReadBack, Release, Answer, Goto
  <1>27. ASSUME NEW a \in Actor, PersistFails(a)
        PROVE  Reserved'
    BY <1>27 DEF PersistFails, RowFree, Answer, Goto
  <1>28. ASSUME NEW a \in Actor, QueryFails(a)
        PROVE  Reserved'
    BY <1>28 DEF QueryFails, ReadBack, Goto
  <1>29. ASSUME NEW a \in Actor, Crash(a)
        PROVE  Reserved'
    BY <1>29 DEF Crash, Leave, Goto
  <1>30. ASSUME NEW c \in Checkout, ResolveCommit(c)
        PROVE  Reserved'
    BY <1>30 DEF ResolveCommit, OrderCommitted
  <1>31. ASSUME NEW c \in Checkout, ResolveAbort(c)
        PROVE  Reserved'
    BY <1>31 DEF ResolveAbort
  <1>32. ASSUME NEW c \in Checkout, LateReserve(c)
        PROVE  Reserved'
    BY <1>32 DEF LateReserve, Reserve, Sufficient
  <1>33. ASSUME NEW c \in Checkout, LateRelease(c)
        PROVE  Reserved'
    BY <1>33 DEF LateRelease, Release
  <1>34. ASSUME NEW c \in Checkout, LeaseExpires(c)
        PROVE  Reserved'
    BY <1>34 DEF LeaseExpires
  <1>35. ASSUME NEW c \in Checkout, LeaseOverrun(c)
        PROVE  Reserved'
    BY <1>35 DEF LeaseOverrun
  <1>36. CASE UNCHANGED vars
    BY <1>36 DEF vars
  <1> QED
    BY <1>1, <1>2, <1>3, <1>4, <1>5, <1>6, <1>7, <1>8, <1>9, <1>10, <1>11, <1>12, <1>13,
        <1>14, <1>15, <1>16, <1>17, <1>18, <1>19, <1>20, <1>21, <1>22, <1>23, <1>24,
        <1>25, <1>26, <1>27, <1>28, <1>29, <1>30, <1>31, <1>32, <1>33, <1>34, <1>35,
        <1>36 DEF Next, Actor, Handle, Advance, Compensate, Fault, Environment

LEMMA StallInvInvariant == Spec => []StallInv
  <1>1. Init => StallInv
    <2> SUFFICES ASSUME Init PROVE StallInv
      OBVIOUS
    <2>1. TypeInv
      BY TypeInvInit
    <2>2. Events /\ Reserved
      BY DEF Init, LedgerInit, Events, OneEventPerOrder, CompletedHasOrder, Reserved,
             AfterReserve, Compensating
    <2> QED
      BY <2>1, <2>2 DEF StallInv
  <1>2. StallInv /\ [Next]_vars => StallInv'
    BY TypeInvStep, EventsStep, ReservedStep DEF StallInv
  <1> QED
    BY <1>1, <1>2, PTL DEF Spec

(* An order has exactly one ORDER_CONFIRMED event and no event lacks its   *)
(* order, whatever crashes, and even when leases expire under live owners  *)
(* and two of them persist the same order (persistOrderAndOutbox).         *)
THEOREM OneEvent == Spec => []OneEventPerOrder
  <1>1. StallInv => OneEventPerOrder
    BY DEF StallInv, Events
  <1> QED
    BY <1>1, StallInvInvariant, PTL

(* A COMPLETED workflow always has its order: advanceWorkflow's internal   *)
(* error never happens.                                                    *)
THEOREM CompletedOrders == Spec => []CompletedHasOrder
  <1>1. StallInv => CompletedHasOrder
    BY DEF StallInv, Events
  <1> QED
    BY <1>1, StallInvInvariant, PTL

(* A compensated checkout holds no stock, whatever is executed late or     *)
(* twice (releaseWorkflowReservation, releaseStock).                       *)
THEOREM CompensationIsComplete == Spec => []CompensatedHoldsNothing
  <1>1. StallInv => CompensatedHoldsNothing
    BY DEF StallInv, Reserved, CompensatedHoldsNothing
  <1> QED
    BY <1>1, StallInvInvariant, PTL

-----------------------------------------------------------------------------
(* A step of the saga is a call of the ledger or leaves it alone.          *)
LEMMA StepCallsLedger == TypeInv /\ [Next]_vars => [LedgerNext]_ledger
  <1> SUFFICES ASSUME TypeInv, [Next]_vars PROVE [LedgerNext]_ledger
    OBVIOUS
  <1> USE DEF workflow, records
  <1>1. ASSUME NEW c \in Checkout, status[c] # "NONE",
               Reserve(c, basket[c]) \/ Release(c, basket[c])
        PROVE  LedgerNext
    BY <1>1 DEF LedgerNext, TypeInv, Linked
  <1>2. ASSUME NEW a \in Actor,
               \/ ReserveStock(a) \/ ReserveStockFails(a)
               \/ ReleaseStock(a) \/ ReleaseStockFails(a)
        PROVE  [LedgerNext]_ledger
    <2>1. cur[a] \in Checkout /\ status[cur[a]] # "NONE"
      BY <1>2 DEF ReserveStock, ReserveStockFails, ReleaseStock, ReleaseStockFails, TypeInv, Linked
    <2>2. \/ Reserve(cur[a], basket[cur[a]]) \/ Release(cur[a], basket[cur[a]])
          \/ UNCHANGED ledger
      BY <1>2 DEF ReserveStock, ReserveStockFails, ReleaseStock, ReleaseStockFails
    <2> QED
      BY <1>1, <2>1, <2>2
  <1>3. ASSUME NEW c \in Checkout, LateReserve(c) \/ LateRelease(c) PROVE LedgerNext
    <2>1. status[c] # "NONE"
      BY <1>3 DEF LateReserve, LateRelease, TypeInv, Linked
    <2> QED
      BY <1>1, <1>3, <2>1 DEF LateReserve, LateRelease
  <1>4. ASSUME NEW a \in Actor,
               \/ \E c \in Checkout, b \in Basket : Request(a, c, b)
               \/ \E c \in Checkout : TakeCandidate(a, c)
               \/ Handle(a) \/ RecoverWorkflow(a) \/ Advance(a) \/ Compensate(a)
               \/ Finish(a) \/ Fault(a)
        PROVE  [LedgerNext]_ledger
    <2>1. CASE \/ \E c \in Checkout, b \in Basket : Request(a, c, b)
               \/ \E c \in Checkout : TakeCandidate(a, c)
               \/ Handle(a) \/ RecoverWorkflow(a) \/ Finish(a)
      BY <2>1 DEF Request, TakeCandidate, Handle, InsertWorkflow, ClaimLease, ClaimLost,
                  RecoverWorkflow, Finish
    <2>2. CASE Advance(a)
      BY <1>2, <2>2 DEF Advance, ReadWorkflow, ReadOrder, Reconcile, ConfirmReservation,
         FailWorkflow, MarkReleased, MarkReserved, Repersist, PersistOrder
    <2>3. CASE Compensate(a)
      BY <1>2, <2>3 DEF Compensate, CheckOrder, CheckStatus, CancelWorkflow, Recheck,
         MarkCompensated, ReadOutcome
    <2>4. CASE Fault(a)
      BY <1>2, <2>4 DEF Fault, PersistFails, QueryFails, Crash
    <2> QED
      BY <1>4, <2>1, <2>2, <2>3, <2>4
  <1>5. ASSUME NEW c \in Checkout, Environment(c) PROVE [LedgerNext]_ledger
    BY <1>3, <1>5 DEF Environment, ResolveCommit, ResolveAbort, LeaseExpires, LeaseOverrun
  <1>6. CASE UNCHANGED vars
    BY <1>6 DEF vars
  <1> QED
    BY <1>4, <1>5, <1>6 DEF Next, Actor

(* The saga only reaches product-service through calls of the ledger, each *)
(* with the basket of the workflow row: also a call that is executed after *)
(* its caller gave up (product.grpc.client.ts, OrderService).              *)
THEOREM SagaCallsLedger == Spec => LedgerSpec
  <1>1. Init => LedgerInit
    BY DEF Init
  <1>2. StallInv => TypeInv
    BY DEF StallInv
  <1> QED
    BY <1>1, <1>2, StallInvInvariant, StepCallsLedger, PTL DEF Spec, LedgerSpec

(* No crash, retry, late or repeated message of a checkout creates or      *)
(* loses a unit of stock, whatever its handlers and workers do             *)
(* (reserveStock, releaseStock as OrderService calls them).                *)
THEOREM SagaConservesStock ==
    ASSUME IsFiniteSet(Checkout)
    PROVE  Spec => []StockConserved
  BY SagaCallsLedger, LedgerConserved, PTL
=============================================================================
