------------------------ MODULE CheckoutLeaseProofs ------------------------
(***************************************************************************)
(* What the lease of a workflow row gives, for any number of checkouts,    *)
(* handlers and workers: one driver per checkout, and with it a decision   *)
(* that never changes, truthful answers and confirmed orders that keep     *)
(* their stock, for every checkout none of whose leases expired under a    *)
(* live owner, whatever happens to the others.  The run saga_overrun shows *)
(* a checkout whose lease did.  From the same invariant, if no lease does, *)
(* the saga implements the checkout contract: what order-service and       *)
(* product-service keep is an implementation detail of Take, Confirm,      *)
(* Refuse and GiveBack.                                                    *)
(***************************************************************************)
EXTENDS CheckoutSagaProofs

-----------------------------------------------------------------------------
(* Who holds the lease: only the actor working on the checkout, and every  *)
(* actor past its claim that works on an open checkout.                    *)
Owns(a) == lease[cur[a]] = a

Leased ==
    /\ \A a \in Actor, c \in Checkout :
        lease[c] = a => cur[a] = c /\ pc[a] \notin {"idle", "insert", "claim", "claimLost"}
    /\ \A a \in Actor : cur[a] \in InTime =>
        /\ pc[a] \in Driving \cup {"recover"} => Owns(a)
        /\ pc[a] = "advance" => Owns(a) \/ status[cur[a]] \notin Open

(* How far an actor's program counter pins the status of its checkout.     *)
Tracked ==
    \A a \in Actor : LET s == status[cur[a]] IN cur[a] \in InTime =>
        /\ pc[a] = "readOrder" =>
            /\ seen[a] # "NONE"
            /\ seen[a] \in Open => Owns(a) /\ s = seen[a]
            /\ seen[a] \in Terminal => s = seen[a]
            /\ seen[a] = "COMPENSATION_PENDING" => s \in {"COMPENSATION_PENDING", "COMPENSATED"}
        /\ pc[a] = "reconcile" => s \in Open /\ s = seen[a]
        /\ pc[a] \in {"reserve", "confirmRejection", "confirmUnknown", "fail"} => s = "STARTED"
        /\ pc[a] = "markReserved" => s \in Open
        /\ pc[a] = "persist" => s = "RESERVED"
        /\ pc[a] \in {"checkOrder", "checkStatus", "cancel"} => s \in {"RESERVED", "COMPLETED"}
        /\ pc[a] = "recheck" => s \in {"COMPENSATION_PENDING", "COMPLETED"}
        /\ pc[a] \in {"release", "released"} => s = "COMPENSATION_PENDING"
        /\ pc[a] \notin {"markReleased", "repersist", "persistAgain"}

Settled ==
    \A c \in InTime :
        /\ c \in order <=> status[c] = "COMPLETED"
        /\ status[c] = "COMPLETED" => reservation[c] = "RESERVED"
        /\ reservation[c] = "RELEASED" => status[c] \in {"COMPENSATION_PENDING", "COMPENSATED"}
        /\ c \in lateRelease => status[c] \in {"COMPENSATION_PENDING", "COMPENSATED"}
        /\ c \in inDoubt =>
            /\ status[c] = "RESERVED" /\ reservation[c] = "RESERVED"
            /\ lease[c] \in Actor =>
                pc[lease[c]] \in {"checkOrder", "checkStatus", "cancel", "outcome", "finish"}
        /\ c \in acked => status[c] = "COMPLETED"
        /\ c \in refused => status[c] \in {"COMPENSATED", "FAILED"}

LeaseInv == StallInv /\ Leased /\ Tracked /\ Settled

(* A checkout one of whose leases expired too early stays one.             *)
LEMMA InTimeStep ==
    ASSUME TypeInv, [Next]_vars
    PROVE  /\ InTime \subseteq Checkout /\ InTime' \subseteq InTime
           /\ \A c \in Checkout : LeaseOverrun(c) => c \notin InTime'
  <1>1. stalls \in [Checkout -> Nat]
    BY DEF TypeInv, TypeOK, HistoryTypeOK
  <1>2. stalls' = stalls \/ \E c \in Checkout : LeaseOverrun(c)
    BY DEF Next, vars, history, Handle, Advance, Compensate, Fault, Environment, Request,
       InsertWorkflow, ClaimLease, ClaimLost, Finish, TakeCandidate, RecoverWorkflow,
       ReadWorkflow, ReadOrder, Reconcile, ReserveStock, ConfirmReservation, FailWorkflow,
       MarkReleased, MarkReserved, Repersist, PersistOrder, CheckOrder, CheckStatus,
       CancelWorkflow, Recheck, ReleaseStock, MarkCompensated, ReadOutcome,
       ReserveStockFails, ReleaseStockFails, PersistFails, QueryFails, Crash,
       ResolveCommit, ResolveAbort, LateReserve, LateRelease, LeaseExpires
  <1> QED
    BY <1>1, <1>2 DEF InTime, LeaseOverrun

-----------------------------------------------------------------------------
(* A lease is given to one actor at a time and kept until its finally      *)
(* block (create, processOrderRecoveryOnce).                               *)
LEMMA LeasedStep == LeaseInv /\ [Next]_vars => Leased'
  <1> SUFFICES ASSUME LeaseInv, [Next]_vars PROVE Leased'
    OBVIOUS
  <1>0. InTime \subseteq Checkout /\ InTime' \subseteq InTime
    BY InTimeStep DEF LeaseInv, StallInv
  <1> USE <1>0, LedgerAssumption, SagaAssumption DEF LeaseInv, StallInv, TypeInv, TypeOK,
      Linked, StoreTypeOK, ActorTypeOK, HistoryTypeOK, LedgerTypeOK, Status,
      ReservationStatus, Location, Plain, Compensating, Open, Recoverable, Terminal,
      Leased, Owns, Driving, Tracked, Settled, ledger, workflow, records, network,
      local, history
  <1>1. ASSUME NEW a \in Actor, a \in Handler, NEW c \in Checkout, NEW b \in Basket,
               Request(a, c, b)
        PROVE  Leased'
    <2>1. CASE status[c] = "NONE"
      BY <1>1, <2>1 DEF Request, Goto
    <2>2. CASE status[c] # "NONE" /\ basket[c] # b
      <3>1. Leave(a) /\ UNCHANGED <<ledger, workflow, records, network, history, stalls>>
        BY <1>1, <2>2 DEF Request, Recognise
      <3>2. pc' = [pc EXCEPT ![a] = "idle"] /\ Others(a)
        BY <3>1, LeaveTypes
      <3>3. \A d \in Checkout : lease[d] # a
        BY <1>1, <2>2 DEF Request, Recognise
      <3>4. ASSUME NEW x \in Actor, NEW d \in Checkout, lease'[d] = x
            PROVE  x # a /\ cur'[x] = d /\ pc'[x] \notin {"idle", "insert", "claim", "claimLost"}
        BY <3>1, <3>2, <3>3, <3>4 DEF Others
      <3>5. ASSUME NEW x \in Actor
            PROVE  cur'[x] \in InTime' =>
                     /\ pc'[x] \in Driving \cup {"recover"} => Owns(x)'
                     /\ pc'[x] = "advance" => Owns(x)' \/ status'[cur'[x]] \notin Open
        BY <3>1, <3>2 DEF Others
      <3> QED
        BY <3>4, <3>5
    <2>3. CASE status[c] # "NONE" /\ basket[c] = b
      BY <1>1, <2>3 DEF Request, Recognise, Goto
    <2> QED
      BY <2>1, <2>2, <2>3
  <1>2. ASSUME NEW a \in Actor, a \in Handler, InsertWorkflow(a)
        PROVE  Leased'
    BY <1>2 DEF InsertWorkflow, Recognise, Leave, Goto
  <1>3. ASSUME NEW a \in Actor, a \in Handler, ClaimLease(a)
        PROVE  Leased'
    BY <1>3 DEF ClaimLease, RowFree, Goto
  <1>4. ASSUME NEW a \in Actor, a \in Handler, ClaimLost(a)
        PROVE  Leased'
    <2>1. CASE status[cur[a]] = "COMPLETED"
      BY <1>4, <2>1 DEF ClaimLost, Goto
    <2>2. CASE status[cur[a]] # "COMPLETED"
      <3>1. Leave(a) /\ UNCHANGED <<ledger, workflow, records, network, history, stalls>>
        BY <1>4, <2>2 DEF ClaimLost
      <3>2. pc' = [pc EXCEPT ![a] = "idle"] /\ Others(a)
        BY <3>1, LeaveTypes
      <3>3. \A d \in Checkout : lease[d] # a
        BY <1>4, <2>2 DEF ClaimLost
      <3>4. ASSUME NEW x \in Actor, NEW d \in Checkout, lease'[d] = x
            PROVE  x # a /\ cur'[x] = d /\ pc'[x] \notin {"idle", "insert", "claim", "claimLost"}
        BY <3>1, <3>2, <3>3, <3>4 DEF Others
      <3>5. ASSUME NEW x \in Actor
            PROVE  cur'[x] \in InTime' =>
                     /\ pc'[x] \in Driving \cup {"recover"} => Owns(x)'
                     /\ pc'[x] = "advance" => Owns(x)' \/ status'[cur'[x]] \notin Open
        BY <3>1, <3>2 DEF Others
      <3> QED
        BY <3>4, <3>5
    <2> QED
      BY <2>1, <2>2
  <1>5. ASSUME NEW w \in Actor, w \in Worker, NEW c \in Checkout, TakeCandidate(w, c)
        PROVE  Leased'
    BY <1>5 DEF TakeCandidate, RowFree, Goto
  <1>6. ASSUME NEW w \in Actor, w \in Worker, RecoverWorkflow(w)
        PROVE  Leased'
    BY <1>6 DEF RecoverWorkflow, Goto
  <1>7. ASSUME NEW a \in Actor, ReadWorkflow(a)
        PROVE  Leased'
    BY <1>7 DEF ReadWorkflow, Goto
  <1>8. ASSUME NEW a \in Actor, ReadOrder(a)
        PROVE  Leased'
    <2>1. /\ UNCHANGED <<ledger, workflow, records, network, local, stalls>>
          /\ \E l \in {"finish", "repersist", "reconcile"} :
                /\ pc' = [pc EXCEPT ![a] = l]
                /\ l = "repersist" => cur[a] \in order /\ seen[a] # "COMPLETED"
                /\ l = "reconcile" => cur[a] \notin order /\ seen[a] \in Open
      BY <1>8 DEF ReadOrder, Answer, Goto
    <2> QED
      BY <1>8, <2>1 DEF ReadOrder
  <1>9. ASSUME NEW a \in Actor, Reconcile(a)
        PROVE  Leased'
    BY <1>9 DEF Reconcile, GetReservation, Found, Answer, Goto
  <1>10. ASSUME NEW a \in Actor, ReserveStock(a)
        PROVE  Leased'
    BY <1>10 DEF ReserveStock, ReserveAnswer, Reserve, Sufficient, Found, Goto
  <1>11. ASSUME NEW a \in Actor, ConfirmReservation(a)
        PROVE  Leased'
    BY <1>11 DEF ConfirmReservation, GetReservation, Found, Answer, Goto
  <1>12. ASSUME NEW a \in Actor, FailWorkflow(a)
        PROVE  Leased'
    BY <1>12 DEF FailWorkflow, Transition, SetStatus, RowFree, Answer, Goto
  <1>13. ASSUME NEW a \in Actor, MarkReleased(a)
        PROVE  Leased'
    BY <1>13 DEF MarkReleased, Transition, SetStatus, RowFree, Answer, Goto
  <1>14. ASSUME NEW a \in Actor, MarkReserved(a)
        PROVE  Leased'
    BY <1>14 DEF MarkReserved, SetStatus, RowFree, Goto
  <1>15. ASSUME NEW a \in Actor, Repersist(a)
        PROVE  Leased'
    BY <1>15 DEF Repersist, Answer, Goto
  <1>16. ASSUME NEW a \in Actor, PersistOrder(a)
        PROVE  Leased'
    BY <1>16 DEF PersistOrder, OrderCommitted, RowFree, Answer, Goto
  <1>17. ASSUME NEW a \in Actor, CheckOrder(a)
        PROVE  Leased'
    BY <1>17 DEF CheckOrder, Goto
  <1>18. ASSUME NEW a \in Actor, CheckStatus(a)
        PROVE  Leased'
    BY <1>18 DEF CheckStatus, Goto
  <1>19. ASSUME NEW a \in Actor, CancelWorkflow(a)
        PROVE  Leased'
    BY <1>19 DEF CancelWorkflow, Transition, SetStatus, RowFree, Goto
  <1>20. ASSUME NEW a \in Actor, Recheck(a)
        PROVE  Leased'
    BY <1>20 DEF Recheck, Goto
  <1>21. ASSUME NEW a \in Actor, ReleaseStock(a)
        PROVE  Leased'
    BY <1>21 DEF ReleaseStock, Release, Goto
  <1>22. ASSUME NEW a \in Actor, MarkCompensated(a)
        PROVE  Leased'
    BY <1>22 DEF MarkCompensated, Transition, SetStatus, RowFree, Goto
  <1>23. ASSUME NEW a \in Actor, ReadOutcome(a)
        PROVE  Leased'
    BY <1>23 DEF ReadOutcome, Answer, Goto
  <1>24. ASSUME NEW a \in Actor, Finish(a)
        PROVE  Leased'
    BY <1>24 DEF Finish, RowFree, Leave, Goto
  <1>25. ASSUME NEW a \in Actor, ReserveStockFails(a)
        PROVE  Leased'
    BY <1>25 DEF ReserveStockFails, Reserve, Sufficient, Goto
  <1>26. ASSUME NEW a \in Actor, ReleaseStockFails(a)
        PROVE  Leased'
    BY <1>26 DEF ReleaseStockFails, ReadBack, Release, Answer, Goto
  <1>27. ASSUME NEW a \in Actor, PersistFails(a)
        PROVE  Leased'
    BY <1>27 DEF PersistFails, RowFree, Answer, Goto
  <1>28. ASSUME NEW a \in Actor, QueryFails(a)
        PROVE  Leased'
    BY <1>28 DEF QueryFails, ReadBack, Goto
  <1>29. ASSUME NEW a \in Actor, Crash(a)
        PROVE  Leased'
    BY <1>29 DEF Crash, Leave, Goto
  <1>30. ASSUME NEW c \in Checkout, ResolveCommit(c)
        PROVE  Leased'
    BY <1>30 DEF ResolveCommit, OrderCommitted
  <1>31. ASSUME NEW c \in Checkout, ResolveAbort(c)
        PROVE  Leased'
    BY <1>31 DEF ResolveAbort
  <1>32. ASSUME NEW c \in Checkout, LateReserve(c)
        PROVE  Leased'
    BY <1>32 DEF LateReserve, Reserve, Sufficient
  <1>33. ASSUME NEW c \in Checkout, LateRelease(c)
        PROVE  Leased'
    BY <1>33 DEF LateRelease, Release
  <1>34. ASSUME NEW c \in Checkout, LeaseExpires(c)
        PROVE  Leased'
    BY <1>34 DEF LeaseExpires
  <1>35. ASSUME NEW c \in Checkout, LeaseOverrun(c)
        PROVE  Leased'
    <2>1. c \notin InTime'
      BY <1>35, InTimeStep
    <2> QED
      BY <1>35, <2>1 DEF LeaseOverrun
  <1>36. CASE UNCHANGED vars
    BY <1>36 DEF vars
  <1> QED
    BY <1>1, <1>2, <1>3, <1>4, <1>5, <1>6, <1>7, <1>8, <1>9, <1>10, <1>11, <1>12, <1>13,
        <1>14, <1>15, <1>16, <1>17, <1>18, <1>19, <1>20, <1>21, <1>22, <1>23, <1>24,
        <1>25, <1>26, <1>27, <1>28, <1>29, <1>30, <1>31, <1>32, <1>33, <1>34, <1>35,
        <1>36 DEF Next, Actor, Handle, Advance, Compensate, Fault, Environment

(* While an actor drives a checkout its status moves only by that actor's  *)
(* own updates, so what it read stays true (advanceWorkflow).              *)
LEMMA TrackedStep == LeaseInv /\ [Next]_vars => Tracked'
  <1> SUFFICES ASSUME LeaseInv, [Next]_vars PROVE Tracked'
    OBVIOUS
  <1>0. InTime \subseteq Checkout /\ InTime' \subseteq InTime
    BY InTimeStep DEF LeaseInv, StallInv
  <1> USE <1>0, LedgerAssumption, SagaAssumption DEF LeaseInv, StallInv, TypeInv, TypeOK,
      Linked, StoreTypeOK, ActorTypeOK, HistoryTypeOK, LedgerTypeOK, Status,
      ReservationStatus, Location, Plain, Compensating, Open, Recoverable, Terminal,
      Leased, Owns, Driving, Tracked, Settled, Reserved, AfterReserve, ledger, workflow,
      records, network, local, history
  <1>1. ASSUME NEW a \in Actor, a \in Handler, NEW c \in Checkout, NEW b \in Basket,
               Request(a, c, b)
        PROVE  Tracked'
    BY <1>1 DEF Request, Recognise, Leave, Goto
  <1>2. ASSUME NEW a \in Actor, a \in Handler, InsertWorkflow(a)
        PROVE  Tracked'
    BY <1>2 DEF InsertWorkflow, Recognise, Leave, Goto
  <1>3. ASSUME NEW a \in Actor, a \in Handler, ClaimLease(a)
        PROVE  Tracked'
    BY <1>3 DEF ClaimLease, RowFree, Goto
  <1>4. ASSUME NEW a \in Actor, a \in Handler, ClaimLost(a)
        PROVE  Tracked'
    BY <1>4 DEF ClaimLost, Leave, Goto
  <1>5. ASSUME NEW w \in Actor, w \in Worker, NEW c \in Checkout, TakeCandidate(w, c)
        PROVE  Tracked'
    BY <1>5 DEF TakeCandidate, RowFree, Goto
  <1>6. ASSUME NEW w \in Actor, w \in Worker, RecoverWorkflow(w)
        PROVE  Tracked'
    BY <1>6 DEF RecoverWorkflow, Goto
  <1>7. ASSUME NEW a \in Actor, ReadWorkflow(a)
        PROVE  Tracked'
    BY <1>7 DEF ReadWorkflow, Goto
  <1>8. ASSUME NEW a \in Actor, ReadOrder(a)
        PROVE  Tracked'
    BY <1>8 DEF ReadOrder, Answer, Goto
  <1>9. ASSUME NEW a \in Actor, Reconcile(a)
        PROVE  Tracked'
    BY <1>9 DEF Reconcile, GetReservation, Found, Answer, Goto
  <1>10. ASSUME NEW a \in Actor, ReserveStock(a)
        PROVE  Tracked'
    BY <1>10 DEF ReserveStock, ReserveAnswer, Reserve, Sufficient, Found, Goto
  <1>11. ASSUME NEW a \in Actor, ConfirmReservation(a)
        PROVE  Tracked'
    BY <1>11 DEF ConfirmReservation, GetReservation, Found, Answer, Goto
  <1>12. ASSUME NEW a \in Actor, FailWorkflow(a)
        PROVE  Tracked'
    BY <1>12 DEF FailWorkflow, Transition, SetStatus, RowFree, Answer, Goto
  <1>13. ASSUME NEW a \in Actor, MarkReleased(a)
        PROVE  Tracked'
    BY <1>13 DEF MarkReleased, Transition, SetStatus, RowFree, Answer, Goto
  <1>14. ASSUME NEW a \in Actor, MarkReserved(a)
        PROVE  Tracked'
    BY <1>14 DEF MarkReserved, SetStatus, RowFree, Goto
  <1>15. ASSUME NEW a \in Actor, Repersist(a)
        PROVE  Tracked'
    BY <1>15 DEF Repersist, Answer, Goto
  <1>16. ASSUME NEW a \in Actor, PersistOrder(a)
        PROVE  Tracked'
    BY <1>16 DEF PersistOrder, OrderCommitted, RowFree, Answer, Goto
  <1>17. ASSUME NEW a \in Actor, CheckOrder(a)
        PROVE  Tracked'
    BY <1>17 DEF CheckOrder, Goto
  <1>18. ASSUME NEW a \in Actor, CheckStatus(a)
        PROVE  Tracked'
    BY <1>18 DEF CheckStatus, Goto
  <1>19. ASSUME NEW a \in Actor, CancelWorkflow(a)
        PROVE  Tracked'
    BY <1>19 DEF CancelWorkflow, Transition, SetStatus, RowFree, Goto
  <1>20. ASSUME NEW a \in Actor, Recheck(a)
        PROVE  Tracked'
    BY <1>20 DEF Recheck, Goto
  <1>21. ASSUME NEW a \in Actor, ReleaseStock(a)
        PROVE  Tracked'
    BY <1>21 DEF ReleaseStock, Release, Goto
  <1>22. ASSUME NEW a \in Actor, MarkCompensated(a)
        PROVE  Tracked'
    BY <1>22 DEF MarkCompensated, Transition, SetStatus, RowFree, Goto
  <1>23. ASSUME NEW a \in Actor, ReadOutcome(a)
        PROVE  Tracked'
    BY <1>23 DEF ReadOutcome, Answer, Goto
  <1>24. ASSUME NEW a \in Actor, Finish(a)
        PROVE  Tracked'
    BY <1>24 DEF Finish, RowFree, Leave, Goto
  <1>25. ASSUME NEW a \in Actor, ReserveStockFails(a)
        PROVE  Tracked'
    BY <1>25 DEF ReserveStockFails, Reserve, Sufficient, Goto
  <1>26. ASSUME NEW a \in Actor, ReleaseStockFails(a)
        PROVE  Tracked'
    BY <1>26 DEF ReleaseStockFails, ReadBack, Release, Answer, Goto
  <1>27. ASSUME NEW a \in Actor, PersistFails(a)
        PROVE  Tracked'
    BY <1>27 DEF PersistFails, RowFree, Answer, Goto
  <1>28. ASSUME NEW a \in Actor, QueryFails(a)
        PROVE  Tracked'
    BY <1>28 DEF QueryFails, ReadBack, Goto
  <1>29. ASSUME NEW a \in Actor, Crash(a)
        PROVE  Tracked'
    BY <1>29 DEF Crash, Leave, Goto
  <1>30. ASSUME NEW c \in Checkout, ResolveCommit(c)
        PROVE  Tracked'
    BY <1>30 DEF ResolveCommit, OrderCommitted
  <1>31. ASSUME NEW c \in Checkout, ResolveAbort(c)
        PROVE  Tracked'
    BY <1>31 DEF ResolveAbort
  <1>32. ASSUME NEW c \in Checkout, LateReserve(c)
        PROVE  Tracked'
    BY <1>32 DEF LateReserve, Reserve, Sufficient
  <1>33. ASSUME NEW c \in Checkout, LateRelease(c)
        PROVE  Tracked'
    BY <1>33 DEF LateRelease, Release
  <1>34. ASSUME NEW c \in Checkout, LeaseExpires(c)
        PROVE  Tracked'
    BY <1>34 DEF LeaseExpires
  <1>35. ASSUME NEW c \in Checkout, LeaseOverrun(c)
        PROVE  Tracked'
    <2>1. c \notin InTime'
      BY <1>35, InTimeStep
    <2> QED
      BY <1>35, <2>1 DEF LeaseOverrun
  <1>36. CASE UNCHANGED vars
    BY <1>36 DEF vars
  <1> QED
    BY <1>1, <1>2, <1>3, <1>4, <1>5, <1>6, <1>7, <1>8, <1>9, <1>10, <1>11, <1>12, <1>13,
        <1>14, <1>15, <1>16, <1>17, <1>18, <1>19, <1>20, <1>21, <1>22, <1>23, <1>24,
        <1>25, <1>26, <1>27, <1>28, <1>29, <1>30, <1>31, <1>32, <1>33, <1>34, <1>35,
        <1>36 DEF Next, Actor, Handle, Advance, Compensate, Fault, Environment

(* Order, status, ledger and answers agree, also across a commit that is   *)
(* decided late and a call that is executed late.                          *)
LEMMA SettledStep == LeaseInv /\ [Next]_vars => Settled'
  <1> SUFFICES ASSUME LeaseInv, [Next]_vars PROVE Settled'
    OBVIOUS
  <1>0. InTime \subseteq Checkout /\ InTime' \subseteq InTime
    BY InTimeStep DEF LeaseInv, StallInv
  <1> USE <1>0, LedgerAssumption, SagaAssumption DEF LeaseInv, StallInv, TypeInv, TypeOK,
      Linked, StoreTypeOK, ActorTypeOK, HistoryTypeOK, LedgerTypeOK, Status,
      ReservationStatus, Location, Plain, Compensating, Open, Recoverable, Terminal,
      Leased, Owns, Driving, Tracked, Settled, Reserved, AfterReserve, Events,
      OneEventPerOrder, CompletedHasOrder, ledger, workflow, records, network, local,
      history
  <1>1. ASSUME NEW a \in Actor, a \in Handler, NEW c \in Checkout, NEW b \in Basket,
               Request(a, c, b)
        PROVE  Settled'
    BY <1>1 DEF Request, Recognise, Leave, Goto
  <1>2. ASSUME NEW a \in Actor, a \in Handler, InsertWorkflow(a)
        PROVE  Settled'
    BY <1>2 DEF InsertWorkflow, Recognise, Leave, Goto
  <1>3. ASSUME NEW a \in Actor, a \in Handler, ClaimLease(a)
        PROVE  Settled'
    BY <1>3, SMTT(30) DEF ClaimLease, RowFree, Goto
  <1>4. ASSUME NEW a \in Actor, a \in Handler, ClaimLost(a)
        PROVE  Settled'
    BY <1>4 DEF ClaimLost, Leave, Goto
  <1>5. ASSUME NEW w \in Actor, w \in Worker, NEW c \in Checkout, TakeCandidate(w, c)
        PROVE  Settled'
    BY <1>5 DEF TakeCandidate, RowFree, Goto
  <1>6. ASSUME NEW w \in Actor, w \in Worker, RecoverWorkflow(w)
        PROVE  Settled'
    BY <1>6 DEF RecoverWorkflow, Goto
  <1>7. ASSUME NEW a \in Actor, ReadWorkflow(a)
        PROVE  Settled'
    BY <1>7 DEF ReadWorkflow, Goto
  <1>8. ASSUME NEW a \in Actor, ReadOrder(a)
        PROVE  Settled'
    BY <1>8 DEF ReadOrder, Answer, Goto
  <1>9. ASSUME NEW a \in Actor, Reconcile(a)
        PROVE  Settled'
    BY <1>9 DEF Reconcile, GetReservation, Found, Answer, Goto
  <1>10. ASSUME NEW a \in Actor, ReserveStock(a)
        PROVE  Settled'
    BY <1>10 DEF ReserveStock, ReserveAnswer, Reserve, Sufficient, Found, Goto
  <1>11. ASSUME NEW a \in Actor, ConfirmReservation(a)
        PROVE  Settled'
    BY <1>11 DEF ConfirmReservation, GetReservation, Found, Answer, Goto
  <1>12. ASSUME NEW a \in Actor, FailWorkflow(a)
        PROVE  Settled'
    BY <1>12 DEF FailWorkflow, Transition, SetStatus, RowFree, Answer, Goto
  <1>13. ASSUME NEW a \in Actor, MarkReleased(a)
        PROVE  Settled'
    BY <1>13 DEF MarkReleased, Transition, SetStatus, RowFree, Answer, Goto
  <1>14. ASSUME NEW a \in Actor, MarkReserved(a)
        PROVE  Settled'
    BY <1>14 DEF MarkReserved, SetStatus, RowFree, Goto
  <1>15. ASSUME NEW a \in Actor, Repersist(a)
        PROVE  Settled'
    BY <1>15 DEF Repersist, Answer, Goto
  <1>16. ASSUME NEW a \in Actor, PersistOrder(a)
        PROVE  Settled'
    BY <1>16 DEF PersistOrder, OrderCommitted, RowFree, Answer, Goto
  <1>17. ASSUME NEW a \in Actor, CheckOrder(a)
        PROVE  Settled'
    BY <1>17 DEF CheckOrder, Goto
  <1>18. ASSUME NEW a \in Actor, CheckStatus(a)
        PROVE  Settled'
    BY <1>18 DEF CheckStatus, Goto
  <1>19. ASSUME NEW a \in Actor, CancelWorkflow(a)
        PROVE  Settled'
    BY <1>19 DEF CancelWorkflow, Transition, SetStatus, RowFree, Goto
  <1>20. ASSUME NEW a \in Actor, Recheck(a)
        PROVE  Settled'
    BY <1>20 DEF Recheck, Goto
  <1>21. ASSUME NEW a \in Actor, ReleaseStock(a)
        PROVE  Settled'
    BY <1>21 DEF ReleaseStock, Release, Goto
  <1>22. ASSUME NEW a \in Actor, MarkCompensated(a)
        PROVE  Settled'
    BY <1>22 DEF MarkCompensated, Transition, SetStatus, RowFree, Goto
  <1>23. ASSUME NEW a \in Actor, ReadOutcome(a)
        PROVE  Settled'
    BY <1>23 DEF ReadOutcome, Answer, Goto
  <1>24. ASSUME NEW a \in Actor, Finish(a)
        PROVE  Settled'
    BY <1>24 DEF Finish, RowFree, Leave, Goto
  <1>25. ASSUME NEW a \in Actor, ReserveStockFails(a)
        PROVE  Settled'
    BY <1>25 DEF ReserveStockFails, Reserve, Sufficient, Goto
  <1>26. ASSUME NEW a \in Actor, ReleaseStockFails(a)
        PROVE  Settled'
    BY <1>26 DEF ReleaseStockFails, ReadBack, Release, Answer, Goto
  <1>27. ASSUME NEW a \in Actor, PersistFails(a)
        PROVE  Settled'
    BY <1>27 DEF PersistFails, RowFree, Answer, Goto
  <1>28. ASSUME NEW a \in Actor, QueryFails(a)
        PROVE  Settled'
    BY <1>28 DEF QueryFails, ReadBack, Goto
  <1>29. ASSUME NEW a \in Actor, Crash(a)
        PROVE  Settled'
    BY <1>29 DEF Crash, Leave, Goto
  <1>30. ASSUME NEW c \in Checkout, ResolveCommit(c)
        PROVE  Settled'
    BY <1>30 DEF ResolveCommit, OrderCommitted
  <1>31. ASSUME NEW c \in Checkout, ResolveAbort(c)
        PROVE  Settled'
    BY <1>31 DEF ResolveAbort
  <1>32. ASSUME NEW c \in Checkout, LateReserve(c)
        PROVE  Settled'
    BY <1>32 DEF LateReserve, Reserve, Sufficient
  <1>33. ASSUME NEW c \in Checkout, LateRelease(c)
        PROVE  Settled'
    BY <1>33 DEF LateRelease, Release
  <1>34. ASSUME NEW c \in Checkout, LeaseExpires(c)
        PROVE  Settled'
    BY <1>34 DEF LeaseExpires
  <1>35. ASSUME NEW c \in Checkout, LeaseOverrun(c)
        PROVE  Settled'
    <2>1. c \notin InTime'
      BY <1>35, InTimeStep
    <2> QED
      BY <1>35, <2>1 DEF LeaseOverrun
  <1>36. CASE UNCHANGED vars
    BY <1>36 DEF vars
  <1> QED
    BY <1>1, <1>2, <1>3, <1>4, <1>5, <1>6, <1>7, <1>8, <1>9, <1>10, <1>11, <1>12, <1>13,
        <1>14, <1>15, <1>16, <1>17, <1>18, <1>19, <1>20, <1>21, <1>22, <1>23, <1>24,
        <1>25, <1>26, <1>27, <1>28, <1>29, <1>30, <1>31, <1>32, <1>33, <1>34, <1>35,
        <1>36 DEF Next, Actor, Handle, Advance, Compensate, Fault, Environment

LEMMA LeaseInvInvariant == Spec => []LeaseInv
  <1>1. Init => LeaseInv
    <2> SUFFICES ASSUME Init PROVE LeaseInv
      OBVIOUS
    <2>1. TypeInv
      BY TypeInvInit
    <2>2. Events /\ Reserved
      BY DEF Init, LedgerInit, Events, OneEventPerOrder, CompletedHasOrder, Reserved,
             AfterReserve, Compensating
    <2>3. Leased
      BY SagaAssumption DEF Init, Leased, Driving, Plain, Compensating
    <2>4. Tracked
      BY DEF Init, Tracked
    <2>5. Settled
      BY DEF Init, LedgerInit, Settled, InTime
    <2> QED
      BY <2>1, <2>2, <2>3, <2>4, <2>5 DEF LeaseInv, StallInv
  <1>2. LeaseInv /\ [Next]_vars => LeaseInv'
    <2>1. LeaseInv /\ [Next]_vars => StallInv'
      BY TypeInvStep, EventsStep, ReservedStep DEF LeaseInv, StallInv
    <2> QED
      BY <2>1, LeasedStep, TrackedStep, SettledStep DEF LeaseInv
  <1> QED
    BY <1>1, <1>2, PTL DEF Spec

(* An order keeps the stock it was confirmed with: no crash, late or lost  *)
(* RPC, ambiguous commit or retry releases it                              *)
(* (compensateAfterPersistenceFailure).                                    *)
THEOREM OrdersHoldStock == Spec => []ConfirmedHoldsStock
  <1>1. LeaseInv => ConfirmedHoldsStock
    BY DEF LeaseInv, StallInv, TypeInv, TypeOK, StoreTypeOK, Linked, Settled,
        ConfirmedHoldsStock
  <1> QED
    BY <1>1, LeaseInvInvariant, PTL

(* A 201 means the order exists, and a checkout some answer closed never   *)
(* becomes an order (the answers of OrderService.create).                  *)
THEOREM TruthfulAnswers == Spec => []AnswersAreTruthful
  <1>1. LeaseInv => AnswersAreTruthful
    BY DEF LeaseInv, StallInv, TypeInv, TypeOK, StoreTypeOK, HistoryTypeOK, Settled,
           AnswersAreTruthful
  <1> QED
    BY <1>1, LeaseInvInvariant, PTL

(* One actor at a time drives an undecided checkout (the claim of          *)
(* OrderService.create and of the recovery worker).                        *)
THEOREM OneDriver == Spec => []SingleDriver
  <1>1. LeaseInv => SingleDriver
    BY DEF LeaseInv, Leased, Owns, SingleDriver
  <1> QED
    BY <1>1, LeaseInvInvariant, PTL

(* COMPLETED, COMPENSATED and FAILED are terminal, although two updates of *)
(* the saga write the status without looking at it (advanceWorkflow,       *)
(* persistOrderAndOutbox).                                                 *)
THEOREM FinalDecision == Spec => DecisionIsFinal
  <1> DEFINE Final == \A c \in InTime : status[c] \in Terminal => status'[c] = status[c]
  <1>1. LeaseInv /\ [Next]_vars
          => [\A c \in InTime : status[c] \in Terminal => status'[c] = status[c]]_vars
    <2> SUFFICES ASSUME LeaseInv, Next PROVE Final
      OBVIOUS
    <2>0. InTime \subseteq Checkout
      BY DEF InTime
    <2> USE <2>0, LedgerAssumption, SagaAssumption DEF LeaseInv, StallInv, TypeInv, TypeOK,
        Linked, StoreTypeOK, ActorTypeOK, HistoryTypeOK, LedgerTypeOK, Status,
        ReservationStatus, Location, Plain, Compensating, Open, Recoverable, Terminal,
        Leased, Owns, Driving, Tracked, Settled, ledger, workflow, records, network,
        local, history
    <2>1. ASSUME NEW a \in Actor, a \in Handler, NEW c \in Checkout, NEW b \in Basket,
                 Request(a, c, b)
          PROVE  Final
      BY <2>1 DEF Request, Recognise, Leave, Goto
    <2>2. ASSUME NEW a \in Actor, a \in Handler, InsertWorkflow(a)
          PROVE  Final
      BY <2>2 DEF InsertWorkflow, Recognise, Leave, Goto
    <2>3. ASSUME NEW a \in Actor, a \in Handler, ClaimLease(a)
          PROVE  Final
      BY <2>3 DEF ClaimLease, RowFree, Goto
    <2>4. ASSUME NEW a \in Actor, a \in Handler, ClaimLost(a)
          PROVE  Final
      BY <2>4 DEF ClaimLost, Leave, Goto
    <2>5. ASSUME NEW w \in Actor, w \in Worker, NEW c \in Checkout, TakeCandidate(w, c)
          PROVE  Final
      BY <2>5 DEF TakeCandidate, RowFree, Goto
    <2>6. ASSUME NEW w \in Actor, w \in Worker, RecoverWorkflow(w)
          PROVE  Final
      BY <2>6 DEF RecoverWorkflow, Goto
    <2>7. ASSUME NEW a \in Actor, ReadWorkflow(a)
          PROVE  Final
      BY <2>7 DEF ReadWorkflow, Goto
    <2>8. ASSUME NEW a \in Actor, ReadOrder(a)
          PROVE  Final
      BY <2>8 DEF ReadOrder, Answer, Goto
    <2>9. ASSUME NEW a \in Actor, Reconcile(a)
          PROVE  Final
      BY <2>9 DEF Reconcile, GetReservation, Found, Answer, Goto
    <2>10. ASSUME NEW a \in Actor, ReserveStock(a)
          PROVE  Final
      BY <2>10 DEF ReserveStock, ReserveAnswer, Reserve, Sufficient, Found, Goto
    <2>11. ASSUME NEW a \in Actor, ConfirmReservation(a)
          PROVE  Final
      BY <2>11 DEF ConfirmReservation, GetReservation, Found, Answer, Goto
    <2>12. ASSUME NEW a \in Actor, FailWorkflow(a)
          PROVE  Final
      BY <2>12 DEF FailWorkflow, Transition, SetStatus, RowFree, Answer, Goto
    <2>13. ASSUME NEW a \in Actor, MarkReleased(a)
          PROVE  Final
      BY <2>13 DEF MarkReleased, Transition, SetStatus, RowFree, Answer, Goto
    <2>14. ASSUME NEW a \in Actor, MarkReserved(a)
          PROVE  Final
      BY <2>14 DEF MarkReserved, SetStatus, RowFree, Goto
    <2>15. ASSUME NEW a \in Actor, Repersist(a)
          PROVE  Final
      BY <2>15 DEF Repersist, Answer, Goto
    <2>16. ASSUME NEW a \in Actor, PersistOrder(a)
          PROVE  Final
      BY <2>16 DEF PersistOrder, OrderCommitted, RowFree, Answer, Goto
    <2>17. ASSUME NEW a \in Actor, CheckOrder(a)
          PROVE  Final
      BY <2>17 DEF CheckOrder, Goto
    <2>18. ASSUME NEW a \in Actor, CheckStatus(a)
          PROVE  Final
      BY <2>18 DEF CheckStatus, Goto
    <2>19. ASSUME NEW a \in Actor, CancelWorkflow(a)
          PROVE  Final
      BY <2>19 DEF CancelWorkflow, Transition, SetStatus, RowFree, Goto
    <2>20. ASSUME NEW a \in Actor, Recheck(a)
          PROVE  Final
      BY <2>20 DEF Recheck, Goto
    <2>21. ASSUME NEW a \in Actor, ReleaseStock(a)
          PROVE  Final
      BY <2>21 DEF ReleaseStock, Release, Goto
    <2>22. ASSUME NEW a \in Actor, MarkCompensated(a)
          PROVE  Final
      BY <2>22 DEF MarkCompensated, Transition, SetStatus, RowFree, Goto
    <2>23. ASSUME NEW a \in Actor, ReadOutcome(a)
          PROVE  Final
      BY <2>23 DEF ReadOutcome, Answer, Goto
    <2>24. ASSUME NEW a \in Actor, Finish(a)
          PROVE  Final
      BY <2>24 DEF Finish, RowFree, Leave, Goto
    <2>25. ASSUME NEW a \in Actor, ReserveStockFails(a)
          PROVE  Final
      BY <2>25 DEF ReserveStockFails, Reserve, Sufficient, Goto
    <2>26. ASSUME NEW a \in Actor, ReleaseStockFails(a)
          PROVE  Final
      BY <2>26 DEF ReleaseStockFails, ReadBack, Release, Answer, Goto
    <2>27. ASSUME NEW a \in Actor, PersistFails(a)
          PROVE  Final
      BY <2>27 DEF PersistFails, RowFree, Answer, Goto
    <2>28. ASSUME NEW a \in Actor, QueryFails(a)
          PROVE  Final
      BY <2>28 DEF QueryFails, ReadBack, Goto
    <2>29. ASSUME NEW a \in Actor, Crash(a)
          PROVE  Final
      BY <2>29 DEF Crash, Leave, Goto
    <2>30. ASSUME NEW c \in Checkout, ResolveCommit(c)
          PROVE  Final
      BY <2>30 DEF ResolveCommit, OrderCommitted
    <2>31. ASSUME NEW c \in Checkout, ResolveAbort(c)
          PROVE  Final
      BY <2>31 DEF ResolveAbort
    <2>32. ASSUME NEW c \in Checkout, LateReserve(c)
          PROVE  Final
      BY <2>32 DEF LateReserve, Reserve, Sufficient
    <2>33. ASSUME NEW c \in Checkout, LateRelease(c)
          PROVE  Final
      BY <2>33 DEF LateRelease, Release
    <2>34. ASSUME NEW c \in Checkout, LeaseExpires(c)
          PROVE  Final
      BY <2>34 DEF LeaseExpires
    <2>35. ASSUME NEW c \in Checkout, LeaseOverrun(c)
          PROVE  Final
      BY <2>35 DEF LeaseOverrun
    <2> QED
      BY <2>1, <2>2, <2>3, <2>4, <2>5, <2>6, <2>7, <2>8, <2>9, <2>10, <2>11, <2>12,
          <2>13, <2>14, <2>15, <2>16, <2>17, <2>18, <2>19, <2>20, <2>21, <2>22, <2>23,
          <2>24, <2>25, <2>26, <2>27, <2>28, <2>29, <2>30, <2>31, <2>32, <2>33, <2>34,
          <2>35 DEF Next, Actor, Handle, Advance, Compensate, Fault, Environment
  <1> QED
    BY <1>1, LeaseInvInvariant, PTL DEF Spec, DecisionIsFinal

(* Stock is taken only by a driver that has read STARTED or by a call      *)
(* already under way, and only such a driver leaves a call under way.      *)
LEMMA WhoReserves ==
  ASSUME LeaseInv, [Next]_vars, NEW c \in InTime, status[c] = "FAILED", c \notin lateReserve
  PROVE  /\ c \notin lateReserve'
         /\ reservation'[c] = "RESERVED" => reservation[c] = "RESERVED"
  <1> DEFINE Clean == /\ c \notin lateReserve'
                      /\ reservation'[c] = "RESERVED" => reservation[c] = "RESERVED"
  <1>1. c \in Checkout /\ reservation \in [Checkout -> ReservationStatus]
    BY DEF InTime, LeaseInv, StallInv, TypeInv, TypeOK, LedgerTypeOK
  <1>2. ASSUME NEW a \in Actor, ReserveStock(a) \/ ReserveStockFails(a) PROVE Clean
    <2>1. cur[a] \in Checkout /\ cur[a] # c
      BY <1>2 DEF ReserveStock, ReserveStockFails, LeaseInv, StallInv, TypeInv, Linked, Tracked
    <2>2. /\ lateReserve' \subseteq lateReserve \cup {cur[a]}
          /\ Reserve(cur[a], basket[cur[a]]) \/ UNCHANGED ledger
      BY <1>2 DEF ReserveStock, ReserveStockFails, network
    <2>3. reservation'[c] = reservation[c]
      BY <1>1, <2>1, <2>2 DEF Reserve, ledger
    <2> QED
      BY <2>1, <2>2, <2>3
  <1>3. ASSUME NEW d \in Checkout, LateReserve(d) PROVE Clean
    BY <1>1, <1>3 DEF LateReserve, Reserve, ledger
  <1>4. ASSUME NEW d \in Checkout, Release(d, basket[d]), UNCHANGED lateReserve PROVE Clean
    BY <1>1, <1>4 DEF Release, ledger
  <1>5. ASSUME NEW a \in Actor, ReleaseStock(a) \/ ReleaseStockFails(a) PROVE Clean
    <2>1. cur[a] \in Checkout
      BY <1>5 DEF ReleaseStock, ReleaseStockFails, LeaseInv, StallInv, TypeInv, Linked
    <2>2. UNCHANGED lateReserve /\ (Release(cur[a], basket[cur[a]]) \/ UNCHANGED ledger)
      BY <1>5 DEF ReleaseStock, ReleaseStockFails, network
    <2> QED
      BY <1>4, <2>1, <2>2 DEF ledger
  <1>6. CASE UNCHANGED <<lateReserve, reservation>>
    BY <1>6
  <1>7. ASSUME NEW a \in Actor,
               \/ \E d \in Checkout, b \in Basket : Request(a, d, b)
               \/ \E d \in Checkout : TakeCandidate(a, d)
               \/ Handle(a) \/ RecoverWorkflow(a) \/ Finish(a)
               \/ ReadWorkflow(a) \/ ReadOrder(a) \/ Reconcile(a) \/ ConfirmReservation(a)
               \/ FailWorkflow(a) \/ MarkReleased(a) \/ MarkReserved(a) \/ Repersist(a)
               \/ PersistOrder(a) \/ CheckOrder(a) \/ CheckStatus(a) \/ CancelWorkflow(a)
               \/ Recheck(a) \/ MarkCompensated(a) \/ ReadOutcome(a) \/ PersistFails(a)
               \/ QueryFails(a) \/ Crash(a)
        PROVE  Clean
    BY <1>7 DEF Request, TakeCandidate, Handle, InsertWorkflow, ClaimLease, ClaimLost,
       RecoverWorkflow, Finish, ReadWorkflow, ReadOrder, Reconcile, ConfirmReservation,
       FailWorkflow, MarkReleased, MarkReserved, Repersist, PersistOrder, CheckOrder,
       CheckStatus, CancelWorkflow, Recheck, MarkCompensated, ReadOutcome, PersistFails,
       QueryFails, Crash, ledger, network
  <1>8. ASSUME NEW d \in Checkout, Environment(d) PROVE Clean
    <2>1. CASE LateRelease(d)
      BY <1>4, <2>1 DEF LateRelease
    <2>2. CASE ResolveCommit(d) \/ ResolveAbort(d) \/ LeaseExpires(d) \/ LeaseOverrun(d)
      BY <1>6, <2>2 DEF ResolveCommit, ResolveAbort, LeaseExpires, LeaseOverrun, ledger, network
    <2> QED
      BY <1>3, <1>8, <2>1, <2>2 DEF Environment
  <1>9. UNCHANGED vars => Clean
    BY DEF vars, ledger, network
  <1> HIDE DEF Clean
  <1>10. ASSUME NEW a \in Actor, Advance(a) \/ Compensate(a) \/ Finish(a) \/ Fault(a)
         PROVE  Clean
    BY <1>2, <1>5, <1>7, <1>10 DEF Advance, Compensate, Fault
  <1>11. Clean
    <2>1. CASE \/ \E a \in Handler, d \in Checkout, b \in Basket : Request(a, d, b)
               \/ \E a \in Handler : Handle(a)
               \/ \E w \in Worker, d \in Checkout : TakeCandidate(w, d)
               \/ \E w \in Worker : RecoverWorkflow(w)
      BY <1>7, <2>1 DEF Actor
    <2>2. CASE \E a \in Actor : Advance(a) \/ Compensate(a) \/ Finish(a) \/ Fault(a)
      BY <1>10, <2>2
    <2>3. CASE \E d \in Checkout : Environment(d)
      BY <1>8, <2>3
    <2>4. CASE Next
      BY <2>1, <2>2, <2>3, <2>4 DEF Next
    <2> QED
      BY <1>9, <2>4
  <1> QED
    BY <1>11 DEF Clean

(* A FAILED checkout takes no stock any more once no ReserveStock sent     *)
(* before is still under way: the leak of saga_leak needs one              *)
(* (advanceWorkflow).                                                      *)
THEOREM FailedIsClean == Spec => FailedTakesNoMore
  <1>1. LeaseInv /\ [Next]_vars
          => [\A c \in InTime :
                status[c] = "FAILED" /\ c \notin lateReserve /\ reservation[c] # "RESERVED"
                  => c \notin lateReserve' /\ reservation'[c] # "RESERVED"]_vars
    BY WhoReserves
  <1> QED
    BY <1>1, LeaseInvInvariant, PTL DEF Spec, FailedTakesNoMore

-----------------------------------------------------------------------------
(* No lease ever expired under a live owner.                               *)
OnTime == LeaseInv /\ InTime = Checkout

(* A checkout nobody stored has no basket.                                 *)
Unasked == \A c \in Checkout : status[c] = "NONE" => basket[c] = NoBasket

ContractStep == Contract!Next \/ UNCHANGED Contract!contract

-----------------------------------------------------------------------------
(* The four kinds of visible steps, and the invisible ones.                *)
LEMMA QuietStep ==
    ASSUME UNCHANGED <<ledger, status, basket, order>>
    PROVE  ContractStep
  BY DEF ledger, outcome, ContractStep, Contract!contract

LEMMA ReserveStep ==
    ASSUME OnTime, NEW c \in Checkout, status[c] # "NONE", Reserve(c, basket[c]),
           UNCHANGED <<status, basket, order>>
    PROVE  ContractStep
  <1> USE LedgerAssumption DEF OnTime, LeaseInv, StallInv, TypeInv, TypeOK, Linked, Settled, LedgerTypeOK
  <1>1. outcome' = outcome
    BY DEF outcome
  <1>2. CASE reservation[c] = "NONE" /\ Sufficient(basket[c])
    <2>1. basket[c] # NoBasket /\ outcome[c] # "confirmed"
      BY <1>2 DEF outcome
    <2> QED
      BY <1>1, <1>2, <2>1 DEF Reserve, Sufficient, ContractStep, Contract!Next, Contract!Take
  <1>3. CASE ~(reservation[c] = "NONE" /\ Sufficient(basket[c]))
    BY <1>3, QuietStep DEF Reserve
  <1> QED
    BY <1>2, <1>3

LEMMA ReleaseStep ==
    ASSUME OnTime, NEW c \in Checkout, status[c] \in {"COMPENSATION_PENDING", "COMPENSATED"},
           Release(c, basket[c]), UNCHANGED <<status, basket, order>>
    PROVE  ContractStep
  <1> USE DEF OnTime, LeaseInv, Settled
  <1>1. outcome' = outcome /\ outcome[c] = "refused"
    BY DEF outcome
  <1>2. CASE reservation[c] = "RESERVED" /\ reserved[c] = basket[c]
    BY <1>1, <1>2 DEF Release, ContractStep, Contract!Next, Contract!GiveBack
  <1>3. CASE ~(reservation[c] = "RESERVED" /\ reserved[c] = basket[c])
    BY <1>3, QuietStep DEF Release
  <1> QED
    BY <1>2, <1>3

LEMMA StatusStep ==
    ASSUME OnTime, NEW c \in Checkout, NEW s \in Status,
           status' = [status EXCEPT ![c] = s], UNCHANGED <<ledger, basket, order>>,
           \/ status[c] \in Open /\ s \in Open \cup {"COMPENSATION_PENDING", "FAILED"}
           \/ status[c] = "COMPENSATION_PENDING" /\ s = "COMPENSATED"
           \/ s = status[c]
    PROVE  ContractStep
  <1> USE DEF OnTime, LeaseInv, StallInv, TypeInv, TypeOK, StoreTypeOK, Linked, Settled, Open
  <1>1. CASE status[c] \in Open /\ s \in {"COMPENSATION_PENDING", "FAILED"}
    <2>1. basket[c] # NoBasket /\ outcome[c] = "open"
      BY <1>1, LedgerAssumption DEF outcome
    <2>2. outcome' = [outcome EXCEPT ![c] = "refused"]
      BY <1>1 DEF outcome
    <2> QED
      BY <2>1, <2>2 DEF ledger, ContractStep, Contract!Next, Contract!Refuse
  <1>2. CASE ~(status[c] \in Open /\ s \in {"COMPENSATION_PENDING", "FAILED"})
    <2>1. outcome' = outcome
      BY <1>2 DEF outcome
    <2> QED
      BY <2>1 DEF ledger, ContractStep, Contract!contract
  <1> QED
    BY <1>1, <1>2

LEMMA CommitStep ==
    ASSUME OnTime, OnTime', NEW c \in Checkout, OrderCommitted(c), UNCHANGED ledger,
           status[c] \in {"RESERVED", "COMPLETED"}
    PROVE  ContractStep
  <1>1. /\ status \in [Checkout -> Status]
        /\ order' = order \cup {c} /\ status' = [status EXCEPT ![c] = "COMPLETED"]
        /\ UNCHANGED <<basket, ledger>>
    BY DEF OnTime, LeaseInv, StallInv, TypeInv, TypeOK, StoreTypeOK, OrderCommitted
  <1>2. /\ c \in order <=> status[c] = "COMPLETED"
        /\ c \in order' => reservation'[c] = "RESERVED"
    BY <1>1 DEF OnTime, LeaseInv, Settled
  <1>3. CASE c \in order
    BY <1>1, <1>2, <1>3, QuietStep
  <1>4. CASE c \notin order
    <2>1. outcome[c] = "open" /\ outcome' = [outcome EXCEPT ![c] = "confirmed"]
      BY <1>1, <1>2, <1>4 DEF outcome
    <2>2. reservation[c] = "RESERVED"
      BY <1>1, <1>2 DEF ledger
    <2> QED
      BY <1>1, <2>1, <2>2 DEF ContractStep, Contract!Next, Contract!Confirm, ledger
  <1> QED
    BY <1>3, <1>4

LEMMA InsertStep ==
    ASSUME OnTime, Unasked, NEW a \in Actor, InsertWorkflow(a)
    PROVE  ContractStep
  <1> DEFINE c == cur[a]
             b == want[a]
  <1> USE DEF OnTime, LeaseInv, StallInv, TypeInv, TypeOK, StoreTypeOK, Linked, Settled, InsertWorkflow
  <1>1. c \in Checkout /\ b \in Basket
    OBVIOUS
  <1>2. CASE status[c] = "NONE"
    <2>1. /\ status' = [status EXCEPT ![c] = "STARTED"]
          /\ basket' = [basket EXCEPT ![c] = b]
          /\ UNCHANGED <<ledger, order>>
      BY <1>2 DEF records
    <2>2. outcome' = outcome
      BY <1>1, <1>2, <2>1 DEF outcome
    <2>3. basket[c] = NoBasket
      BY <1>1, <1>2 DEF Unasked
    <2> QED
      BY <1>1, <2>1, <2>2, <2>3 DEF ledger, ContractStep, Contract!Next, Contract!Ask
  <1>3. CASE status[c] # "NONE"
    BY <1>3, QuietStep DEF records
  <1> QED
    BY <1>2, <1>3

-----------------------------------------------------------------------------
(* Every step of the saga is one of them.                                  *)
LEMMA UnaskedStep == TypeInv /\ Unasked /\ [Next]_vars => Unasked'
  <1> SUFFICES ASSUME TypeInv, Unasked, [Next]_vars PROVE Unasked'
    OBVIOUS
  <1> USE DEF TypeInv, TypeOK, StoreTypeOK, Linked, Unasked, workflow, records
  <1>1. ASSUME NEW a \in Actor, InsertWorkflow(a) PROVE Unasked'
    BY <1>1 DEF InsertWorkflow
  <1>2. ASSUME NEW a \in Actor, FailWorkflow(a) \/ MarkReleased(a) \/ CancelWorkflow(a)
                                  \/ MarkCompensated(a)
        PROVE  Unasked'
    BY <1>2 DEF FailWorkflow, MarkReleased, CancelWorkflow, MarkCompensated, Transition, SetStatus
  <1>3. ASSUME NEW a \in Actor, MarkReserved(a) PROVE Unasked'
    BY <1>3 DEF MarkReserved, SetStatus
  <1>4. ASSUME NEW a \in Actor, PersistOrder(a) PROVE Unasked'
    BY <1>4 DEF PersistOrder, OrderCommitted
  <1>5. ASSUME NEW c \in Checkout, ResolveCommit(c) PROVE Unasked'
    BY <1>5 DEF ResolveCommit, OrderCommitted
  <1>6. CASE UNCHANGED <<status, basket>>
    BY <1>6
  <1>7. ASSUME NEW a \in Actor,
               \/ \E c \in Checkout, b \in Basket : Request(a, c, b)
               \/ ClaimLease(a) \/ ClaimLost(a) \/ RecoverWorkflow(a)
               \/ \E c \in Checkout : TakeCandidate(a, c)
               \/ Finish(a) \/ Fault(a)
        PROVE  UNCHANGED <<status, basket>>
    BY <1>7 DEF Request, ClaimLease, ClaimLost, RecoverWorkflow, TakeCandidate, Finish, Fault,
                ReserveStockFails, ReleaseStockFails, PersistFails, QueryFails, Crash
  <1>8. ASSUME NEW a \in Actor,
               \/ ReadWorkflow(a) \/ ReadOrder(a) \/ Reconcile(a) \/ ReserveStock(a)
               \/ ConfirmReservation(a) \/ Repersist(a) \/ CheckOrder(a) \/ CheckStatus(a)
               \/ Recheck(a) \/ ReleaseStock(a) \/ ReadOutcome(a)
        PROVE  UNCHANGED <<status, basket>>
    BY <1>8 DEF ReadWorkflow, ReadOrder, Reconcile, ReserveStock, ConfirmReservation, Repersist,
                CheckOrder, CheckStatus, Recheck, ReleaseStock, ReadOutcome
  <1>9. ASSUME NEW c \in Checkout,
               \/ ResolveAbort(c) \/ LateReserve(c) \/ LateRelease(c)
               \/ LeaseExpires(c) \/ LeaseOverrun(c)
        PROVE  UNCHANGED <<status, basket>>
    BY <1>9 DEF ResolveAbort, LateReserve, LateRelease, LeaseExpires, LeaseOverrun
  <1>10. CASE UNCHANGED vars
    BY <1>10 DEF vars
  <1> QED
    BY <1>1, <1>2, <1>3, <1>4, <1>5, <1>6, <1>7, <1>8, <1>9, <1>10
    DEF Next, Actor, Handle, Advance, Compensate, Environment

(* Requests, claims, reads and leases are invisible.                       *)
LEMMA InvisibleSteps ==
    ASSUME NEW a \in Actor,
           \/ \E c \in Checkout, b \in Basket : Request(a, c, b)
           \/ ClaimLease(a) \/ ClaimLost(a) \/ RecoverWorkflow(a)
           \/ \E c \in Checkout : TakeCandidate(a, c)
           \/ Finish(a) \/ PersistFails(a) \/ QueryFails(a) \/ Crash(a)
           \/ ReadWorkflow(a) \/ ReadOrder(a) \/ Reconcile(a) \/ ConfirmReservation(a)
           \/ Repersist(a) \/ CheckOrder(a) \/ CheckStatus(a) \/ Recheck(a) \/ ReadOutcome(a)
    PROVE  ContractStep
  <1>1. UNCHANGED <<ledger, status, basket, order>>
    BY DEF Request, ClaimLease, ClaimLost, RecoverWorkflow, TakeCandidate, Finish, PersistFails,
           QueryFails, Crash, ReadWorkflow, ReadOrder, Reconcile, ConfirmReservation, Repersist,
           CheckOrder, CheckStatus, Recheck, ReadOutcome, workflow, records
  <1> QED
    BY <1>1, QuietStep

LEMMA VisibleSteps ==
    ASSUME OnTime, OnTime', NEW a \in Actor,
           \/ ReserveStock(a) \/ ReserveStockFails(a) \/ ReleaseStock(a) \/ ReleaseStockFails(a)
           \/ FailWorkflow(a) \/ MarkReleased(a) \/ MarkReserved(a) \/ CancelWorkflow(a)
           \/ MarkCompensated(a) \/ PersistOrder(a)
    PROVE  ContractStep
  <1> USE DEF OnTime, LeaseInv, StallInv, TypeInv, TypeOK, StoreTypeOK, Linked, Tracked, workflow, records
  <1>1. CASE ReserveStock(a) \/ ReserveStockFails(a)
    <2>1. cur[a] \in Checkout /\ status[cur[a]] # "NONE" /\ UNCHANGED <<status, basket, order>>
      BY <1>1 DEF ReserveStock, ReserveStockFails
    <2>2. Reserve(cur[a], basket[cur[a]]) \/ UNCHANGED ledger
      BY <1>1 DEF ReserveStock, ReserveStockFails
    <2> QED
      BY <2>1, <2>2, ReserveStep, QuietStep
  <1>2. CASE ReleaseStock(a) \/ ReleaseStockFails(a)
    <2>1. /\ cur[a] \in Checkout /\ status[cur[a]] = "COMPENSATION_PENDING"
          /\ UNCHANGED <<status, basket, order>>
      BY <1>2 DEF ReleaseStock, ReleaseStockFails
    <2>2. Release(cur[a], basket[cur[a]]) \/ UNCHANGED ledger
      BY <1>2 DEF ReleaseStock, ReleaseStockFails
    <2> QED
      BY <2>1, <2>2, ReleaseStep, QuietStep
  <1>3. CASE FailWorkflow(a)
    <2>1. /\ cur[a] \in Checkout /\ status[cur[a]] = "STARTED"
          /\ status' = [status EXCEPT ![cur[a]] = "FAILED"]
          /\ UNCHANGED <<ledger, basket, order>>
      BY <1>3 DEF FailWorkflow, Transition, SetStatus
    <2> QED
      BY <2>1, StatusStep DEF Status, Open, Recoverable, Terminal
  <1>4. CASE MarkReleased(a)
    BY <1>4 DEF MarkReleased
  <1>5. CASE MarkReserved(a)
    <2>1. /\ cur[a] \in Checkout /\ status[cur[a]] \in Open
          /\ status' = [status EXCEPT ![cur[a]] = "RESERVED"]
          /\ UNCHANGED <<ledger, basket, order>>
      BY <1>5 DEF MarkReserved, SetStatus
    <2> QED
      BY <2>1, StatusStep DEF Status, Open, Recoverable, Terminal
  <1>6. CASE CancelWorkflow(a)
    <2> DEFINE s == IF status[cur[a]] \in Open THEN "COMPENSATION_PENDING" ELSE status[cur[a]]
    <2>1. /\ cur[a] \in Checkout /\ status' = [status EXCEPT ![cur[a]] = s]
          /\ UNCHANGED <<ledger, basket, order>>
      BY <1>6 DEF CancelWorkflow, Transition, SetStatus
    <2>2. s \in Status
      BY <2>1 DEF Status, Recoverable
    <2> QED
      BY <2>1, <2>2, StatusStep
  <1>7. CASE MarkCompensated(a)
    <2>1. /\ cur[a] \in Checkout /\ status[cur[a]] = "COMPENSATION_PENDING"
          /\ status' = [status EXCEPT ![cur[a]] = "COMPENSATED"]
          /\ UNCHANGED <<ledger, basket, order>>
      BY <1>7 DEF MarkCompensated, Transition, SetStatus
    <2> QED
      BY <2>1, StatusStep DEF Status, Terminal
  <1>8. CASE PersistOrder(a)
    <2>1. /\ cur[a] \in Checkout /\ status[cur[a]] = "RESERVED"
          /\ OrderCommitted(cur[a]) /\ UNCHANGED ledger
      BY <1>8 DEF PersistOrder
    <2> QED
      BY <2>1, CommitStep
  <1> QED
    BY <1>1, <1>2, <1>3, <1>4, <1>5, <1>6, <1>7, <1>8

LEMMA EnvironmentSteps ==
    ASSUME OnTime, OnTime', NEW c \in Checkout, Environment(c)
    PROVE  ContractStep
  <1> USE DEF OnTime, LeaseInv, StallInv, TypeInv, TypeOK, StoreTypeOK, Linked, Settled, workflow, records
  <1>1. CASE ResolveCommit(c)
    BY <1>1, CommitStep DEF ResolveCommit
  <1>2. CASE LateReserve(c)
    <2>1. status[c] # "NONE" /\ UNCHANGED <<status, basket, order>>
      BY <1>2 DEF LateReserve
    <2> QED
      BY <1>2, <2>1, ReserveStep DEF LateReserve
  <1>3. CASE LateRelease(c)
    <2>1. /\ status[c] \in {"COMPENSATION_PENDING", "COMPENSATED"}
          /\ UNCHANGED <<status, basket, order>>
      BY <1>3 DEF LateRelease
    <2> QED
      BY <1>3, <2>1, ReleaseStep DEF LateRelease
  <1>4. CASE ResolveAbort(c) \/ LeaseExpires(c) \/ LeaseOverrun(c)
    BY <1>4, QuietStep DEF ResolveAbort, LeaseExpires, LeaseOverrun
  <1> QED
    BY <1>1, <1>2, <1>3, <1>4 DEF Environment

(* The saga with all its crashes, retries, lost and late messages is one   *)
(* way to do what the contract says: Storefront may rely on it alone.      *)
THEOREM SagaImplementsContract ==
  ASSUME \A c \in Checkout : MaxStalls[c] = 0
  PROVE  Spec => ImplementsContract
  <1>0. LeaseInv => OnTime
    BY DEF LeaseInv, StallInv, TypeInv, TypeOK, HistoryTypeOK, OnTime, InTime
  <1>1. Init => Contract!Init
    BY DEF Init, LedgerInit, Contract!Init, outcome
  <1>2. Init => Unasked
    BY DEF Init, Unasked
  <1>3. OnTime /\ OnTime' /\ Unasked /\ [Next]_vars => [Contract!Next]_(Contract!contract)
    <2> SUFFICES ASSUME OnTime, OnTime', Unasked, [Next]_vars PROVE ContractStep
      BY DEF ContractStep
    <2>1. CASE UNCHANGED vars
      BY <2>1, QuietStep DEF vars, workflow, records
    <2>2. CASE Next
      BY <2>2, InvisibleSteps, VisibleSteps, EnvironmentSteps, InsertStep
      DEF Next, Actor, Handle, Advance, Compensate, Fault
    <2> QED
      BY <2>1, <2>2
  <1>4. OnTime /\ Unasked /\ [Next]_vars => Unasked'
    BY UnaskedStep DEF OnTime, LeaseInv, StallInv
  <1> QED
    BY <1>0, <1>1, <1>2, <1>3, <1>4, LeaseInvInvariant, PTL DEF Spec, ImplementsContract, Contract!Spec
=============================================================================
