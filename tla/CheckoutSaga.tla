---------------------------- MODULE CheckoutSaga ----------------------------
(***************************************************************************)
(* order-service's checkout saga: HTTP handlers and recovery workers that  *)
(* drive one durable workflow row per checkout (user + idempotency key)    *)
(* through reserve stock -> persist order and event -> completed, or       *)
(* through compensation.  Every statement sent to the order database and   *)
(* every RPC to product-service is one action, so everything another       *)
(* actor, a crash or a late message can do between two of them happens.    *)
(*                                                                         *)
(* A handler actor is one POST /orders at a time, a worker actor one       *)
(* recovery process.  Time is abstracted: nextAttemptAt, attempts and      *)
(* lastError only delay a retry, and a delay of any length is allowed.     *)
(***************************************************************************)
EXTENDS StockLedger

CONSTANTS
    Handler,        \* concurrent HTTP requests
    Worker,         \* recovery workers
    Free,           \* lease value: no lease, or one that has expired
    Gone,           \* lease value: owner dead or done without clearing it
    NoCheckout,     \* cur of an idle actor
    MaxStalls       \* bound on leases of a checkout that expire under a live owner

Actor == Handler \cup Worker

ASSUME SagaAssumption ==
    /\ Handler \cap Worker = {}
    /\ Free \notin Actor /\ Gone \notin Actor /\ Free # Gone
    /\ NoCheckout \notin Checkout
    /\ MaxStalls \in [Checkout -> Nat]

VARIABLES
    \* order-service database
    status,         \* order_workflows.status, "NONE" when there is no row
    basket,         \* the row's requestHash = reservationHash = items
    lease,          \* leaseOwner while leaseUntil has not passed
    order,          \* checkouts with an orders row
    events,         \* number of ORDER_CONFIRMED outbox rows
    inDoubt,        \* checkouts whose persist transaction is still deciding
    \* network: calls product-service executes after the caller gave up
    lateReserve,
    lateRelease,
    \* each actor's program
    pc,
    cur,            \* checkout the actor works on
    want,           \* basket the request asks for
    seen,           \* workflow status the actor read last
    \* history
    acked,          \* checkouts some client was answered 201 for
    refused,        \* checkouts some client was told to give up on
    stalls          \* of each checkout, leases that expired under a live owner

workflow == <<status, basket, lease>>
records == <<order, events, inDoubt>>
network == <<lateReserve, lateRelease>>
local == <<cur, want, seen>>
history == <<acked, refused>>
vars == <<ledger, workflow, records, network, pc, local, history, stalls>>

Open == {"STARTED", "RESERVED"}
Recoverable == Open \cup {"COMPENSATION_PENDING"}
Terminal == {"COMPLETED", "COMPENSATED", "FAILED"}
Status == {"NONE"} \cup Recoverable \cup Terminal

(* Where an error jumps to: out of the saga, or to the read-back that ends *)
(* a failed persist.                                                       *)
Plain == {"recover", "advance", "readOrder", "reconcile", "confirmRejection",
          "confirmUnknown", "fail", "markReleased", "markReserved", "repersist",
          "released", "outcome"}
Compensating == {"checkOrder", "checkStatus", "cancel", "recheck"}
Location == {"idle", "insert", "claim", "claimLost", "reserve", "persist",
             "persistAgain", "release", "finish"} \cup Plain \cup Compensating

StoreTypeOK ==
    /\ status \in [Checkout -> Status]
    /\ basket \in [Checkout -> Basket \cup {NoBasket}]
    /\ lease \in [Checkout -> Actor \cup {Free, Gone}]
    /\ order \in SUBSET Checkout
    /\ events \in [Checkout -> Nat]
    /\ inDoubt \in SUBSET Checkout
    /\ lateReserve \in SUBSET Checkout
    /\ lateRelease \in SUBSET Checkout

ActorTypeOK ==
    /\ pc \in [Actor -> Location]
    /\ cur \in [Actor -> Checkout \cup {NoCheckout}]
    /\ want \in [Actor -> Basket \cup {NoBasket}]
    /\ seen \in [Actor -> Status]

HistoryTypeOK ==
    /\ acked \in SUBSET Checkout
    /\ refused \in SUBSET Checkout
    /\ stalls \in [Checkout -> Nat] /\ \A c \in Checkout : stalls[c] <= MaxStalls[c]

TypeOK == LedgerTypeOK /\ StoreTypeOK /\ ActorTypeOK /\ HistoryTypeOK

Init ==
    /\ LedgerInit
    /\ status = [c \in Checkout |-> "NONE"]
    /\ basket = [c \in Checkout |-> NoBasket]
    /\ lease = [c \in Checkout |-> Free]
    /\ order = {}
    /\ events = [c \in Checkout |-> 0]
    /\ inDoubt = {}
    /\ lateReserve = {}
    /\ lateRelease = {}
    /\ pc = [a \in Actor |-> "idle"]
    /\ cur = [a \in Actor |-> NoCheckout]
    /\ want = [a \in Actor |-> NoBasket]
    /\ seen = [a \in Actor |-> "NONE"]
    /\ acked = {}
    /\ refused = {}
    /\ stalls = [c \in Checkout |-> 0]

-----------------------------------------------------------------------------
Goto(a, l) == pc' = [pc EXCEPT ![a] = l]

(* The actor forgets its request.                                          *)
Leave(a) ==
    /\ Goto(a, "idle")
    /\ cur' = [cur EXCEPT ![a] = NoCheckout]
    /\ want' = [want EXCEPT ![a] = NoBasket]
    /\ seen' = [seen EXCEPT ![a] = "NONE"]

(* advanceWorkflow returns or throws; only a handler has a client to tell. *)
(* "CREATED" is the 201, "REFUSED" the answers that close the checkout     *)
(* (STOCK_INSUFFICIENT, terminal state, released); 5xx answers ("PENDING") *)
(* ask for a retry.                                                        *)
Answer(a, reply) ==
    /\ Goto(a, "finish")
    /\ acked' = IF reply = "CREATED" /\ a \in Handler THEN acked \cup {cur[a]} ELSE acked
    /\ refused' = IF reply = "REFUSED" /\ a \in Handler THEN refused \cup {cur[a]} ELSE refused

(* An UPDATE of the workflow row waits for a transaction still deciding.   *)
RowFree(c) == c \notin inDoubt

SetStatus(c, s) ==
    /\ RowFree(c)
    /\ status' = [status EXCEPT ![c] = s]
    /\ UNCHANGED <<basket, lease>>

(* UPDATE ... SET status = s WHERE status IN from                          *)
Transition(c, from, s) == SetStatus(c, IF status[c] \in from THEN s ELSE status[c])

-----------------------------------------------------------------------------
(* OrderService.create                                                     *)

(* The workflow row exists: same request or a conflicting one, and is it   *)
(* still open?                                                             *)
Recognise(a, c, b) ==
    IF basket[c] # b
    THEN Leave(a)                       \* 409 IDEMPOTENCY_CONFLICT
    ELSE /\ Goto(a, IF status[c] \in Open THEN "claim" ELSE "advance")
         /\ cur' = [cur EXCEPT ![a] = c]
         /\ want' = [want EXCEPT ![a] = NoBasket]
         /\ UNCHANGED seen

Request(a, c, b) ==
    /\ pc[a] = "idle"
    /\ IF status[c] = "NONE"
       THEN /\ Goto(a, "insert")
            /\ cur' = [cur EXCEPT ![a] = c]
            /\ want' = [want EXCEPT ![a] = b]
            /\ UNCHANGED seen
       ELSE Recognise(a, c, b)
    /\ UNCHANGED <<ledger, workflow, records, network, history, stalls>>

(* The unique workflow id elects one creator; the others re-read its row.  *)
InsertWorkflow(a) ==
    LET c == cur[a] IN
    /\ pc[a] = "insert"
    /\ IF status[c] = "NONE"
       THEN /\ status' = [status EXCEPT ![c] = "STARTED"]
            /\ basket' = [basket EXCEPT ![c] = want[a]]
            /\ Goto(a, "claim")
            /\ want' = [want EXCEPT ![a] = NoBasket]
            /\ UNCHANGED <<cur, seen>>
       ELSE /\ Recognise(a, c, want[a])
            /\ UNCHANGED <<status, basket>>
    /\ UNCHANGED <<ledger, lease, records, network, history, stalls>>

(* Mutant: the claim forgets the lease.                                    *)
ClaimIgnoringLease(a) ==
    LET c == cur[a] IN
    /\ pc[a] = "claim"
    /\ RowFree(c)
    /\ IF status[c] \in Open
       THEN lease' = [lease EXCEPT ![c] = a] /\ Goto(a, "advance")
       ELSE Goto(a, "claimLost") /\ UNCHANGED lease
    /\ UNCHANGED <<ledger, status, basket, records, network, local, history, stalls>>

ClaimLease(a) ==
    LET c == cur[a] IN
    /\ pc[a] = "claim"
    /\ RowFree(c)
    /\ IF status[c] \in Open /\ lease[c] = Free
       THEN lease' = [lease EXCEPT ![c] = a] /\ Goto(a, "advance")
       ELSE Goto(a, "claimLost") /\ UNCHANGED lease
    /\ UNCHANGED <<ledger, status, basket, records, network, local, history, stalls>>

ClaimLost(a) ==
    /\ pc[a] = "claimLost"
    /\ IF status[cur[a]] = "COMPLETED"
       THEN Goto(a, "advance") /\ UNCHANGED local
       ELSE Leave(a)                    \* 503 ORDER_RECOVERY_PENDING
    /\ UNCHANGED <<ledger, workflow, records, network, history, stalls>>

(* Mutant: no finally block.                                               *)
FinishKeepingLease(a) ==
    /\ pc[a] = "finish"
    /\ Leave(a)
    /\ UNCHANGED <<ledger, workflow, records, network, history, stalls>>

(* The finally block, and the worker's: clear the lease if it is still     *)
(* this actor's.                                                           *)
Finish(a) ==
    LET c == cur[a] IN
    /\ pc[a] = "finish"
    /\ IF lease[c] = a
       THEN RowFree(c) /\ lease' = [lease EXCEPT ![c] = Free]
       ELSE UNCHANGED lease
    /\ Leave(a)
    /\ UNCHANGED <<ledger, status, basket, records, network, history, stalls>>

-----------------------------------------------------------------------------
(* The recovery worker                                                     *)

(* Mutant: the worker claims by status alone.                              *)
TakeLeasedCandidate(w, c) ==
    /\ pc[w] = "idle"
    /\ status[c] \in Recoverable
    /\ RowFree(c)
    /\ lease' = [lease EXCEPT ![c] = w]
    /\ Goto(w, "recover")
    /\ cur' = [cur EXCEPT ![w] = c]
    /\ UNCHANGED <<ledger, status, basket, records, network, want, seen, history, stalls>>

(* A candidate claimed by compare-and-set.  The candidate list is read     *)
(* earlier, but the claim re-checks both of its conditions on the row.     *)
TakeCandidate(w, c) ==
    /\ pc[w] = "idle"
    /\ status[c] \in Recoverable /\ lease[c] = Free
    /\ RowFree(c)
    /\ lease' = [lease EXCEPT ![c] = w]
    /\ Goto(w, "recover")
    /\ cur' = [cur EXCEPT ![w] = c]
    /\ UNCHANGED <<ledger, status, basket, records, network, want, seen, history, stalls>>

RecoverWorkflow(a) ==
    LET s == status[cur[a]] IN
    /\ pc[a] = "recover"
    /\ seen' = [seen EXCEPT ![a] = s]
    /\ Goto(a, CASE s = "COMPENSATION_PENDING" -> "release"
                 [] s \in Terminal -> "finish"
                 [] OTHER -> "advance")
    /\ UNCHANGED <<ledger, workflow, records, network, cur, want, history, stalls>>

-----------------------------------------------------------------------------
(* advanceWorkflow                                                         *)

ReadWorkflow(a) ==
    /\ pc[a] = "advance"
    /\ seen' = [seen EXCEPT ![a] = status[cur[a]]]
    /\ Goto(a, "readOrder")
    /\ UNCHANGED <<ledger, workflow, records, network, cur, want, history, stalls>>

ReadOrder(a) ==
    LET s == seen[a]
        exists == cur[a] \in order
    IN
    /\ pc[a] = "readOrder"
    /\ \/ exists /\ s = "COMPLETED" /\ Answer(a, "CREATED")
       \/ exists /\ s # "COMPLETED" /\ Goto(a, "repersist") /\ UNCHANGED history
       \/ ~exists /\ s \in {"COMPENSATED", "FAILED"} /\ Answer(a, "REFUSED")
       \/ ~exists /\ s \in {"COMPLETED", "COMPENSATION_PENDING"} /\ Answer(a, "PENDING")
       \/ ~exists /\ s \in Open /\ Goto(a, "reconcile") /\ UNCHANGED history
    /\ UNCHANGED <<ledger, workflow, records, network, local, stalls>>

(* getReservation: the answer r leads on, or the lookup fails.             *)
Found(a, r) == Goto(a, IF r = "RESERVED" THEN "markReserved" ELSE "markReleased")

Reconcile(a) ==
    LET r == GetReservation(cur[a], basket[cur[a]]) IN
    /\ pc[a] = "reconcile"
    /\ IF r \in {"RESERVED", "RELEASED"} THEN Found(a, r) /\ UNCHANGED history
       ELSE IF r = "CONFLICT" \/ seen[a] = "RESERVED" THEN Answer(a, "PENDING")
       ELSE Goto(a, "reserve") /\ UNCHANGED history
    /\ UNCHANGED <<ledger, workflow, records, network, local, stalls>>

(* ReserveStock is executed and its answer arrives.                        *)
ReserveStock(a) ==
    LET c == cur[a]
        r == ReserveAnswer(c, basket[c])
    IN
    /\ pc[a] = "reserve"
    /\ Reserve(c, basket[c])
    /\ IF r \in {"RESERVED", "RELEASED"} THEN Found(a, r)
       ELSE Goto(a, IF r = "INSUFFICIENT" THEN "confirmRejection" ELSE "confirmUnknown")
    /\ UNCHANGED <<workflow, records, network, local, history, stalls>>

(* ReserveStock times out, is refused by the open circuit breaker or fails *)
(* in transit: it was not executed, its answer is lost, or product-service *)
(* will still execute it later.                                            *)
ReserveStockFails(a) ==
    LET c == cur[a] IN
    /\ pc[a] = "reserve"
    /\ Goto(a, "confirmUnknown")
    /\ \/ UNCHANGED <<ledger, lateReserve>>
       \/ Reserve(c, basket[c]) /\ UNCHANGED lateReserve
       \/ lateReserve' = lateReserve \cup {c} /\ UNCHANGED ledger
    /\ UNCHANGED <<workflow, records, lateRelease, local, history, stalls>>

(* The second getReservation, after ReserveStock failed.                   *)
ConfirmReservation(a) ==
    LET r == GetReservation(cur[a], basket[cur[a]]) IN
    /\ pc[a] \in {"confirmRejection", "confirmUnknown"}
    /\ IF r \in {"RESERVED", "RELEASED"} THEN Found(a, r) /\ UNCHANGED history
       ELSE IF r = "NONE" /\ pc[a] = "confirmRejection" THEN Goto(a, "fail") /\ UNCHANGED history
       ELSE Answer(a, "PENDING")
    /\ UNCHANGED <<ledger, workflow, records, network, local, stalls>>

(* Mutant: the rejection is answered but not stored.                       *)
FailUnrecorded(a) ==
    /\ pc[a] = "fail"
    /\ Answer(a, "REFUSED")
    /\ UNCHANGED <<ledger, workflow, records, network, local, stalls>>

FailWorkflow(a) ==
    /\ pc[a] = "fail"
    /\ Transition(cur[a], {"STARTED"}, "FAILED")
    /\ Answer(a, "REFUSED")
    /\ UNCHANGED <<ledger, records, network, local, stalls>>

MarkReleased(a) ==
    /\ pc[a] = "markReleased"
    /\ Transition(cur[a], Open, "COMPENSATED")
    /\ Answer(a, "REFUSED")
    /\ UNCHANGED <<ledger, records, network, local, stalls>>

MarkReserved(a) ==
    /\ pc[a] = "markReserved"
    /\ SetStatus(cur[a], "RESERVED")
    /\ Goto(a, "persist")
    /\ UNCHANGED <<ledger, records, network, local, history, stalls>>

(* An order whose workflow is not COMPLETED is persisted again only while  *)
(* its reservation is RESERVED.                                            *)
Repersist(a) ==
    /\ pc[a] = "repersist"
    /\ IF reservation[cur[a]] = "RESERVED"
       THEN Goto(a, "persistAgain") /\ UNCHANGED history
       ELSE Answer(a, "PENDING")
    /\ UNCHANGED <<ledger, workflow, records, network, local, stalls>>

-----------------------------------------------------------------------------
(* persistOrderAndOutbox                                                   *)

(* Mutant: the event is written without looking for an earlier one.        *)
EventRepeated(c) ==
    /\ order' = order \cup {c}
    /\ events' = [events EXCEPT ![c] = @ + 1]
    /\ status' = [status EXCEPT ![c] = "COMPLETED"]
    /\ UNCHANGED <<basket, lease>>

(* Order, outbox event and COMPLETED commit in one transaction.            *)
OrderCommitted(c) ==
    /\ order' = order \cup {c}
    /\ events' = [events EXCEPT ![c] = IF @ = 0 THEN 1 ELSE @]
    /\ status' = [status EXCEPT ![c] = "COMPLETED"]
    /\ UNCHANGED <<basket, lease>>

PersistOrder(a) ==
    LET c == cur[a] IN
    /\ pc[a] \in {"persist", "persistAgain"}
    /\ RowFree(c)
    /\ OrderCommitted(c)
    /\ Answer(a, "CREATED")
    /\ UNCHANGED <<ledger, inDoubt, network, local, stalls>>

(* Mutant: COMPLETED is written before the transaction, not in it.         *)
PersistFailsCompleted(a) ==
    /\ pc[a] \in {"persist", "persistAgain"}
    /\ SetStatus(cur[a], "COMPLETED")
    /\ Goto(a, IF pc[a] = "persist" THEN "checkOrder" ELSE "finish")
    /\ UNCHANGED <<ledger, records, network, local, history, stalls>>

(* The transaction fails: rolled back, or its COMMIT is on its way when    *)
(* the connection breaks and the database decides later.                   *)
PersistFails(a) ==
    LET c == cur[a] IN
    /\ pc[a] \in {"persist", "persistAgain"}
    /\ \/ UNCHANGED inDoubt
       \/ RowFree(c) /\ inDoubt' = inDoubt \cup {c}
    /\ IF pc[a] = "persist"
       THEN Goto(a, "checkOrder") /\ UNCHANGED history
       ELSE Answer(a, "PENDING")
    /\ UNCHANGED <<ledger, workflow, order, events, network, local, stalls>>

ResolveCommit(c) ==
    /\ c \in inDoubt
    /\ OrderCommitted(c)
    /\ inDoubt' = inDoubt \ {c}
    /\ UNCHANGED <<ledger, network, pc, local, history, stalls>>

ResolveAbort(c) ==
    /\ c \in inDoubt
    /\ inDoubt' = inDoubt \ {c}
    /\ UNCHANGED <<ledger, workflow, order, events, network, pc, local, history, stalls>>

-----------------------------------------------------------------------------
(* compensateAfterPersistenceFailure and releaseWorkflowReservation        *)

(* Mutant: a failed commit is taken for a rollback.                        *)
ReleaseBlindly(a) ==
    /\ pc[a] = "checkOrder"
    /\ Goto(a, "release")
    /\ UNCHANGED <<ledger, workflow, records, network, local, history, stalls>>

CheckOrder(a) ==
    /\ pc[a] = "checkOrder"
    /\ Goto(a, IF cur[a] \in order THEN "outcome" ELSE "checkStatus")
    /\ UNCHANGED <<ledger, workflow, records, network, local, history, stalls>>

CheckStatus(a) ==
    /\ pc[a] = "checkStatus"
    /\ Goto(a, IF status[cur[a]] = "COMPLETED" THEN "outcome" ELSE "cancel")
    /\ UNCHANGED <<ledger, workflow, records, network, local, history, stalls>>

(* Mutant: the cancellation does not look at the status it replaces.       *)
CancelDecided(a) ==
    /\ pc[a] = "cancel"
    /\ SetStatus(cur[a], "COMPENSATION_PENDING")
    /\ Goto(a, "recheck")
    /\ UNCHANGED <<ledger, records, network, local, history, stalls>>

(* Mutant: the workflow is COMPENSATED before the stock is released.       *)
CancelTooEarly(a) ==
    /\ pc[a] = "cancel"
    /\ Transition(cur[a], Open, "COMPENSATED")
    /\ Goto(a, "recheck")
    /\ UNCHANGED <<ledger, records, network, local, history, stalls>>

CancelWorkflow(a) ==
    /\ pc[a] = "cancel"
    /\ Transition(cur[a], Open, "COMPENSATION_PENDING")
    /\ Goto(a, "recheck")
    /\ UNCHANGED <<ledger, records, network, local, history, stalls>>

(* Mutant: the stock is released whether or not the cancellation won.      *)
ReleaseUnchecked(a) ==
    /\ pc[a] = "recheck"
    /\ Goto(a, "release")
    /\ UNCHANGED <<ledger, workflow, records, network, local, history, stalls>>

Recheck(a) ==
    /\ pc[a] = "recheck"
    /\ Goto(a, IF status[cur[a]] = "COMPENSATION_PENDING" THEN "release" ELSE "outcome")
    /\ UNCHANGED <<ledger, workflow, records, network, local, history, stalls>>

(* Both answers of releaseStock, RELEASED and NOT_FOUND, lead on.          *)
ReleaseStock(a) ==
    LET c == cur[a] IN
    /\ pc[a] = "release"
    /\ Release(c, basket[c])
    /\ Goto(a, "released")
    /\ UNCHANGED <<workflow, records, network, local, history, stalls>>

(* Mutant: a failed release counts as done.                                *)
ReleaseErrorIgnored(a) ==
    /\ pc[a] = "release"
    /\ Goto(a, "released")
    /\ UNCHANGED <<ledger, workflow, records, network, local, history, stalls>>

(* The update that notes a failed release fails too: its error is no       *)
(* ORDER_RECOVERY_PENDING, so a failed persist goes on to its read-back.   *)
ReadBack(a) ==
    /\ seen[a] # "COMPENSATION_PENDING"
    /\ Goto(a, "outcome")
    /\ UNCHANGED history

ReleaseStockFails(a) ==
    LET c == cur[a] IN
    /\ pc[a] = "release"
    /\ Answer(a, "PENDING") \/ ReadBack(a)
    /\ \/ UNCHANGED <<ledger, lateRelease>>
       \/ Release(c, basket[c]) /\ UNCHANGED lateRelease
       \/ lateRelease' = lateRelease \cup {c} /\ UNCHANGED ledger
    /\ UNCHANGED <<workflow, records, lateReserve, local, stalls>>

(* The worker's own release ends here; a failed persist reads its outcome. *)
MarkCompensated(a) ==
    /\ pc[a] = "released"
    /\ Transition(cur[a], {"COMPENSATION_PENDING"}, "COMPENSATED")
    /\ Goto(a, IF seen[a] = "COMPENSATION_PENDING" THEN "finish" ELSE "outcome")
    /\ UNCHANGED <<ledger, records, network, local, history, stalls>>

(* Mutant: the read-back trusts the workflow's last step.                  *)
OutcomeAssumed(a) ==
    /\ pc[a] = "outcome"
    /\ Answer(a, IF status[cur[a]] = "COMPENSATED" THEN "REFUSED" ELSE "CREATED")
    /\ UNCHANGED <<ledger, workflow, records, network, local, stalls>>

(* The order and the workflow are read again after a failed persist.       *)
ReadOutcome(a) ==
    LET c == cur[a] IN
    /\ pc[a] = "outcome"
    /\ Answer(a, IF c \in order /\ status[c] = "COMPLETED" THEN "CREATED"
                 ELSE IF status[c] = "COMPENSATED" THEN "REFUSED" ELSE "PENDING")
    /\ UNCHANGED <<ledger, workflow, records, network, local, stalls>>

-----------------------------------------------------------------------------
(* Environment                                                             *)

(* product-service executes a call whose caller gave up.                   *)
LateReserve(c) ==
    /\ c \in lateReserve
    /\ Reserve(c, basket[c])
    /\ lateReserve' = lateReserve \ {c}
    /\ UNCHANGED <<workflow, records, lateRelease, pc, local, history, stalls>>

LateRelease(c) ==
    /\ c \in lateRelease
    /\ Release(c, basket[c])
    /\ lateRelease' = lateRelease \ {c}
    /\ UNCHANGED <<workflow, records, lateReserve, pc, local, history, stalls>>

(* A query or lookup fails before it has an effect.                        *)
QueryFails(a) ==
    /\ \/ pc[a] \in Plain /\ Goto(a, "finish") /\ UNCHANGED history
       \/ pc[a] \in Compensating /\ Goto(a, "outcome") /\ UNCHANGED history
       \/ pc[a] = "released" /\ ReadBack(a)
    /\ UNCHANGED <<ledger, workflow, records, network, local, stalls>>

(* The process dies, or the request ends without reaching its finally      *)
(* block's update: what it leased stays leased until the lease expires.    *)
Crash(a) ==
    /\ pc[a] # "idle"
    /\ Leave(a)
    /\ lease' = [c \in Checkout |-> IF lease[c] = a THEN Gone ELSE lease[c]]
    /\ UNCHANGED <<ledger, status, basket, records, network, history, stalls>>

LeaseExpires(c) ==
    /\ lease[c] = Gone
    /\ lease' = [lease EXCEPT ![c] = Free]
    /\ UNCHANGED <<ledger, status, basket, records, network, pc, local, history, stalls>>

(* The owner is alive but slower than its lease (60 s, worker 30 s).       *)
LeaseOverrun(c) ==
    /\ lease[c] \in Actor
    /\ stalls[c] < MaxStalls[c]
    /\ lease' = [lease EXCEPT ![c] = Free]
    /\ stalls' = [stalls EXCEPT ![c] = @ + 1]
    /\ UNCHANGED <<ledger, status, basket, records, network, pc, local, history>>

-----------------------------------------------------------------------------
Advance(a) ==
    \/ ReadWorkflow(a) \/ ReadOrder(a) \/ Reconcile(a) \/ ReserveStock(a)
    \/ ConfirmReservation(a) \/ FailWorkflow(a) \/ MarkReleased(a)
    \/ MarkReserved(a) \/ Repersist(a) \/ PersistOrder(a)

Compensate(a) ==
    \/ CheckOrder(a) \/ CheckStatus(a) \/ CancelWorkflow(a) \/ Recheck(a)
    \/ ReleaseStock(a) \/ MarkCompensated(a) \/ ReadOutcome(a)

Handle(a) == InsertWorkflow(a) \/ ClaimLease(a) \/ ClaimLost(a)

Fault(a) ==
    \/ ReserveStockFails(a) \/ ReleaseStockFails(a) \/ PersistFails(a)
    \/ QueryFails(a) \/ Crash(a)

Environment(c) ==
    \/ ResolveCommit(c) \/ ResolveAbort(c) \/ LateReserve(c) \/ LateRelease(c)
    \/ LeaseExpires(c) \/ LeaseOverrun(c)

Next ==
    \/ \E a \in Handler, c \in Checkout, b \in Basket : Request(a, c, b)
    \/ \E a \in Handler : Handle(a)
    \/ \E w \in Worker, c \in Checkout : TakeCandidate(w, c)
    \/ \E w \in Worker : RecoverWorkflow(w)
    \/ \E a \in Actor : Advance(a) \/ Compensate(a) \/ Finish(a) \/ Fault(a)
    \/ \E c \in Checkout : Environment(c)

Spec == Init /\ [][Next]_vars

(* Scheduling the progress property assumes.  A worker polls forever, and  *)
(* a statement or RPC it issues may fail any number of times but not every *)
(* time (strong fairness of each successful step); every statement and RPC *)
(* of a live actor ends; leases expire; the database resolves a commit.    *)
WorkerProgress(w) ==
    /\ \A c \in Checkout : SF_vars(TakeCandidate(w, c))
    /\ SF_vars(RecoverWorkflow(w)) /\ SF_vars(ReadWorkflow(w)) /\ SF_vars(ReadOrder(w))
    /\ SF_vars(Reconcile(w)) /\ SF_vars(ReserveStock(w))
    /\ SF_vars(pc[w] = "confirmRejection" /\ ConfirmReservation(w))
    /\ SF_vars(FailWorkflow(w)) /\ SF_vars(MarkReserved(w)) /\ SF_vars(PersistOrder(w))
    /\ SF_vars(ReleaseStock(w)) /\ SF_vars(MarkCompensated(w))

StatementEnds(a) == WF_vars(Handle(a) \/ Advance(a) \/ Compensate(a) \/ Finish(a))

LiveSpec ==
    /\ Spec
    /\ \A w \in Worker : WorkerProgress(w)
    /\ \A a \in Actor : StatementEnds(a)
    /\ \A c \in Checkout :
           WF_vars(LeaseExpires(c)) /\ WF_vars(ResolveCommit(c) \/ ResolveAbort(c))

-----------------------------------------------------------------------------
(* What holds of a checkout as long as no lease on it expires under a live *)
(* owner, whatever happens to the others.                                  *)
InTime == {c \in Checkout : stalls[c] = 0}

(* A confirmed order keeps the stock it was confirmed with: no crash, late *)
(* or lost RPC, ambiguous commit or retry releases the reservation of an   *)
(* order (compensateAfterPersistenceFailure, releaseWorkflowReservation).  *)
ConfirmedHoldsStock ==
    \A c \in order \cap InTime : reservation[c] = "RESERVED" /\ reserved[c] = basket[c]

(* A client and its retries are never told two stories: a 201 means the    *)
(* order exists, and a checkout some answer closed never becomes an order. *)
AnswersAreTruthful ==
    \A c \in InTime : (c \in acked => c \in order) /\ (c \in refused => c \notin order)

(* Between the claim and the finally block one actor at a time works on a  *)
(* checkout that is not decided (the comment in OrderService.create: a     *)
(* live request does not advance the saga while a worker compensates).     *)
Driving == (Plain \ {"recover", "advance", "readOrder"})
               \cup Compensating \cup {"reserve", "persist", "persistAgain", "release"}

SingleDriver ==
    \A a, b \in Actor :
        /\ cur[a] = cur[b] /\ cur[a] \in InTime
        /\ pc[a] \in Driving /\ pc[b] \in Driving
        => a = b

(* COMPLETED, COMPENSATED and FAILED are terminal, although two updates of *)
(* the saga write the status without looking at it.                        *)
DecisionIsFinal ==
    [][\A c \in InTime : status[c] \in Terminal => status'[c] = status[c]]_vars

(* A FAILED checkout is never compensated (advanceWorkflow), so what it    *)
(* takes is lost; but once no ReserveStock of its own is still under way,  *)
(* nothing takes stock for it again.                                       *)
FailedTakesNoMore ==
    [][\A c \in InTime :
        status[c] = "FAILED" /\ c \notin lateReserve /\ reservation[c] # "RESERVED"
            => c \notin lateReserve' /\ reservation'[c] # "RESERVED"]_vars

(* The saga implements the checkout contract: to a reader of the orders    *)
(* and the ledger, every step of handlers, workers and late messages is    *)
(* one of the contract's steps or invisible.                               *)
outcome ==
    [c \in Checkout |->
        IF c \in order THEN "confirmed"
        ELSE IF status[c] \in {"COMPENSATION_PENDING", "COMPENSATED", "FAILED"} THEN "refused"
        ELSE "open"]

Contract == INSTANCE CheckoutContract WITH shelf <- stock, hold <- reservation, wants <- basket

ImplementsContract == Contract!Spec

-----------------------------------------------------------------------------
(* What holds even if leases expire under live owners.                     *)

(* An order has exactly one ORDER_CONFIRMED event, and no event announces  *)
(* an order that was not created: several drivers may persist it again.    *)
OneEventPerOrder ==
    \A c \in Checkout : events[c] = IF c \in order THEN 1 ELSE 0

(* advanceWorkflow's "Completed workflow has no order record" never        *)
(* happens.                                                                *)
CompletedHasOrder == \A c \in Checkout : status[c] = "COMPLETED" => c \in order

(* A compensated checkout holds no stock, not even after a ReserveStock    *)
(* its caller gave up on is executed late.                                 *)
CompensatedHoldsNothing ==
    \A c \in Checkout : status[c] = "COMPENSATED" => reservation[c] # "RESERVED"

-----------------------------------------------------------------------------
(* Progress, under LiveSpec: whatever crashes, fails or is lost on the     *)
(* way, the recovery worker brings every stored checkout to a decision,    *)
(* with no further request from its client.                                *)
EventuallyDecided ==
    \A c \in Checkout : status[c] \in Recoverable ~> status[c] \in Terminal

-----------------------------------------------------------------------------
(* What the documentation says and the code does not do.                   *)

(* The comment in OrderService.create: the lease prevents two drivers, and *)
(* the operation remains idempotent if it expires.                         *)
OrdersKeepStock == \A c \in order : reservation[c] = "RESERVED"

(* README, Saga pattern: if any step fails, all successful decrements are  *)
(* reversed.                                                               *)
FailedHoldsNoStock ==
    \A c \in Checkout : status[c] = "FAILED" => reservation[c] # "RESERVED"
=============================================================================
