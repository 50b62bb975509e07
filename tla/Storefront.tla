----------------------------- MODULE Storefront -----------------------------
(***************************************************************************)
(* The way of POST /api/orders from the browser to the durable checkout    *)
(* and back: token, rate limit, gateway client with its timeout, the       *)
(* idempotency response cache of order-service, and OrderService.create.   *)
(* The checkout itself is its contract (CheckoutContract, which            *)
(* CheckoutSaga implements): it is decided at some time, here by itself.   *)
(*                                                                         *)
(* The person repeats a request that was not answered, or answered by an   *)
(* error that says "retry with the same idempotency key", while earlier    *)
(* ones may still be in order-service: a gateway that gives up after 10 s  *)
(* does not stop them, and nobody hears their answers.                     *)
(***************************************************************************)
EXTENDS Accounts, Integers, Sequences, Functions

CONSTANTS
    Product, InitialStock, NoBasket,
    Key,            \* idempotency keys
    Body,           \* order bodies: sequences of [product, quantity]
    MaxQuantity,    \* of one product in an order: 2^31 - 1 in the code
    Request,        \* requests order-service works on at a time
    Points,         \* orders a user may send in a window
    NoGoal          \* goal of a person who orders nothing

(* The entries of a body added up per product.  This is an order's         *)
(* identity in the response cache, in the workflow row and in the          *)
(* reservation, which each have their own implementation of it.            *)
Normal(body) ==
    [p \in Product |->
        FoldFunction(LAMBDA entry, sum : IF entry.product = p THEN sum + entry.quantity ELSE sum,
                     0, body)]

Orders == {Normal(body) : body \in Body}

TooMany(body) == \E p \in Product : Normal(body)[p] > MaxQuantity

Basket == {Normal(body) : body \in {b \in Body : ~TooMany(b)}}
Items == [b \in Basket |-> b]
Checkout == Email \X Key

Answer == {"created", "closed", "conflict", "invalid"}
Goal == [key : Key, body : Body, heard : Answer \cup {"nothing"}, user : Email \cup {NoEmail}]

ASSUME StorefrontAssumption ==
    /\ Body \subseteq Seq([product : Product, quantity : 1 .. MaxQuantity])
    /\ InitialStock \in [Product -> Nat]
    /\ NoBasket \notin Orders
    /\ Points \in Nat \ {0}
    /\ NoGoal \notin Goal

VARIABLES
    shelf, hold, wants, outcome,    \* the checkouts, as in CheckoutContract
    goal,           \* the order each person wants, and the answer to it
    request,        \* POST /orders in order-service
    cache,          \* Redis: the cached response of each checkout
    writes,         \* SETs of the cache nobody awaits
    spent           \* orders each user sent in the current window

Contract == INSTANCE CheckoutContract

checkouts == <<shelf, hold, wants, outcome>>
intake == <<goal, request, cache, writes, spent>>
vars == <<accountVars, checkouts, intake>>

None == [step |-> "none"]
Pending == [step : {"lookup", "create"}, person : Person, user : Email,
            key : Key, body : Body]
Response == [order : Orders, answer : Answer]
NoResponse == [answer |-> "nothing"]

CheckoutsTypeOK ==
    /\ hold \in [Checkout -> {"NONE", "RESERVED", "RELEASED"}]
    /\ wants \in [Checkout -> Basket \cup {NoBasket}]
    /\ outcome \in [Checkout -> {"open", "confirmed", "refused"}]

IntakeTypeOK ==
    /\ goal \in [Person -> Goal \cup {NoGoal}]
    /\ request \in [Request -> Pending \cup {None}]
    /\ cache \in [Checkout -> Response \cup {NoResponse}]
    /\ writes \subseteq Checkout \X Response
    /\ spent \in [Email -> 0 .. Points]

TypeOK ==
    /\ AccountsTypeOK
    /\ shelf \in [Product -> Nat]
    /\ CheckoutsTypeOK
    /\ IntakeTypeOK

Init ==
    /\ AccountsInit
    /\ Contract!Init
    /\ goal = [p \in Person |-> NoGoal]
    /\ request = [r \in Request |-> None]
    /\ cache = [c \in Checkout |-> NoResponse]
    /\ writes = {}
    /\ spent = [e \in Email |-> 0]

-----------------------------------------------------------------------------
(* The browser                                                             *)
Waits(p) == goal[p] # NoGoal /\ goal[p].heard = "nothing"

(* A person with a session orders, with a new key or an old one.           *)
Want(p, k, b) ==
    /\ token[p] # NoEmail /\ ~Waits(p)
    /\ goal' = [goal EXCEPT ![p] = [key |-> k, body |-> b, heard |-> "nothing", user |-> NoEmail]]
    /\ UNCHANGED <<accountVars, checkouts, request, cache, writes, spent>>

(* The token is verified: without one, or with one that expired, 401.      *)
Authenticated(p) == token[p] # NoEmail

(* Mutant: the limiter counts but does not refuse.                         *)
ConsumeUnlimited(u) == spent' = [spent EXCEPT ![u] = @ + 1]

(* A point of the user's window: 429 when none is left, or Redis cannot    *)
(* say.                                                                    *)
Consume(u) ==
    /\ spent[u] < Points
    /\ spent' = [spent EXCEPT ![u] = @ + 1]

(* The gateway sends the order on, under the identity of the token.        *)
Send(p, r) ==
    /\ Waits(p) /\ Authenticated(p)
    /\ Consume(token[p])
    /\ request[r] = None
    /\ request' = [request EXCEPT ![r] = [step |-> "lookup", person |-> p, user |-> token[p],
                                          key |-> goal[p].key, body |-> goal[p].body]]
    /\ UNCHANGED <<accountVars, checkouts, goal, cache, writes>>

(* Duration, or blockDuration once the limit was exceeded, has passed.     *)
WindowEnds(u) ==
    /\ spent[u] > 0
    /\ spent' = [spent EXCEPT ![u] = 0]
    /\ UNCHANGED <<accountVars, checkouts, goal, request, cache, writes>>

(* Request r is done.  Its answer is heard by the person who still wants   *)
(* just this, unless the gateway gave up or the answer is lost.            *)
Wanted(r) ==
    LET q == request[r] IN
    Waits(q.person) /\ goal[q.person].key = q.key /\ goal[q.person].body = q.body

Close(r) == request' = [request EXCEPT ![r] = None]

Hear(r, answer) ==
    /\ Wanted(r)
    /\ goal' = [goal EXCEPT ![request[r].person].heard = answer,
                            ![request[r].person].user = request[r].user]

Reply(r, answer) == Close(r) /\ (UNCHANGED goal \/ Hear(r, answer))

-----------------------------------------------------------------------------
(* order-service                                                           *)
CheckoutOf(r) == <<request[r].user, request[r].key>>
Fingerprint(r) == Normal(request[r].body)

(* Mutant: a cached response answers any order under its key.              *)
CacheHitAnyOrder(r) ==
    /\ request[r].step = "lookup"
    /\ cache[CheckoutOf(r)] # NoResponse
    /\ Reply(r, cache[CheckoutOf(r)].answer)
    /\ UNCHANGED <<accountVars, checkouts, cache, writes, spent>>

(* A response is cached for this user and key.                             *)
CacheHit(r) ==
    LET response == cache[CheckoutOf(r)] IN
    /\ request[r].step = "lookup"
    /\ response # NoResponse
    /\ Reply(r, IF response.order = Fingerprint(r) THEN response.answer ELSE "conflict")
    /\ UNCHANGED <<accountVars, checkouts, cache, writes, spent>>

(* Nothing cached, or the cache cannot be read: it fails open.             *)
CacheMiss(r) ==
    /\ request[r].step = "lookup"
    /\ request' = [request EXCEPT ![r].step = "create"]
    /\ UNCHANGED <<accountVars, checkouts, goal, cache, writes, spent>>

(* Mutant: whatever is answered is cached.                                 *)
CacheableAlways(answer) == TRUE

Cacheable(answer) == answer = "created"

(* res.json: a successful response is also sent to the cache, without      *)
(* waiting for it.                                                         *)
Respond(r, answer) ==
    /\ Reply(r, answer)
    /\ writes' = IF Cacheable(answer)
                 THEN writes \cup {<<CheckoutOf(r), [order |-> Fingerprint(r), answer |-> answer]>>}
                 ELSE writes
    /\ UNCHANGED <<accountVars, cache, spent>>

(* normalizeItems throws before anything is stored.                        *)
RejectBody(r) ==
    /\ request[r].step = "create"
    /\ TooMany(request[r].body)
    /\ Respond(r, "invalid")
    /\ UNCHANGED checkouts

(* getOrCreateWorkflow: the row is created under the checkout's unique id, *)
(* by one of the requests that race for it,                                *)
StoreCheckout(r) ==
    /\ request[r].step = "create"
    /\ ~TooMany(request[r].body)
    /\ Contract!Ask(CheckoutOf(r), Fingerprint(r))
    /\ UNCHANGED <<accountVars, intake>>

(* or it exists, for another order.                                        *)
FindConflict(r) ==
    /\ request[r].step = "create"
    /\ ~TooMany(request[r].body)
    /\ wants[CheckoutOf(r)] \notin {NoBasket, Fingerprint(r)}
    /\ Respond(r, "conflict")
    /\ UNCHANGED checkouts

(* Mutant: a checkout that was refused is answered like one in progress.   *)
AnswerConfirmed(r) ==
    /\ request[r].step = "create"
    /\ wants[CheckoutOf(r)] = Fingerprint(r)
    /\ outcome[CheckoutOf(r)] = "confirmed"
    /\ Respond(r, "created")
    /\ UNCHANGED checkouts

(* The row is for this order, and the checkout decided: advanceWorkflow.   *)
AnswerDecided(r) ==
    LET o == outcome[CheckoutOf(r)] IN
    /\ request[r].step = "create"
    /\ wants[CheckoutOf(r)] = Fingerprint(r)
    /\ o # "open"
    /\ Respond(r, IF o = "confirmed" THEN "created" ELSE "closed")
    /\ UNCHANGED checkouts

(* A 5xx (lease held by another driver, dependency down), a crash or a     *)
(* lost message: the person does not learn anything.                       *)
FailRequest(r) ==
    /\ request[r] # None
    /\ Close(r)
    /\ UNCHANGED <<accountVars, checkouts, goal, cache, writes, spent>>

(* The SET arrives at Redis late, in any order, or never.                  *)
CacheResponse(w) ==
    /\ writes' = writes \ {w}
    /\ cache' \in {cache, [cache EXCEPT ![w[1]] = w[2]]}
    /\ UNCHANGED <<accountVars, checkouts, goal, request, spent>>

(* After 24 h, or Redis evicted or lost the key.                           *)
ResponseExpires(c) ==
    /\ cache[c] # NoResponse
    /\ cache' = [cache EXCEPT ![c] = NoResponse]
    /\ UNCHANGED <<accountVars, checkouts, goal, request, writes, spent>>

(* The saga, the recovery worker and product-service go on.                *)
CheckoutGoesOn(c) ==
    /\ Contract!Take(c) \/ Contract!Confirm(c) \/ Contract!Refuse(c) \/ Contract!GiveBack(c)
    /\ UNCHANGED <<accountVars, intake>>

-----------------------------------------------------------------------------
Progress(r) ==
    \/ CacheHit(r) \/ CacheMiss(r) \/ RejectBody(r) \/ StoreCheckout(r)
    \/ FindConflict(r) \/ AnswerDecided(r)

Next ==
    \/ AccountsNext /\ UNCHANGED <<checkouts, intake>>
    \/ \E p \in Person, k \in Key, b \in Body : Want(p, k, b)
    \/ \E p \in Person, r \in Request : Send(p, r)
    \/ \E u \in Email : WindowEnds(u)
    \/ \E r \in Request : Progress(r) \/ FailRequest(r)
    \/ \E w \in writes : CacheResponse(w)
    \/ \E c \in Checkout : ResponseExpires(c) \/ CheckoutGoesOn(c)

Spec == Init /\ [][Next]_vars

(* The person signs in again and repeats the request; windows end; a       *)
(* request may fail at any step any number of times but not every time;    *)
(* and every checkout is decided (CheckoutSaga!EventuallyDecided).         *)
SendAgain(p) == \E r \in Request : Send(p, r)
Mine(p, r) == request[r] # None /\ request[r].person = p /\ Wanted(r)
Answered(p) == \E r \in Request : Mine(p, r) /\ Progress(r) /\ ~UNCHANGED goal

PersonFairness(p) ==
    /\ WF_vars(token[p] = NoEmail /\ \E e \in Email : SignIn(p, e) /\ UNCHANGED <<checkouts, intake>>)
    /\ SF_vars(SendAgain(p))
    /\ SF_vars(\E r \in Request : Mine(p, r) /\ CacheMiss(r))
    /\ SF_vars(\E r \in Request : Mine(p, r) /\ StoreCheckout(r))
    /\ SF_vars(Answered(p))

LiveSpec ==
    /\ Spec
    /\ \A p \in Person : PersonFairness(p)
    /\ \A u \in Email : WF_vars(WindowEnds(u))
    /\ \A r \in Request : WF_vars(Progress(r))
    /\ \A c \in Checkout : WF_vars((Contract!Confirm(c) \/ Contract!Refuse(c)) /\ UNCHANGED <<accountVars, intake>>)

-----------------------------------------------------------------------------
AgreesWith(c, order, answer) ==
    CASE answer = "created"  -> outcome[c] = "confirmed" /\ wants[c] = order
      [] answer = "closed"   -> outcome[c] = "refused" /\ wants[c] = order
      [] answer = "conflict" -> wants[c] \notin {NoBasket, order}
      [] answer = "invalid"  -> \E p \in Product : order[p] > MaxQuantity
      [] OTHER               -> TRUE

(* A cached response, or one still on its way to Redis, is the durable     *)
(* answer: of this user and key, for this order, and a success.            *)
CacheAgreesWithOrder ==
    /\ \A c \in Checkout : cache[c] # NoResponse =>
        cache[c].answer = "created" /\ AgreesWith(c, cache[c].order, cache[c].answer)
    /\ \A w \in writes : w[2].answer = "created" /\ AgreesWith(w[1], w[2].order, w[2].answer)

(* What a person was told about an order is true of the account it was     *)
(* sent under, theirs, and stays true, whichever of their requests, the    *)
(* cache or the database the answer came from.                             *)
AnswersStayTrue ==
    \A p \in Person : goal[p] # NoGoal /\ goal[p].heard # "nothing" =>
        /\ account[goal[p].user] = p
        /\ AgreesWith(<<goal[p].user, goal[p].key>>, Normal(goal[p].body), goal[p].heard)

(* A person who repeats an unanswered request is answered for good in the  *)
(* end.                                                                    *)
RetriesAreAnswered == \A p \in Person : Waits(p) ~> ~Waits(p)
=============================================================================
