-------------------------- MODULE StorefrontProofs --------------------------
(***************************************************************************)
(* The safety properties of the order path, for any people, addresses,     *)
(* keys, bodies, numbers of requests and limits.  Everything a person is   *)
(* told, and everything cached, is about a checkout that is stored or      *)
(* decided, and such a checkout never changes again: Settled.              *)
(***************************************************************************)
EXTENDS Storefront, FiniteSums, TLAPS

(* The identity a request carries was its sender's, and stays so.          *)
SendersAreKnown ==
    \A r \in Request : request[r] # None => account[request[r].user] = request[r].person

(* Whoever was told something was told so under some address.              *)
AnswersNameAUser ==
    \A p \in Person : goal[p] # NoGoal /\ goal[p].heard # "nothing" => goal[p].user \in Email

AccountsInv == AccountsTypeOK /\ TokensOpenTheirAccount

IntakeInv ==
    /\ IntakeTypeOK /\ SendersAreKnown /\ CacheAgreesWithOrder
    /\ AnswersNameAUser /\ AnswersStayTrue

IInv == AccountsInv /\ CheckoutsTypeOK /\ IntakeInv

(* What no step changes once it is set.                                    *)
Registered == \A e \in Email : account[e] # Nobody => account'[e] = account[e]

Settled ==
    \A c \in Checkout :
        /\ wants[c] # NoBasket => wants'[c] = wants[c]
        /\ outcome[c] # "open" => outcome'[c] = outcome[c]

-----------------------------------------------------------------------------
LEMMA InitHolds == Init => IInv
  <1> SUFFICES ASSUME Init PROVE IInv
    OBVIOUS
  <1>1. AccountsInv
    BY AccountsAssumption
    DEF Init, AccountsInit, AccountsInv, AccountsTypeOK, TokensOpenTheirAccount, Registration
  <1>2. CheckoutsTypeOK
    BY DEF Init, Contract!Init, CheckoutsTypeOK
  <1>3. IntakeTypeOK
    BY StorefrontAssumption DEF Init, IntakeTypeOK
  <1>4. SendersAreKnown /\ CacheAgreesWithOrder /\ AnswersNameAUser /\ AnswersStayTrue
    BY DEF Init, SendersAreKnown, CacheAgreesWithOrder, AnswersNameAUser, AnswersStayTrue
  <1> QED
    BY <1>1, <1>2, <1>3, <1>4 DEF IInv, IntakeInv

(* Registration and sign-in: an address is given once, tokens only to      *)
(* whoever it was given to.                                                *)
LEMMA AccountsStep ==
    ASSUME AccountsInv, AccountsNext \/ UNCHANGED accountVars
    PROVE  AccountsInv' /\ Registered
  <1> USE AccountsAssumption
      DEF AccountsInv, AccountsTypeOK, TokensOpenTheirAccount, Registered, Registration, Unsent
  <1>1. ASSUME NEW f \in Form, NEW p \in Person, NEW e \in Email, SendForm(f, p, e)
        PROVE  AccountsInv' /\ Registered
    BY <1>1 DEF SendForm
  <1>2. ASSUME NEW f \in Form, LookUpAddress(f) PROVE AccountsInv' /\ Registered
    BY <1>2 DEF LookUpAddress
  <1>3. ASSUME NEW f \in Form, InsertUser(f) PROVE AccountsInv' /\ Registered
    <2> DEFINE p == form[f].person
               e == form[f].email
    <2>1. p \in Person /\ e \in Email /\ form' = [form EXCEPT ![f].step = "done"]
      BY <1>3 DEF InsertUser, Finish
    <2>2. CASE account[e] = Nobody
      <3>1. account' = [account EXCEPT ![e] = p]
        BY <1>3, <2>2 DEF InsertUser
      <3>2. token' = token \/ token' = [token EXCEPT ![p] = e]
        BY <1>3, <2>2 DEF InsertUser, AnswerWithToken
      <3> QED
        BY <2>1, <2>2, <3>1, <3>2
    <2>3. CASE account[e] # Nobody
      BY <1>3, <2>1, <2>3 DEF InsertUser
    <2> QED
      BY <2>2, <2>3
  <1>4. ASSUME NEW p \in Person, NEW e \in Email, SignIn(p, e) PROVE AccountsInv' /\ Registered
    BY <1>4 DEF SignIn
  <1>5. ASSUME NEW p \in Person, SessionEnds(p) PROVE AccountsInv' /\ Registered
    BY <1>5 DEF SessionEnds
  <1>6. CASE UNCHANGED accountVars
    BY <1>6 DEF accountVars
  <1> QED
    BY <1>1, <1>2, <1>3, <1>4, <1>5, <1>6 DEF AccountsNext

(* The checkouts: an order asked for is stored once, an outcome decided    *)
(* once.                                                                   *)
LEMMA CheckoutsStep ==
    ASSUME CheckoutsTypeOK, NEW c \in Checkout,
           \/ \E b \in Basket : Contract!Ask(c, b)
           \/ Contract!Take(c) \/ Contract!Confirm(c) \/ Contract!Refuse(c) \/ Contract!GiveBack(c)
           \/ UNCHANGED checkouts
    PROVE  CheckoutsTypeOK' /\ Settled
  <1> USE DEF CheckoutsTypeOK, Settled
  <1>1. ASSUME NEW b \in Basket, Contract!Ask(c, b) PROVE CheckoutsTypeOK' /\ Settled
    BY <1>1 DEF Contract!Ask
  <1>2. CASE Contract!Take(c)
    BY <1>2 DEF Contract!Take
  <1>3. CASE Contract!Confirm(c)
    BY <1>3 DEF Contract!Confirm
  <1>4. CASE Contract!Refuse(c)
    BY <1>4 DEF Contract!Refuse
  <1>5. CASE Contract!GiveBack(c)
    BY <1>5 DEF Contract!GiveBack
  <1>6. CASE UNCHANGED checkouts
    BY <1>6 DEF checkouts
  <1> QED
    BY <1>1, <1>2, <1>3, <1>4, <1>5, <1>6

(* An answer that agrees with a checkout agrees with it for ever.          *)
LEMMA AgreementStays ==
    ASSUME Settled
    PROVE  \A c \in Checkout, order \in Orders, answer \in Answer :
             AgreesWith(c, order, answer) => AgreesWith(c, order, answer)'
  <1> SUFFICES ASSUME NEW c \in Checkout, NEW order \in Orders, NEW answer \in Answer,
                      AgreesWith(c, order, answer)
               PROVE  AgreesWith(c, order, answer)'
    OBVIOUS
  <1>1. NoBasket # order
    BY StorefrontAssumption
  <1> QED
    BY <1>1 DEF AgreesWith, Settled, Answer

(* Hence what was said and cached stays true while nothing new is said.    *)
LEMMA IntakeStays ==
    ASSUME IInv, Settled, Registered, UNCHANGED intake
    PROVE  IntakeInv'
  <1> USE DEF IInv, IntakeInv, AccountsInv
  <1>1. IntakeTypeOK'
    BY DEF IntakeTypeOK, intake
  <1>2. SendersAreKnown'
    BY AccountsAssumption
    DEF SendersAreKnown, Registered, IntakeTypeOK, intake, Pending
  <1>3. CacheAgreesWithOrder'
    <2> USE DEF CacheAgreesWithOrder, intake
    <2>1. \A c \in Checkout : cache[c] # NoResponse =>
            /\ cache[c].order \in Orders /\ cache[c].answer \in Answer
            /\ AgreesWith(c, cache[c].order, cache[c].answer)
      BY DEF IntakeTypeOK, Response
    <2>2. \A c \in Checkout : cache[c] # NoResponse =>
            AgreesWith(c, cache[c].order, cache[c].answer)'
      BY <2>1, AgreementStays DEF AgreesWith
    <2>3. \A w \in writes :
            /\ w[1] \in Checkout /\ w[2].order \in Orders /\ w[2].answer \in Answer
            /\ AgreesWith(w[1], w[2].order, w[2].answer)
      BY DEF IntakeTypeOK, Response
    <2>4. \A w \in writes : AgreesWith(w[1], w[2].order, w[2].answer)'
      BY <2>3, AgreementStays DEF AgreesWith
    <2> QED
      BY <2>2, <2>4 DEF AgreesWith
  <1>4. AnswersStayTrue'
    <2> SUFFICES ASSUME NEW p \in Person, goal[p] # NoGoal, goal[p].heard # "nothing"
                 PROVE  /\ account'[goal[p].user] = p
                        /\ AgreesWith(<<goal[p].user, goal[p].key>>, Normal(goal[p].body), goal[p].heard)'
      BY DEF AnswersStayTrue, intake
    <2> DEFINE c == <<goal[p].user, goal[p].key>>
    <2>1. /\ goal[p].user \in Email /\ account[goal[p].user] = p
          /\ AgreesWith(c, Normal(goal[p].body), goal[p].heard)
      BY DEF AnswersStayTrue, AnswersNameAUser
    <2>2. account'[goal[p].user] = p
      BY <2>1, AccountsAssumption DEF Registered
    <2>3. c \in Checkout /\ Normal(goal[p].body) \in Orders /\ goal[p].heard \in Answer
      BY <2>1 DEF IntakeTypeOK, Goal, Checkout, Orders
    <2>4. AgreesWith(c, Normal(goal[p].body), goal[p].heard)'
      BY <2>1, <2>3, AgreementStays DEF intake, AgreesWith
    <2> QED
      BY <2>2, <2>4
  <1>5. AnswersNameAUser'
    BY DEF AnswersNameAUser, intake
  <1> QED
    BY <1>1, <1>2, <1>3, <1>4, <1>5

-----------------------------------------------------------------------------
(* The remaining steps leave accounts and checkouts alone.                 *)
StandsStill == UNCHANGED <<accountVars, checkouts>>

LEMMA WantStep ==
    ASSUME IInv, NEW p \in Person, NEW k \in Key, NEW b \in Body, Want(p, k, b)
    PROVE  IntakeInv' /\ StandsStill
  <1> DEFINE new == [key |-> k, body |-> b, heard |-> "nothing", user |-> NoEmail]
  <1> USE DEF IInv, IntakeInv, Want, accountVars, checkouts
  <1>1. new \in Goal
    BY DEF Goal
  <1>2. IntakeTypeOK'
    BY <1>1 DEF IntakeTypeOK
  <1>3. \A q \in Person : goal'[q] # NoGoal /\ goal'[q].heard # "nothing" =>
            q # p /\ goal'[q] = goal[q]
    BY DEF IntakeTypeOK
  <1>4. AnswersNameAUser' /\ AnswersStayTrue'
    BY <1>3 DEF AnswersNameAUser, AnswersStayTrue, AgreesWith
  <1>5. SendersAreKnown' /\ CacheAgreesWithOrder'
    BY DEF SendersAreKnown, CacheAgreesWithOrder, AgreesWith
  <1> QED
    BY <1>2, <1>4, <1>5 DEF StandsStill

(* The sender is whoever the token names (TokensOpenTheirAccount).         *)
LEMMA SendStep ==
    ASSUME IInv, NEW p \in Person, NEW r \in Request, Send(p, r)
    PROVE  IntakeInv' /\ StandsStill
  <1> DEFINE new == [step |-> "lookup", person |-> p, user |-> token[p],
                     key |-> goal[p].key, body |-> goal[p].body]
  <1> USE DEF IInv, IntakeInv, AccountsInv, Send, Authenticated, Consume, accountVars, checkouts
  <1>1. token[p] \in Email /\ account[token[p]] = p
    BY DEF AccountsTypeOK, TokensOpenTheirAccount
  <1>2. new \in Pending
    BY <1>1 DEF Pending, Waits, IntakeTypeOK, Goal
  <1>3. request' = [request EXCEPT ![r] = new]
    OBVIOUS
  <1>4. request' \in [Request -> Pending \cup {None}]
    BY <1>2, <1>3 DEF IntakeTypeOK
  <1>5. spent' \in [Email -> 0 .. Points]
    BY <1>1, StorefrontAssumption DEF IntakeTypeOK
  <1>6. IntakeTypeOK'
    BY <1>4, <1>5 DEF IntakeTypeOK
  <1>7. SendersAreKnown'
    BY <1>1, <1>3 DEF SendersAreKnown, IntakeTypeOK
  <1>8. AnswersNameAUser' /\ AnswersStayTrue' /\ CacheAgreesWithOrder'
    BY DEF AnswersNameAUser, AnswersStayTrue, CacheAgreesWithOrder, AgreesWith
  <1> QED
    BY <1>6, <1>7, <1>8 DEF StandsStill

(* The two updates of Hear give the goal an answer and a user.             *)
LEMMA HeardGoal ==
    ASSUME NEW g \in Goal, NEW answer \in Answer, NEW u \in Email
    PROVE  [g EXCEPT !.heard = answer, !.user = u]
             = [key |-> g.key, body |-> g.body, heard |-> answer, user |-> u]
  <1> DEFINE h == [g EXCEPT !.heard = answer]
  <1>1. h = [key |-> g.key, body |-> g.body, heard |-> answer, user |-> g.user]
    BY DEF Goal
  <1>2. h \in Goal /\ h.key = g.key /\ h.body = g.body /\ h.heard = answer
    BY <1>1 DEF Goal
  <1> HIDE DEF h
  <1>3. [h EXCEPT !.user = u] = [key |-> h.key, body |-> h.body, heard |-> h.heard, user |-> u]
    BY <1>2 DEF Goal
  <1> QED
    BY <1>2, <1>3 DEF h

(* A request that ends, whether or not its answer is heard, if the answer  *)
(* agrees with its checkout.                                               *)
LEMMA ReplyStep ==
    ASSUME IInv, NEW r \in Request, request[r] # None, NEW answer \in Answer,
           Reply(r, answer), AgreesWith(CheckoutOf(r), Fingerprint(r), answer),
           UNCHANGED <<accountVars, checkouts>>
    PROVE  /\ goal' \in [Person -> Goal \cup {NoGoal}]
           /\ request' \in [Request -> Pending \cup {None}]
           /\ SendersAreKnown' /\ AnswersNameAUser' /\ AnswersStayTrue'
  <1> DEFINE q == request[r]
             p == q.person
  <1> USE DEF IInv, IntakeInv, accountVars, checkouts
  <1>1. q \in Pending /\ account[q.user] = p
    BY DEF IntakeTypeOK, SendersAreKnown
  <1>2. request' = [request EXCEPT ![r] = None]
    BY DEF Reply, Close
  <1>3. request' \in [Request -> Pending \cup {None}] /\ SendersAreKnown'
    BY <1>2 DEF IntakeTypeOK, SendersAreKnown
  <1>4. CASE UNCHANGED goal
    BY <1>3, <1>4 DEF IntakeTypeOK, AnswersNameAUser, AnswersStayTrue, AgreesWith
  <1>5. CASE Hear(r, answer)
    <2>1. /\ goal[p] \in Goal /\ goal[p].key = q.key /\ goal[p].body = q.body
          /\ p \in Person
      BY <1>1, <1>5 DEF Hear, Wanted, Waits, IntakeTypeOK, Pending
    <2> DEFINE new == [key |-> q.key, body |-> q.body, heard |-> answer, user |-> q.user]
    <2>2. new \in Goal
      BY <1>1 DEF Goal, Pending
    <2>3. goal' = [goal EXCEPT ![p] = new]
      <3>1. goal' = [goal EXCEPT ![p] = [goal[p] EXCEPT !.heard = answer, !.user = q.user]]
        BY <1>5, <2>1 DEF Hear, IntakeTypeOK
      <3>2. [goal[p] EXCEPT !.heard = answer, !.user = q.user] = new
        <4>1. q.user \in Email
          BY <1>1 DEF Pending
        <4> QED
          BY <2>1, <4>1, HeardGoal
      <3> QED
        BY <3>1, <3>2
    <2>4. goal' \in [Person -> Goal \cup {NoGoal}]
      BY <2>2, <2>3 DEF IntakeTypeOK
    <2>5. \A o \in Person \ {p} : goal'[o] = goal[o]
      BY <2>3 DEF IntakeTypeOK
    <2>6. goal'[p] = new
      BY <2>1, <2>3 DEF IntakeTypeOK
    <2>7. AnswersNameAUser'
      BY <1>1, <2>5, <2>6 DEF AnswersNameAUser, Pending
    <2>8. AgreesWith(<<new.user, new.key>>, Normal(new.body), new.heard)
      BY DEF CheckoutOf, Fingerprint
    <2>9. AnswersStayTrue'
      <3> SUFFICES ASSUME NEW o \in Person, goal'[o] # NoGoal, goal'[o].heard # "nothing"
                   PROVE  /\ account[goal'[o].user] = o
                          /\ AgreesWith(<<goal'[o].user, goal'[o].key>>,
                                        Normal(goal'[o].body), goal'[o].heard)
        BY DEF AnswersStayTrue, AgreesWith
      <3>1. CASE o = p
        BY <1>1, <2>6, <2>8, <3>1
      <3>2. CASE o # p
        BY <2>5, <3>2 DEF AnswersStayTrue
      <3> QED
        BY <3>1, <3>2
    <2> QED
      BY <1>3, <2>4, <2>7, <2>9
  <1> QED
    BY <1>4, <1>5 DEF Reply

(* order-service: what is answered from the cache was answered before.     *)
LEMMA CacheHitStep ==
    ASSUME IInv, NEW r \in Request, CacheHit(r)
    PROVE  IntakeInv' /\ StandsStill
  <1> DEFINE c == CheckoutOf(r)
             answer == IF cache[c].order = Fingerprint(r) THEN cache[c].answer ELSE "conflict"
  <1> USE DEF IInv, IntakeInv, accountVars, checkouts
  <1>1. request[r] # None /\ request[r] \in Pending /\ c \in Checkout /\ cache[c] # NoResponse
    BY DEF CacheHit, None, IntakeTypeOK, Pending, CheckoutOf, Checkout
  <1>2. /\ cache[c].answer = "created" /\ cache[c].order \in Orders
        /\ outcome[c] = "confirmed" /\ wants[c] = cache[c].order
    BY <1>1 DEF CacheAgreesWithOrder, AgreesWith, IntakeTypeOK, Response
  <1>3. answer \in Answer /\ AgreesWith(c, Fingerprint(r), answer)
    BY <1>2, StorefrontAssumption DEF AgreesWith, Answer
  <1>4. Reply(r, answer) /\ UNCHANGED <<accountVars, checkouts, cache, writes, spent>>
    BY DEF CacheHit
  <1> HIDE DEF c, answer
  <1>5. /\ goal' \in [Person -> Goal \cup {NoGoal}]
        /\ request' \in [Request -> Pending \cup {None}]
        /\ SendersAreKnown' /\ AnswersNameAUser' /\ AnswersStayTrue'
    BY <1>1, <1>3, <1>4, ReplyStep DEF c
  <1>6. IntakeTypeOK'
    BY <1>4, <1>5 DEF IntakeTypeOK
  <1>7. CacheAgreesWithOrder'
    BY <1>4 DEF CacheAgreesWithOrder, AgreesWith
  <1> QED
    BY <1>4, <1>5, <1>6, <1>7 DEF StandsStill

(* An answer of OrderService.create, if it agrees with the database, may   *)
(* be sent and, if a success, cached.                                      *)
LEMMA RespondStep ==
    ASSUME IInv, NEW r \in Request, request[r] \in Pending, request[r] # None,
           NEW answer \in Answer, AgreesWith(CheckoutOf(r), Fingerprint(r), answer),
           Respond(r, answer), UNCHANGED checkouts
    PROVE  IntakeInv' /\ StandsStill
  <1> DEFINE w == <<CheckoutOf(r), [order |-> Fingerprint(r), answer |-> answer]>>
  <1> USE DEF IInv, IntakeInv, accountVars, checkouts
  <1>1. /\ Reply(r, answer) /\ UNCHANGED <<accountVars, cache, spent>>
        /\ writes' = IF Cacheable(answer) THEN writes \cup {w} ELSE writes
    BY DEF Respond
  <1>2. /\ goal' \in [Person -> Goal \cup {NoGoal}]
        /\ request' \in [Request -> Pending \cup {None}]
        /\ SendersAreKnown' /\ AnswersNameAUser' /\ AnswersStayTrue'
    BY <1>1, ReplyStep
  <1>3. w \in Checkout \X Response
    BY DEF CheckoutOf, Checkout, Fingerprint, Response, Orders, Pending
  <1>4. IntakeTypeOK'
    BY <1>1, <1>2, <1>3 DEF IntakeTypeOK
  <1>5. CacheAgreesWithOrder'
    <2>1. \A d \in Checkout : cache'[d] # NoResponse =>
            cache'[d].answer = "created" /\ AgreesWith(d, cache'[d].order, cache'[d].answer)
      BY <1>1 DEF CacheAgreesWithOrder
    <2>2. \A v \in writes : v[2].answer = "created" /\ AgreesWith(v[1], v[2].order, v[2].answer)
      BY DEF CacheAgreesWithOrder
    <2>3. Cacheable(answer) => w[2].answer = "created" /\ AgreesWith(w[1], w[2].order, w[2].answer)
      BY DEF Cacheable
    <2>4. \A v \in writes' : v[2].answer = "created" /\ AgreesWith(v[1], v[2].order, v[2].answer)
      BY <1>1, <2>2, <2>3
    <2> QED
      BY <2>1, <2>4 DEF CacheAgreesWithOrder, AgreesWith
  <1> QED
    BY <1>1, <1>2, <1>4, <1>5 DEF StandsStill

LEMMA CreateStep ==
    ASSUME IInv, NEW r \in Request, RejectBody(r) \/ FindConflict(r) \/ AnswerDecided(r)
    PROVE  IntakeInv' /\ StandsStill
  <1>1. request[r] \in Pending /\ request[r] # None
    BY DEF IInv, IntakeInv, IntakeTypeOK, None, RejectBody, FindConflict, AnswerDecided
  <1>2. CASE RejectBody(r)
    <2>1. AgreesWith(CheckoutOf(r), Fingerprint(r), "invalid")
      BY <1>2 DEF RejectBody, TooMany, Fingerprint, AgreesWith
    <2> QED
      BY <1>1, <1>2, <2>1, RespondStep DEF RejectBody, Answer
  <1>3. CASE FindConflict(r)
    <2>1. AgreesWith(CheckoutOf(r), Fingerprint(r), "conflict")
      BY <1>3 DEF FindConflict, AgreesWith
    <2> QED
      BY <1>1, <1>3, <2>1, RespondStep DEF FindConflict, Answer
  <1>4. CASE AnswerDecided(r)
    <2> DEFINE o == outcome[CheckoutOf(r)]
               answer == IF o = "confirmed" THEN "created" ELSE "closed"
    <2>1. o \in {"confirmed", "refused"}
      BY <1>1, <1>4 DEF AnswerDecided, IInv, CheckoutsTypeOK, Pending, CheckoutOf, Checkout
    <2>2. answer \in Answer /\ AgreesWith(CheckoutOf(r), Fingerprint(r), answer)
      BY <1>4, <2>1 DEF AnswerDecided, AgreesWith, Answer
    <2>3. Respond(r, answer) /\ UNCHANGED checkouts
      BY <1>4 DEF AnswerDecided
    <2> QED
      BY <1>1, <2>2, <2>3, RespondStep
  <1> QED
    BY <1>2, <1>3, <1>4

LEMMA CacheMissStep ==
    ASSUME IInv, NEW r \in Request, CacheMiss(r) \/ FailRequest(r)
    PROVE  IntakeInv' /\ StandsStill
  <1> USE DEF IInv, IntakeInv, accountVars, checkouts, CacheMiss, FailRequest, Close
  <1>1. \/ request' = [request EXCEPT ![r] = None]
        \/ request[r] \in Pending /\ request' = [request EXCEPT ![r].step = "create"]
    BY DEF IntakeTypeOK, None
  <1>2. request' \in [Request -> Pending \cup {None}] /\ SendersAreKnown'
    BY <1>1 DEF IntakeTypeOK, SendersAreKnown, Pending, None
  <1>3. IntakeTypeOK'
    BY <1>2 DEF IntakeTypeOK
  <1>4. AnswersNameAUser' /\ AnswersStayTrue' /\ CacheAgreesWithOrder'
    BY DEF AnswersNameAUser, AnswersStayTrue, CacheAgreesWithOrder, AgreesWith
  <1> QED
    BY <1>2, <1>3, <1>4 DEF StandsStill

(* Redis and the limiter's window.                                         *)
LEMMA RedisStep ==
    ASSUME IInv, \/ \E w \in writes : CacheResponse(w)
                 \/ \E c \in Checkout : ResponseExpires(c)
                 \/ \E u \in Email : WindowEnds(u)
    PROVE  IntakeInv' /\ StandsStill
  <1> USE DEF IInv, IntakeInv, accountVars, checkouts
  <1>1. UNCHANGED <<accountVars, checkouts, goal, request>>
    BY DEF CacheResponse, ResponseExpires, WindowEnds
  <1>2. SendersAreKnown' /\ AnswersNameAUser' /\ AnswersStayTrue'
    BY <1>1 DEF SendersAreKnown, AnswersNameAUser, AnswersStayTrue, AgreesWith
  <1>3. ASSUME NEW w \in writes, CacheResponse(w)
        PROVE  IntakeTypeOK' /\ CacheAgreesWithOrder'
    <2>1. w[1] \in Checkout /\ w[2] \in Response
      BY DEF IntakeTypeOK
    <2>2. \A c \in Checkout : cache'[c] = cache[c] \/ (c = w[1] /\ cache'[c] = w[2])
      BY <1>3 DEF CacheResponse, IntakeTypeOK
    <2>3. IntakeTypeOK'
      BY <1>1, <1>3, <2>1 DEF CacheResponse, IntakeTypeOK
    <2>4. CacheAgreesWithOrder'
      BY <1>1, <1>3, <2>2 DEF CacheResponse, CacheAgreesWithOrder, AgreesWith
    <2> QED
      BY <2>3, <2>4
  <1>4. ASSUME NEW c \in Checkout, ResponseExpires(c)
        PROVE  IntakeTypeOK' /\ CacheAgreesWithOrder'
    BY <1>1, <1>4 DEF ResponseExpires, IntakeTypeOK, CacheAgreesWithOrder, AgreesWith
  <1>5. ASSUME NEW u \in Email, WindowEnds(u)
        PROVE  IntakeTypeOK' /\ CacheAgreesWithOrder'
    BY <1>1, <1>5, StorefrontAssumption
    DEF WindowEnds, IntakeTypeOK, CacheAgreesWithOrder, AgreesWith
  <1> QED
    BY <1>1, <1>2, <1>3, <1>4, <1>5 DEF StandsStill

-----------------------------------------------------------------------------
LEMMA StepPreserves ==
    ASSUME IInv, [Next]_vars
    PROVE  IInv'
  <1>1. ASSUME IntakeInv', StandsStill PROVE IInv'
    BY <1>1 DEF IInv, StandsStill, accountVars, checkouts, AccountsInv, AccountsTypeOK,
                TokensOpenTheirAccount, CheckoutsTypeOK
  <1>2. CASE AccountsNext /\ UNCHANGED <<checkouts, intake>>
    <2>1. AccountsInv' /\ Registered
      BY <1>2, AccountsStep DEF IInv
    <2>2. CheckoutsTypeOK' /\ Settled
      BY <1>2 DEF checkouts, IInv, CheckoutsTypeOK, Settled
    <2> QED
      BY <1>2, <2>1, <2>2, IntakeStays DEF IInv
  <1>3. ASSUME NEW c \in Checkout, CheckoutGoesOn(c) \/ \E b \in Basket : Contract!Ask(c, b),
               UNCHANGED <<accountVars, intake>>
        PROVE  IInv'
    <2>1. AccountsInv' /\ Registered
      BY <1>3, AccountsStep DEF IInv
    <2>2. CheckoutsTypeOK' /\ Settled
      BY <1>3, CheckoutsStep DEF IInv, CheckoutGoesOn
    <2> QED
      BY <1>3, <2>1, <2>2, IntakeStays DEF IInv
  <1>4. ASSUME NEW r \in Request, StoreCheckout(r) PROVE IInv'
    <2>1. request[r] \in Pending
      BY <1>4 DEF StoreCheckout, IInv, IntakeInv, IntakeTypeOK, None
    <2>2. CheckoutOf(r) \in Checkout /\ Fingerprint(r) \in Basket
      BY <1>4, <2>1 DEF StoreCheckout, Pending, CheckoutOf, Checkout, Fingerprint, Basket
    <2> QED
      BY <1>3, <1>4, <2>2 DEF StoreCheckout
  <1>5. ASSUME NEW r \in Request, Progress(r) \/ FailRequest(r) PROVE IInv'
    BY <1>1, <1>4, <1>5, CacheHitStep, CacheMissStep, CreateStep DEF Progress
  <1>6. ASSUME NEW c \in Checkout, CheckoutGoesOn(c) PROVE IInv'
    BY <1>3, <1>6 DEF CheckoutGoesOn
  <1>7. ASSUME NEW p \in Person, NEW k \in Key, NEW b \in Body, Want(p, k, b) PROVE IInv'
    BY <1>1, <1>7, WantStep
  <1>8. ASSUME NEW p \in Person, NEW r \in Request, Send(p, r) PROVE IInv'
    BY <1>1, <1>8, SendStep
  <1>9. CASE \/ \E w \in writes : CacheResponse(w)
             \/ \E c \in Checkout : ResponseExpires(c)
             \/ \E u \in Email : WindowEnds(u)
    BY <1>1, <1>9, RedisStep
  <1>10. CASE UNCHANGED vars
    <2>1. AccountsInv' /\ Registered
      BY <1>10, AccountsStep DEF IInv, vars
    <2>2. CheckoutsTypeOK' /\ Settled
      BY <1>10 DEF vars, checkouts, IInv, CheckoutsTypeOK, Settled
    <2> QED
      BY <1>10, <2>1, <2>2, IntakeStays DEF IInv, vars
  <1> QED
    BY <1>2, <1>5, <1>6, <1>7, <1>8, <1>9, <1>10 DEF Next

(* The inductive invariant: the accounts' part and the intake's part, each *)
(* with what requests, forms and cache writes under way rely on.           *)
THEOREM Invariant == Spec => []IInv
  BY InitHolds, StepPreserves, PTL DEF Spec

(* A token opens the account it names: of two registrations of one address *)
(* at most one succeeds (AuthService.register).                            *)
THEOREM TokensAreGood == Spec => []TokensOpenTheirAccount
  <1>1. IInv => TokensOpenTheirAccount
    BY DEF IInv, AccountsInv
  <1> QED
    BY <1>1, Invariant, PTL

(* A cached response, or one on its way to the cache, is the durable       *)
(* answer to the order it names (idempotencyMiddleware).                   *)
THEOREM CacheIsTruthful == Spec => []CacheAgreesWithOrder
  <1>1. IInv => CacheAgreesWithOrder
    BY DEF IInv, IntakeInv
  <1> QED
    BY <1>1, Invariant, PTL

(* What a person is told about an order is true of their own account and   *)
(* stays true, over all retries, sessions and sources of the answer.       *)
THEOREM AnswersAreFinal == Spec => []AnswersStayTrue
  <1>1. IInv => AnswersStayTrue
    BY DEF IInv, IntakeInv
  <1> QED
    BY <1>1, Invariant, PTL

-----------------------------------------------------------------------------
(* What each entry of a body adds to product p.                            *)
Adds(body, p) ==
    [i \in DOMAIN body |-> IF body[i].product = p THEN body[i].quantity ELSE 0]

(* Normal adds these up: an order asks for a natural number of each        *)
(* product (normalizeItems).                                               *)
LEMMA NormalIsSum ==
    ASSUME NEW body \in Body, NEW p \in Product
    PROVE  Normal(body)[p] = Sum(Adds(body, p), DOMAIN body) /\ Normal(body)[p] \in Nat
  <1> DEFINE D == DOMAIN body
             f == Adds(body, p)
             first(s) == CHOOSE x \in s : TRUE
             entry(i, s) ==
               IF s = {} THEN 0
               ELSE IF body[first(s)].product = p
                    THEN i[s \ {first(s)}] + body[first(s)].quantity
                    ELSE i[s \ {first(s)}]
             g == CHOOSE i : i = [s \in SUBSET D |-> entry(i, s)]
  <1>1. Normal(body)[p] = g[D]
    BY DEF Normal, FoldFunction, FoldFunctionOnSet, MapThenFoldSet
  <1>2. IsFiniteSet(D) /\ f \in [D -> Nat]
    <2> DEFINE Entry == [product : Product, quantity : 1 .. MaxQuantity]
    <2>1. body \in Seq(Entry)
      BY StorefrontAssumption
    <2> HIDE DEF Entry
    <2>2. Len(body) \in Nat /\ DOMAIN body = 1 .. Len(body)
      BY <2>1
    <2>3. \A i \in 1 .. Len(body) : body[i] \in Entry
      BY <2>1
    <2>4. \A i \in D : body[i].quantity \in Nat
      BY <2>2, <2>3 DEF Entry
    <2> QED
      BY <2>2, <2>4, FS_Interval DEF Adds
  <1>3. PICK k \in [SUBSET D -> Int] : IsTable(k, f, D)
    <2>1. \A i \in D : f[i] \in Int
      BY <1>2
    <2> QED
      BY <1>2, <2>1, TableExists
  <1>4. ASSUME NEW i, NEW s \in SUBSET D, s # {} => i[s \ {first(s)}] \in Int
        PROVE  entry(i, s) = SumFrom(f, i, s)
    <2>1. CASE s = {}
      BY <2>1 DEF SumFrom
    <2>2. CASE s # {}
      <3>1. first(s) = Picked(s) /\ first(s) \in D
        BY <1>2, <2>2, NextIsSmaller DEF Picked
      <3>2. f[first(s)] = IF body[first(s)].product = p THEN body[first(s)].quantity ELSE 0
        BY <3>1 DEF Adds
      <3>3. f[first(s)] \in Int
        BY <1>2, <3>1
      <3>4. entry(i, s) = f[first(s)] + i[s \ {first(s)}]
        BY <1>4, <2>2, <3>2, <3>3
      <3> QED
        BY <2>2, <3>1, <3>4 DEF SumFrom
    <2> QED
      BY <2>1, <2>2
  <1> HIDE DEF f, entry
  <1>5. k = [s \in SUBSET D |-> entry(k, s)]
    <2>1. ASSUME NEW s \in SUBSET D PROVE k[s] = entry(k, s)
      <3>1. s # {} => k[s \ {first(s)}] \in Int
        OBVIOUS
      <3>2. k[s] = SumFrom(f, k, s)
        BY <1>3 DEF IsTable
      <3> QED
        BY <1>4, <3>1, <3>2
    <2> QED
      BY <2>1
  <1>6. g = [s \in SUBSET D |-> entry(g, s)]
    BY <1>5
  <1> HIDE DEF g
  <1>7. \A s \in SUBSET D : g[s] \in Int
    <2> DEFINE Bad == {n \in Nat : \E s \in SUBSET D : Cardinality(s) = n /\ g[s] \notin Int}
    <2>1. ASSUME Bad # {} PROVE FALSE
      <3>1. PICK m \in Bad : \A i \in Bad : m <= i
        <4>1. Bad \subseteq Nat
          OBVIOUS
        <4> HIDE DEF Bad
        <4> QED
          BY <2>1, <4>1, Smallest
      <3>2. PICK s \in SUBSET D : Cardinality(s) = m /\ g[s] \notin Int
        BY <3>1
      <3>3. g[s] = entry(g, s)
        BY <1>6
      <3>4. CASE s = {}
        BY <3>2, <3>3, <3>4 DEF entry
      <3>5. CASE s # {}
        <4>1. Picked(s) = first(s)
          BY DEF Picked
        <4>2. /\ first(s) \in s /\ s \ {first(s)} \in SUBSET D
              /\ Cardinality(s) \in Nat /\ Cardinality(s \ {first(s)}) \in Nat
              /\ Cardinality(s \ {first(s)}) = Cardinality(s) - 1
          BY <1>2, <3>5, <4>1, NextIsSmaller
        <4>3. g[s \ {first(s)}] \in Int
          <5>1. ~ (m <= Cardinality(s \ {first(s)}))
            BY <3>2, <4>2
          <5>2. Cardinality(s \ {first(s)}) \notin Bad
            <6> HIDE DEF Bad
            <6> QED
              BY <3>1, <5>1
          <5> QED
            BY <4>2, <5>2
        <4>4. entry(g, s) = f[first(s)] + g[s \ {first(s)}]
          BY <1>4, <3>5, <4>1, <4>3 DEF SumFrom
        <4>5. f[first(s)] \in Int
          BY <1>2, <4>2
        <4> QED
          BY <3>2, <3>3, <4>3, <4>4, <4>5
      <3> QED
        BY <3>4, <3>5
    <2>2. ASSUME NEW s \in SUBSET D PROVE Cardinality(s) \in Nat
      BY <1>2, FS_Subset, FS_CardinalityType
    <2> QED
      BY <2>1, <2>2
  <1>8. IsTable(g, f, D)
    <2>1. ASSUME NEW s \in SUBSET D PROVE g[s] = SumFrom(f, g, s)
      <3>1. s # {} => g[s \ {first(s)}] \in Int
        BY <1>7
      <3> QED
        BY <1>4, <1>6, <3>1
    <2> QED
      BY <1>6, <2>1 DEF IsTable
  <1>9. g[D] = Sum(f, D)
    <2>1. \A i \in D : f[i] \in Int
      BY <1>2
    <2> QED
      BY <1>2, <1>8, <2>1, FoldIsSum
  <1>10. Sum(f, D) \in Nat
    BY <1>2, SumNat
  <1> QED
    BY <1>1, <1>9, <1>10 DEF f

(* Hence a basket, which is also what its checkout takes.                  *)
LEMMA BasketsAreNatural == Basket \subseteq [Product -> Nat]
  <1> SUFFICES ASSUME NEW body \in Body PROVE Normal(body) \in [Product -> Nat]
    BY DEF Basket
  <1>1. \A p \in Product : Normal(body)[p] \in Nat
    BY NormalIsSum
  <1>2. Normal(body) = [p \in Product |-> Normal(body)[p]]
    BY DEF Normal
  <1> QED
    BY <1>1, <1>2

(* The shelf: what is taken and given back is the basket that was asked    *)
(* for, and there is enough of it.                                         *)
ShelfInv ==
    /\ shelf \in [Product -> Nat]
    /\ \A c \in Checkout : hold[c] # "NONE" => wants[c] \in Basket

LEMMA ShelfStep ==
    ASSUME CheckoutsTypeOK, ShelfInv, NEW c \in Checkout,
           \/ \E b \in Basket : Contract!Ask(c, b)
           \/ Contract!Take(c) \/ Contract!Confirm(c) \/ Contract!Refuse(c) \/ Contract!GiveBack(c)
           \/ UNCHANGED checkouts
    PROVE  ShelfInv'
  <1> USE DEF CheckoutsTypeOK, ShelfInv
  <1>1. ASSUME NEW b \in Basket, Contract!Ask(c, b) PROVE ShelfInv'
    BY <1>1 DEF Contract!Ask
  <1>2. CASE Contract!Take(c)
    <2>1. wants[c] \in Basket /\ Items[wants[c]] = wants[c]
      BY <1>2 DEF Contract!Take, Items
    <2>2. wants[c] \in [Product -> Nat]
      BY <2>1, BasketsAreNatural
    <2>3. \A p \in Product : shelf[p] - Items[wants[c]][p] \in Nat
      BY <1>2, <2>1, <2>2 DEF Contract!Take
    <2> QED
      BY <1>2, <2>1, <2>3 DEF Contract!Take
  <1>3. CASE Contract!GiveBack(c)
    <2>1. wants[c] \in Basket /\ Items[wants[c]] = wants[c]
      BY <1>3 DEF Contract!GiveBack, Items
    <2>2. wants[c] \in [Product -> Nat]
      BY <2>1, BasketsAreNatural
    <2> QED
      BY <1>3, <2>1, <2>2 DEF Contract!GiveBack
  <1>4. CASE Contract!Confirm(c) \/ Contract!Refuse(c) \/ UNCHANGED checkouts
    BY <1>4 DEF Contract!Confirm, Contract!Refuse, checkouts
  <1> QED
    BY <1>1, <1>2, <1>3, <1>4

(* The storefront reaches the checkouts only as the contract allows: it    *)
(* asks, for a basket the checkout knows, and the rest is the saga's.      *)
LEMMA StepFollowsContract ==
    ASSUME IInv, [Next]_vars
    PROVE  \/ UNCHANGED checkouts
           \/ \E c \in Checkout :
                \/ \E b \in Basket : Contract!Ask(c, b)
                \/ Contract!Take(c) \/ Contract!Confirm(c) \/ Contract!Refuse(c)
                \/ Contract!GiveBack(c)
  <1>1. ASSUME NEW r \in Request, StoreCheckout(r)
        PROVE  \E c \in Checkout, b \in Basket : Contract!Ask(c, b)
    <2>1. request[r] \in Pending
      BY <1>1 DEF StoreCheckout, IInv, IntakeInv, IntakeTypeOK, None
    <2>2. CheckoutOf(r) \in Checkout /\ Fingerprint(r) \in Basket
      BY <1>1, <2>1 DEF StoreCheckout, Pending, CheckoutOf, Checkout, Fingerprint, Basket
    <2> QED
      BY <1>1, <2>2 DEF StoreCheckout
  <1>2. ASSUME NEW r \in Request, Progress(r) \/ FailRequest(r), ~StoreCheckout(r)
        PROVE  UNCHANGED checkouts
    BY <1>2 DEF Progress, CacheHit, CacheMiss, RejectBody, FindConflict, AnswerDecided, FailRequest
  <1>3. ASSUME NEW c \in Checkout, CheckoutGoesOn(c)
        PROVE  \/ Contract!Take(c) \/ Contract!Confirm(c) \/ Contract!Refuse(c)
               \/ Contract!GiveBack(c)
    BY <1>3 DEF CheckoutGoesOn
  <1>4. CASE \/ AccountsNext /\ UNCHANGED <<checkouts, intake>>
             \/ \E p \in Person, k \in Key, b \in Body : Want(p, k, b)
             \/ \E p \in Person, r \in Request : Send(p, r)
             \/ \E u \in Email : WindowEnds(u)
             \/ \E w \in writes : CacheResponse(w)
             \/ \E c \in Checkout : ResponseExpires(c)
             \/ UNCHANGED vars
    BY <1>4 DEF Want, Send, WindowEnds, CacheResponse, ResponseExpires, vars
  <1> QED
    BY <1>1, <1>2, <1>3, <1>4 DEF Next

(* Every state is well typed; in particular the shelf never goes below     *)
(* zero, whatever is ordered and given back.                               *)
THEOREM StorefrontTyped == Spec => []TypeOK
  <1>1. Init => ShelfInv
    BY StorefrontAssumption DEF Init, Contract!Init, ShelfInv
  <1>2. IInv /\ ShelfInv /\ [Next]_vars => ShelfInv'
    <2> SUFFICES ASSUME IInv, ShelfInv, [Next]_vars PROVE ShelfInv'
      OBVIOUS
    <2>1. CASE UNCHANGED checkouts
      BY <2>1 DEF checkouts, ShelfInv
    <2> QED
      BY <2>1, StepFollowsContract, ShelfStep DEF IInv
  <1>3. IInv /\ ShelfInv => TypeOK
    BY DEF IInv, ShelfInv, TypeOK, AccountsInv, IntakeInv
  <1> QED
    BY <1>1, <1>2, <1>3, Invariant, PTL DEF Spec

(* Everything CheckoutSaga's contract allows to conclude about checkouts   *)
(* holds here: requests, retries, caches and accounts add no other step.   *)
THEOREM StorefrontFollowsContract == Spec => Contract!Spec
  <1>1. Init => Contract!Init
    BY DEF Init
  <1>2. IInv /\ [Next]_vars => [Contract!Next]_(Contract!contract)
    <2> SUFFICES ASSUME IInv, [Next]_vars PROVE Contract!Next \/ UNCHANGED checkouts
      BY DEF checkouts, Contract!contract
    <2> QED
      BY StepFollowsContract DEF Contract!Next
  <1> QED
    BY <1>1, <1>2, Invariant, PTL DEF Spec, Contract!Spec
=============================================================================
