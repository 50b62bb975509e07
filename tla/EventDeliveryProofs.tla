------------------------ MODULE EventDeliveryProofs ------------------------
(***************************************************************************)
(* Event delivery, for any number of events, publishers and consumers.     *)
(* The argument for the mails is an account kept per event: a mail is      *)
(* either the one the marker will show, or paid for by a lapse.            *)
(***************************************************************************)
EXTENDS EventDelivery, FiniteSums, TLAPS

Publishers ==
    \A p \in Publisher :
        /\ step[p] \in PublisherStep
        /\ step[p] # "idle" => job[p] \in Event

Entries ==
    /\ \A m \in Message : entry[m] = "none" <=> m > Len(stream)
    /\ \A c \in Consumer : \A m \in batch[c] : m <= Len(stream)

(* What a consumer's next step says of the message it works on.            *)
Claims(c) ==
    LET e == EventOf(c) IN
    /\ step[c] \in ConsumerStep
    /\ step[c] # "loop" => batch[c] # {}
    /\ step[c] = "ackDead" => e \in Malformed /\ Current(c) \in deadLetters
    /\ step[c] \in ConsumerStep \ {"loop", "ackDead"} => e \in Event
    /\ step[c] \in {"ack", "ackSent"} => e \in sent
    /\ step[c] = "marker" => mails[e] > 0

(* A lock is held by a consumer that works on the event, and still has to  *)
(* give it back.                                                           *)
Locks ==
    \A e \in Event, c \in Consumer : lock[e] = c =>
        /\ step[c] \in {"recheck", "send", "marker", "ackSent", "unlock"}
        /\ EventOf(c) = e

(* Consumers that may still mail e although its lock is no longer theirs.  *)
LostTo(c, e) == step[c] \in {"recheck", "send"} /\ EventOf(c) = e /\ lock[e] # c
Lost(e) == {c \in Consumer : LostTo(c, e)}

(* The mail of e that no lapse pays for: it has not left yet, or the       *)
(* holder of the lock is about to send it.                                 *)
HolderAt(e, l) == lock[e] \in Consumer /\ step[lock[e]] = l
Due(e) == IF (e \notin sent /\ ~HolderAt(e, "marker")) \/ HolderAt(e, "send") THEN 1 ELSE 0

Balanced(e) == mails[e] + Cardinality(Lost(e)) + Due(e) <= lapses[e] + 1

IInv ==
    /\ TypeOK /\ Publishers /\ Entries
    /\ \A c \in Consumer : Claims(c)
    /\ Locks /\ AckedIsHandled
    /\ \A e \in Event : Balanced(e)

-----------------------------------------------------------------------------
LEMMA InitHolds == Init => IInv
  <1> SUFFICES ASSUME Init PROVE IInv
    OBVIOUS
  <1> USE DeliveryAssumption DEF Init
  <1>1. TypeOK
    BY DEF TypeOK, PublisherStep, ConsumerStep, Message
  <1>2. Publishers /\ Entries
    BY DEF Publishers, Entries, PublisherStep, Message
  <1>3. \A c \in Consumer : Claims(c)
    BY DEF Claims, ConsumerStep
  <1>4. Locks /\ AckedIsHandled
    BY DEF Locks, AckedIsHandled
  <1>5. ASSUME NEW e \in Event PROVE Balanced(e)
    <2>1. Lost(e) = {}
      BY DEF Lost, LostTo
    <2>2. Cardinality(Lost(e)) = 0
      BY <2>1, FS_EmptySet
    <2>3. Due(e) = 1
      BY DEF Due, HolderAt
    <2> QED
      BY <2>2, <2>3 DEF Balanced
  <1> QED
    BY <1>1, <1>2, <1>3, <1>4, <1>5 DEF IInv

LEMMA CurrentInBatch ==
    ASSUME TypeOK, NEW c \in Consumer, batch[c] # {}
    PROVE  Current(c) \in batch[c] /\ Current(c) \in Message
  <1>1. batch[c] \subseteq Nat /\ batch[c] \subseteq Message
    BY DeliveryAssumption DEF TypeOK, Message
  <1>2. \E m \in batch[c] : \A k \in batch[c] : m <= k
    BY <1>1, Smallest
  <1>3. Current(c) \in batch[c]
    BY <1>2 DEF Current, Min
  <1> QED
    BY <1>1, <1>3

(* What never shrinks or changes, whoever acts.                            *)
Grows ==
    /\ stream' = stream \/ \E x \in Event \cup Malformed : stream' = Append(stream, x)
    /\ sent \subseteq sent' /\ deadLetters \subseteq deadLetters'
    /\ \A e \in Event : mails'[e] \in Nat /\ mails'[e] >= mails[e]

(* A consumer whose batch is not touched works on the same message.        *)
LEMMA SameMessage ==
    ASSUME TypeOK, Entries, Grows, NEW c \in Consumer, batch[c] # {}, batch'[c] = batch[c]
    PROVE  /\ Current(c)' = Current(c) /\ EventOf(c)' = EventOf(c)
           /\ EventOf(c) \in Event \cup Malformed
  <1>1. Current(c) \in batch[c] /\ Current(c) \in Message
    BY CurrentInBatch
  <1>2. Current(c)' = Current(c)
    BY DEF Current
  <1>3. Current(c) \in 1 .. Len(stream)
    BY <1>1 DEF Entries, TypeOK, Message
  <1>4. stream \in Seq(Event \cup Malformed)
    BY DEF TypeOK
  <1>5. stream'[Current(c)] = stream[Current(c)] /\ stream[Current(c)] \in Event \cup Malformed
    BY <1>3, <1>4 DEF Grows
  <1> QED
    BY <1>2, <1>5 DEF EventOf

LEMMA ClaimsKept ==
    ASSUME IInv, Grows, NEW c \in Consumer, batch'[c] = batch[c], step'[c] = step[c]
    PROVE  Claims(c)'
  <1> USE DEF IInv
  <1>1. Claims(c)
    OBVIOUS
  <1>2. CASE step[c] = "loop"
    BY <1>1, <1>2 DEF Claims
  <1>3. CASE step[c] # "loop"
    <2>1. batch[c] # {}
      BY <1>1, <1>3 DEF Claims
    <2>2. Current(c)' = Current(c) /\ EventOf(c)' = EventOf(c)
      BY <2>1, SameMessage
    <2>3. step[c] = "marker" => mails'[EventOf(c)] > 0
      <3>1. CASE step[c] = "marker"
        <4>1. EventOf(c) \in Event /\ mails[EventOf(c)] > 0
          BY <1>1, <3>1 DEF Claims, ConsumerStep
        <4>2. mails'[EventOf(c)] \in Nat /\ mails'[EventOf(c)] >= mails[EventOf(c)]
          BY <4>1 DEF Grows
        <4>3. mails[EventOf(c)] \in Nat
          BY <4>1 DEF TypeOK
        <4> QED
          BY <4>1, <4>2, <4>3
      <3> QED
        BY <3>1
    <2> QED
      BY <1>1, <2>1, <2>2, <2>3 DEF Claims, Grows
  <1> QED
    BY <1>2, <1>3

(* What is acknowledged or marked sent stays handled.                      *)
LEMMA HandledKept ==
    ASSUME IInv, Grows,
           \A e \in sent' \ sent : mails'[e] > 0,
           \A m \in Message : entry'[m] = "acked" =>
                \/ entry[m] = "acked"
                \/ /\ m <= Len(stream)
                   /\ IF stream[m] \in Malformed THEN m \in deadLetters'
                      ELSE mails'[stream[m]] > 0
    PROVE  AckedIsHandled'
  <1> USE DEF IInv
  <1>1. \A e \in Event : mails[e] \in Nat /\ (mails[e] > 0 => mails'[e] > 0)
    <2> SUFFICES ASSUME NEW e \in Event PROVE mails[e] \in Nat /\ (mails[e] > 0 => mails'[e] > 0)
      OBVIOUS
    <2>1. mails[e] \in Nat /\ mails'[e] \in Nat /\ mails'[e] >= mails[e]
      BY DEF TypeOK, Grows
    <2> QED
      BY <2>1
  <1>2. \A e \in sent' : mails'[e] > 0
    BY <1>1 DEF AckedIsHandled, TypeOK
  <1>3. ASSUME NEW m \in Message, entry'[m] = "acked"
        PROVE  IF stream'[m] \in Malformed THEN m \in deadLetters' ELSE mails'[stream'[m]] > 0
    <2>1. m <= Len(stream)
      BY <1>3, DeliveryAssumption DEF Entries, TypeOK, Message
    <2>2. m \in 1 .. Len(stream) /\ stream \in Seq(Event \cup Malformed)
      BY <2>1 DEF TypeOK, Message
    <2>3. stream'[m] = stream[m] /\ stream[m] \in Event \cup Malformed
      BY <2>2 DEF Grows
    <2>4. CASE entry[m] = "acked"
      BY <1>1, <2>3, <2>4 DEF AckedIsHandled, Grows
    <2>5. CASE entry[m] # "acked"
      BY <1>3, <2>3, <2>5
    <2> QED
      BY <2>4, <2>5
  <1> QED
    BY <1>2, <1>3 DEF AckedIsHandled

-----------------------------------------------------------------------------
(* Steps that touch no consumer, lock or mail.                             *)
LEMMA AddStep ==
    ASSUME TypeOK, Entries, NEW x \in Event \cup Malformed, Add(x)
    PROVE  /\ stream' = Append(stream, x)
           /\ stream' \in Seq(Event \cup Malformed) /\ Len(stream') = Len(stream) + 1
           /\ Len(stream') <= MaxMessages
           /\ entry' \in [Message -> {"none", "new", "pending", "acked", "trimmed"}]
           /\ \A m \in Message : /\ entry'[m] = "none" <=> m > Len(stream')
                                 /\ entry'[m] = "acked" => entry[m] = "acked"
  <1>1. stream \in Seq(Event \cup Malformed) /\ Len(stream) \in Nat /\ Message \subseteq Nat
    BY DeliveryAssumption DEF TypeOK, Message
  <1>2. /\ stream' = Append(stream, x)
        /\ stream' \in Seq(Event \cup Malformed) /\ Len(stream') = Len(stream) + 1
    BY <1>1 DEF Add
  <1>3. Len(stream') <= MaxMessages
    BY <1>1, <1>2, DeliveryAssumption DEF Add
  <1>4. PICK cut \in 0 .. Len(stream) + 1 :
            entry' = [m \in Message |->
                        IF m = Len(stream) + 1 THEN "new"
                        ELSE IF m <= cut /\ entry[m] # "acked" THEN "trimmed" ELSE entry[m]]
    BY DEF Add
  <1>5. entry' \in [Message -> {"none", "new", "pending", "acked", "trimmed"}]
    BY <1>4 DEF TypeOK
  <1>6. ASSUME NEW m \in Message
        PROVE  /\ entry'[m] = "none" <=> m > Len(stream')
               /\ entry'[m] = "acked" => entry[m] = "acked"
    BY <1>1, <1>2, <1>4 DEF Entries
  <1> QED
    BY <1>2, <1>3, <1>5, <1>6

LEMMA SideStep ==
    ASSUME IInv, TypeOK', Publishers', \A c \in Consumer : step'[c] = step[c],
           UNCHANGED <<batch, sent, deadLetters, mails, lapses>>,
           \A e \in Event : lock'[e] = lock[e] \/ {lock[e], lock'[e]} \cap Consumer = {},
           \/ UNCHANGED <<stream, entry>>
           \/ \E x \in Event \cup Malformed : Add(x)
    PROVE  IInv'
  <1> USE DEF IInv
  <1>1. /\ stream' = stream \/ \E x \in Event \cup Malformed : stream' = Append(stream, x)
        /\ Len(stream') >= Len(stream) /\ Len(stream) \in Nat /\ Len(stream') \in Nat
        /\ \A m \in Message : /\ entry'[m] = "none" <=> m > Len(stream')
                              /\ entry'[m] = "acked" => entry[m] = "acked"
    <2>1. CASE UNCHANGED <<stream, entry>>
      BY <2>1 DEF Entries, TypeOK
    <2>2. CASE \E x \in Event \cup Malformed : Add(x)
      <3>1. PICK x \in Event \cup Malformed : Add(x)
        BY <2>2
      <3>2. Len(stream) \in Nat
        BY DEF TypeOK
      <3> QED
        BY <3>1, <3>2, AddStep
    <2> QED
      BY <2>1, <2>2
  <1>2. Grows
    BY <1>1 DEF Grows, TypeOK
  <1>3. Entries'
    <2>1. \A c \in Consumer : \A m \in batch[c] : m \in Nat /\ m <= Len(stream)
      BY DeliveryAssumption DEF Entries, TypeOK, Message
    <2> QED
      BY <1>1, <2>1 DEF Entries
  <1>4. \A c \in Consumer : Claims(c)'
    BY <1>2, ClaimsKept
  <1>5. \A c \in Consumer : step[c] # "loop" => EventOf(c)' = EventOf(c)
    BY <1>2, SameMessage DEF Claims
  <1>6. Locks'
    BY <1>5 DEF Locks
  <1>7. AckedIsHandled'
    BY <1>1, <1>2, HandledKept
  <1>8. ASSUME NEW e \in Event PROVE Balanced(e)'
    <2>1. Lost(e)' = Lost(e)
      BY <1>5 DEF Lost, LostTo
    <2>2. Due(e)' = Due(e)
      BY DEF Due, HolderAt
    <2> QED
      BY <2>1, <2>2 DEF Balanced
  <1> QED
    BY <1>3, <1>4, <1>6, <1>7, <1>8

LEMMA PublisherSteps ==
    ASSUME IInv, NEW p \in Publisher,
           Publishing(p) \/ PublishFails(p) \/ UpdateFails(p) \/ PublisherCrash(p)
           \/ \E e \in Event : ClaimEvent(p, e)
    PROVE  IInv'
  <1> USE DeliveryAssumption DEF IInv, Goto
  <1>1. \A q \in Publisher : step[q] \in PublisherStep /\ (step[q] # "idle" => job[q] \in Event)
    BY DEF Publishers
  <1>2. /\ step \in [Publisher \cup Consumer -> PublisherStep \cup ConsumerStep]
        /\ p \in Publisher \cup Consumer /\ p \notin Consumer
    BY DEF TypeOK
  <1>3. CASE \E e \in Event : ClaimEvent(p, e)
    <2>1. PICK e \in Event : ClaimEvent(p, e)
      BY <1>3
    <2>2. TypeOK'
      BY <1>2, <2>1 DEF ClaimEvent, TypeOK, PublisherStep, redis, history
    <2>3. Publishers'
      BY <1>1, <1>2, <2>1 DEF ClaimEvent, Publishers, PublisherStep, TypeOK
    <2> QED
      BY <1>2, <2>1, <2>2, <2>3, SideStep DEF ClaimEvent, redis, history
  <1>4. CASE Publish(p) \/ PublishFails(p)
    <2>1. job[p] \in Event
      BY <1>1, <1>4 DEF Publish, PublishFails
    <2>2. UNCHANGED <<stream, entry>> \/ Add(job[p])
      BY <1>4 DEF Publish, PublishFails
    <2>3. /\ stream' \in Seq(Event \cup Malformed) /\ Len(stream') <= MaxMessages
          /\ entry' \in [Message -> {"none", "new", "pending", "acked", "trimmed"}]
      BY <2>1, <2>2, AddStep DEF TypeOK
    <2>4. TypeOK'
      BY <1>2, <1>4, <2>3 DEF Publish, PublishFails, TypeOK, PublisherStep, table, history
    <2>5. Publishers'
      BY <1>1, <1>2, <1>4 DEF Publish, PublishFails, Publishers, PublisherStep
    <2> QED
      BY <1>2, <1>4, <2>1, <2>2, <2>4, <2>5, SideStep DEF Publish, PublishFails, history
  <1>5. CASE MarkPublished(p) \/ RetryLater(p) \/ UpdateFails(p) \/ PublisherCrash(p)
    <2>1. /\ row' \in [Event -> {"absent", "waiting", "published"}]
          /\ lease' \in [Event -> Publisher \cup {Free, Gone}]
          /\ expired' \in SUBSET Event
      <3>1. \/ UpdateRow(p, "published") \/ UpdateRow(p, "waiting") \/ UNCHANGED table
            \/ /\ UNCHANGED <<row, expired>>
               /\ lease' = [e \in Event |-> IF lease[e] = p THEN Gone ELSE lease[e]]
        BY <1>5 DEF MarkPublished, RetryLater, UpdateFails, PublisherCrash
      <3>2. ASSUME NEW r \in {"published", "waiting"}, UpdateRow(p, r)
            PROVE  /\ row' \in [Event -> {"absent", "waiting", "published"}]
                   /\ lease' \in [Event -> Publisher \cup {Free, Gone}]
                   /\ expired' \in SUBSET Event
          <4>1. \/ UNCHANGED table
                \/ \E e \in Event \cup {Free} : /\ row' = [row EXCEPT ![e] = r]
                                              /\ lease' = [lease EXCEPT ![e] = Free]
                                              /\ expired' = expired \ {e}
            BY <3>2 DEF UpdateRow, TypeOK
          <4> QED
            BY <4>1 DEF TypeOK, table
      <3> QED
        BY <3>1, <3>2 DEF TypeOK, table
    <2>2. \/ step' = [step EXCEPT ![p] = "idle"] /\ job' = [job EXCEPT ![p] = Free]
          \/ step' = [step EXCEPT ![p] = "retry"] /\ UNCHANGED job /\ step[p] # "idle"
      BY <1>5 DEF MarkPublished, RetryLater, UpdateFails, PublisherCrash, NextCandidate
    <2>3. UNCHANGED <<redis, batch, history>>
      BY <1>5 DEF MarkPublished, RetryLater, UpdateFails, PublisherCrash, NextCandidate
    <2>4. TypeOK'
      BY <1>2, <2>1, <2>2, <2>3 DEF TypeOK, PublisherStep, redis, history
    <2>5. Publishers'
      BY <1>1, <1>2, <2>2 DEF Publishers, PublisherStep, TypeOK
    <2> QED
      BY <1>2, <2>2, <2>3, <2>4, <2>5, SideStep DEF redis, history
  <1> QED
    BY <1>3, <1>4, <1>5 DEF Publishing

LEMMA EnvironmentSteps ==
    ASSUME IInv,
           \/ \E e \in Event : OrderConfirmed(e) \/ LeaseExpires(e)
           \/ \E x \in Malformed : AddMalformed(x)
    PROVE  IInv'
  <1> USE DeliveryAssumption DEF IInv
  <1>1. CASE \E e \in Event : OrderConfirmed(e) \/ LeaseExpires(e)
    <2>1. TypeOK'
      BY <1>1 DEF OrderConfirmed, LeaseExpires, TypeOK, redis, history
    <2>2. Publishers'
      BY <1>1 DEF OrderConfirmed, LeaseExpires, Publishers
    <2> QED
      BY <1>1, <2>1, <2>2, SideStep DEF OrderConfirmed, LeaseExpires, redis, history
  <1>2. CASE \E x \in Malformed : AddMalformed(x)
    <2>1. PICK x \in Malformed : AddMalformed(x)
      BY <1>2
    <2>2. TypeOK'
      BY <2>1, AddStep DEF AddMalformed, TypeOK, table, history
    <2>3. Publishers'
      BY <2>1 DEF AddMalformed, Publishers
    <2> QED
      BY <2>1, <2>2, <2>3, SideStep DEF AddMalformed, history
  <1> QED
    BY <1>1, <1>2

-----------------------------------------------------------------------------
(* Steps of a consumer, and their effect on the account of an event.       *)
Owed(c, e) == IF LostTo(c, e) THEN 1 ELSE 0
Account(c, e) == mails[e] + Owed(c, e) + Due(e) - lapses[e]

(* What every step of consumer c leaves alone, and what it may acknowledge *)
(* or mark.                                                                *)
Moves(c) ==
    /\ Grows /\ UNCHANGED <<table, stream, job>>
    /\ \A x \in (Publisher \cup Consumer) \ {c} : step'[x] = step[x]
    /\ \A d \in Consumer \ {c} : batch'[d] = batch[d]
    /\ \A m \in batch'[c] : m <= Len(stream)
    /\ step'[c] # "loop" => batch[c] # {} /\ batch'[c] = batch[c]
    /\ \A m \in Message : entry'[m] = "none" <=> entry[m] = "none"
    /\ \A m \in Message : entry'[m] = "acked" =>
        \/ entry[m] = "acked"
        \/ /\ m <= Len(stream)
           /\ IF stream[m] \in Malformed THEN m \in deadLetters' ELSE mails'[stream[m]] > 0
    /\ \A e \in sent' \ sent : mails'[e] > 0
    /\ \A e \in Event, d \in Consumer \ {c} : lock'[e] = d <=> lock[e] = d

LEMMA LostCount ==
    ASSUME NEW c \in Consumer, NEW e \in Event,
           \A d \in Consumer \ {c} : LostTo(d, e)' <=> LostTo(d, e)
    PROVE  /\ Cardinality(Lost(e)) \in Nat /\ Cardinality(Lost(e)') \in Nat
           /\ Cardinality(Lost(e)') + Owed(c, e) = Cardinality(Lost(e)) + Owed(c, e)'
  <1> DEFINE L == Lost(e)
             M == Lost(e)'
  <1>1. IsFiniteSet(L) /\ IsFiniteSet(M)
    <2>1. L \in SUBSET Consumer /\ M \in SUBSET Consumer
      BY DEF Lost
    <2> QED
      BY <2>1, FS_Subset, DeliveryAssumption
  <1>2. Cardinality(L) \in Nat /\ Cardinality(M) \in Nat
    BY <1>1, FS_CardinalityType
  <1>3. L \ {c} = M \ {c}
    BY DEF Lost
  <1>4. (c \in L <=> LostTo(c, e)) /\ (c \in M <=> LostTo(c, e)')
    BY DEF Lost
  <1>5. /\ Cardinality(L \ {c}) = IF c \in L THEN Cardinality(L) - 1 ELSE Cardinality(L)
        /\ Cardinality(M \ {c}) = IF c \in M THEN Cardinality(M) - 1 ELSE Cardinality(M)
    <2> HIDE DEF L, M
    <2> QED
      BY <1>1, FS_RemoveElement
  <1> QED
    BY <1>2, <1>3, <1>4, <1>5 DEF Owed

(* A step that does not raise the account of an event keeps its balance.   *)
LEMMA BalanceKept ==
    ASSUME IInv, TypeOK', NEW c \in Consumer, Moves(c), NEW e \in Event,
           Account(c, e)' <= Account(c, e)
    PROVE  Balanced(e)'
  <1> USE DEF IInv
  <1>1. \A d \in Consumer \ {c} : LostTo(d, e)' <=> LostTo(d, e)
    <2> SUFFICES ASSUME NEW d \in Consumer \ {c} PROVE LostTo(d, e)' <=> LostTo(d, e)
      OBVIOUS
    <2>1. Claims(d) /\ step'[d] = step[d] /\ batch'[d] = batch[d] /\ Grows
      BY DEF Moves
    <2>2. step[d] # "loop" => EventOf(d)' = EventOf(d)
      BY <2>1, SameMessage DEF Claims
    <2>3. lock'[e] = d <=> lock[e] = d
      BY DEF Moves
    <2> QED
      BY <2>1, <2>2, <2>3 DEF LostTo
  <1>2. /\ Cardinality(Lost(e)) \in Nat /\ Cardinality(Lost(e)') \in Nat
        /\ Cardinality(Lost(e)') + Owed(c, e) = Cardinality(Lost(e)) + Owed(c, e)'
    BY <1>1, LostCount
  <1>3. /\ Owed(c, e) \in Int /\ Owed(c, e)' \in Int /\ Due(e) \in Int /\ Due(e)' \in Int
        /\ mails[e] \in Int /\ mails'[e] \in Int /\ lapses[e] \in Int /\ lapses'[e] \in Int
    BY DeliveryAssumption DEF Owed, Due, TypeOK
  <1>4. mails[e] + Cardinality(Lost(e)) + Due(e) <= lapses[e] + 1
    BY DEF Balanced
  <1>5. mails'[e] + Owed(c, e)' + Due(e)' - lapses'[e] <= mails[e] + Owed(c, e) + Due(e) - lapses[e]
    BY DEF Account
  <1>6. mails'[e] + Cardinality(Lost(e)') + Due(e)' <= lapses'[e] + 1
    BY <1>2, <1>3, <1>4, <1>5
  <1> QED
    BY <1>6 DEF Balanced

(* An event the step is not about: its account does not change.            *)
Aside(c, e) ==
    /\ lock'[e] = lock[e] /\ mails'[e] = mails[e] /\ lapses'[e] = lapses[e]
    /\ e \in sent' <=> e \in sent
    /\ step[c] \in {"recheck", "send", "marker"} => EventOf(c) # e
    /\ step'[c] \in {"recheck", "send", "marker"} => EventOf(c)' # e

LEMMA ConsumerMove ==
    ASSUME IInv, TypeOK', NEW c \in Consumer, Moves(c), Claims(c)',
           \A e \in Event : lock'[e] = c =>
                /\ step'[c] \in {"recheck", "send", "marker", "ackSent", "unlock"}
                /\ EventOf(c) = e,
           \A e \in Event : Aside(c, e) \/ Account(c, e)' <= Account(c, e)
    PROVE  IInv'
  <1> USE DEF IInv
  <1>1. Grows /\ stream' = stream
    BY DEF Moves
  <1>2. Publishers'
    BY DeliveryAssumption DEF Publishers, Moves
  <1>3. Entries'
    <2>1. \A d \in Consumer : \A m \in batch'[d] : m <= Len(stream)
      BY DEF Moves, Entries
    <2>2. \A m \in Message : entry'[m] = "none" <=> m > Len(stream)
      BY DEF Moves, Entries
    <2> QED
      BY <1>1, <2>1, <2>2 DEF Entries
  <1>4. \A d \in Consumer : Claims(d)'
    <2>1. \A d \in Consumer \ {c} : step'[d] = step[d] /\ batch'[d] = batch[d]
      BY DEF Moves
    <2> QED
      BY <1>1, <2>1, ClaimsKept
  <1>5. \A d \in Consumer : step'[d] # "loop" => EventOf(d)' = EventOf(d)
    <2>1. step'[c] # "loop" => batch[c] # {} /\ batch'[c] = batch[c]
      BY DEF Moves
    <2>2. \A d \in Consumer \ {c} : /\ step'[d] = step[d] /\ batch'[d] = batch[d]
                                    /\ step[d] # "loop" => batch[d] # {}
      BY DEF Moves, Claims
    <2> QED
      BY <1>1, <2>1, <2>2, SameMessage
  <1>6. Locks'
    <2> SUFFICES ASSUME NEW e \in Event, NEW d \in Consumer, lock'[e] = d
                 PROVE  /\ step'[d] \in {"recheck", "send", "marker", "ackSent", "unlock"}
                        /\ EventOf(d)' = e
      BY DEF Locks
    <2>1. CASE d = c
      BY <1>5, <2>1
    <2>2. CASE d # c
      <3>1. lock[e] = d /\ step'[d] = step[d]
        BY <2>2 DEF Moves
      <3> QED
        BY <1>5, <3>1 DEF Locks
    <2> QED
      BY <2>1, <2>2
  <1>7. AckedIsHandled'
    BY <1>1, HandledKept DEF Moves
  <1>8. ASSUME NEW e \in Event PROVE Balanced(e)'
    <2>1. CASE Account(c, e)' <= Account(c, e)
      BY <2>1, BalanceKept
    <2>2. CASE Aside(c, e)
      <3>1. ~LostTo(c, e) /\ ~LostTo(c, e)'
        BY <2>2 DEF LostTo, Aside
      <3>2. \A l \in {"send", "marker"} : HolderAt(e, l)' <=> HolderAt(e, l)
        <4>1. lock[e] = c => EventOf(c) = e /\ EventOf(c)' = e
          BY <1>6, <2>2 DEF Locks, Aside
        <4>2. \A d \in Consumer \ {c} : step'[d] = step[d]
          BY DEF Moves
        <4> QED
          BY <2>2, <4>1, <4>2 DEF HolderAt, Aside
      <3>3. Due(e)' = Due(e)
        BY <2>2, <3>2 DEF Due, Aside
      <3>4. Account(c, e) \in Int
        BY DeliveryAssumption DEF Account, Owed, Due, TypeOK
      <3>5. Account(c, e)' = Account(c, e)
        BY <2>2, <3>1, <3>3 DEF Account, Owed, Aside
      <3> QED
        BY <3>4, <3>5, BalanceKept
    <2> QED
      BY <2>1, <2>2
  <1> QED
    BY <1>2, <1>3, <1>4, <1>6, <1>7, <1>8

-----------------------------------------------------------------------------
(* A consumer that neither has nor takes a lock.                           *)
LEMMA WithoutLock ==
    ASSUME IInv, TypeOK', NEW c \in Consumer, Claims(c)',
           UNCHANGED <<table, stream, sent, lock, job, mails, lapses>>,
           deadLetters \subseteq deadLetters',
           \A x \in (Publisher \cup Consumer) \ {c} : step'[x] = step[x],
           \A d \in Consumer \ {c} : batch'[d] = batch[d],
           \A m \in batch'[c] : m <= Len(stream),
           {step[c], step'[c]} \subseteq {"loop", "lock", "ack", "ackDead"},
           step'[c] # "loop" => batch[c] # {} /\ batch'[c] = batch[c],
           \A m \in Message : entry'[m] = "none" <=> entry[m] = "none",
           \A m \in Message : entry'[m] = "acked" =>
                \/ entry[m] = "acked"
                \/ /\ m <= Len(stream)
                   /\ IF stream[m] \in Malformed THEN m \in deadLetters' ELSE mails[stream[m]] > 0
    PROVE  IInv'
  <1> USE DEF IInv
  <1>1. Grows
    BY DEF Grows, TypeOK
  <1>2. Moves(c)
    BY <1>1 DEF Moves
  <1>3. \A e \in Event : lock'[e] # c
    BY DEF Locks
  <1>4. \A e \in Event : Aside(c, e)
    BY DEF Aside
  <1> QED
    BY <1>2, <1>3, <1>4, ConsumerMove

LEMMA Handling ==
    ASSUME IInv, NEW c \in Consumer, batch[c] # {}
    PROVE  /\ Current(c) \in batch[c] /\ Current(c) \in Message /\ Current(c) <= Len(stream)
           /\ stream[Current(c)] = EventOf(c) /\ EventOf(c) \in Event \cup Malformed
           /\ entry[Current(c)] # "none"
  <1> USE DEF IInv
  <1>1. Current(c) \in batch[c] /\ Current(c) \in Message
    BY CurrentInBatch
  <1>2. Current(c) <= Len(stream)
    BY <1>1 DEF Entries
  <1>3. EventOf(c) \in Event \cup Malformed
    BY <1>1, <1>2 DEF EventOf, TypeOK, Message
  <1>4. entry[Current(c)] # "none"
    BY <1>1, <1>2, DeliveryAssumption DEF Entries, TypeOK, Message
  <1> QED
    BY <1>1, <1>2, <1>3, <1>4 DEF EventOf

LEMMA LoopSteps ==
    ASSUME IInv, NEW c \in Consumer,
           \/ \E S \in SUBSET Message : Reclaim(c, S)
           \/ Read(c) \/ CopyToDeadLetter(c) \/ Dedup(c)
    PROVE  IInv'
  <1> USE DEF IInv, Goto
  <1>1. /\ step \in [Publisher \cup Consumer -> PublisherStep \cup ConsumerStep]
        /\ c \in Publisher \cup Consumer /\ batch \in [Consumer -> SUBSET Message]
        /\ entry \in [Message -> {"none", "new", "pending", "acked", "trimmed"}]
        /\ stream \in Seq(Event \cup Malformed) /\ Message \subseteq Nat
    BY DeliveryAssumption DEF TypeOK, Message
  <1>2. \A m \in Message : entry[m] # "none" => m <= Len(stream)
    BY <1>1 DEF Entries
  <1>3. CASE \E S \in SUBSET Message : Reclaim(c, S)
    <2>1. PICK S \in SUBSET Message : Reclaim(c, S)
      BY <1>3
    <2>2. TypeOK'
      BY <1>1, <2>1 DEF Reclaim, TypeOK, table, redis, history
    <2>3. \A m \in batch'[c] : m <= Len(stream)
      BY <1>1, <1>2, <2>1 DEF Reclaim, Pending
    <2>4. Claims(c)'
      BY <1>1, <2>1 DEF Reclaim, Claims, ConsumerStep
    <2> QED
      BY <1>1, <2>1, <2>2, <2>3, <2>4, WithoutLock DEF Reclaim, table, redis, history
  <1>4. CASE Read(c)
    <2> DEFINE S == {m \in New : Cardinality({k \in New : k <= m}) <= BatchSize}
    <2>1. S \subseteq {m \in Message : entry[m] = "new"}
      BY DEF New
    <2>2. /\ entry' = [m \in Message |-> IF m \in S THEN "pending" ELSE entry[m]]
          /\ batch' = [batch EXCEPT ![c] = S] /\ step[c] = "loop" /\ step' = step
          /\ UNCHANGED <<table, stream, sent, lock, deadLetters, job, history>>
      BY <1>4 DEF Read
    <2> HIDE DEF S
    <2>3. TypeOK'
      BY <1>1, <2>1, <2>2 DEF TypeOK, table, history
    <2>4. \A m \in batch'[c] : m <= Len(stream)
      BY <1>1, <1>2, <2>1, <2>2
    <2>5. Claims(c)'
      BY <1>1, <2>2 DEF Claims, ConsumerStep
    <2>6. \A m \in Message : /\ entry'[m] = "none" <=> entry[m] = "none"
                             /\ entry'[m] = "acked" => entry[m] = "acked"
      BY <2>1, <2>2
    <2> QED
      BY <1>1, <2>2, <2>3, <2>4, <2>5, <2>6, WithoutLock DEF table, history
  <1>5. CASE CopyToDeadLetter(c) \/ Dedup(c)
    <2>1. /\ batch[c] # {} /\ step[c] = "loop"
          /\ UNCHANGED <<table, stream, entry, sent, lock, job, batch, history>>
      BY <1>5 DEF CopyToDeadLetter, Dedup, HasMalformed, HasEvent, redis
    <2>2. /\ Current(c) \in batch[c] /\ Current(c) \in Message
          /\ EventOf(c) \in Event \cup Malformed
      BY <2>1, Handling
    <2>3. Current(c)' = Current(c) /\ EventOf(c)' = EventOf(c)
      BY <2>1 DEF Current, EventOf
    <2>4. /\ step' = [step EXCEPT ![c] = step'[c]] /\ deadLetters \subseteq deadLetters'
          /\ deadLetters' \subseteq Message
          /\ \/ /\ step'[c] = "ackDead" /\ EventOf(c) \in Malformed /\ Current(c) \in deadLetters'
             \/ /\ EventOf(c) \in Event
                /\ step'[c] = "lock" \/ (step'[c] = "ack" /\ EventOf(c) \in sent)
      BY <1>1, <1>5, <2>2 DEF CopyToDeadLetter, Dedup, HasMalformed, HasEvent, redis, TypeOK
    <2>5. TypeOK'
      BY <1>1, <2>1, <2>4 DEF TypeOK, ConsumerStep, table, history
    <2>6. Claims(c)'
      BY <2>1, <2>3, <2>4 DEF Claims, ConsumerStep
    <2>7. \A m \in batch'[c] : m <= Len(stream)
      BY <2>1 DEF Entries
    <2> QED
      BY <1>1, <2>1, <2>4, <2>5, <2>6, <2>7, WithoutLock DEF table, history
  <1> QED
    BY <1>3, <1>4, <1>5

(* A consumer without a lock goes on to its next message or gives the      *)
(* batch up, having acknowledged or copied the current one or not.         *)
LEMMA BackToLoop ==
    ASSUME IInv, NEW c \in Consumer, batch[c] # {},
           step[c] \in {"loop", "lock", "ack", "ackDead"},
           step' = [step EXCEPT ![c] = "loop"],
           \E B \in SUBSET batch[c] : batch' = [batch EXCEPT ![c] = B],
           UNCHANGED <<table, stream, sent, lock, job, mails, lapses>>,
           deadLetters' \in {deadLetters, deadLetters \cup {Current(c)}},
           \/ UNCHANGED entry
           \/ step[c] \in {"ack", "ackDead"} /\ Acknowledge(Current(c))
    PROVE  IInv'
  <1> USE DEF IInv
  <1>1. /\ step \in [Publisher \cup Consumer -> PublisherStep \cup ConsumerStep]
        /\ c \in Publisher \cup Consumer /\ batch \in [Consumer -> SUBSET Message]
        /\ entry \in [Message -> {"none", "new", "pending", "acked", "trimmed"}]
    BY DEF TypeOK
  <1>2. /\ Current(c) \in batch[c] /\ Current(c) \in Message /\ Current(c) <= Len(stream)
        /\ stream[Current(c)] = EventOf(c) /\ EventOf(c) \in Event \cup Malformed
        /\ entry[Current(c)] # "none"
    BY Handling
  <1>3. /\ entry' \in [Message -> {"none", "new", "pending", "acked", "trimmed"}]
        /\ \A m \in Message : /\ entry'[m] = "none" <=> entry[m] = "none"
                              /\ entry'[m] = "acked" => entry[m] = "acked" \/ m = Current(c)
        /\ entry'[Current(c)] = "acked" =>
            entry[Current(c)] = "acked" \/ step[c] \in {"ack", "ackDead"}
    BY <1>1, <1>2 DEF Acknowledge
  <1>4. TypeOK'
    BY <1>1, <1>2, <1>3 DEF TypeOK, ConsumerStep, table
  <1>5. Claims(c)'
    BY <1>1 DEF Claims, ConsumerStep
  <1>6. \A m \in batch'[c] : m <= Len(stream)
    BY <1>1 DEF Entries
  <1>7. /\ step[c] = "ack" => EventOf(c) \in Event /\ mails[EventOf(c)] > 0
        /\ step[c] = "ackDead" => EventOf(c) \in Malformed /\ Current(c) \in deadLetters'
    BY DEF Claims, ConsumerStep, AckedIsHandled
  <1>8. \A m \in Message : entry'[m] = "acked" =>
            \/ entry[m] = "acked"
            \/ /\ m <= Len(stream)
               /\ IF stream[m] \in Malformed THEN m \in deadLetters' ELSE mails[stream[m]] > 0
    BY <1>2, <1>3, <1>7, DeliveryAssumption
  <1> QED
    BY <1>1, <1>3, <1>4, <1>5, <1>6, <1>8, WithoutLock DEF table

(* A consumer on its way through one event, from taking the lock to giving *)
(* it back.                                                                *)
Works(c, e) ==
    /\ step[c] \in {"lock", "recheck", "send", "marker", "ackSent", "unlock"}
    /\ step'[c] \in {"loop", "recheck", "send", "marker", "ackSent", "unlock"}
    /\ step' = [step EXCEPT ![c] = step'[c]]
    /\ step'[c] # "loop" => UNCHANGED batch
    /\ batch'[c] \subseteq batch[c] /\ batch' = [batch EXCEPT ![c] = batch'[c]]
    /\ UNCHANGED <<table, stream, deadLetters, job>>
    /\ UNCHANGED entry \/ (e \in sent /\ Acknowledge(Current(c)))
    /\ sent' = sent \/ (step[c] = "marker" /\ sent' = sent \cup {e})
    /\ step'[c] = "ackSent" => e \in sent'
    /\ step'[c] = "marker" => mails'[e] > 0
    /\ UNCHANGED mails \/ Mail(e)
    /\ lapses' = [lapses EXCEPT ![e] = lapses'[e]] /\ lapses'[e] \in 0 .. MaxLapses
    /\ lock' = [lock EXCEPT ![e] = lock'[e]] /\ lock'[e] \in {lock[e], c, Free, Gone}
    /\ lock'[e] # lock[e] => lock[e] \in {Free, c}
    /\ step'[c] = "loop" => lock'[e] # c
    /\ Account(c, e)' <= Account(c, e)

LEMMA WithLock ==
    ASSUME IInv, NEW c \in Consumer, NEW e \in Event, EventOf(c) = e, batch[c] # {}, Works(c, e)
    PROVE  IInv'
  <1> USE DeliveryAssumption DEF IInv
  <1>1. /\ step \in [Publisher \cup Consumer -> PublisherStep \cup ConsumerStep]
        /\ c \in Publisher \cup Consumer /\ batch \in [Consumer -> SUBSET Message]
        /\ entry \in [Message -> {"none", "new", "pending", "acked", "trimmed"}]
        /\ lock \in [Event -> Consumer \cup {Free, Gone}]
        /\ mails \in [Event -> Nat] /\ lapses \in [Event -> 0 .. MaxLapses]
        /\ sent \subseteq Event
    BY DEF TypeOK
  <1>2. /\ Current(c) \in batch[c] /\ Current(c) \in Message /\ Current(c) <= Len(stream)
        /\ stream[Current(c)] = e /\ entry[Current(c)] # "none"
    BY Handling
  <1>3. /\ entry' \in [Message -> {"none", "new", "pending", "acked", "trimmed"}]
        /\ \A m \in Message : /\ entry'[m] = "none" <=> entry[m] = "none"
                              /\ entry'[m] = "acked" => entry[m] = "acked" \/ m = Current(c)
        /\ entry'[Current(c)] = "acked" => entry[Current(c)] = "acked" \/ e \in sent
    BY <1>1, <1>2 DEF Acknowledge, Works
  <1>4. /\ mails' \in [Event -> Nat]
        /\ \A f \in Event : mails'[f] >= mails[f] /\ (f # e => mails'[f] = mails[f])
    BY <1>1 DEF Mail, Works
  <1>5. /\ lapses' \in [Event -> 0 .. MaxLapses]
        /\ \A f \in Event \ {e} : lapses'[f] = lapses[f]
    BY <1>1 DEF Works
  <1>6. /\ lock' \in [Event -> Consumer \cup {Free, Gone}]
        /\ \A f \in Event \ {e} : lock'[f] = lock[f]
    BY <1>1 DEF Works
  <1>7. batch' \in [Consumer -> SUBSET Message] /\ batch'[c] \subseteq batch[c]
        /\ \A d \in Consumer \ {c} : batch'[d] = batch[d]
    BY <1>1 DEF Works
  <1>8. /\ sent \subseteq sent' /\ (\A f \in sent' \ sent : f = e)
        /\ sent' \subseteq Event
        /\ e \in sent => mails[e] > 0
        /\ step[c] = "marker" => mails[e] > 0
        /\ sent' # sent => step[c] = "marker"
    BY <1>1 DEF AckedIsHandled, Claims, Works
  <1>9. TypeOK'
    <2>1. step' \in [Publisher \cup Consumer -> PublisherStep \cup ConsumerStep]
      BY <1>1 DEF Works, ConsumerStep
    <2> QED
      BY <1>3, <1>4, <1>5, <1>6, <1>7, <1>8, <2>1 DEF TypeOK, table, Works
  <1>10. mails[e] > 0 => mails'[e] > 0
    BY <1>1, <1>4
  <1>11. Grows
    BY <1>4, <1>8 DEF Grows, Works
  <1>12. \A m \in Message : entry'[m] = "acked" =>
            \/ entry[m] = "acked"
            \/ /\ m <= Len(stream)
               /\ IF stream[m] \in Malformed THEN m \in deadLetters' ELSE mails'[stream[m]] > 0
    BY <1>2, <1>3, <1>8, <1>10
  <1>13. Moves(c)
    <2>1. \A x \in (Publisher \cup Consumer) \ {c} : step'[x] = step[x]
      BY <1>1 DEF Works
    <2>2. \A m \in batch'[c] : m <= Len(stream)
      BY <1>7 DEF Entries
    <2>3. step'[c] # "loop" => batch'[c] = batch[c]
      BY <1>1 DEF Works
    <2>4. \A f \in sent' \ sent : mails'[f] > 0
      BY <1>8, <1>10
    <2>5. \A f \in Event, d \in Consumer \ {c} : lock'[f] = d <=> lock[f] = d
      BY <1>6 DEF Works
    <2> QED
      BY <1>3, <1>7, <1>11, <1>12, <2>1, <2>2, <2>3, <2>4, <2>5 DEF Moves, Works
  <1>14. step'[c] # "loop" => Current(c)' = Current(c) /\ EventOf(c)' = e
    BY DEF Current, EventOf, Works
  <1>15. Claims(c)'
    BY <1>1, <1>14 DEF Claims, ConsumerStep, Works
  <1>16. \A f \in Event : lock'[f] = c =>
            /\ step'[c] \in {"recheck", "send", "marker", "ackSent", "unlock"}
            /\ EventOf(c) = f
    BY <1>1, <1>6 DEF Locks, Works
  <1>17. ASSUME NEW f \in Event, f # e PROVE Aside(c, f)
    BY <1>1, <1>4, <1>5, <1>6, <1>8, <1>14, <1>17 DEF Aside, Works
  <1> QED
    BY <1>9, <1>13, <1>15, <1>16, <1>17, ConsumerMove DEF Works

-----------------------------------------------------------------------------
LEMMA WorkSteps ==
    ASSUME IInv, NEW c \in Consumer,
           TakeLock(c) \/ Recheck(c) \/ SendMail(c) \/ SendFails(c) \/ SetMarker(c)
           \/ AckSent(c) \/ Unlock(c)
    PROVE  IInv'
  <1> USE DeliveryAssumption DEF IInv, Goto
  <1>1. /\ step \in [Publisher \cup Consumer -> PublisherStep \cup ConsumerStep]
        /\ c \in Publisher \cup Consumer /\ Consumer \subseteq Publisher \cup Consumer
        /\ lock \in [Event -> Consumer \cup {Free, Gone}]
        /\ mails \in [Event -> Nat] /\ lapses \in [Event -> 0 .. MaxLapses]
        /\ sent \subseteq Event /\ batch \in [Consumer -> SUBSET Message]
    BY DEF TypeOK
  <1>2. step[c] \in {"lock", "recheck", "send", "marker", "ackSent", "unlock"}
    BY DEF TakeLock, Recheck, SendMail, SendFails, SetMarker, AckSent, Unlock
  <1>e. PICK e \in Event : EventOf(c) = e
    BY <1>2 DEF Claims, ConsumerStep
  <1>3. e \in Event /\ batch[c] # {}
    BY <1>2 DEF Claims, ConsumerStep
  <1>4. EventOf(c) = e /\ (UNCHANGED <<batch, stream>> => EventOf(c)' = e)
    BY <1>e DEF EventOf, Current
  <1>5. lapses[e] \in 0 .. MaxLapses /\ lapses = [lapses EXCEPT ![e] = lapses[e]]
        /\ lock = [lock EXCEPT ![e] = lock[e]] /\ batch = [batch EXCEPT ![c] = batch[c]]
    BY <1>1, <1>3
  <1>6. CASE TakeLock(c)
    <2>1. CASE lock[e] = Free
      <3>1. /\ step[c] = "lock" /\ step' = [step EXCEPT ![c] = "recheck"]
            /\ lock' = [lock EXCEPT ![e] = c]
            /\ UNCHANGED <<table, stream, entry, sent, deadLetters, job, batch, mails, lapses>>
        BY <1>4, <1>6, <2>1 DEF TakeLock, history
      <3>2. Account(c, e)' <= Account(c, e)
        BY <1>1, <1>3, <1>4, <2>1, <3>1 DEF Account, Owed, LostTo, Due, HolderAt
      <3> QED
        BY <1>1, <1>2, <1>3, <1>4, <1>5, <2>1, <3>1, <3>2, WithLock DEF Works
    <2>2. CASE lock[e] # Free
      <3>1. /\ step[c] = "lock" /\ step' = [step EXCEPT ![c] = "loop"]
            /\ batch' = [batch EXCEPT ![c] = batch[c] \ {Current(c)}]
            /\ UNCHANGED <<table, stream, entry, sent, lock, deadLetters, job, mails, lapses>>
        BY <1>4, <1>6, <2>2 DEF TakeLock, NextMessage, history
      <3> QED
        BY <1>3, <3>1, BackToLoop
    <2> QED
      BY <2>1, <2>2
  <1>7. CASE Recheck(c)
    <2>1. /\ step[c] = "recheck"
          /\ step' = [step EXCEPT ![c] = IF e \in sent THEN "ackSent" ELSE "send"]
          /\ UNCHANGED <<table, stream, entry, sent, lock, deadLetters, job, batch, mails, lapses>>
      BY <1>4, <1>7 DEF Recheck, redis, history
    <2>2. Account(c, e)' <= Account(c, e)
      BY <1>1, <1>3, <1>4, <2>1 DEF Account, Owed, LostTo, Due, HolderAt
    <2> QED
      BY <1>1, <1>2, <1>3, <1>4, <1>5, <2>1, <2>2, WithLock DEF Works
  <1>8. CASE SendMail(c)
    <2>1. /\ step[c] = "send" /\ step' = [step EXCEPT ![c] = "marker"] /\ Mail(e)
          /\ UNCHANGED <<table, stream, entry, sent, lock, deadLetters, job, batch, lapses>>
      BY <1>4, <1>8 DEF SendMail, redis
    <2>2. mails'[e] = mails[e] + 1 /\ mails[e] \in Nat /\ mails'[e] > 0 /\ step'[c] = "marker"
      BY <1>1, <1>3, <2>1 DEF Mail
    <2>3. Account(c, e)' <= Account(c, e)
      BY <1>1, <1>3, <1>4, <2>1, <2>2 DEF Account, Owed, LostTo, Due, HolderAt
    <2> QED
      BY <1>1, <1>2, <1>3, <1>4, <1>5, <2>1, <2>2, <2>3, WithLock DEF Works
  <1>9. CASE SendFails(c)
    <2>1. /\ step[c] = "send" /\ step' = [step EXCEPT ![c] = "unlock"]
          /\ UNCHANGED history \/ (Mail(e) /\ Lapse(e))
          /\ UNCHANGED <<table, stream, entry, sent, lock, deadLetters, job, batch>>
      BY <1>4, <1>9 DEF SendFails, redis
    <2>2. /\ mails[e] \in Nat /\ lapses'[e] \in 0 .. MaxLapses /\ lapses'[e] >= lapses[e]
          /\ lapses' = [lapses EXCEPT ![e] = lapses'[e]]
          /\ mails'[e] - lapses'[e] = mails[e] - lapses[e] /\ mails'[e] \in Nat
          /\ UNCHANGED mails \/ Mail(e)
      BY <1>1, <1>3, <1>5, <2>1 DEF Mail, Lapse, history
    <2>3. Account(c, e)' <= Account(c, e)
      BY <1>1, <1>3, <1>4, <2>1, <2>2 DEF Account, Owed, LostTo, Due, HolderAt
    <2> QED
      BY <1>1, <1>2, <1>3, <1>4, <1>5, <2>1, <2>2, <2>3, WithLock DEF Works
  <1>10. CASE SetMarker(c)
    <2>1. /\ step[c] = "marker" /\ step' = [step EXCEPT ![c] = "ackSent"]
          /\ sent' = sent \cup {e}
          /\ UNCHANGED <<table, stream, entry, lock, deadLetters, job, batch, mails, lapses>>
      BY <1>4, <1>10 DEF SetMarker, history
    <2>2. Account(c, e)' <= Account(c, e)
      BY <1>1, <1>3, <1>4, <2>1 DEF Account, Owed, LostTo, Due, HolderAt
    <2> QED
      BY <1>1, <1>2, <1>3, <1>4, <1>5, <2>1, <2>2, WithLock DEF Works
  <1>11. CASE AckSent(c)
    <2>1. /\ step[c] = "ackSent" /\ step' = [step EXCEPT ![c] = "unlock"]
          /\ Acknowledge(Current(c))
          /\ UNCHANGED <<table, stream, sent, lock, deadLetters, job, batch, mails, lapses>>
      BY <1>11 DEF AckSent, history
    <2>2. e \in sent
      BY <1>4, <2>1 DEF Claims
    <2>3. Account(c, e)' <= Account(c, e)
      BY <1>1, <1>3, <1>4, <2>1 DEF Account, Owed, LostTo, Due, HolderAt
    <2> QED
      BY <1>1, <1>2, <1>3, <1>4, <1>5, <2>1, <2>2, <2>3, WithLock DEF Works
  <1>12. CASE Unlock(c)
    <2>1. /\ step[c] = "unlock" /\ step' = [step EXCEPT ![c] = "loop"]
          /\ batch' = [batch EXCEPT ![c] = batch[c] \ {Current(c)}]
          /\ lock' = [lock EXCEPT ![e] = IF lock[e] = c THEN Free ELSE lock[e]]
          /\ UNCHANGED <<table, stream, entry, sent, deadLetters, job, mails, lapses>>
      BY <1>4, <1>12 DEF Unlock, NextMessage, history
    <2>2. Account(c, e)' <= Account(c, e)
      BY <1>1, <1>3, <1>4, <2>1 DEF Account, Owed, LostTo, Due, HolderAt
    <2> QED
      BY <1>1, <1>2, <1>3, <1>4, <1>5, <2>1, <2>2, WithLock DEF Works
  <1> QED
    BY <1>6, <1>7, <1>8, <1>9, <1>10, <1>11, <1>12

LEMMA AckStep ==
    ASSUME IInv, NEW c \in Consumer, Ack(c)
    PROVE  IInv'
  <1> USE DEF IInv
  <1>1. batch[c] # {}
    BY DEF Ack, Claims
  <1> QED
    BY <1>1, BackToLoop DEF Ack, NextMessage, Goto, history

(* A Redis command that fails in any step of the consumer.                 *)
LEMMA FailingStep ==
    ASSUME IInv, NEW c \in Consumer, CommandFails(c)
    PROVE  IInv'
  <1> USE DeliveryAssumption DEF IInv, Goto
  <1>1. /\ step \in [Publisher \cup Consumer -> PublisherStep \cup ConsumerStep]
        /\ c \in Publisher \cup Consumer /\ Consumer \subseteq Publisher \cup Consumer
        /\ lock \in [Event -> Consumer \cup {Free, Gone}]
        /\ mails \in [Event -> Nat] /\ lapses \in [Event -> 0 .. MaxLapses]
        /\ sent \subseteq Event /\ batch \in [Consumer -> SUBSET Message]
    BY DEF TypeOK
  <1>2. /\ batch[c] # {} /\ UNCHANGED <<table, stream, job, mails>>
        /\ TakesEffect(c) \/ UNCHANGED <<entry, sent, deadLetters>>
    BY DEF CommandFails
  <1>3. CASE step[c] \in {"loop", "ackDead", "ack"}
    <2>1. /\ step' = [step EXCEPT ![c] = "loop"] /\ batch' = [batch EXCEPT ![c] = {}]
          /\ UNCHANGED <<lock, lapses>>
      BY <1>3 DEF CommandFails, AbandonBatch
    <2>2. /\ sent' = sent /\ deadLetters' \in {deadLetters, deadLetters \cup {Current(c)}}
          /\ UNCHANGED entry \/ (step[c] \in {"ack", "ackDead"} /\ Acknowledge(Current(c)))
      BY <1>2, <1>3 DEF TakesEffect, Acknowledge
    <2> QED
      BY <1>2, <1>3, <2>1, <2>2, BackToLoop
  <1>4. CASE step[c] \in {"lock", "recheck", "marker", "ackSent", "unlock"}
    <2>e. PICK e \in Event : EventOf(c) = e
      BY <1>4 DEF Claims, ConsumerStep
    <2>1. UNCHANGED <<batch, stream>> => EventOf(c)' = e
      BY <2>e DEF EventOf, Current
    <2>2. lapses[e] \in 0 .. MaxLapses /\ lapses = [lapses EXCEPT ![e] = lapses[e]]
          /\ lock = [lock EXCEPT ![e] = lock[e]] /\ batch = [batch EXCEPT ![c] = batch[c]]
      BY <1>1
    <2>3. UNCHANGED deadLetters
      BY <1>2, <1>4 DEF TakesEffect, HasMalformed
    <2>4. CASE step[c] = "lock"
      <3>1. /\ step' = [step EXCEPT ![c] = "loop"] /\ batch' = [batch EXCEPT ![c] = {}]
            /\ UNCHANGED <<entry, sent, lapses>>
            /\ lock' = lock \/ (lock[e] = Free /\ lock' = [lock EXCEPT ![e] = Gone])
        BY <1>2, <2>e, <2>4 DEF CommandFails, AbandonBatch, TakesEffect
      <3>2. lock[e] # c
        BY <2>4 DEF Locks
      <3>3. /\ lock' = [lock EXCEPT ![e] = lock'[e]] /\ lock'[e] \in {lock[e], Gone}
            /\ lock'[e] # lock[e] => lock[e] = Free
        BY <1>1, <3>1
      <3>4. Account(c, e)' <= Account(c, e)
        BY <1>1, <1>2, <2>e, <2>4, <3>1, <3>2, <3>3 DEF Account, Owed, LostTo, Due, HolderAt
      <3> QED
        BY <1>1, <1>2, <2>e, <2>2, <2>3, <2>4, <3>1, <3>2, <3>3, <3>4, WithLock DEF Works
    <2>5. CASE step[c] = "unlock"
      <3>1. /\ step' = [step EXCEPT ![c] = "loop"] /\ batch' = [batch EXCEPT ![c] = {}]
            /\ UNCHANGED <<entry, sent, lapses>>
            /\ lock' \in {[lock EXCEPT ![e] = IF @ = c THEN o ELSE @] : o \in {Free, Gone}}
        BY <1>2, <2>e, <2>5 DEF CommandFails, AbandonBatch, TakesEffect
      <3>2. /\ lock' = [lock EXCEPT ![e] = lock'[e]] /\ lock'[e] \in {lock[e], Free, Gone}
            /\ lock'[e] # lock[e] => lock[e] = c
            /\ lock'[e] # c
        BY <1>1, <3>1
      <3>3. Account(c, e)' <= Account(c, e)
        BY <1>1, <1>2, <2>e, <2>5, <3>1, <3>2 DEF Account, Owed, LostTo, Due, HolderAt
      <3> QED
        BY <1>1, <1>2, <2>e, <2>2, <2>3, <2>5, <3>1, <3>2, <3>3, WithLock DEF Works
    <2>6. CASE step[c] = "recheck" \/ step[c] = "ackSent"
      <3>1. /\ step' = [step EXCEPT ![c] = "unlock"] /\ UNCHANGED <<batch, sent, lock, lapses>>
        BY <1>2, <2>6 DEF CommandFails, TakesEffect
      <3>2. UNCHANGED entry \/ (e \in sent /\ Acknowledge(Current(c)))
        BY <1>2, <2>e, <2>6 DEF TakesEffect, Acknowledge, Claims
      <3>3. step[c] = "ackSent" => e \in sent
        BY <2>e DEF Claims
      <3>4. Account(c, e)' <= Account(c, e)
        BY <1>1, <1>2, <2>e, <2>1, <2>6, <3>1, <3>3 DEF Account, Owed, LostTo, Due, HolderAt
      <3> QED
        BY <1>1, <1>2, <2>e, <2>2, <2>3, <2>6, <3>1, <3>2, <3>4, WithLock DEF Works
    <2>7. CASE step[c] = "marker"
      <3>1. /\ step' = [step EXCEPT ![c] = "unlock"] /\ UNCHANGED <<batch, entry, lock>>
            /\ sent' = sent \/ sent' = sent \cup {e}
            /\ IF e \in sent' THEN UNCHANGED lapses ELSE Lapse(e)
        BY <1>2, <2>e, <2>7 DEF CommandFails, TakesEffect
      <3>2. /\ lapses' = [lapses EXCEPT ![e] = lapses'[e]] /\ lapses'[e] \in 0 .. MaxLapses
            /\ lapses'[e] = IF e \in sent' THEN lapses[e] ELSE lapses[e] + 1
        BY <1>1, <2>2, <3>1 DEF Lapse
      <3>3. Account(c, e)' <= Account(c, e)
        BY <1>1, <1>2, <2>e, <2>1, <2>7, <3>1, <3>2 DEF Account, Owed, LostTo, Due, HolderAt
      <3> QED
        BY <1>1, <1>2, <2>e, <2>2, <2>3, <2>7, <3>1, <3>2, <3>3, WithLock DEF Works
    <2> QED
      BY <1>4, <2>4, <2>5, <2>6, <2>7
  <1> QED
    BY <1>3, <1>4 DEF CommandFails

(* A consumer process that dies: its batch is given up, and its lock waits *)
(* for the TTL.                                                            *)
LEMMA CrashStep ==
    ASSUME IInv, NEW c \in Consumer, ConsumerCrash(c)
    PROVE  IInv'
  <1> USE DeliveryAssumption DEF IInv, Goto
  <1>1. /\ step \in [Publisher \cup Consumer -> PublisherStep \cup ConsumerStep]
        /\ c \in Publisher \cup Consumer /\ Consumer \subseteq Publisher \cup Consumer
        /\ lock \in [Event -> Consumer \cup {Free, Gone}]
        /\ mails \in [Event -> Nat] /\ lapses \in [Event -> 0 .. MaxLapses]
        /\ sent \subseteq Event /\ batch \in [Consumer -> SUBSET Message]
    BY DEF TypeOK
  <1>2. /\ batch[c] # {} /\ step' = [step EXCEPT ![c] = "loop"]
        /\ batch' = [batch EXCEPT ![c] = {}]
        /\ lock' = [f \in Event |-> IF lock[f] = c THEN Gone ELSE lock[f]]
        /\ UNCHANGED <<table, stream, entry, sent, deadLetters, job>>
    BY DEF ConsumerCrash, AbandonBatch
  <1>3. CASE step[c] \in {"loop", "lock", "ack", "ackDead"}
    <2>1. \A f \in Event : lock[f] # c
      BY <1>3 DEF Locks
    <2>2. lock' = lock
      BY <1>1, <1>2, <2>1
    <2>3. UNCHANGED <<mails, lapses>>
      BY <1>3 DEF ConsumerCrash, history
    <2> QED
      BY <1>2, <1>3, <2>2, <2>3, BackToLoop
  <1>4. CASE step[c] \in {"recheck", "send", "marker", "ackSent", "unlock"}
    <2>e. PICK e \in Event : EventOf(c) = e
      BY <1>4 DEF Claims, ConsumerStep
    <2>1. \A f \in Event : lock[f] = c => f = e
      BY <2>e DEF Locks
    <2>2. /\ lock' = [lock EXCEPT ![e] = lock'[e]]
          /\ lock'[e] = IF lock[e] = c THEN Gone ELSE lock[e]
      BY <1>1, <1>2, <2>1
    <2>3. /\ UNCHANGED mails \/ Mail(e)
          /\ lapses' = [lapses EXCEPT ![e] = lapses'[e]] /\ lapses'[e] \in 0 .. MaxLapses
          /\ \/ step[c] # "marker" /\ mails'[e] = mails[e] /\ lapses'[e] = lapses[e]
             \/ step[c] = "marker" /\ mails'[e] = mails[e] /\ lapses'[e] = lapses[e] + 1
             \/ step[c] = "send" /\ mails'[e] = mails[e] + 1 /\ lapses'[e] = lapses[e] + 1
      <3>1. \/ step[c] # "marker" /\ UNCHANGED history
            \/ step[c] = "marker" /\ Lapse(e) /\ UNCHANGED mails
            \/ step[c] = "send" /\ Lapse(e) /\ Mail(e)
        BY <2>e DEF ConsumerCrash
      <3> QED
        BY <1>1, <2>e, <3>1 DEF Mail, Lapse, history
    <2>4. step[c] = "ackSent" => e \in sent
      BY <2>e DEF Claims
    <2>5. Account(c, e)' <= Account(c, e)
      BY <1>1, <1>2, <1>4, <2>e, <2>2, <2>3, <2>4 DEF Account, Owed, LostTo, Due, HolderAt
    <2> QED
      BY <1>1, <1>2, <1>4, <2>e, <2>2, <2>3, <2>5, WithLock DEF Works
  <1> QED
    BY <1>1, <1>3, <1>4 DEF Claims, ConsumerStep

(* A lock that expires: a lapse, when its holder may still mail the event. *)
LEMMA ExpiryStep ==
    ASSUME IInv, NEW e \in Event, LockExpires(e)
    PROVE  IInv'
  <1> USE DeliveryAssumption DEF IInv
  <1>1. /\ step \in [Publisher \cup Consumer -> PublisherStep \cup ConsumerStep]
        /\ lock \in [Event -> Consumer \cup {Free, Gone}]
        /\ mails \in [Event -> Nat] /\ lapses \in [Event -> 0 .. MaxLapses]
    BY DEF TypeOK
  <1>2. /\ lock[e] # Free /\ lock' = [lock EXCEPT ![e] = Free]
        /\ UNCHANGED <<table, stream, entry, sent, deadLetters, step, job, batch, mails>>
        /\ IF lock[e] # Gone /\ step[lock[e]] \in {"recheck", "send", "marker"}
           THEN Lapse(e) ELSE UNCHANGED lapses
    BY DEF LockExpires
  <1>3. /\ lapses' \in [Event -> 0 .. MaxLapses]
        /\ \A f \in Event \ {e} : lapses'[f] = lapses[f]
    BY <1>1, <1>2 DEF Lapse
  <1>4. TypeOK'
    BY <1>1, <1>2, <1>3 DEF TypeOK, table
  <1>5. Publishers'
    BY <1>2 DEF Publishers
  <1>6. CASE lock[e] = Gone
    BY <1>1, <1>2, <1>4, <1>5, <1>6, SideStep
  <1>7. CASE lock[e] \in Consumer
    <2>c. PICK c \in Consumer : lock[e] = c
      BY <1>7
    <2>1. /\ step[c] \in {"recheck", "send", "marker", "ackSent", "unlock"}
          /\ EventOf(c) = e /\ Claims(c) /\ batch[c] # {}
      BY <2>c DEF Locks, Claims
    <2>2. EventOf(c)' = e
      BY <1>2, <2>1 DEF EventOf, Current
    <2>3. Grows
      BY <1>1, <1>2 DEF Grows
    <2>4. Moves(c)
      BY <1>1, <1>2, <2>c, <2>1, <2>3 DEF Moves, Entries
    <2>5. Claims(c)'
      BY <1>2, <2>3, ClaimsKept
    <2>6. \A f \in Event : lock'[f] = c =>
            /\ step'[c] \in {"recheck", "send", "marker", "ackSent", "unlock"}
            /\ EventOf(c) = f
      BY <1>1, <1>2 DEF Locks
    <2>7. \A f \in Event \ {e} : Aside(c, f)
      BY <1>1, <1>2, <1>3, <2>1, <2>2 DEF Aside
    <2>8. lapses'[e] = IF step[c] \in {"recheck", "send", "marker"} THEN lapses[e] + 1
                       ELSE lapses[e]
      BY <1>1, <1>2, <2>c DEF Lapse
    <2>9. step[c] = "ackSent" => e \in sent
      BY <2>1 DEF Claims
    <2>10. Account(c, e)' <= Account(c, e)
      BY <1>1, <1>2, <2>c, <2>1, <2>2, <2>8, <2>9 DEF Account, Owed, LostTo, Due, HolderAt
    <2> QED
      BY <1>4, <2>4, <2>5, <2>6, <2>7, <2>10, ConsumerMove
  <1> QED
    BY <1>1, <1>2, <1>6, <1>7

-----------------------------------------------------------------------------
LEMMA NextStep == IInv /\ [Next]_vars => IInv'
  <1> SUFFICES ASSUME IInv, [Next]_vars PROVE IInv'
    OBVIOUS
  <1>1. CASE UNCHANGED vars
    <2>1. TypeOK' /\ Publishers'
      BY <1>1 DEF IInv, TypeOK, Publishers, vars, table, redis, history
    <2> QED
      BY <1>1, <2>1, SideStep DEF vars, table, redis, history
  <1>2. ASSUME NEW e \in Event, OrderConfirmed(e) \/ LeaseExpires(e) PROVE IInv'
    BY <1>2, EnvironmentSteps
  <1>3. ASSUME NEW e \in Event, LockExpires(e) PROVE IInv'
    BY <1>3, ExpiryStep
  <1>4. ASSUME NEW x \in Malformed, AddMalformed(x) PROVE IInv'
    BY <1>4, EnvironmentSteps
  <1>5. ASSUME NEW p \in Publisher,
               Publishing(p) \/ PublishFails(p) \/ UpdateFails(p) \/ PublisherCrash(p)
               \/ \E e \in Event : ClaimEvent(p, e)
        PROVE  IInv'
    BY <1>5, PublisherSteps
  <1>6. ASSUME NEW c \in Consumer, \E S \in SUBSET Message : Reclaim(c, S) PROVE IInv'
    BY <1>6, LoopSteps
  <1>7. ASSUME NEW c \in Consumer, Consuming(c) \/ SendFails(c) PROVE IInv'
    BY <1>7, LoopSteps, WorkSteps, AckStep DEF Consuming
  <1>8. ASSUME NEW c \in Consumer, CommandFails(c) \/ ConsumerCrash(c) PROVE IInv'
    BY <1>8, FailingStep, CrashStep
  <1> QED
    BY <1>1, <1>2, <1>3, <1>4, <1>5, <1>6, <1>7, <1>8 DEF Next

(* The inductive invariant: who holds a lock works on its event, and the   *)
(* account of every event is balanced.                                     *)
THEOREM Invariant == Spec => []IInv
  BY InitHolds, NextStep, PTL DEF Spec

(* Rows, stream entries, locks and process states have their types.        *)
THEOREM Types == Spec => []TypeOK
  <1>1. IInv => TypeOK
    BY DEF IInv
  <1> QED
    BY <1>1, Invariant, PTL

(* The consumer mails an event once, and once more at most for every lapse *)
(* no marker or lock could have shown (processMessage).                    *)
THEOREM DuplicatesAccounted == Spec => []DuplicatesHaveReason
  <1>1. IInv => DuplicatesHaveReason
    <2> SUFFICES ASSUME IInv, NEW e \in Event PROVE mails[e] <= 1 + lapses[e]
      BY DEF DuplicatesHaveReason
    <2>1. IsFiniteSet(Lost(e))
      <3>1. Lost(e) \in SUBSET Consumer
        BY DEF Lost
      <3> QED
        BY <3>1, FS_Subset, DeliveryAssumption
    <2>2. Cardinality(Lost(e)) \in Nat
      BY <2>1, FS_CardinalityType
    <2>3. Due(e) \in {0, 1} /\ mails[e] \in Nat /\ lapses[e] \in Nat
      BY DeliveryAssumption DEF Due, IInv, TypeOK
    <2>4. mails[e] + Cardinality(Lost(e)) + Due(e) <= lapses[e] + 1
      BY DEF IInv, Balanced
    <2> QED
      BY <2>2, <2>3, <2>4
  <1> QED
    BY <1>1, Invariant, PTL

(* No message is acknowledged, and no event marked sent, before its mail   *)
(* left or its copy reached the dead-letter stream.                        *)
THEOREM AckedHandled == Spec => []AckedIsHandled
  <1>1. IInv => AckedIsHandled
    BY DEF IInv
  <1> QED
    BY <1>1, Invariant, PTL

-----------------------------------------------------------------------------
(* A row marked published and a row about to be marked have had their      *)
(* message in the stream, and what was dropped from it is old.             *)
Published ==
    /\ \A m \in Message : entry[m] = "trimmed" => m + StreamLimit <= Len(stream)
    /\ \A e \in Event : row[e] = "published" => \E m \in 1 .. Len(stream) : stream[m] = e
    /\ \A p \in Publisher :
        step[p] = "mark" => \E m \in 1 .. Len(stream) : stream[m] = job[p]

LEMMA StreamKept ==
    ASSUME IInv, [Next]_vars
    PROVE  \/ UNCHANGED stream
           \/ \E x \in Event \cup Malformed : stream' = Append(stream, x)
  <1>1. ASSUME NEW p \in Publisher, Publishing(p) \/ PublishFails(p)
        PROVE  UNCHANGED stream \/ \E x \in Event \cup Malformed : stream' = Append(stream, x)
    <2>1. step[p] = "publish" => job[p] \in Event
      BY DEF IInv, Publishers
    <2> QED
      BY <1>1, <2>1 DEF Publishing, Publish, PublishFails, MarkPublished, RetryLater,
                        NextCandidate, redis, Add
  <1>2. ASSUME NEW x \in Malformed, AddMalformed(x)
        PROVE  \E y \in Event \cup Malformed : stream' = Append(stream, y)
    BY <1>2 DEF AddMalformed, Add
  <1>3. ASSUME NEW c \in Consumer, Consuming(c) \/ SendFails(c) \/ CommandFails(c)
               \/ ConsumerCrash(c) \/ \E S \in SUBSET Message : Reclaim(c, S)
        PROVE  UNCHANGED stream
    BY <1>3 DEF Consuming, Read, CopyToDeadLetter, Dedup, Ack, TakeLock, Recheck, SendMail,
                SetMarker, AckSent, Unlock, SendFails, CommandFails, ConsumerCrash, Reclaim, redis
  <1>4. ASSUME NEW e \in Event, OrderConfirmed(e) \/ LeaseExpires(e) \/ LockExpires(e)
        PROVE  UNCHANGED stream
    BY <1>4 DEF OrderConfirmed, LeaseExpires, LockExpires, redis
  <1>5. ASSUME NEW p \in Publisher, UpdateFails(p) \/ PublisherCrash(p)
               \/ \E e \in Event : ClaimEvent(p, e)
        PROVE  UNCHANGED stream
    BY <1>5 DEF UpdateFails, PublisherCrash, ClaimEvent, NextCandidate, redis
  <1> QED
    BY <1>1, <1>2, <1>3, <1>4, <1>5 DEF Next, vars, redis

LEMMA TrimmedAreOld ==
    ASSUME IInv, [Next]_vars,
           \A m \in Message : entry[m] = "trimmed" => m + StreamLimit <= Len(stream)
    PROVE  \A m \in Message : entry'[m] = "trimmed" => m + StreamLimit <= Len(stream')
  <1> DEFINE NoneTrimmed == \A m \in Message : entry'[m] = "trimmed" => entry[m] = "trimmed"
  <1>1. stream \in Seq(Event \cup Malformed) /\ Len(stream) \in Nat
        /\ entry \in [Message -> {"none", "new", "pending", "acked", "trimmed"}]
    BY DEF IInv, TypeOK
  <1>2. ASSUME NEW x \in Event \cup Malformed, Add(x), NEW m \in Message, entry'[m] = "trimmed"
        PROVE  m + StreamLimit <= Len(stream')
    <2>1. PICK cut \in 0 .. Len(stream) + 1 :
            /\ cut > 0 => Len(stream) + 1 - cut >= StreamLimit
            /\ entry' = [k \in Message |->
                        IF k = Len(stream) + 1 THEN "new"
                        ELSE IF k <= cut /\ entry[k] # "acked" THEN "trimmed" ELSE entry[k]]
      BY <1>2 DEF Add
    <2>2. Len(stream') = Len(stream) + 1
      BY <1>1, <1>2 DEF Add
    <2>3. m <= cut \/ entry[m] = "trimmed"
      BY <1>2, <2>1
    <2> QED
      BY <1>1, <2>1, <2>2, <2>3, DeliveryAssumption DEF Message
  <1>3. ASSUME NEW m, Acknowledge(m) PROVE NoneTrimmed
    BY <1>1, <1>3 DEF Acknowledge
  <1>4. ASSUME NEW p \in Publisher,
               Publishing(p) \/ PublishFails(p) \/ UpdateFails(p) \/ PublisherCrash(p)
               \/ \E e \in Event : ClaimEvent(p, e)
        PROVE  UNCHANGED entry \/ \E x \in Event \cup Malformed : Add(x)
    <2>1. step[p] = "publish" => job[p] \in Event
      BY DEF IInv, Publishers
    <2> QED
      BY <1>4, <2>1 DEF Publishing, Publish, PublishFails, MarkPublished, RetryLater, UpdateFails,
                  PublisherCrash, ClaimEvent, NextCandidate, redis
  <1>5. ASSUME NEW c \in Consumer, Consuming(c) \/ SendFails(c) \/ CommandFails(c)
               \/ ConsumerCrash(c) \/ \E S \in SUBSET Message : Reclaim(c, S)
        PROVE  NoneTrimmed
    <2>1. CASE Read(c)
      BY <1>1, <2>1 DEF Read
    <2>2. CASE Ack(c) \/ AckSent(c)
      BY <1>3, <2>2 DEF Ack, AckSent
    <2>3. CASE CommandFails(c)
      <3>1. UNCHANGED entry \/ Acknowledge(Current(c))
        BY <2>3 DEF CommandFails, TakesEffect, Acknowledge
      <3> QED
        BY <1>3, <3>1
    <2>4. CASE ~(Read(c) \/ Ack(c) \/ AckSent(c) \/ CommandFails(c))
      <3>1. UNCHANGED entry
        BY <1>5, <2>4 DEF Consuming, CopyToDeadLetter, Dedup, TakeLock, Recheck, SendMail,
                          SetMarker, Unlock, SendFails, ConsumerCrash, Reclaim, redis
      <3> QED
        BY <3>1
    <2> QED
      BY <2>1, <2>2, <2>3, <2>4
  <1>6. ASSUME NEW e \in Event, OrderConfirmed(e) \/ LeaseExpires(e) \/ LockExpires(e)
        PROVE  UNCHANGED entry
    BY <1>6 DEF OrderConfirmed, LeaseExpires, LockExpires, redis
  <1>7. ASSUME NEW x \in Malformed, AddMalformed(x) PROVE Add(x)
    BY <1>7 DEF AddMalformed
  <1>8. NoneTrimmed \/ \E x \in Event \cup Malformed : Add(x)
    BY <1>4, <1>5, <1>6, <1>7 DEF Next, vars, redis
  <1>9. CASE NoneTrimmed
    <2>1. Len(stream') >= Len(stream) /\ Len(stream') \in Nat
      BY <1>1, StreamKept
    <2> QED
      BY <1>1, <1>9, <2>1, DeliveryAssumption DEF Message
  <1> QED
    BY <1>2, <1>8, <1>9

(* A row is marked, and a publisher comes to mark one, only after an XADD. *)
LEMMA MarkedAfterAdd ==
    ASSUME IInv, [Next]_vars
    PROVE  /\ \A e \in Event : row'[e] = "published" =>
                row[e] = "published" \/ \E p \in Publisher : step[p] = "mark" /\ job[p] = e
           /\ \A p \in Publisher : step'[p] = "mark" =>
                \/ step[p] = "mark" /\ job'[p] = job[p]
                \/ job'[p] = job[p] /\ job[p] \in Event /\ stream' = Append(stream, job[p])
  <1> USE DeliveryAssumption DEF Goto
  <1>1. /\ step \in [Publisher \cup Consumer -> PublisherStep \cup ConsumerStep]
        /\ row \in [Event -> {"absent", "waiting", "published"}]
        /\ job \in [Publisher -> Event \cup {Free}]
    BY DEF IInv, TypeOK
  <1> DEFINE Rows == \A e \in Event : row'[e] = "published" =>
                row[e] = "published" \/ \E p \in Publisher : step[p] = "mark" /\ job[p] = e
             Marks == \A p \in Publisher : step'[p] = "mark" =>
                \/ step[p] = "mark" /\ job'[p] = job[p]
                \/ job'[p] = job[p] /\ job[p] \in Event /\ stream' = Append(stream, job[p])
  <1>2. ASSUME NEW p \in Publisher, Publish(p) \/ PublishFails(p) PROVE Rows /\ Marks
    <2>1. job[p] \in Event
      BY <1>2 DEF Publish, PublishFails, IInv, Publishers
    <2> QED
      BY <1>1, <1>2, <2>1 DEF Publish, PublishFails, Add, table
  <1>3. ASSUME NEW p \in Publisher,
               MarkPublished(p) \/ RetryLater(p) \/ UpdateFails(p) \/ PublisherCrash(p)
               \/ \E e \in Event : ClaimEvent(p, e)
        PROVE  Rows /\ Marks
    <2>1. \/ UNCHANGED row
          \/ step[p] = "mark" /\ row' = [row EXCEPT ![job[p]] = "published"]
          \/ row' = [row EXCEPT ![job[p]] = "waiting"]
      BY <1>3 DEF MarkPublished, RetryLater, UpdateFails, PublisherCrash, ClaimEvent, UpdateRow,
                  table
    <2>2. Rows
      BY <1>1, <2>1
    <2>3. step'[p] # "mark" /\ (\A q \in Publisher \ {p} : step'[q] = step[q] /\ job'[q] = job[q])
      BY <1>1, <1>3 DEF MarkPublished, RetryLater, UpdateFails, PublisherCrash, ClaimEvent,
                        NextCandidate
    <2> QED
      BY <2>2, <2>3
  <1>4. ASSUME NEW c \in Consumer, Consuming(c) \/ SendFails(c) \/ CommandFails(c)
               \/ ConsumerCrash(c) \/ \E S \in SUBSET Message : Reclaim(c, S)
        PROVE  Rows /\ Marks
    <2>1. UNCHANGED <<row, job>>
      BY <1>4 DEF Consuming, Read, CopyToDeadLetter, Dedup, Ack, TakeLock, Recheck, SendMail,
                  SetMarker, AckSent, Unlock, SendFails, CommandFails, ConsumerCrash, Reclaim,
                  table
    <2>2. step' = step \/ \E l \in ConsumerStep : step' = [step EXCEPT ![c] = l]
      BY <1>4 DEF Consuming, Read, CopyToDeadLetter, Dedup, Ack, TakeLock, Recheck, SendMail,
                  SetMarker, AckSent, Unlock, SendFails, CommandFails, ConsumerCrash, Reclaim,
                  NextMessage, AbandonBatch, ConsumerStep
    <2>3. \A p \in Publisher : step'[p] = step[p]
      BY <1>1, <2>2
    <2> QED
      BY <2>1, <2>3
  <1>5. ASSUME NEW e \in Event, OrderConfirmed(e) \/ LeaseExpires(e) \/ LockExpires(e)
        PROVE  Rows /\ Marks
    BY <1>1, <1>5 DEF OrderConfirmed, LeaseExpires, LockExpires, table
  <1>6. ASSUME NEW x \in Malformed, AddMalformed(x) PROVE Rows /\ Marks
    BY <1>6 DEF AddMalformed, table
  <1>7. CASE UNCHANGED vars
    BY <1>7 DEF vars, table
  <1> QED
    BY <1>2, <1>3, <1>4, <1>5, <1>6, <1>7 DEF Next, Publishing

LEMMA PublishedStep ==
    ASSUME IInv, Published, [Next]_vars
    PROVE  Published'
  <1>1. \A m \in Message : entry'[m] = "trimmed" => m + StreamLimit <= Len(stream')
    BY TrimmedAreOld DEF Published
  <1>2. stream \in Seq(Event \cup Malformed)
    BY DEF IInv, TypeOK
  <1>3. ASSUME NEW x, \E m \in 1 .. Len(stream) : stream[m] = x
        PROVE  \E m \in 1 .. Len(stream') : stream'[m] = x
    BY <1>2, <1>3, StreamKept
  <1>4. ASSUME NEW e \in Event, row'[e] = "published"
        PROVE  \E m \in 1 .. Len(stream') : stream'[m] = e
    <2>1. row[e] = "published" \/ \E p \in Publisher : step[p] = "mark" /\ job[p] = e
      BY <1>4, MarkedAfterAdd
    <2>2. \E m \in 1 .. Len(stream) : stream[m] = e
      BY <2>1 DEF Published
    <2> QED
      BY <1>3, <2>2
  <1>5. ASSUME NEW p \in Publisher, step'[p] = "mark"
        PROVE  \E m \in 1 .. Len(stream') : stream'[m] = job'[p]
    <2>1. CASE step[p] = "mark" /\ job'[p] = job[p]
      BY <1>3, <2>1 DEF Published
    <2>2. CASE job'[p] = job[p] /\ job[p] \in Event /\ stream' = Append(stream, job[p])
      <3>1. Len(stream) + 1 \in 1 .. Len(stream') /\ stream'[Len(stream) + 1] = job[p]
        BY <1>2, <2>2
      <3> QED
        BY <2>2, <3>1
    <2> QED
      BY <1>5, <2>1, <2>2, MarkedAfterAdd
  <1> QED
    BY <1>1, <1>4, <1>5 DEF Published

(* Delivery is at least once (outbox.job.ts) but for what Redis drops: a   *)
(* published event was mailed, or its message is still to be processed, or *)
(* it was dropped behind StreamLimit newer messages.                       *)
THEOREM LossIsTrimming == Spec => []OnlyTrimmingLoses
  <1>1. Init => Published
    BY DeliveryAssumption DEF Init, Published
  <1>2. IInv /\ Published /\ [Next]_vars => Published'
    BY PublishedStep
  <1>3. IInv /\ Published => OnlyTrimmingLoses
    <2> SUFFICES ASSUME IInv, Published, NEW e \in Event, row[e] = "published"
                 PROVE  \/ mails[e] > 0
                        \/ \E m \in 1 .. Len(stream) :
                            /\ stream[m] = e
                            /\ \/ m \in New \cup Pending
                               \/ entry[m] = "trimmed" /\ m + StreamLimit <= Len(stream)
      BY DEF OnlyTrimmingLoses
    <2>1. PICK m \in 1 .. Len(stream) : stream[m] = e
      BY DEF Published
    <2>2. m \in Message /\ entry[m] \in {"new", "pending", "acked", "trimmed"}
      <3>1. Len(stream) \in Nat /\ Len(stream) <= MaxMessages
            /\ entry \in [Message -> {"none", "new", "pending", "acked", "trimmed"}]
        BY DEF IInv, TypeOK
      <3>2. m \in Message /\ ~ (m > Len(stream))
        BY <3>1, DeliveryAssumption DEF Message
      <3> QED
        BY <3>1, <3>2 DEF IInv, Entries
    <2>3. entry[m] = "acked" => mails[e] > 0
      BY <2>1, <2>2, DeliveryAssumption DEF IInv, AckedIsHandled
    <2>4. entry[m] = "trimmed" => m + StreamLimit <= Len(stream)
      BY <2>2 DEF Published
    <2> QED
      BY <2>1, <2>2, <2>3, <2>4 DEF New, Pending
  <1> QED
    BY <1>1, <1>2, <1>3, Invariant, PTL DEF Spec

(* A stream that is never trimmed loses nothing: a published event was     *)
(* mailed or its message is still to be processed.  The assumption is      *)
(* needed: the run delivery_trim loses an event without it.                *)
THEOREM PublishedKept ==
    ASSUME StreamLimit >= MaxMessages
    PROVE  Spec => []PublishedIsNotLost
  <1>1. TypeOK /\ OnlyTrimmingLoses => PublishedIsNotLost
    <2> SUFFICES ASSUME TypeOK, OnlyTrimmingLoses PROVE PublishedIsNotLost
      OBVIOUS
    <2>1. Len(stream) \in Nat /\ Len(stream) <= MaxMessages
      BY DEF TypeOK
    <2>2. \A m \in 1 .. Len(stream) : ~ (m + StreamLimit <= Len(stream))
      BY <2>1, DeliveryAssumption
    <2> QED
      BY <2>2 DEF OnlyTrimmingLoses, PublishedIsNotLost
  <1> QED
    BY <1>1, Types, LossIsTrimming, PTL

-----------------------------------------------------------------------------
(* The contract.  Only events of confirmed orders are published, so only   *)
(* they are mailed.                                                        *)
Confirmed ==
    /\ \A m \in 1 .. Len(stream) : stream[m] \in Event => row[stream[m]] # "absent"
    /\ \A p \in Publisher : step[p] # "idle" => row[job[p]] # "absent"

(* Rows stay, and a publisher works on a row that was waiting.             *)
LEMMA RowsStay ==
    ASSUME IInv, [Next]_vars
    PROVE  /\ \A e \in Event : row[e] # "absent" => row'[e] # "absent"
           /\ \A p \in Publisher : step'[p] # "idle" =>
                \/ step[p] # "idle" /\ job'[p] = job[p]
                \/ job'[p] \in Event /\ row[job'[p]] = "waiting"
           /\ \/ UNCHANGED stream
              \/ \E x \in Malformed : stream' = Append(stream, x)
              \/ \E p \in Publisher : step[p] # "idle" /\ stream' = Append(stream, job[p])
  <1> USE DeliveryAssumption DEF Goto
  <1>1. /\ step \in [Publisher \cup Consumer -> PublisherStep \cup ConsumerStep]
        /\ row \in [Event -> {"absent", "waiting", "published"}]
        /\ job \in [Publisher -> Event \cup {Free}]
    BY DEF IInv, TypeOK
  <1> DEFINE Rows == \A e \in Event : row[e] # "absent" => row'[e] # "absent"
             Jobs == \A p \in Publisher : step'[p] # "idle" =>
                \/ step[p] # "idle" /\ job'[p] = job[p]
                \/ job'[p] \in Event /\ row[job'[p]] = "waiting"
             Adds == \/ UNCHANGED stream
                     \/ \E x \in Malformed : stream' = Append(stream, x)
                     \/ \E p \in Publisher : step[p] # "idle" /\ stream' = Append(stream, job[p])
  <1>2. ASSUME NEW p \in Publisher, Publish(p) \/ PublishFails(p) PROVE Rows /\ Jobs /\ Adds
    BY <1>1, <1>2 DEF Publish, PublishFails, Add, table
  <1>3. ASSUME NEW p \in Publisher,
               MarkPublished(p) \/ RetryLater(p) \/ UpdateFails(p) \/ PublisherCrash(p)
        PROVE  Rows /\ Jobs /\ Adds
    <2>1. \/ UNCHANGED row
          \/ row' = [row EXCEPT ![job[p]] = "published"]
          \/ row' = [row EXCEPT ![job[p]] = "waiting"]
      BY <1>3 DEF MarkPublished, RetryLater, UpdateFails, PublisherCrash, UpdateRow, table
    <2>2. Rows
      BY <1>1, <2>1
    <2>3. \/ step'[p] = "idle"
          \/ step[p] # "idle" /\ job'[p] = job[p]
      BY <1>1, <1>3 DEF MarkPublished, RetryLater, UpdateFails, PublisherCrash, NextCandidate
    <2>4. /\ \A q \in Publisher \ {p} : step'[q] = step[q] /\ job'[q] = job[q]
          /\ UNCHANGED stream
      BY <1>1, <1>3 DEF MarkPublished, RetryLater, UpdateFails, PublisherCrash, NextCandidate,
                        redis
    <2> QED
      BY <2>2, <2>3, <2>4
  <1>4. ASSUME NEW p \in Publisher, NEW e \in Event, ClaimEvent(p, e) PROVE Rows /\ Jobs /\ Adds
    BY <1>1, <1>4 DEF ClaimEvent, redis
  <1>5. ASSUME NEW c \in Consumer, Consuming(c) \/ SendFails(c) \/ CommandFails(c)
               \/ ConsumerCrash(c) \/ \E S \in SUBSET Message : Reclaim(c, S)
        PROVE  Rows /\ Jobs /\ Adds
    <2>1. UNCHANGED <<row, job, stream>>
      BY <1>5 DEF Consuming, Read, CopyToDeadLetter, Dedup, Ack, TakeLock, Recheck, SendMail,
                  SetMarker, AckSent, Unlock, SendFails, CommandFails, ConsumerCrash, Reclaim,
                  table, redis
    <2>2. step' = step \/ \E l \in ConsumerStep : step' = [step EXCEPT ![c] = l]
      BY <1>5 DEF Consuming, Read, CopyToDeadLetter, Dedup, Ack, TakeLock, Recheck, SendMail,
                  SetMarker, AckSent, Unlock, SendFails, CommandFails, ConsumerCrash, Reclaim,
                  NextMessage, AbandonBatch, ConsumerStep
    <2>3. \A p \in Publisher : step'[p] = step[p]
      BY <1>1, <2>2
    <2> QED
      BY <2>1, <2>3
  <1>6. ASSUME NEW e \in Event, OrderConfirmed(e) \/ LeaseExpires(e) \/ LockExpires(e)
        PROVE  Rows /\ Jobs /\ Adds
    BY <1>1, <1>6 DEF OrderConfirmed, LeaseExpires, LockExpires, table, redis
  <1>7. ASSUME NEW x \in Malformed, AddMalformed(x) PROVE Rows /\ Jobs /\ Adds
    BY <1>7 DEF AddMalformed, Add, table
  <1>8. CASE UNCHANGED vars
    BY <1>8 DEF vars, table, redis
  <1> QED
    BY <1>2, <1>3, <1>4, <1>5, <1>6, <1>7, <1>8 DEF Next, Publishing

LEMMA ConfirmedStep ==
    ASSUME IInv, Confirmed, [Next]_vars
    PROVE  Confirmed'
  <1>1. stream \in Seq(Event \cup Malformed) /\ Malformed \cap Event = {}
    BY DeliveryAssumption DEF IInv, TypeOK
  <1>2. \A p \in Publisher : step[p] # "idle" => job[p] \in Event
    BY DEF IInv, Publishers
  <1>3. \A e \in Event : row[e] # "absent" => row'[e] # "absent"
    BY RowsStay
  <1>4. ASSUME NEW p \in Publisher, step'[p] # "idle" PROVE row'[job'[p]] # "absent"
    <2>1. CASE step[p] # "idle" /\ job'[p] = job[p]
      BY <1>2, <1>3, <2>1 DEF Confirmed
    <2>2. CASE job'[p] \in Event /\ row[job'[p]] = "waiting"
      BY <1>3, <2>2
    <2> QED
      BY <1>4, <2>1, <2>2, RowsStay
  <1>5. ASSUME NEW m \in 1 .. Len(stream'), stream'[m] \in Event
        PROVE  row'[stream'[m]] # "absent"
    <2>1. CASE m \in 1 .. Len(stream) /\ stream'[m] = stream[m]
      BY <1>3, <1>5, <2>1 DEF Confirmed
    <2>2. CASE \E p \in Publisher : step[p] # "idle" /\ stream'[m] = job[p]
      BY <1>2, <1>3, <2>2 DEF Confirmed
    <2>3. CASE UNCHANGED stream
      BY <2>1, <2>3
    <2>4. ASSUME NEW x \in Malformed, stream' = Append(stream, x)
          PROVE  m \in 1 .. Len(stream) /\ stream'[m] = stream[m]
      BY <1>1, <1>5, <2>4
    <2>5. ASSUME NEW p \in Publisher, step[p] # "idle", stream' = Append(stream, job[p])
          PROVE  \/ m \in 1 .. Len(stream) /\ stream'[m] = stream[m]
                 \/ stream'[m] = job[p]
      BY <1>1, <1>2, <2>5
    <2> QED
      BY <2>1, <2>2, <2>3, <2>4, <2>5, RowsStay
  <1> QED
    BY <1>4, <1>5 DEF Confirmed

(* Who is about to send still owes the mail: it holds the lock, or it lost *)
(* the lock by a lapse that nothing has used up.                           *)
LEMMA SenderOwes ==
    ASSUME IInv, Confirmed, NEW c \in Consumer, step[c] \in {"send", "marker"}
    PROVE  /\ EventOf(c) \in Event /\ row[EventOf(c)] # "absent"
           /\ step[c] = "send" => mails[EventOf(c)] <= lapses[EventOf(c)]
  <1> DEFINE e == EventOf(c)
  <1>1. e \in Event
    BY DEF IInv, Claims, ConsumerStep
  <1>2. row[e] # "absent"
    <2>1. Current(c) \in batch[c] /\ Current(c) \in Message
      BY CurrentInBatch DEF IInv, Claims
    <2>2. Current(c) \in 1 .. Len(stream)
      BY <2>1 DEF IInv, TypeOK, Entries, Message
    <2> QED
      BY <1>1, <2>2 DEF Confirmed, EventOf
  <1>3. ASSUME step[c] = "send" PROVE mails[e] <= lapses[e]
    <2>1. Cardinality(Lost(e)) \in Nat /\ (c \in Lost(e) => Cardinality(Lost(e)) >= 1)
      <3>1. IsFiniteSet(Lost(e))
        <4>1. Lost(e) \in SUBSET Consumer
          BY DEF Lost
        <4> QED
          BY <4>1, FS_Subset, DeliveryAssumption
      <3>2. Cardinality(Lost(e)) \in Nat
        BY <3>1, FS_CardinalityType
      <3>3. c \in Lost(e) => Lost(e) # {}
        OBVIOUS
      <3>4. Cardinality(Lost(e)) = 0 <=> Lost(e) = {}
        BY <3>1, FS_EmptySet
      <3> QED
        BY <3>2, <3>3, <3>4
    <2>2. Due(e) \in {0, 1} /\ mails[e] \in Nat /\ lapses[e] \in Nat
      BY <1>1, DeliveryAssumption DEF Due, IInv, TypeOK
    <2>3. mails[e] + Cardinality(Lost(e)) + Due(e) <= lapses[e] + 1
      BY <1>1 DEF IInv, Balanced
    <2>4. CASE lock[e] = c
      <3>1. Due(e) = 1
        BY <1>3, <2>4 DEF Due, HolderAt
      <3> QED
        BY <2>1, <2>2, <2>3, <3>1
    <2>5. CASE lock[e] # c
      <3>1. c \in Lost(e)
        BY <1>3, <2>5 DEF Lost, LostTo
      <3> QED
        BY <2>1, <2>2, <2>3, <3>1
    <2> QED
      BY <2>4, <2>5
  <1> QED
    BY <1>1, <1>2, <1>3

PromiseStep == Contract!Next \/ UNCHANGED Contract!promise

LEMMA PromiseKept ==
    ASSUME IInv, Confirmed, [Next]_vars
    PROVE  [Contract!Next]_(Contract!promise)
  <1> DEFINE seen == {e \in Event : row[e] # "absent"}
  <1>1. ASSUME UNCHANGED <<seen, mails, lapses>> PROVE PromiseStep
    BY <1>1 DEF PromiseStep, Contract!promise
  <1>2. \A e \in Event : row[e] # "absent" => row'[e] # "absent"
    BY RowsStay
  <1>3. row \in [Event -> {"absent", "waiting", "published"}]
    BY DEF IInv, TypeOK
  <1>4. ASSUME NEW e \in Event, OrderConfirmed(e) PROVE PromiseStep
    <2>1. seen' = seen \cup {e} /\ e \notin seen /\ UNCHANGED <<mails, lapses>>
      BY <1>3, <1>4 DEF OrderConfirmed, history
    <2> QED
      BY <2>1 DEF PromiseStep, Contract!Next, Contract!Confirm
  <1>5. ASSUME NEW p \in Publisher,
               Publishing(p) \/ PublishFails(p) \/ UpdateFails(p) \/ PublisherCrash(p)
               \/ \E e \in Event : ClaimEvent(p, e)
        PROVE  PromiseStep
    <2>1. UNCHANGED <<mails, lapses>>
      BY <1>5 DEF Publishing, Publish, PublishFails, MarkPublished, RetryLater, UpdateFails,
                  PublisherCrash, ClaimEvent, NextCandidate, history
    <2>2. \/ UNCHANGED row
          \/ /\ row[job[p]] = "waiting"
             /\ \/ row' = [row EXCEPT ![job[p]] = "published"]
                \/ row' = [row EXCEPT ![job[p]] = "waiting"]
      BY <1>5 DEF Publishing, Publish, PublishFails, MarkPublished, RetryLater, UpdateFails,
                  PublisherCrash, ClaimEvent, UpdateRow, table
    <2>3. seen' = seen
      BY <1>3, <2>2
    <2> QED
      BY <1>1, <2>1, <2>3
  <1>6. ASSUME NEW c \in Consumer,
               (Consuming(c) /\ ~SendMail(c)) \/ \E S \in SUBSET Message : Reclaim(c, S)
        PROVE  PromiseStep
    <2>1. UNCHANGED <<row, mails, lapses>>
      BY <1>6 DEF Consuming, Read, CopyToDeadLetter, Dedup, Ack, TakeLock, Recheck, SetMarker,
                  AckSent, Unlock, Reclaim, table, history
    <2> QED
      BY <1>1, <2>1
  <1>7. ASSUME NEW c \in Consumer, SendMail(c) PROVE PromiseStep
    <2>1. EventOf(c) \in seen /\ mails[EventOf(c)] <= lapses[EventOf(c)]
      BY <1>7, SenderOwes DEF SendMail
    <2>2. seen' = seen /\ lapses' = lapses /\ Mail(EventOf(c))
      BY <1>7 DEF SendMail, table
    <2> QED
      BY <2>1, <2>2 DEF Mail, PromiseStep, Contract!Next, Contract!Notify
  <1>8. ASSUME NEW c \in Consumer, SendFails(c) PROVE PromiseStep
    <2>1. EventOf(c) \in seen /\ mails[EventOf(c)] <= lapses[EventOf(c)]
      BY <1>8, SenderOwes DEF SendFails
    <2>2. seen' = seen
      BY <1>8 DEF SendFails, table
    <2>3. CASE UNCHANGED history
      BY <1>1, <2>2, <2>3 DEF history
    <2>4. CASE Mail(EventOf(c)) /\ Lapse(EventOf(c))
      BY <2>1, <2>2, <2>4 DEF Mail, Lapse, PromiseStep, Contract!Next, Contract!NotifyUnseen
    <2> QED
      BY <1>8, <2>3, <2>4 DEF SendFails
  <1>9. ASSUME NEW c \in Consumer, CommandFails(c) PROVE PromiseStep
    <2>1. seen' = seen /\ mails' = mails
      BY <1>9 DEF CommandFails, table
    <2>2. lapses' = lapses \/ (step[c] = "marker" /\ Lapse(EventOf(c)))
      BY <1>9 DEF CommandFails
    <2>3. CASE lapses' = lapses
      BY <1>1, <2>1, <2>3
    <2>4. CASE step[c] = "marker" /\ Lapse(EventOf(c))
      <3>1. EventOf(c) \in seen
        BY <2>4, SenderOwes
      <3> QED
        BY <2>1, <2>4, <3>1 DEF Lapse, PromiseStep, Contract!Next, Contract!Excuse
    <2> QED
      BY <2>2, <2>3, <2>4
  <1>10. ASSUME NEW c \in Consumer, ConsumerCrash(c) PROVE PromiseStep
    <2>1. seen' = seen
      BY <1>10 DEF ConsumerCrash, table
    <2>2. CASE UNCHANGED history
      BY <1>1, <2>1, <2>2 DEF history
    <2>3. CASE step[c] = "marker" /\ Lapse(EventOf(c)) /\ UNCHANGED mails
      <3>1. EventOf(c) \in seen
        BY <2>3, SenderOwes
      <3> QED
        BY <2>1, <2>3, <3>1 DEF Lapse, PromiseStep, Contract!Next, Contract!Excuse
    <2>4. CASE step[c] = "send" /\ Lapse(EventOf(c)) /\ Mail(EventOf(c))
      <3>1. EventOf(c) \in seen /\ mails[EventOf(c)] <= lapses[EventOf(c)]
        BY <2>4, SenderOwes
      <3> QED
        BY <2>1, <2>4, <3>1 DEF Mail, Lapse, PromiseStep, Contract!Next, Contract!NotifyUnseen
    <2> QED
      BY <1>10, <2>2, <2>3, <2>4 DEF ConsumerCrash
  <1>11. ASSUME NEW e \in Event, LockExpires(e) PROVE PromiseStep
    <2>1. seen' = seen /\ mails' = mails
      BY <1>11 DEF LockExpires, table
    <2>2. CASE lapses' = lapses
      BY <1>1, <2>1, <2>2
    <2>3. CASE lapses' # lapses
      <3>1. lock[e] \in Consumer /\ step[lock[e]] \in {"recheck", "send", "marker"} /\ Lapse(e)
        BY <1>11, <2>3 DEF LockExpires, IInv, TypeOK
      <3>2. EventOf(lock[e]) = e
        BY <3>1 DEF IInv, Locks
      <3>3. Current(lock[e]) \in 1 .. Len(stream)
        <4>1. batch[lock[e]] # {}
          BY <3>1 DEF IInv, Claims
        <4> QED
          BY <3>1, <4>1, CurrentInBatch DEF IInv, TypeOK, Entries, Message
      <3>4. e \in seen
        BY <3>2, <3>3 DEF Confirmed, EventOf
      <3> QED
        BY <2>1, <3>1, <3>4 DEF Lapse, PromiseStep, Contract!Next, Contract!Excuse
    <2> QED
      BY <2>2, <2>3
  <1>12. ASSUME UNCHANGED vars \/ (\E e \in Event : LeaseExpires(e))
                \/ (\E x \in Malformed : AddMalformed(x))
         PROVE  PromiseStep
    BY <1>1, <1>12 DEF LeaseExpires, AddMalformed, vars, table, history
  <1>13. PromiseStep
    BY <1>4, <1>5, <1>6, <1>7, <1>8, <1>9, <1>10, <1>11, <1>12 DEF Next
  <1> QED
    BY <1>13 DEF PromiseStep

(* Outbox, stream, locks and markers implement what the customer is        *)
(* promised: mail goes out for confirmed orders only, and a second mail    *)
(* for an event has a lapse before it.                                     *)
THEOREM DeliveryImplementsContract == Spec => ImplementsContract
  <1>1. Init => Contract!Init
    BY DEF Init, Contract!Init
  <1>2. Init => Confirmed
    BY DeliveryAssumption DEF Init, Confirmed
  <1>3. IInv /\ Confirmed /\ [Next]_vars => Confirmed'
    BY ConfirmedStep
  <1>4. IInv /\ Confirmed /\ [Next]_vars => [Contract!Next]_(Contract!promise)
    BY PromiseKept
  <1> QED
    BY <1>1, <1>2, <1>3, <1>4, Invariant, PTL DEF Spec, ImplementsContract, Contract!Spec
=============================================================================
