--------------------------- MODULE EventDelivery ---------------------------
(***************************************************************************)
(* How an ORDER_CONFIRMED event reaches the customer: order-service's      *)
(* outbox publishers copy committed outbox rows to a Redis stream, and     *)
(* notification-service's consumer group mails them.  Nothing of this is   *)
(* one transaction: each row update, stream command, SET or GET and each   *)
(* SMTP dialogue is an action of its own, and each of them can fail, or    *)
(* take effect and still be reported as failed.                            *)
(*                                                                         *)
(* A message is its position in the stream; stream[m] is the event it      *)
(* carries, or malformed.  Time is abstracted: attempts, nextAttemptAt,    *)
(* poll intervals and the 60 s idle time only delay what may happen.  The  *)
(* 30 days of the sent marker are not exceeded.                            *)
(***************************************************************************)
EXTENDS Integers, Sequences, FiniteSets, FiniteSetsExt

CONSTANTS
    Event,          \* outbox rows = event ids
    Malformed,      \* payloads no schema accepts (written by other software)
    Publisher,      \* order-service processes
    Consumer,       \* notification-service processes
    Free,           \* lease or lock value: nobody's
    Gone,           \* lease or lock value: held by a process that died
    BatchSize,      \* COUNT of XAUTOCLAIM and XREADGROUP
    StreamLimit,    \* MAXLEN of the stream
    MaxMessages,    \* bound on entries ever added to the stream
    MaxLapses       \* bound on the lapses that may duplicate a mail

ASSUME DeliveryAssumption ==
    /\ Malformed \cap Event = {}
    /\ {Free, Gone} \cap (Publisher \cup Consumer) = {} /\ Free # Gone
    /\ Publisher \cap Consumer = {} /\ IsFiniteSet(Consumer)
    /\ BatchSize \in Nat \ {0} /\ StreamLimit \in Nat \ {0}
    /\ MaxMessages \in Nat /\ MaxLapses \in Nat

VARIABLES
    \* outbox table
    row,            \* "absent", "waiting" or "published" (publishedAt set)
    lease,          \* leaseOwner, also after leaseUntil
    expired,        \* rows whose leaseUntil has passed
    \* Redis
    stream,         \* every entry added to events:orders, oldest first
    entry,          \* what the consumer group knows of it
    sent,           \* events with a sent marker
    lock,           \* lock key of each event
    deadLetters,    \* messages copied to the dead-letter stream
    \* processes
    step,           \* next step of a publisher or consumer
    job,            \* the event a publisher has claimed
    batch,          \* messages a consumer has still to process
    \* history
    mails,          \* mails sent for each event
    lapses          \* times a mail was sent with no marker, or no lock, to show

table == <<row, lease, expired>>
redis == <<stream, entry, sent, lock, deadLetters>>
history == <<mails, lapses>>
vars == <<table, redis, step, job, batch, history>>

Message == 1 .. MaxMessages
PublisherStep == {"idle", "publish", "mark", "retry"}
ConsumerStep == {"loop", "ackDead", "ack", "lock", "recheck", "send", "marker",
                 "ackSent", "unlock"}

TypeOK ==
    /\ row \in [Event -> {"absent", "waiting", "published"}]
    /\ lease \in [Event -> Publisher \cup {Free, Gone}]
    /\ expired \in SUBSET Event
    /\ stream \in Seq(Event \cup Malformed) /\ Len(stream) <= MaxMessages
    /\ entry \in [Message -> {"none", "new", "pending", "acked", "trimmed"}]
    /\ sent \subseteq Event
    /\ lock \in [Event -> Consumer \cup {Free, Gone}]
    /\ deadLetters \subseteq Message
    /\ step \in [Publisher \cup Consumer -> PublisherStep \cup ConsumerStep]
    /\ job \in [Publisher -> Event \cup {Free}]
    /\ batch \in [Consumer -> SUBSET Message]
    /\ mails \in [Event -> Nat]
    /\ lapses \in [Event -> 0 .. MaxLapses]

Init ==
    /\ row = [e \in Event |-> "absent"]
    /\ lease = [e \in Event |-> Free]
    /\ expired = {}
    /\ stream = <<>>
    /\ entry = [m \in Message |-> "none"]
    /\ sent = {}
    /\ lock = [e \in Event |-> Free]
    /\ deadLetters = {}
    /\ step = [x \in Publisher \cup Consumer |-> IF x \in Publisher THEN "idle" ELSE "loop"]
    /\ job = [p \in Publisher |-> Free]
    /\ batch = [c \in Consumer |-> {}]
    /\ mails = [e \in Event |-> 0]
    /\ lapses = [e \in Event |-> 0]

Goto(x, l) == step' = [step EXCEPT ![x] = l]

-----------------------------------------------------------------------------
(* The order's transaction commits its outbox row.                         *)
OrderConfirmed(e) ==
    /\ row[e] = "absent"
    /\ row' = [row EXCEPT ![e] = "waiting"]
    /\ UNCHANGED <<lease, expired, redis, step, job, batch, history>>

(* XADD ... MAXLEN ~ StreamLimit: the entry is appended, and Redis may     *)
(* drop entries until only the newest StreamLimit are left.                *)
Add(payload) ==
    /\ Len(stream) < MaxMessages
    /\ stream' = Append(stream, payload)
    /\ \E cut \in 0 .. Len(stream) + 1 :
        /\ cut > 0 => Len(stream) + 1 - cut >= StreamLimit
        /\ entry' = [m \in Message |->
                        IF m = Len(stream) + 1 THEN "new"
                        ELSE IF m <= cut /\ entry[m] # "acked" THEN "trimmed" ELSE entry[m]]

(* Another program writes an entry the schema rejects.                     *)
AddMalformed(x) ==
    /\ x \notin {stream[m] : m \in 1 .. Len(stream)}
    /\ Add(x)
    /\ UNCHANGED <<table, sent, lock, deadLetters, step, job, batch, history>>

-----------------------------------------------------------------------------
(* The outbox publisher                                                    *)

(* A candidate claimed by compare-and-set; the claim repeats the           *)
(* conditions of the earlier candidate query.                              *)
ClaimEvent(p, e) ==
    /\ step[p] = "idle"
    /\ row[e] = "waiting" /\ (lease[e] = Free \/ e \in expired)
    /\ lease' = [lease EXCEPT ![e] = p]
    /\ expired' = expired \ {e}
    /\ job' = [job EXCEPT ![p] = e]
    /\ Goto(p, "publish")
    /\ UNCHANGED <<row, redis, batch, history>>

Publish(p) ==
    /\ step[p] = "publish"
    /\ Add(job[p])
    /\ Goto(p, "mark")
    /\ UNCHANGED <<table, sent, lock, deadLetters, job, batch, history>>

(* XADD throws: the entry was not added, or it was and the answer is lost. *)
PublishFails(p) ==
    /\ step[p] = "publish"
    /\ \/ UNCHANGED <<stream, entry>>
       \/ Add(job[p])
    /\ Goto(p, "retry")
    /\ UNCHANGED <<table, sent, lock, deadLetters, job, batch, history>>

(* The row is updated only while leaseOwner is this publisher, be the      *)
(* lease expired or not: the lease is cleared and the row, when it was     *)
(* published, marked.                                                      *)
UpdateRow(p, r) ==
    LET e == job[p] IN
    IF lease[e] = p /\ row[e] = "waiting"
    THEN /\ row' = [row EXCEPT ![e] = r]
         /\ lease' = [lease EXCEPT ![e] = Free]
         /\ expired' = expired \ {e}
    ELSE UNCHANGED table

NextCandidate(p) ==
    /\ Goto(p, "idle")
    /\ job' = [job EXCEPT ![p] = Free]
    /\ UNCHANGED <<redis, batch, history>>

MarkPublished(p) == step[p] = "mark" /\ UpdateRow(p, "published") /\ NextCandidate(p)

(* Mutant: a failed XADD is marked like a successful one.                  *)
RetryAsPublished(p) == step[p] = "retry" /\ UpdateRow(p, "published") /\ NextCandidate(p)

(* Mutant: a row whose publication failed is given up.                     *)
RetryAsFailed(p) == step[p] = "retry" /\ UpdateRow(p, "failed") /\ NextCandidate(p)

RetryLater(p) == step[p] = "retry" /\ UpdateRow(p, "waiting") /\ NextCandidate(p)

(* Marking fails, with its effect or without, and is caught; or the update *)
(* in the handler fails too and ends the batch with the lease still held.  *)
UpdateFails(p) ==
    \/ /\ step[p] = "mark"
       /\ UpdateRow(p, "published") \/ UNCHANGED table
       /\ Goto(p, "retry")
       /\ UNCHANGED <<redis, job, batch, history>>
    \/ /\ step[p] = "retry"
       /\ NextCandidate(p)
       /\ UNCHANGED table

(* A restarted publisher has another WORKER_ID.                            *)
PublisherCrash(p) ==
    /\ step[p] # "idle"
    /\ Goto(p, "idle")
    /\ job' = [job EXCEPT ![p] = Free]
    /\ lease' = [e \in Event |-> IF lease[e] = p THEN Gone ELSE lease[e]]
    /\ UNCHANGED <<row, expired, redis, batch, history>>

(* After 30 s, whether the owner is dead or only slow.                     *)
LeaseExpires(e) ==
    /\ lease[e] # Free /\ e \notin expired
    /\ expired' = expired \cup {e}
    /\ UNCHANGED <<row, lease, redis, step, job, batch, history>>

-----------------------------------------------------------------------------
(* The consumer loop                                                       *)
Pending == {m \in Message : entry[m] = "pending"}
New == {m \in Message : entry[m] = "new"}

(* XAUTOCLAIM: messages somebody was given and nobody acknowledged for     *)
(* 60 s, also when their consumer still works on them.                     *)
Reclaim(c, S) ==
    /\ step[c] = "loop" /\ batch[c] = {}
    /\ S # {} /\ S \subseteq Pending /\ Cardinality(S) <= BatchSize
    /\ batch' = [batch EXCEPT ![c] = S]
    /\ UNCHANGED <<table, redis, step, job, history>>

(* XREADGROUP: the oldest messages the group was never given.              *)
Read(c) ==
    LET S == {m \in New : Cardinality({k \in New : k <= m}) <= BatchSize} IN
    /\ step[c] = "loop" /\ batch[c] = {}
    /\ S # {}
    /\ entry' = [m \in Message |-> IF m \in S THEN "pending" ELSE entry[m]]
    /\ batch' = [batch EXCEPT ![c] = S]
    /\ UNCHANGED <<table, stream, sent, lock, deadLetters, step, job, history>>

(* A batch is worked through in the order of the stream.                   *)
Current(c) == Min(batch[c])
EventOf(c) == stream[Current(c)]

(* The next message of the batch, or none.                                 *)
HasMalformed(c) == step[c] = "loop" /\ batch[c] # {} /\ EventOf(c) \in Malformed
HasEvent(c) == step[c] = "loop" /\ batch[c] # {} /\ EventOf(c) \notin Malformed

NextMessage(c) ==
    /\ Goto(c, "loop")
    /\ batch' = [batch EXCEPT ![c] = @ \ {Current(c)}]

(* A command outside processMessage's try fails: the loop drops the rest   *)
(* of its batch, which stays pending.                                      *)
AbandonBatch(c) ==
    /\ Goto(c, "loop")
    /\ batch' = [batch EXCEPT ![c] = {}]

(* XACK: acknowledging twice, or what was trimmed, changes nothing.        *)
Acknowledge(m) == entry' = [entry EXCEPT ![m] = IF @ = "pending" THEN "acked" ELSE @]

(* Mutant: a rejected message is acknowledged before it is copied.         *)
AckBeforeCopy(c) ==
    /\ HasMalformed(c)
    /\ Acknowledge(Current(c))
    /\ Goto(c, "ackDead")
    /\ UNCHANGED <<table, stream, sent, lock, deadLetters, job, batch, history>>

(* deadLetter: XADD first, XACK (in Ack) after it.                         *)
CopyToDeadLetter(c) ==
    /\ HasMalformed(c)
    /\ deadLetters' = deadLetters \cup {Current(c)}
    /\ Goto(c, "ackDead")
    /\ UNCHANGED <<table, stream, entry, sent, lock, job, batch, history>>

Dedup(c) ==
    /\ HasEvent(c)
    /\ Goto(c, IF EventOf(c) \in sent THEN "ack" ELSE "lock")
    /\ UNCHANGED <<table, redis, job, batch, history>>

Ack(c) ==
    /\ step[c] \in {"ack", "ackDead"}
    /\ Acknowledge(Current(c))
    /\ NextMessage(c)
    /\ UNCHANGED <<table, stream, sent, lock, deadLetters, job, history>>

(* Mutant: the lock is set without NX.                                     *)
TakeLockAnyway(c) ==
    /\ step[c] = "lock"
    /\ lock' = [lock EXCEPT ![EventOf(c)] = c]
    /\ Goto(c, "recheck")
    /\ UNCHANGED <<table, stream, entry, sent, deadLetters, job, batch, history>>

(* SET NX PX: when somebody holds the lock the message stays pending.      *)
TakeLock(c) ==
    LET e == EventOf(c) IN
    /\ step[c] = "lock"
    /\ IF lock[e] = Free
       THEN lock' = [lock EXCEPT ![e] = c] /\ Goto(c, "recheck") /\ UNCHANGED batch
       ELSE NextMessage(c) /\ UNCHANGED lock
    /\ UNCHANGED <<table, stream, entry, sent, deadLetters, job, history>>

(* Mutant: the marker is not looked at again under the lock.               *)
RecheckSkipped(c) ==
    /\ step[c] = "recheck"
    /\ Goto(c, "send")
    /\ UNCHANGED <<table, redis, job, batch, history>>

Recheck(c) ==
    /\ step[c] = "recheck"
    /\ Goto(c, IF EventOf(c) \in sent THEN "ackSent" ELSE "send")
    /\ UNCHANGED <<table, redis, job, batch, history>>

Mail(e) == mails' = [mails EXCEPT ![e] = @ + 1]

Lapse(e) ==
    /\ lapses[e] < MaxLapses
    /\ lapses' = [lapses EXCEPT ![e] = @ + 1]

SendMail(c) ==
    /\ step[c] = "send"
    /\ Mail(EventOf(c))
    /\ Goto(c, "marker")
    /\ UNCHANGED <<table, redis, job, batch, lapses>>

(* sendMail throws: the mail did not leave, or it did and the SMTP answer  *)
(* was lost.                                                               *)
SendFails(c) ==
    /\ step[c] = "send"
    /\ \/ UNCHANGED history
       \/ Mail(EventOf(c)) /\ Lapse(EventOf(c))
    /\ Goto(c, "unlock")
    /\ UNCHANGED <<table, redis, job, batch>>

SetMarker(c) ==
    /\ step[c] = "marker"
    /\ sent' = sent \cup {EventOf(c)}
    /\ Goto(c, "ackSent")
    /\ UNCHANGED <<table, stream, entry, lock, deadLetters, job, batch, history>>

AckSent(c) ==
    /\ step[c] = "ackSent"
    /\ Acknowledge(Current(c))
    /\ Goto(c, "unlock")
    /\ UNCHANGED <<table, stream, sent, lock, deadLetters, job, batch, history>>

(* The finally block deletes the lock only while it holds this token.      *)
Unlock(c) ==
    LET e == EventOf(c) IN
    /\ step[c] = "unlock"
    /\ lock' = [lock EXCEPT ![e] = IF @ = c THEN Free ELSE @]
    /\ NextMessage(c)
    /\ UNCHANGED <<table, stream, entry, sent, deadLetters, job, history>>

(* What the Redis command of a step does when it succeeds.                 *)
TakesEffect(c) ==
    LET e == EventOf(c) IN
    /\ deadLetters' = IF HasMalformed(c) THEN deadLetters \cup {Current(c)} ELSE deadLetters
    /\ entry' = IF step[c] \in {"ackDead", "ack", "ackSent"}
                THEN [entry EXCEPT ![Current(c)] = IF @ = "pending" THEN "acked" ELSE @]
                ELSE entry
    /\ sent' = IF step[c] = "marker" THEN sent \cup {e} ELSE sent

(* A Redis command fails, with its effect or without.  After the lock was  *)
(* taken the error is caught and the finally block runs; before it, or in  *)
(* it, the loop starts over.  A lock then still held waits for its TTL.    *)
CommandFails(c) ==
    LET e == EventOf(c) IN
    /\ batch[c] # {}
    /\ TakesEffect(c) \/ UNCHANGED <<entry, sent, deadLetters>>
    /\ \/ /\ step[c] \in {"loop", "ackDead", "ack"}
          /\ AbandonBatch(c) /\ UNCHANGED <<lock, lapses>>
       \/ /\ step[c] = "lock"
          /\ AbandonBatch(c) /\ UNCHANGED lapses
          /\ lock' = lock \/ (lock[e] = Free /\ lock' = [lock EXCEPT ![e] = Gone])
       \/ /\ step[c] = "unlock"
          /\ AbandonBatch(c) /\ UNCHANGED lapses
          /\ lock' \in {[lock EXCEPT ![e] = IF @ = c THEN o ELSE @] : o \in {Free, Gone}}
       \/ /\ step[c] \in {"recheck", "ackSent"}
          /\ Goto(c, "unlock") /\ UNCHANGED <<batch, lock, lapses>>
       \/ /\ step[c] = "marker"
          /\ Goto(c, "unlock") /\ UNCHANGED <<batch, lock>>
          /\ IF e \in sent' THEN UNCHANGED lapses ELSE Lapse(e)
    /\ UNCHANGED <<table, stream, job, mails>>

(* The process dies.  Between sendMail and the marker, or while the mail   *)
(* is on its way, this may duplicate the mail.                             *)
ConsumerCrash(c) ==
    LET e == EventOf(c) IN
    /\ batch[c] # {}
    /\ AbandonBatch(c)
    /\ lock' = [f \in Event |-> IF lock[f] = c THEN Gone ELSE lock[f]]
    /\ \/ step[c] # "marker" /\ UNCHANGED history
       \/ step[c] = "marker" /\ Lapse(e) /\ UNCHANGED mails
       \/ step[c] = "send" /\ Lapse(e) /\ Mail(e)
    /\ UNCHANGED <<table, stream, entry, sent, deadLetters, job>>

(* Mutant: the lock is set without PX, so that of a dead process stays.    *)
LockWithoutTTL(e) ==
    /\ lock[e] \notin {Free, Gone}
    /\ lock' = [lock EXCEPT ![e] = Free]
    /\ IF step[lock[e]] \in {"recheck", "send", "marker"} THEN Lapse(e) ELSE UNCHANGED lapses
    /\ UNCHANGED <<table, stream, entry, sent, deadLetters, step, job, batch, mails>>

(* After 120 s: the owner is dead, or slower than its lock, which is a     *)
(* lapse unless it is done with the mail.                                  *)
LockExpires(e) ==
    LET o == lock[e] IN
    /\ o # Free
    /\ lock' = [lock EXCEPT ![e] = Free]
    /\ IF o # Gone /\ step[o] \in {"recheck", "send", "marker"} THEN Lapse(e) ELSE UNCHANGED lapses
    /\ UNCHANGED <<table, stream, entry, sent, deadLetters, step, job, batch, mails>>

-----------------------------------------------------------------------------
Publishing(p) == Publish(p) \/ MarkPublished(p) \/ RetryLater(p)

Consuming(c) ==
    \/ Read(c) \/ CopyToDeadLetter(c) \/ Dedup(c) \/ Ack(c) \/ TakeLock(c)
    \/ Recheck(c) \/ SendMail(c) \/ SetMarker(c) \/ AckSent(c) \/ Unlock(c)

Next ==
    \/ \E e \in Event : OrderConfirmed(e) \/ LeaseExpires(e) \/ LockExpires(e)
    \/ \E x \in Malformed : AddMalformed(x)
    \/ \E p \in Publisher, e \in Event : ClaimEvent(p, e)
    \/ \E p \in Publisher : Publishing(p) \/ PublishFails(p) \/ UpdateFails(p) \/ PublisherCrash(p)
    \/ \E c \in Consumer, S \in SUBSET Message : Reclaim(c, S)
    \/ \E c \in Consumer : Consuming(c) \/ SendFails(c) \/ CommandFails(c) \/ ConsumerCrash(c)

Spec == Init /\ [][Next]_vars

(* Publisher and consumer poll forever, every command ends, leases and     *)
(* locks of the dead expire, and a command may fail any number of times    *)
(* but not every time.                                                     *)
PublisherFairness(p) ==
    /\ \A e \in Event : SF_vars(ClaimEvent(p, e)) /\ SF_vars(job[p] = e /\ Publish(p))
    /\ WF_vars(Publishing(p))

ConsumerFairness(c) ==
    /\ \A m \in Message : SF_vars(\E S \in SUBSET Message : m \in S /\ Reclaim(c, S))
    /\ SF_vars(Read(c)) /\ SF_vars(Dedup(c))
    /\ \A e \in Event : SF_vars(lock[e] = Free /\ step[c] = "lock" /\ EventOf(c) = e /\ TakeLock(c))
    /\ SF_vars(Recheck(c)) /\ SF_vars(SendMail(c))
    /\ SF_vars(CopyToDeadLetter(c)) /\ SF_vars(Ack(c))
    /\ WF_vars(Consuming(c))

LiveSpec ==
    /\ Spec
    /\ \A p \in Publisher : PublisherFairness(p)
    /\ \A c \in Consumer : ConsumerFairness(c)
    /\ \A e \in Event : WF_vars(LeaseExpires(e)) /\ WF_vars(lock[e] = Gone /\ LockExpires(e))

-----------------------------------------------------------------------------
(* A duplicate mail has a reason: an event is mailed once, plus at most    *)
(* once for every time a mail left without a marker to show for it or its  *)
(* sender outlived its lock.  Redelivered, republished and concurrently    *)
(* processed messages add none (processMessage).                           *)
DuplicatesHaveReason == \A e \in Event : mails[e] <= 1 + lapses[e]

(* No message is acknowledged, and no event marked sent, before its mail   *)
(* left; a rejected message is acknowledged only once it is dead-lettered  *)
(* (deadLetter, processMessage).                                           *)
AckedIsHandled ==
    /\ \A e \in sent : mails[e] > 0
    /\ \A m \in Message : entry[m] = "acked" =>
        IF stream[m] \in Malformed THEN m \in deadLetters ELSE mails[stream[m]] > 0

(* "Delivery is at-least-once" (outbox.job.ts): an event marked published  *)
(* was mailed, or a message that carries it is still to be processed.      *)
PublishedIsNotLost ==
    \A e \in Event : row[e] = "published" =>
        \/ mails[e] > 0
        \/ \E m \in New \cup Pending : stream[m] = e

(* Without the premise that the stream is never trimmed: the only message  *)
(* of an event that is lost is one Redis dropped, and Redis dropped it     *)
(* behind StreamLimit newer ones.                                          *)
OnlyTrimmingLoses ==
    \A e \in Event : row[e] = "published" =>
        \/ mails[e] > 0
        \/ \E m \in 1 .. Len(stream) :
            /\ stream[m] = e
            /\ \/ m \in New \cup Pending
               \/ entry[m] = "trimmed" /\ m + StreamLimit <= Len(stream)

(* What the customer sees of all this is the contract: mail for confirmed  *)
(* orders only, and no second one without a lapse before it.               *)
Contract == INSTANCE NotificationContract WITH
    confirmed <- {e \in Event : row[e] # "absent"}, notified <- mails, excuses <- lapses

ImplementsContract == Contract!Spec

(* Every confirmed order is mailed in the end, whatever crashes or fails   *)
(* on the way.                                                             *)
EventuallyMailed == \A e \in Event : row[e] # "absent" ~> mails[e] > 0
=============================================================================
