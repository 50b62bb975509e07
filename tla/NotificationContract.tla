------------------------ MODULE NotificationContract ------------------------
(***************************************************************************)
(* What order-service and notification-service together promise a          *)
(* customer, with the outbox, the stream, the locks and the markers left   *)
(* out: mail goes out for a confirmed order only, once, and once more for  *)
(* each lapse at most, a lapse being a mail that left no marker or a       *)
(* sender that outlived its lock.                                          *)
(***************************************************************************)
EXTENDS Integers

CONSTANT Event

VARIABLES
    confirmed,      \* events of confirmed orders
    notified,       \* mails sent for each event
    excuses         \* lapses that may show as a duplicate

promise == <<confirmed, notified, excuses>>

Init ==
    /\ confirmed = {}
    /\ notified = [e \in Event |-> 0]
    /\ excuses = [e \in Event |-> 0]

Confirm(e) ==
    /\ e \notin confirmed
    /\ confirmed' = confirmed \cup {e}
    /\ UNCHANGED <<notified, excuses>>

Notify(e) ==
    /\ e \in confirmed
    /\ notified[e] <= excuses[e]
    /\ notified' = [notified EXCEPT ![e] = @ + 1]
    /\ UNCHANGED <<confirmed, excuses>>

Excuse(e) ==
    /\ e \in confirmed
    /\ excuses' = [excuses EXCEPT ![e] = @ + 1]
    /\ UNCHANGED <<confirmed, notified>>

(* The mail and the reason why another one may follow, in one step.        *)
NotifyUnseen(e) ==
    /\ e \in confirmed
    /\ notified[e] <= excuses[e]
    /\ notified' = [notified EXCEPT ![e] = @ + 1]
    /\ excuses' = [excuses EXCEPT ![e] = @ + 1]
    /\ UNCHANGED confirmed

Next == \E e \in Event : Confirm(e) \/ Notify(e) \/ Excuse(e) \/ NotifyUnseen(e)

Spec == Init /\ [][Next]_promise
=============================================================================
