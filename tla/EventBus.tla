------------------------------ MODULE EventBus ------------------------------
(***************************************************************************)
(* EventBus (core/events/bus.py): publish delivers an event to the         *)
(* handlers subscribed at that moment, all at once, each with its own      *)
(* retries, and keeps what exhausts them as a dead letter.  A publisher    *)
(* that is cancelled takes its deliveries with it.                         *)
(***************************************************************************)
EXTENDS Integers

CONSTANTS Events, Handlers, MaxDeliveryRetries

VARIABLES
    subscribed,      \* handlers of the events' type
    publishing,      \* state of each publish call
    delivery,        \* state and failures of each _deliver
    dead             \* dead letters of each event and handler

busVars == <<subscribed, publishing, delivery, dead>>

Delivery == [state : {"none", "running", "handled", "dead", "lost"}, attempt : Nat]

Init ==
    /\ subscribed = {}
    /\ publishing = [e \in Events |-> "no"]
    /\ delivery = [p \in Events \X Handlers |-> [state |-> "none", attempt |-> 0]]
    /\ dead = [p \in Events \X Handlers |-> 0]

Subscribe(h) ==
    /\ h \notin subscribed
    /\ subscribed' = subscribed \cup {h}
    /\ UNCHANGED <<publishing, delivery, dead>>

Publish(e) ==
    /\ publishing[e] = "no"
    /\ publishing' = [publishing EXCEPT ![e] = IF subscribed = {} THEN "returned" ELSE "running"]
    /\ delivery' = [p \in Events \X Handlers |->
            IF p[1] = e /\ p[2] \in subscribed THEN [delivery[p] EXCEPT !.state = "running"]
            ELSE delivery[p]]
    /\ UNCHANGED <<subscribed, dead>>

Handles(p) ==
    /\ delivery[p].state = "running"
    /\ delivery' = [delivery EXCEPT ![p].state = "handled"]
    /\ UNCHANGED <<subscribed, publishing, dead>>

(* A deviation: attempts are counted from zero. *)
GivesUpEarly(p) == delivery[p].attempt + 1 >= MaxDeliveryRetries

GivesUp(p) == delivery[p].attempt + 1 > MaxDeliveryRetries

Fails(p) ==
    /\ delivery[p].state = "running"
    /\ delivery' = [delivery EXCEPT ![p].attempt = @ + 1,
                                    ![p].state = IF GivesUp(p) THEN "dead" ELSE @]
    /\ dead' = [dead EXCEPT ![p] = IF GivesUp(p) THEN @ + 1 ELSE @]
    /\ UNCHANGED <<subscribed, publishing>>

Of(e) == {p \in Events \X Handlers : p[1] = e}

Returns(e) ==
    /\ publishing[e] = "running"
    /\ \A p \in Of(e) : delivery[p].state # "running"
    /\ publishing' = [publishing EXCEPT ![e] = "returned"]
    /\ UNCHANGED <<subscribed, delivery, dead>>

(* gather cancels its deliveries; CancelledError is no Exception, so no    *)
(* retry and no dead letter.                                               *)
PublisherCancelled(e) ==
    /\ publishing[e] = "running"
    /\ publishing' = [publishing EXCEPT ![e] = "cancelled"]
    /\ delivery' = [p \in Events \X Handlers |->
            IF p \in Of(e) /\ delivery[p].state = "running"
            THEN [delivery[p] EXCEPT !.state = "lost"] ELSE delivery[p]]
    /\ UNCHANGED <<subscribed, dead>>

Deliver(p) == Handles(p) \/ Fails(p)

Next ==
    \/ \E h \in Handlers : Subscribe(h)
    \/ \E e \in Events : Publish(e) \/ Returns(e) \/ PublisherCancelled(e)
    \/ \E p \in Events \X Handlers : Deliver(p)

-----------------------------------------------------------------------------
(* A publish that returned left nothing open: each handler it went to has  *)
(* handled the event, without a dead letter, or failed the first time and  *)
(* on every retry and left exactly one; nobody else's failure changes it.  *)
EveryDeliveryConcluded ==
    \A p \in Events \X Handlers :
        publishing[p[1]] = "returned" =>
            \/ delivery[p].state \in {"none", "handled"} /\ dead[p] = 0
            \/ /\ delivery[p].state = "dead" /\ dead[p] = 1
               /\ delivery[p].attempt = MaxDeliveryRetries + 1
=============================================================================
