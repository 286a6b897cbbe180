----------------------------- MODULE RateLimit -----------------------------
(***************************************************************************)
(* RateLimitMiddleware (middleware/rate_limit.py): requests of one client, *)
(* or one API key, share a bucket, which is a counter in Redis.  The       *)
(* request that finds the counter at one gives it its time to live with a  *)
(* second command.  When Redis fails the middleware lets requests pass and *)
(* leaves Redis alone for a while; the process may die between the two.    *)
(***************************************************************************)
EXTENDS Integers

CONSTANTS
    Requests,        \* slots for requests of the client in flight
    Budget,          \* _MAX_REQUESTS, _API_KEY_MAX_REQUESTS
    Window,          \* _WINDOW_SECONDS, in ticks
    Cooldown,        \* _COOLDOWN_SECONDS, in ticks
    MaxCount         \* bound: no request arrives once so many are counted

VARIABLES
    bucket,          \* the counter; a count of 0 is no key, a ttl of 0 none
    cooldown,        \* ticks until Redis is called again
    request,         \* where each request is
    lost             \* the living counter was not given its time to live

rateVars == <<bucket, cooldown, request, lost>>

Empty == [count |-> 0, ttl |-> 0]

Init ==
    /\ bucket = Empty
    /\ cooldown = 0
    /\ request = [r \in Requests |-> "none"]
    /\ lost = FALSE

(* _get_client: no client while Redis is left alone. *)
ClientAvailable == cooldown = 0

Arrive(r) ==
    /\ request[r] = "none" /\ bucket.count < MaxCount
    /\ request' = [request EXCEPT ![r] = IF ClientAvailable THEN "counting" ELSE "passed"]
    /\ UNCHANGED <<bucket, cooldown, lost>>

(* A deviation: the counter starts at zero. *)
FirstOfWindowFromZero(count) == count = 0

FirstOfWindow(count) == count = 1

Verdict(count) == IF count > Budget THEN "limited" ELSE "passed"

(* client.incr answers. *)
Count(r) ==
    /\ request[r] = "counting"
    /\ bucket' = [bucket EXCEPT !.count = @ + 1]
    /\ request' = [request EXCEPT ![r] =
            IF FirstOfWindow(bucket'.count) THEN "expiring" ELSE Verdict(bucket'.count)]
    /\ UNCHANGED <<cooldown, lost>>

(* client.expire answers; it does nothing where there is no key. *)
Expire(r) ==
    /\ request[r] = "expiring"
    /\ bucket' = [bucket EXCEPT !.ttl = IF bucket.count > 0 THEN Window ELSE @]
    /\ request' = [request EXCEPT ![r] = "passed"]
    /\ UNCHANGED <<cooldown, lost>>

(* _degrade *)
Degrade(r) ==
    /\ cooldown' = Cooldown
    /\ request' = [request EXCEPT ![r] = "passed"]

(* client.incr raises, before or after Redis has counted. *)
CountFails(r) ==
    /\ request[r] = "counting"
    /\ \/ UNCHANGED <<bucket, lost>>
       \/ /\ bucket' = [bucket EXCEPT !.count = @ + 1]
          /\ lost' = (lost \/ FirstOfWindow(bucket'.count))
    /\ Degrade(r)

(* client.expire raises, before or after Redis has set it. *)
ExpireFails(r) ==
    /\ request[r] = "expiring"
    /\ \/ bucket' = [bucket EXCEPT !.ttl = Window] /\ UNCHANGED lost
       \/ lost' = TRUE /\ UNCHANGED bucket
    /\ Degrade(r)

(* call_next or the answer 429 ends the request. *)
Answer(r) ==
    /\ request[r] \in {"passed", "limited"}
    /\ request' = [request EXCEPT ![r] = "none"]
    /\ UNCHANGED <<bucket, cooldown, lost>>

(* The process is stopped and started again. *)
Restart ==
    /\ \E r \in Requests : request[r] # "none"
    /\ lost' = (lost \/ \E r \in Requests : request[r] = "expiring")
    /\ request' = [r \in Requests |-> "none"]
    /\ cooldown' = 0
    /\ UNCHANGED bucket

Passes(ticks) == IF ticks > 0 THEN ticks - 1 ELSE 0

(* Time passes; Redis drops a counter whose time is over. *)
Tick ==
    /\ bucket.ttl > 0 \/ cooldown > 0
    /\ cooldown' = Passes(cooldown)
    /\ bucket' = IF bucket.ttl = 1 THEN Empty ELSE [bucket EXCEPT !.ttl = Passes(@)]
    /\ UNCHANGED <<request, lost>>

Progress(r) == Count(r) \/ Expire(r) \/ CountFails(r) \/ ExpireFails(r) \/ Answer(r)

Next ==
    \/ \E r \in Requests : Arrive(r) \/ Progress(r)
    \/ Restart
    \/ Tick

-----------------------------------------------------------------------------
(* "Limit requests per client within a fixed time window": a client that   *)
(* is over its budget is let in again, unless the one command that starts  *)
(* the window was lost, to a failure of Redis or a death of the process.   *)
LimitsEnd ==
    (bucket.count > Budget) ~> (bucket.count <= Budget \/ lost)
=============================================================================
