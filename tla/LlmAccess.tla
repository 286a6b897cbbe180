------------------------------ MODULE LlmAccess ------------------------------
(***************************************************************************)
(* Calls of a language model: LLMManager.chat and stream (core/llm) with   *)
(* the response cache, the requests-per-minute window, the concurrency     *)
(* slots, the retry loop and the circuit breaker of one provider; and, for *)
(* the calls made through LLMService (services/llm), their accounting and  *)
(* the turn they append to a conversation.                                 *)
(*                                                                         *)
(* Slots and breaker live in one process: an action is what runs between   *)
(* two awaits.  The database is PostgreSQL at READ COMMITTED: a flushed    *)
(* row is locked until its session ends, and a query sees what others have *)
(* committed and what the session itself has flushed.  The rollup rows     *)
(* carry no version.                                                       *)
(***************************************************************************)
EXTENDS Integers, FiniteSets, FiniteSetsExt

CONSTANTS
    Requests,        \* calls; each is made once
    Kinds,           \* kinds of call that are made
    Accounts,        \* (organization, day, model): the keys of the rollups, one per organization
    Agents,          \* the rate limit key of all agents, "agent"
    NullAccounts,    \* those whose organization is NULL
    Earlier,         \* a call that was over before
    Prompts,         \* fingerprints of requests
    Talks,           \* conversations
    None,            \* no conversation
    Rpm,             \* llm_rate_limit_rpm
    Concurrent,      \* llm_rate_limit_concurrent
    MaxRetries,      \* llm_max_retries
    Threshold,       \* CircuitBreaker.failure_threshold
    MaxDrafts        \* max_retries of chat_structured

ASSUME LlmAssumption ==
    /\ IsFiniteSet(Requests)
    /\ Kinds \subseteq {"chat", "structured", "agent", "stream"}
    /\ NullAccounts \subseteq Accounts /\ Agents \notin Accounts /\ None \notin Talks
    /\ Earlier \notin Requests
    /\ Rpm \in Nat \ {0} /\ Concurrent \in Nat \ {0} /\ Threshold \in Nat \ {0}
    /\ MaxRetries \in Nat /\ MaxDrafts \in Nat

VARIABLES
    cached,          \* prompts with a stored answer
    window,          \* per key: the counter in Redis and whether it expires
    failures,        \* CircuitBreaker._failures of the provider
    opened,          \* CircuitBreaker._opened_at: "no", "yes", or "due" after reset_after
    req,             \* the calls
    rollups,         \* per account: request_count of its rows, by the call that inserted them
    recorded,        \* per account: number of llm_request rows
    messages,        \* per conversation: its rows
    late             \* history: attempts begun with the circuit open, since it opened

db == <<rollups, recorded, messages>>
breaker == <<failures, opened, late>>
vars == <<cached, window, breaker, req, db>>

Running == {"limit", "waiting", "calling", "backoff", "streaming", "answered",
            "accounting", "flushing", "closing", "append", "reply", "commit"}
Over == {"done", "limited", "open", "failed"}
Message == [turn : Requests, role : {"user", "assistant"}, seq : Nat, account : Accounts]

(* row and seen are the rollup row that was read and its count; pending is *)
(* the number of requests flushed and not committed, said the messages.    *)
Idle == [pc |-> "new", kind |-> "chat", account |-> None, prompt |-> None, talk |-> None,
         tries |-> 0, drafts |-> 0, row |-> None, seen |-> 0, pending |-> 0, said |-> {}]

Init ==
    /\ cached = {}
    /\ window = [a \in Accounts \cup {Agents} |-> [count |-> 0, ttl |-> FALSE]]
    /\ failures = 0 /\ opened = "no" /\ late = 0
    /\ req = [r \in Requests |-> Idle]
    /\ \E used \in SUBSET (Accounts \ NullAccounts) :   \* a first call of the day was made
          /\ rollups = [a \in Accounts |-> [q \in {Earlier : x \in used \cap {a}} |-> 1]]
          /\ recorded = [a \in Accounts |-> IF a \in used THEN 1 ELSE 0]
    /\ messages = [t \in Talks |-> {}]

Moves(r, pc) == req' = [req EXCEPT ![r].pc = pc]
(* The call is over; whatever it has not committed is rolled back. *)
Ends(r, pc) == req' = [req EXCEPT ![r] = [Idle EXCEPT !.pc = pc]]

-----------------------------------------------------------------------------
(* is_cacheable: a response_schema, or a stream, is never looked up. *)
Cacheable(kind) == kind \in {"chat", "agent"}
(* Agents use the manager itself: what they call is not accounted. *)
AfterAnswer(kind) == IF kind = "agent" THEN "done" ELSE "accounting"

(* The cache is asked first, before any limit. *)
Begin(r, kind, a, p, t) ==
    /\ req[r].pc = "new"
    /\ (kind = "agent") <=> (a = Agents)
    /\ t # None => kind = "chat"
    /\ req' = [req EXCEPT ![r] =
                 [Idle EXCEPT !.pc = IF Cacheable(kind) /\ p \in cached
                                     THEN AfterAnswer(kind) ELSE "limit",
                              !.kind = kind, !.account = a, !.prompt = p, !.talk = t]]
    /\ UNCHANGED <<cached, window, breaker, db>>

(* llm_cache_ttl_seconds have passed. *)
CacheExpires(p) ==
    /\ p \in cached /\ cached' = cached \ {p}
    /\ UNCHANGED <<window, breaker, req, db>>

(* check_rpm: the first INCR is followed by EXPIRE; whatever Redis fails   *)
(* at, the call is let through.                                            *)
CheckRpm(r) ==
    /\ req[r].pc = "limit"
    /\ LET a == req[r].account
           count == window[a].count + 1
       IN  \/ Moves(r, "waiting") /\ UNCHANGED window
           \/ /\ window' = [window EXCEPT ![a] = [count |-> count, ttl |-> @.ttl \/ count = 1]]
              /\ IF count > Rpm THEN Ends(r, "limited") ELSE Moves(r, "waiting")
           \/ /\ count = 1
              /\ window' = [window EXCEPT ![a].count = 1]
              /\ Moves(r, "waiting")
    /\ UNCHANGED <<cached, breaker, db>>

WindowExpires(a) ==
    /\ window[a].ttl
    /\ window' = [window EXCEPT ![a] = [count |-> 0, ttl |-> FALSE]]
    /\ UNCHANGED <<cached, breaker, req, db>>

-----------------------------------------------------------------------------
(* A stream is accounted by the consumer of its last event, within the slot. *)
InSlot(r) ==
    \/ req[r].pc \in {"calling", "backoff", "streaming", "closing"}
    \/ req[r].kind = "stream" /\ req[r].pc \in {"accounting", "flushing"}

(* A deviation: a call that fails does not give its slot back. *)
HoldersAndFailed == {r \in Requests : InSlot(r) \/ req[r].pc = "failed"}

Holders == {r \in Requests : InSlot(r)}
SlotFree == Cardinality(Holders) < Concurrent

(* An attempt begins, and is late if the circuit is open. *)
Attempt(r) ==
    /\ req' = [req EXCEPT ![r].pc = "calling"]
    /\ late' = IF opened = "yes" THEN late + 1 ELSE late

(* A deviation: the circuit is not asked. *)
AdmitRegardless(r) ==
    /\ req[r].pc = "waiting" /\ req[r].kind # "stream" /\ SlotFree
    /\ Attempt(r)
    /\ UNCHANGED <<cached, window, failures, opened, db>>

(* with_retry under a slot: an open circuit refuses, one that was open for *)
(* reset_after is cleared.                                                 *)
Admit(r) ==
    /\ req[r].pc = "waiting" /\ req[r].kind # "stream" /\ SlotFree
    /\ \/ /\ opened = "yes" /\ Ends(r, "open") /\ UNCHANGED breaker
       \/ /\ opened = "no" /\ Attempt(r) /\ UNCHANGED <<failures, opened>>
       \/ /\ opened = "due" /\ failures' = 0 /\ opened' = "no" /\ Attempt(r)
    /\ UNCHANGED <<cached, window, db>>

ResetAfter ==
    /\ opened = "yes" /\ opened' = "due"
    /\ UNCHANGED <<cached, window, failures, late, req, db>>

Answer(r) ==
    /\ req[r].pc = "calling"
    /\ failures' = 0 /\ opened' = "no"
    /\ Moves(r, "answered")
    /\ UNCHANGED <<cached, window, late, db>>

RecordFailure ==
    /\ failures' = failures + 1
    /\ opened' = IF failures + 1 >= Threshold THEN "yes" ELSE opened
    /\ late' = IF opened = "no" THEN 0 ELSE late

(* A rate limit, a timeout or a lost connection: again, after a while. *)
TransientFailure(r) ==
    /\ req[r].pc = "calling"
    /\ RecordFailure
    /\ IF req[r].tries + 1 > MaxRetries
       THEN Ends(r, "failed")
       ELSE req' = [req EXCEPT ![r].pc = "backoff", ![r].tries = @ + 1]
    /\ UNCHANGED <<cached, window, db>>

OtherFailure(r) ==
    /\ req[r].pc = "calling"
    /\ RecordFailure
    /\ Ends(r, "failed")
    /\ UNCHANGED <<cached, window, db>>

(* The circuit is not asked again. *)
Retry(r) ==
    /\ req[r].pc = "backoff"
    /\ Attempt(r)
    /\ UNCHANGED <<cached, window, failures, opened, db>>

(* set_response, after the slot was given back. *)
Store(r) ==
    /\ req[r].pc = "answered"
    /\ cached' = IF Cacheable(req[r].kind) THEN cached \cup {req[r].prompt} ELSE cached
    /\ Moves(r, AfterAnswer(req[r].kind))
    /\ UNCHANGED <<window, breaker, db>>

(* stream() takes a slot and knows neither retries nor the circuit. *)
StreamBegins(r) ==
    /\ req[r].pc = "waiting" /\ req[r].kind = "stream" /\ SlotFree
    /\ Moves(r, "streaming")
    /\ UNCHANGED <<cached, window, breaker, db>>

(* The last event carries the response, or an error and no response. *)
StreamEnds(r) ==
    /\ req[r].pc = "streaming"
    /\ Moves(r, "accounting") \/ Ends(r, "done")
    /\ UNCHANGED <<cached, window, breaker, db>>

(* The event was passed on: the slot is given back.  The session commits   *)
(* after the response, or (FastAPI before 0.118) was closed before it: the *)
(* transaction it began afresh is never committed.                         *)
StreamCloses(r) ==
    /\ req[r].pc = "closing"
    /\ Moves(r, "commit") \/ Ends(r, "done")
    /\ UNCHANGED <<cached, window, breaker, db>>

-----------------------------------------------------------------------------
(* The rollup rows of an account that call r sees. *)
Rows(a) == DOMAIN rollups[a]
Visible(r) == Rows(req[r].account) \cup (IF req[r].pending > 0 THEN {req[r].row} ELSE {})

(* A deviation: a second record of the session reads its own flush afresh. *)
AccountReadAgain(r) ==
    /\ req[r].pc = "accounting"
    /\ LET a == req[r].account IN
       IF Cardinality(Visible(r)) > 1 THEN Ends(r, "failed")
       ELSE IF Rows(a) = {} /\ req[r].pending = 0
            THEN req' = [req EXCEPT ![r].pc = "flushing", ![r].row = r]
            ELSE req' = [req EXCEPT ![r].pc = "flushing",
                                    ![r].row = CHOOSE q \in Visible(r) : TRUE,
                                    ![r].seen = IF req[r].pending > 0 THEN @ + req[r].pending
                                                ELSE rollups[a][CHOOSE q \in Rows(a) : TRUE]]
    /\ UNCHANGED <<cached, window, breaker, db>>

(* AccountingService.record reads the rollup of the day; more than one row *)
(* is MultipleResultsFound.  A session that has flushed the row already    *)
(* keeps the copy it has.                                                  *)
AccountRead(r) ==
    /\ req[r].pc = "accounting"
    /\ \/ /\ Cardinality(Visible(r)) > 1
          /\ Ends(r, "failed")
       \/ /\ Cardinality(Visible(r)) <= 1 /\ req[r].pending > 0
          /\ Moves(r, "flushing")
       \/ /\ Visible(r) = {}
          /\ req' = [req EXCEPT ![r].pc = "flushing", ![r].row = r]
       \/ /\ req[r].pending = 0
          /\ \E row \in Rows(req[r].account) :
                /\ Rows(req[r].account) = {row}
                /\ req' = [req EXCEPT ![r].pc = "flushing", ![r].row = row,
                                      ![r].seen = rollups[req[r].account][row]]
    /\ UNCHANGED <<cached, window, breaker, db>>

(* Another session has flushed the row, or a row of the same unique key. *)
Locked(r) ==
    \E q \in Requests \ {r} :
        /\ req[q].pending > 0 /\ req[q].account = req[r].account
        /\ req[r].account \notin NullAccounts \/ req[q].row = req[r].row

(* The INSERT meets a row of the same key; NULLs are never the same. *)
Duplicate(r) ==
    /\ req[r].row = r /\ req[r].pending = 0
    /\ req[r].account \notin NullAccounts
    /\ Rows(req[r].account) # {}

(* The request and its rollup are flushed; the session goes on at pc. *)
Flushes(r, pc) ==
    req' = [req EXCEPT ![r].pc = pc, ![r].pending = @ + 1, ![r].tries = 0]

Flush(r) ==
    /\ req[r].pc = "flushing"
    /\ ~Locked(r)
    /\ \/ /\ Duplicate(r)
          /\ Ends(r, "failed")
       \/ /\ ~Duplicate(r) /\ req[r].kind = "chat"
          /\ Flushes(r, IF req[r].talk = None THEN "commit" ELSE "append")
       \/ /\ ~Duplicate(r) /\ req[r].kind = "structured"   \* the answer fits the schema
          /\ Flushes(r, "commit")
       \/ /\ ~Duplicate(r) /\ req[r].kind = "stream"
          /\ Flushes(r, "closing")
    /\ UNCHANGED <<cached, window, breaker, db>>

(* chat_structured: the answer does not fit, the model is asked again by   *)
(* the session that now holds the row; in the end the error takes the      *)
(* records back.                                                           *)
FlushMalformed(r) ==
    /\ req[r].pc = "flushing" /\ req[r].kind = "structured"
    /\ ~Locked(r) /\ ~Duplicate(r)
    /\ IF req[r].drafts = MaxDrafts
       THEN Ends(r, "failed")
       ELSE req' = [req EXCEPT ![r].pc = "limit", ![r].drafts = @ + 1,
                               ![r].pending = @ + 1, ![r].tries = 0]
    /\ UNCHANGED <<cached, window, breaker, db>>

(* A deviation: the session does not see what it has added itself. *)
NextSequenceCommitted(r) == 1 + Max({0} \cup {m.seq : m \in messages[req[r].talk]})

(* next_sequence: one more than the last message the session sees. *)
NextSequence(r) ==
    1 + Max({0} \cup {m.seq : m \in messages[req[r].talk] \cup req[r].said})

(* ConversationService.append, first what the user said, then the answer. *)
AppendTurn(r) ==
    /\ req[r].pc \in {"append", "reply"}
    /\ LET user == req[r].pc = "append" IN
       req' = [req EXCEPT
         ![r].pc = IF user THEN "reply" ELSE "commit",
         ![r].said = @ \cup {[turn |-> r, role |-> IF user THEN "user" ELSE "assistant",
                              seq |-> NextSequence(r), account |-> req[r].account]}]
    /\ UNCHANGED <<cached, window, breaker, db>>

(* The request-scoped session commits. *)
Commit(r) ==
    /\ req[r].pc = "commit"
    /\ LET a == req[r].account
           total == req[r].seen + req[r].pending
       IN  /\ rollups' = [rollups EXCEPT ![a] =
                            [q \in Rows(a) \cup {req[r].row} |->
                               IF q = req[r].row THEN total ELSE rollups[a][q]]]
           /\ recorded' = [recorded EXCEPT ![a] = @ + req[r].pending]
    /\ messages' = [t \in Talks |-> IF t = req[r].talk THEN messages[t] \cup req[r].said
                                    ELSE messages[t]]
    /\ Ends(r, "done")
    /\ UNCHANGED <<cached, window, breaker>>

(* The client goes away, or the cache or the database fails. *)
Abort(r) ==
    /\ req[r].pc \in Running
    /\ Ends(r, "failed")
    /\ UNCHANGED <<cached, window, breaker, db>>

-----------------------------------------------------------------------------
Proceed(r) ==
    \/ CheckRpm(r) \/ Admit(r) \/ Answer(r) \/ TransientFailure(r) \/ OtherFailure(r)
    \/ Retry(r) \/ Store(r) \/ StreamBegins(r) \/ StreamEnds(r) \/ StreamCloses(r)
    \/ AccountRead(r) \/ Flush(r) \/ FlushMalformed(r) \/ AppendTurn(r) \/ Commit(r)

Next ==
    \/ \E r \in Requests :
          \/ \E kind \in Kinds, a \in Accounts \cup {Agents}, p \in Prompts, t \in Talks \cup {None} :
                Begin(r, kind, a, p, t)
          \/ Proceed(r)
          \/ Abort(r)
    \/ \E p \in Prompts : CacheExpires(p)
    \/ \E a \in Accounts \cup {Agents} : WindowExpires(a)
    \/ ResetAfter

Spec == Init /\ [][Next]_vars

(* A call that has begun is served: the provider answers or times out, and *)
(* the semaphore and the row locks are granted in order.                   *)
FairSpec == Spec /\ \A r \in Requests : WF_vars(Proceed(r))

-----------------------------------------------------------------------------
(* The calls, the counters and the rows have the shapes above; no call is  *)
(* tried more often than the policy says.                                  *)
TypeOK ==
    /\ cached \subseteq Prompts
    /\ window \in [Accounts \cup {Agents} -> [count : Nat, ttl : BOOLEAN]]
    /\ failures \in Nat /\ late \in Nat
    /\ opened \in {"no", "yes", "due"}
    /\ \A r \in Requests :
          /\ req[r].pc \in {"new"} \cup Running \cup Over
          /\ req[r].tries \in 0..MaxRetries /\ req[r].drafts \in 0..MaxDrafts
          /\ req[r].pending \in 0..(MaxDrafts + 1) /\ req[r].seen \in Nat
          /\ req[r].said \subseteq Message
    /\ \A a \in Accounts : Rows(a) \subseteq Requests \cup {Earlier} /\ \A q \in Rows(a) : rollups[a][q] \in Nat
    /\ recorded \in [Accounts -> Nat]
    /\ messages \in [Talks -> SUBSET Message]

(* "trips after repeated failures to give a failing provider time to       *)
(* recover": the circuit is asked under the slot, so that after it opened  *)
(* the provider sees no more than the retries of the calls that hold a     *)
(* slot at that moment.                                                    *)
FewLateAttempts == late <= Concurrent * MaxRetries

(* A rollup never counts more requests than there are records of, although *)
(* sessions overwrite each other's counts.                                 *)
RollupsNeverExceedRecords ==
    \A a \in Accounts : MapThenSumSet(LAMBDA q : rollups[a][q], Rows(a)) <= recorded[a]

(* next_sequence gives no number twice to turns that are accounted to the  *)
(* same organization, day and model: nothing but the lock on their rollup  *)
(* row keeps them apart, and it does so because they flush the rollup      *)
(* before they look for the number.                                        *)
SequencesDiffer ==
    \A t \in Talks : \A m, n \in messages[t] :
        m.seq = n.seq /\ m.account = n.account /\ m.account \notin NullAccounts => m = n

(* A stream holds a slot and waits for a rollup row; the structured call   *)
(* that has flushed the row waits for a slot.                              *)
Crossed ==
    \E s, q \in Requests :
        /\ req[s].kind = "stream" /\ req[s].pc = "flushing"
        /\ req[q].kind = "structured" /\ req[q].pc = "waiting"
        /\ req[q].pending > 0 /\ req[q].account = req[s].account

(* Every call that has begun ends, with slots and row locks granted in any *)
(* order: nothing but a stream that is accounted within its slot and a     *)
(* structured call that is retried with its row locked can wait for each   *)
(* other.                                                                  *)
CallsEnd ==
    \A r \in Requests : (req[r].pc \in Running) ~> (req[r].pc \in Over \/ Crossed)

=============================================================================
