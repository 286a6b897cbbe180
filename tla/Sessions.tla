------------------------------ MODULE Sessions ------------------------------
(***************************************************************************)
(* The login sessions of one account (services/auth.py, token_service.py,  *)
(* session_service.py, login_guard.py; accounts share no rows).  A request *)
(* is a transaction of its own (session_scope): it reads what is committed *)
(* when it looks, writes at its commit only the columns it changed, and a  *)
(* request that raises leaves nothing behind.  The rows carry no version,  *)
(* so two requests that read the same row both commit.  The counter of     *)
(* failed logins lives in Redis, outside the transaction.                  *)
(***************************************************************************)
EXTENDS Integers, FiniteSets, FiniteSetsExt

CONSTANTS
    Requests,        \* requests in flight at a time
    MaxAttempts,     \* settings.login_max_attempts
    MaxFailures,     \* a bound on the failures that are counted
    MaxSessions, MaxTokens, MaxResets    \* bounds on the rows of each table

ASSUME SessionsAssumption ==
    /\ MaxAttempts \in Nat \ {0} /\ MaxFailures \in Nat
    /\ MaxSessions \in Nat \ {0} /\ MaxTokens \in Nat \ {0} /\ MaxResets \in Nat

VARIABLES
    account,         \* the user row, and how often its password was reset
    sessions, tokens, resets,    \* the rows of session, refresh_token, password_reset_token
    counter,         \* the Redis key login:attempts:<email>
    req              \* what each request is doing

vars == <<account, sessions, tokens, resets, counter, req>>

SessionIds == 1 .. MaxSessions
TokenIds == 1 .. MaxTokens
ResetIds == 1 .. MaxResets

Account == [exists : BOOLEAN, resets : Nat]

(* epoch: the resets committed when the login looked at the account;       *)
(* overlapped: a reset was under way, or ended, while it logged in.        *)
SessionRow == [state : {"none", "live", "revoked"}, epoch : Nat, overlapped : BOOLEAN]

(* late: when its rotation ended, a revocation of the session had already  *)
(* updated the tokens, and the rotation had checked the session before.    *)
TokenRow == [state : {"none", "live", "consumed"}, session : SessionIds, late : BOOLEAN]

Request == [pc : {"idle", "check", "failing", "expiring", "clearing", "opening",
                  "registering", "rotating", "revoking", "resetting"},
            token : TokenIds, reset : ResetIds \cup {0},
            epoch : Nat, saw : {"live", "revoked"},
            todo : SUBSET SessionIds,      \* sessions still to revoke
            ended : SUBSET SessionIds,     \* sessions revoked at the commit
            hit : SUBSET TokenIds]         \* tokens the bulk update touched

Idle == [pc |-> "idle", token |-> 1, reset |-> 0, epoch |-> 0, saw |-> "live",
         todo |-> {}, ended |-> {}, hit |-> {}]

Free(f) == {x \in DOMAIN f : f[x].state = "none"}
Live(f) == {x \in DOMAIN f : f[x].state = "live"}

Init ==
    /\ account = [exists |-> FALSE, resets |-> 0]
    /\ sessions = [s \in SessionIds |-> [state |-> "none", epoch |-> 0, overlapped |-> FALSE]]
    /\ tokens = [t \in TokenIds |-> [state |-> "none", session |-> 1, late |-> FALSE]]
    /\ resets = [k \in ResetIds |-> "none"]
    /\ counter = [count |-> 0, ttl |-> FALSE, stuck |-> FALSE]
    /\ req = [r \in Requests |-> Idle]

Goto(r, pc) == req' = [req EXCEPT ![r].pc = pc]
Done(r) == req' = [req EXCEPT ![r] = Idle]

Rows == <<account, sessions, tokens, resets>>

(* A request that raises, or whose connection is lost, is rolled back. *)
Abort(r) ==
    /\ req[r].pc \in {"registering", "opening", "rotating", "revoking", "resetting"}
    /\ Done(r)
    /\ UNCHANGED <<Rows, counter>>

-----------------------------------------------------------------------------
(* Accounts. *)

(* register, and an OAuth login of an unknown profile, find no account ... *)
Register(r) ==
    /\ req[r].pc = "idle" /\ ~account.exists
    /\ Goto(r, "registering")
    /\ UNCHANGED <<Rows, counter>>

(* ... and insert one; the unique email admits the first of them. *)
RegisterCommit(r) ==
    /\ req[r].pc = "registering"
    /\ account' = [account EXCEPT !.exists = TRUE]
    /\ Done(r)
    /\ UNCHANGED <<sessions, tokens, resets, counter>>

-----------------------------------------------------------------------------
(* Logging in. *)

(* LoginGuard.check: the attempt is refused while the account is locked,   *)
(* but goes on when there is no Redis or the key cannot be read.           *)
LoginCheck(r) ==
    /\ req[r].pc = "idle" /\ account.exists
    /\ \E readable \in BOOLEAN : readable => counter.count < MaxAttempts
    /\ counter.count < MaxFailures
    /\ Goto(r, "check")
    /\ UNCHANGED <<Rows, counter>>

(* The user is read and the password compared; an OAuth login has no       *)
(* password to compare and no counter.                                     *)
Verify(r) ==
    /\ req[r].pc = "check"
    /\ \/ Goto(r, "failing")
       \/ req' = [req EXCEPT ![r].pc = "clearing", ![r].epoch = account.resets]
    /\ UNCHANGED <<Rows, counter>>

OAuthLogin(r) ==
    /\ req[r].pc = "idle" /\ account.exists
    /\ req' = [req EXCEPT ![r].pc = "opening", ![r].epoch = account.resets]
    /\ UNCHANGED <<Rows, counter>>

Incremented == [counter EXCEPT !.count = @ + 1]

(* A deviation: the window is opened by the failure that locks the account. *)
OpensWindowAtLimit == counter.count + 1 = MaxAttempts

OpensWindow == counter.count + 1 = 1

(* record_failure: INCR, and EXPIRE by whoever counted the first failure.  *)
CountFailure(r) ==
    /\ req[r].pc = "failing"
    /\ counter' = Incremented
    /\ IF OpensWindow THEN Goto(r, "expiring") ELSE Done(r)
    /\ UNCHANGED Rows

SetWindow(r) ==
    /\ req[r].pc = "expiring"
    /\ counter' = [counter EXCEPT !.ttl = counter.count > 0]
    /\ Done(r)
    /\ UNCHANGED Rows

NoKey == [count |-> 0, ttl |-> FALSE, stuck |-> FALSE]

(* A command of record_failure or reset raises, before or after Redis has  *)
(* carried it out: swallowed.                                              *)
RedisFails(r) ==
    /\ \/ /\ req[r].pc = "failing"
          /\ counter' \in {counter, [Incremented EXCEPT !.stuck = @ \/ OpensWindow]}
          /\ Done(r)
       \/ /\ req[r].pc = "expiring"
          /\ counter' \in {[counter EXCEPT !.stuck = @ \/ counter.count > 0],
                           [counter EXCEPT !.ttl = counter.count > 0]}
          /\ Done(r)
       \/ /\ req[r].pc = "clearing"
          /\ counter' \in {counter, NoKey}
          /\ Goto(r, "opening")
    /\ UNCHANGED Rows

ClearCounter(r) ==
    /\ req[r].pc = "clearing"
    /\ counter' = NoKey
    /\ Goto(r, "opening")
    /\ UNCHANGED Rows

(* Redis drops a key whose time to live has passed. *)
WindowEnds ==
    /\ counter.ttl
    /\ counter' = NoKey
    /\ UNCHANGED <<Rows, req>>

ResetUnderWay == \E q \in Requests : req[q].pc = "revoking" /\ req[q].reset # 0

(* _issue_login: a session and its first refresh token. *)
OpenSession(r) ==
    /\ req[r].pc = "opening"
    /\ Free(sessions) # {} /\ Free(tokens) # {}
    /\ LET s == Min(Free(sessions)) IN
        /\ sessions' = [sessions EXCEPT ![s] =
                [state |-> "live", epoch |-> req[r].epoch,
                 overlapped |-> ResetUnderWay \/ account.resets # req[r].epoch]]
        /\ tokens' = [tokens EXCEPT ![Min(Free(tokens))] =
                [state |-> "live", session |-> s, late |-> FALSE]]
    /\ Done(r)
    /\ UNCHANGED <<account, resets, counter>>

-----------------------------------------------------------------------------
(* Rotating. *)

(* A deviation: the session of a token is not looked at. *)
TokenIsLive(t) == tokens[t].state = "live"

(* The token is unused and its session active. *)
Rotatable(t) == tokens[t].state = "live" /\ sessions[tokens[t].session].state = "live"

(* rotate, as far as the successor.  A consumed token raises, so the       *)
(* revocation of its session that precedes the raise is rolled back.       *)
Rotate(r) ==
    /\ req[r].pc = "idle"
    /\ \E t \in TokenIds :
        /\ Rotatable(t)
        /\ req' = [req EXCEPT ![r].pc = "rotating", ![r].token = t,
                              ![r].saw = sessions[tokens[t].session].state]
    /\ UNCHANGED <<Rows, counter>>

(* last_activity alone is written to the session. *)
Touched(r) == sessions

(* The update of the old token waits for a revocation that has updated it. *)
RotateCommit(r) ==
    /\ req[r].pc = "rotating"
    /\ \A q \in Requests : req[r].token \notin req[q].hit
    /\ Free(tokens) # {}
    /\ LET s == tokens[req[r].token].session IN
        /\ tokens' = [tokens EXCEPT
              ![req[r].token].state = "consumed",
              ![Min(Free(tokens))] = [state |-> "live", session |-> s,
                  late |-> req[r].saw = "live" /\
                             (sessions[s].state = "revoked" \/ \E q \in Requests : s \in req[q].ended)]]
    /\ sessions' = Touched(r)
    /\ Done(r)
    /\ UNCHANGED <<account, resets, counter>>

-----------------------------------------------------------------------------
(* Revoking. *)

(* logout and terminate: one session; the caller's own must be active      *)
(* (get_current_user).                                                     *)
RevokeOne(r) ==
    /\ req[r].pc = "idle" /\ Live(sessions) # {}
    /\ \E s \in {x \in SessionIds : sessions[x].state # "none"} :
        req' = [req EXCEPT ![r].pc = "revoking", ![r].todo = {s}]
    /\ UNCHANGED <<Rows, counter>>

(* logout from all devices and terminate_all: the sessions active now. *)
RevokeAll(r) ==
    /\ req[r].pc = "idle" /\ Live(sessions) # {}
    /\ req' = [req EXCEPT ![r].pc = "revoking", ![r].todo = Live(sessions)]
    /\ UNCHANGED <<Rows, counter>>

(* revoke_session: one bulk update of the tokens it can see. *)
RevokeSession(r) ==
    /\ req[r].pc = "revoking"
    /\ \E s \in req[r].todo :
        req' = [req EXCEPT ![r].todo = @ \ {s}, ![r].ended = @ \cup {s},
                           ![r].hit = @ \cup {t \in Live(tokens) : tokens[t].session = s}]
    /\ UNCHANGED <<Rows, counter>>

(* The commit of a revocation, and of a password reset with it. *)
RevokeCommit(r) ==
    /\ req[r].pc = "revoking" /\ req[r].todo = {}
    /\ sessions' = [s \in SessionIds |-> IF s \in req[r].ended
                      THEN [sessions[s] EXCEPT !.state = "revoked"] ELSE sessions[s]]
    /\ tokens' = [t \in TokenIds |-> IF t \in req[r].hit
                      THEN [tokens[t] EXCEPT !.state = "consumed"] ELSE tokens[t]]
    /\ IF req[r].reset = 0 THEN UNCHANGED <<account, resets>>
       ELSE /\ account' = [account EXCEPT !.resets = @ + 1]
            /\ resets' = [resets EXCEPT ![req[r].reset] = "used"]
    /\ Done(r)
    /\ UNCHANGED counter

-----------------------------------------------------------------------------
(* Resetting the password. *)

ForgotPassword ==
    /\ account.exists
    /\ \E k \in ResetIds :
        /\ resets[k] = "none" /\ \A j \in 1 .. k - 1 : resets[j] # "none"
        /\ resets' = [resets EXCEPT ![k] = "fresh"]
    /\ UNCHANGED <<account, sessions, tokens, counter, req>>

(* An expired token is a token nobody uses. *)
ResetPassword(r) ==
    /\ req[r].pc = "idle"
    /\ \E k \in ResetIds :
        resets[k] = "fresh" /\ req' = [req EXCEPT ![r].pc = "resetting", ![r].reset = k]
    /\ UNCHANGED <<Rows, counter>>

(* A deviation: the reset ends the newest session only. *)
NewestSession == IF Live(sessions) = {} THEN {} ELSE {Max(Live(sessions))}

(* list_active_for_user *)
ActiveSessions == Live(sessions)

(* The new password is set and the sessions to end are listed. *)
ResetLists(r) ==
    /\ req[r].pc = "resetting"
    /\ req' = [req EXCEPT ![r].pc = "revoking", ![r].todo = ActiveSessions]
    /\ UNCHANGED <<Rows, counter>>

-----------------------------------------------------------------------------
Step(r) ==
    \/ RegisterCommit(r) \/ Verify(r) \/ CountFailure(r) \/ SetWindow(r)
    \/ ClearCounter(r) \/ OpenSession(r) \/ RotateCommit(r)
    \/ RevokeSession(r) \/ RevokeCommit(r) \/ ResetLists(r)

Next ==
    \/ \E r \in Requests :
        \/ Register(r) \/ LoginCheck(r) \/ OAuthLogin(r) \/ Rotate(r)
        \/ RevokeOne(r) \/ RevokeAll(r) \/ ResetPassword(r)
        \/ Step(r) \/ RedisFails(r) \/ Abort(r)
    \/ WindowEnds \/ ForgotPassword

Spec == Init /\ [][Next]_vars

-----------------------------------------------------------------------------
TypeOK ==
    /\ account \in Account
    /\ sessions \in [SessionIds -> SessionRow]
    /\ tokens \in [TokenIds -> TokenRow]
    /\ resets \in [ResetIds -> {"none", "fresh", "used"}]
    /\ counter \in [count : Nat, ttl : BOOLEAN, stuck : BOOLEAN]
    /\ req \in [Requests -> Request]

(* A usable refresh token of a revoked session comes from a rotation that  *)
(* overlapped the revocation; no rotation starts from a revoked session.   *)
TokensEndWithTheirSession ==
    \A t \in TokenIds :
        (tokens[t].state = "live" /\ sessions[tokens[t].session].state = "revoked")
            => tokens[t].late

(* Only a login that overlapped a password reset leaves a session that     *)
(* outlives it.                                                            *)
ResetEndsOldSessions ==
    \A s \in Live(sessions) : sessions[s].epoch < account.resets => sessions[s].overlapped

(* Failed logins are never counted without an end in sight: the key has a  *)
(* time to live, or the request that counted the first failure is about to *)
(* give it one, unless Redis failed on the command that opens the window.  *)
FailuresAreForgotten ==
    counter.count > 0 =>
        counter.ttl \/ counter.stuck \/ \E r \in Requests : req[r].pc = "expiring"
=============================================================================
