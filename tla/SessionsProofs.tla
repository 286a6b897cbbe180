---------------------------- MODULE SessionsProofs ----------------------------
(***************************************************************************)
(* What the sessions of an account guarantee for any number of requests,   *)
(* sessions, tokens and resets.  The rows carry no version, so nothing is  *)
(* compared at a commit; the argument is about what a revocation has       *)
(* listed and updated before it commits (EndedHit, ResetCovers).           *)
(***************************************************************************)
EXTENDS Sessions, WellFoundedInduction, TLAPS

(* A rotation works on a token that exists and has seen its session live. *)
RotationSound(x) ==
    x.pc = "rotating" => x.saw = "live" /\ tokens[x.token].state # "none"

(* Only sessions that exist are revoked. *)
EndsExisting(x) == \A s \in x.todo \cup x.ended : sessions[s].state # "none"

(* A revocation that has updated the tokens of a session has updated the   *)
(* usable ones, except those whose rotation it overlapped.                 *)
EndedHit(x) ==
    \A t \in TokenIds :
        tokens[t].state = "live" /\ tokens[t].session \in x.ended => t \in x.hit \/ tokens[t].late

(* A reset that is revoking has every live session on its list, except     *)
(* those that were opened since.                                           *)
ResetCovers(x) ==
    x.pc = "revoking" /\ x.reset # 0 =>
        \A s \in SessionIds : sessions[s].state = "live" =>
            s \in x.todo \cup x.ended \/ sessions[s].overlapped

Sound(x) ==
    /\ x.pc = "idle" => x.reset = 0
    /\ RotationSound(x) /\ EndsExisting(x) /\ EndedHit(x) /\ ResetCovers(x)

Inv ==
    /\ TypeOK
    /\ \A r \in Requests : Sound(req[r])
    /\ TokensEndWithTheirSession
    /\ ResetEndsOldSessions
    /\ FailuresAreForgotten

-----------------------------------------------------------------------------
(* The row that is inserted is a free one. *)
LEMMA MinIsMember ==
    ASSUME NEW S \in SUBSET Nat, S # {}
    PROVE  Min(S) \in S
<1>1. PICK x \in S : \A y \in S : <<y, x>> \notin OpToRel(<, Nat)
  BY NatLessThanWellFounded, WFMin
<1>2. \A y \in S : ~(y < x)
  BY <1>1 DEF OpToRel
<1>3. \A y \in S : x <= y
  BY <1>2
<1> QED BY <1>3 DEF Min

(* A request that is not there yet is sound whatever the rows are. *)
LEMMA IdleSound == Idle \in Request /\ Sound(Idle) /\ Sound(Idle)'
<1>1. Idle \in Request
  BY SessionsAssumption DEF Idle, Request, TokenIds
<1> QED BY <1>1 DEF Idle, Sound, RotationSound, EndsExisting, EndedHit, ResetCovers

(* A step of one request that leaves the rows alone. *)
LEMMA RowsStay ==
    ASSUME Inv, UNCHANGED Rows, NEW r \in Requests, NEW x \in Request,
           req' = [req EXCEPT ![r] = x], Sound(x)
    PROVE  /\ req' \in [Requests -> Request]
           /\ \A q \in Requests : Sound(req[q])'
           /\ TokensEndWithTheirSession' /\ ResetEndsOldSessions'
<1>1. req \in [Requests -> Request]
  BY DEF Inv, TypeOK
<1>2. TokensEndWithTheirSession' /\ ResetEndsOldSessions'
  BY DEF Inv, Rows, TokensEndWithTheirSession, ResetEndsOldSessions, Live
<1>3. ASSUME NEW q \in Requests PROVE Sound(req[q])'
  <2>1. Sound(req'[q])
    BY <1>1 DEF Inv
  <2> QED BY <2>1 DEF Sound, RotationSound, EndsExisting, EndedHit, ResetCovers, Rows
<1> QED BY <1>1, <1>2, <1>3

(* The same for a step that does not touch the counter and is not about to *)
(* open its window.                                                        *)
LEMMA CounterStays ==
    ASSUME Inv, UNCHANGED Rows, UNCHANGED counter, NEW r \in Requests, NEW x \in Request,
           req[r].pc # "expiring", req' = [req EXCEPT ![r] = x], Sound(x)
    PROVE  Inv'
<1>1. FailuresAreForgotten'
  BY DEF Inv, TypeOK, FailuresAreForgotten
<1> QED BY <1>1, RowsStay DEF Inv, TypeOK, Rows

(* A request that begins, looks or is rolled back. *)
LEMMA LooksKeep ==
    ASSUME Inv, NEW r \in Requests,
           \/ Register(r) \/ LoginCheck(r) \/ OAuthLogin(r) \/ Verify(r) \/ Rotate(r)
           \/ RevokeOne(r) \/ RevokeAll(r) \/ ResetPassword(r) \/ Abort(r)
    PROVE  Inv'
<1>1. /\ req \in [Requests -> Request] /\ req[r] \in Request /\ Sound(req[r])
      /\ account.resets \in Nat
  BY DEF Inv, TypeOK, Account
<1>2. ASSUME NEW pc \in {"registering", "check", "failing"}, Goto(r, pc),
             req[r].pc \in {"idle", "check"}, UNCHANGED <<Rows, counter>>
      PROVE  Inv'
  <2> DEFINE x == [req[r] EXCEPT !.pc = pc]
  <2>1. x \in Request /\ req' = [req EXCEPT ![r] = x]
    BY <1>1, <1>2 DEF Goto, Request
  <2>2. Sound(x)
    BY <1>1, <1>2 DEF Request, Sound, RotationSound, EndsExisting, EndedHit, ResetCovers
  <2> QED BY <1>2, <2>1, <2>2, CounterStays
<1>3. ASSUME NEW pc \in {"clearing", "opening"},
             req' = [req EXCEPT ![r].pc = pc, ![r].epoch = account.resets],
             req[r].pc \in {"idle", "check"}, UNCHANGED <<Rows, counter>>
      PROVE  Inv'
  <2> DEFINE x == [req[r] EXCEPT !.pc = pc, !.epoch = account.resets]
  <2>1. x \in Request /\ req' = [req EXCEPT ![r] = x]
    BY <1>1, <1>3 DEF Request
  <2>2. Sound(x)
    BY <1>1, <1>3 DEF Request, Sound, RotationSound, EndsExisting, EndedHit, ResetCovers
  <2> QED BY <1>3, <2>1, <2>2, CounterStays
<1>4. CASE Register(r) \/ LoginCheck(r)
  BY <1>2, <1>4 DEF Register, LoginCheck
<1>5. CASE OAuthLogin(r)
  BY <1>3, <1>5 DEF OAuthLogin
<1>6. CASE Verify(r)
  BY <1>2, <1>3, <1>6 DEF Verify
<1>7. CASE Rotate(r)
  <2>1. PICK t \in TokenIds :
          /\ Rotatable(t)
          /\ req' = [req EXCEPT ![r].pc = "rotating", ![r].token = t,
                                ![r].saw = sessions[tokens[t].session].state]
    BY <1>7 DEF Rotate
  <2> DEFINE x == [req[r] EXCEPT !.pc = "rotating", !.token = t, !.saw = "live"]
  <2>2. req[r].pc = "idle" /\ UNCHANGED <<Rows, counter>>
    BY <1>7 DEF Rotate
  <2>3. x \in Request /\ req' = [req EXCEPT ![r] = x]
    BY <1>1, <2>1 DEF Request, Rotatable
  <2>4. Sound(x)
    BY <1>1, <2>1 DEF Request, Sound, RotationSound, EndsExisting, EndedHit, ResetCovers, Rotatable
  <2> QED BY <2>2, <2>3, <2>4, CounterStays
<1>8. ASSUME NEW T \in SUBSET SessionIds, \A s \in T : sessions[s].state # "none",
             req[r].pc = "idle", UNCHANGED <<Rows, counter>>,
             req' = [req EXCEPT ![r].pc = "revoking", ![r].todo = T]
      PROVE  Inv'
  <2> DEFINE x == [req[r] EXCEPT !.pc = "revoking", !.todo = T]
  <2>1. x \in Request /\ req' = [req EXCEPT ![r] = x]
    BY <1>1, <1>8 DEF Request
  <2>2. Sound(x)
    BY <1>1, <1>8 DEF Request, Sound, RotationSound, EndsExisting, EndedHit, ResetCovers
  <2> QED BY <1>8, <2>1, <2>2, CounterStays
<1>9. CASE RevokeOne(r)
  <2>1. PICK s \in SessionIds :
          /\ sessions[s].state # "none"
          /\ req' = [req EXCEPT ![r].pc = "revoking", ![r].todo = {s}]
    BY <1>9 DEF RevokeOne
  <2>2. {s} \in SUBSET SessionIds /\ \A z \in {s} : sessions[z].state # "none"
    BY <2>1
  <2>3. req[r].pc = "idle" /\ UNCHANGED <<Rows, counter>>
    BY <1>9 DEF RevokeOne
  <2> QED BY <1>8, <2>1, <2>2, <2>3
<1>10. CASE RevokeAll(r)
  <2>1. Live(sessions) \in SUBSET SessionIds /\ \A s \in Live(sessions) : sessions[s].state # "none"
    BY DEF Live, Inv, TypeOK
  <2> QED BY <1>8, <1>10, <2>1 DEF RevokeAll
<1>11. CASE ResetPassword(r)
  <2>1. PICK k \in ResetIds : req' = [req EXCEPT ![r].pc = "resetting", ![r].reset = k]
    BY <1>11 DEF ResetPassword
  <2> DEFINE x == [req[r] EXCEPT !.pc = "resetting", !.reset = k]
  <2>2. x \in Request /\ req' = [req EXCEPT ![r] = x]
    BY <1>1, <2>1 DEF Request
  <2>3. Sound(x)
    BY <1>1 DEF Request, Sound, RotationSound, EndsExisting, EndedHit, ResetCovers
  <2> QED BY <1>11, <2>2, <2>3, CounterStays DEF ResetPassword
<1>12. CASE Abort(r)
  BY <1>12, IdleSound, CounterStays DEF Abort, Done
<1> QED BY <1>4, <1>5, <1>6, <1>7, <1>9, <1>10, <1>11, <1>12

(* A revocation lists the sessions, and updates the tokens of one. *)
LEMMA RevocationKeeps ==
    ASSUME Inv, NEW r \in Requests, RevokeSession(r) \/ ResetLists(r)
    PROVE  Inv'
<1>1. /\ req \in [Requests -> Request] /\ req[r] \in Request /\ Sound(req[r])
      /\ sessions \in [SessionIds -> SessionRow] /\ tokens \in [TokenIds -> TokenRow]
  BY DEF Inv, TypeOK
<1>2. CASE RevokeSession(r)
  <2> DEFINE H(s) == {t \in Live(tokens) : tokens[t].session = s}
  <2>1. PICK s \in req[r].todo :
          req' = [req EXCEPT ![r].todo = @ \ {s}, ![r].ended = @ \cup {s}, ![r].hit = @ \cup H(s)]
    BY <1>2 DEF RevokeSession
  <2>2. req[r].pc = "revoking" /\ UNCHANGED <<Rows, counter>>
    BY <1>2 DEF RevokeSession
  <2> DEFINE x == [req[r] EXCEPT !.todo = @ \ {s}, !.ended = @ \cup {s}, !.hit = @ \cup H(s)]
  <2>3. H(s) \in SUBSET TokenIds
    BY <1>1 DEF Live
  <2>4. \A t \in TokenIds : tokens[t].state = "live" /\ tokens[t].session = s => t \in H(s)
    BY <1>1 DEF Live
  <2> HIDE DEF H
  <2>5. x \in Request /\ req' = [req EXCEPT ![r] = x]
    BY <1>1, <2>1, <2>3 DEF Request
  <2>6. /\ x.pc = "revoking" /\ x.reset = req[r].reset
        /\ x.todo = req[r].todo \ {s} /\ x.ended = req[r].ended \cup {s}
        /\ x.hit = req[r].hit \cup H(s)
    BY <1>1, <2>2 DEF Request
  <2> HIDE DEF x
  <2>7. EndedHit(x)
    BY <1>1, <2>4, <2>6 DEF Sound, EndedHit
  <2>8. ResetCovers(x)
    BY <1>1, <2>2, <2>6 DEF Sound, ResetCovers
  <2>9. EndsExisting(x) /\ RotationSound(x)
    BY <1>1, <2>6 DEF Sound, EndsExisting, RotationSound
  <2>10. Sound(x)
    BY <2>6, <2>7, <2>8, <2>9 DEF Sound
  <2> QED BY <2>2, <2>5, <2>10, CounterStays
<1>3. CASE ResetLists(r)
  <2> DEFINE x == [req[r] EXCEPT !.pc = "revoking", !.todo = ActiveSessions]
  <2>1. /\ req[r].pc = "resetting" /\ UNCHANGED <<Rows, counter>>
        /\ req' = [req EXCEPT ![r].pc = "revoking", ![r].todo = ActiveSessions]
    BY <1>3 DEF ResetLists
  <2>2. /\ ActiveSessions \in SUBSET SessionIds
        /\ \A s \in SessionIds : s \in ActiveSessions <=> sessions[s].state = "live"
    BY <1>1 DEF ActiveSessions, Live
  <2>3. x \in Request /\ req' = [req EXCEPT ![r] = x]
    BY <1>1, <2>1, <2>2 DEF Request
  <2>4. /\ x.pc = "revoking" /\ x.todo = ActiveSessions
        /\ x.ended = req[r].ended /\ x.hit = req[r].hit
    BY <1>1 DEF Request
  <2> HIDE DEF x
  <2>5. Sound(x)
    BY <1>1, <2>2, <2>4 DEF Sound, RotationSound, EndsExisting, EndedHit, ResetCovers
  <2> QED BY <2>1, <2>3, <2>5, CounterStays
<1> QED BY <1>2, <1>3

(* The counter of failed logins. *)
LEMMA CounterKeeps ==
    ASSUME Inv, NEW r \in Requests,
           CountFailure(r) \/ SetWindow(r) \/ RedisFails(r) \/ ClearCounter(r)
    PROVE  Inv'
<1>1. /\ req \in [Requests -> Request] /\ req[r] \in Request /\ Sound(req[r])
      /\ counter \in [count : Nat, ttl : BOOLEAN, stuck : BOOLEAN]
  BY DEF Inv, TypeOK
<1>2. ASSUME NEW x \in Request, Sound(x), req' = [req EXCEPT ![r] = x], UNCHANGED Rows,
             counter' \in [count : Nat, ttl : BOOLEAN, stuck : BOOLEAN], FailuresAreForgotten'
      PROVE  Inv'
  BY <1>2, RowsStay DEF Inv, TypeOK, Rows
<1>3. ASSUME NEW pc \in {"expiring", "opening"}, req[r].pc \in {"failing", "clearing"}, Goto(r, pc)
      PROVE  \E x \in Request : Sound(x) /\ x.pc = pc /\ req' = [req EXCEPT ![r] = x]
  <2> DEFINE x == [req[r] EXCEPT !.pc = pc]
  <2>1. x \in Request /\ x.pc = pc /\ req' = [req EXCEPT ![r] = x]
    BY <1>1, <1>3 DEF Goto, Request
  <2>2. Sound(x)
    BY <1>1, <1>3 DEF Request, Sound, RotationSound, EndsExisting, EndedHit, ResetCovers
  <2> QED BY <2>1, <2>2
<1>4. ASSUME Done(r), UNCHANGED Rows,
             counter' \in [count : Nat, ttl : BOOLEAN, stuck : BOOLEAN], FailuresAreForgotten'
      PROVE  Inv'
  BY <1>2, <1>4, IdleSound DEF Done
<1>5. ASSUME UNCHANGED Rows, Goto(r, "opening"), req[r].pc = "clearing", counter' \in {counter, NoKey}
      PROVE  Inv'
  <2>1. PICK x \in Request : Sound(x) /\ x.pc = "opening" /\ req' = [req EXCEPT ![r] = x]
    BY <1>3, <1>5
  <2>2. counter' \in [count : Nat, ttl : BOOLEAN, stuck : BOOLEAN]
    <3>1. NoKey \in [count : Nat, ttl : BOOLEAN, stuck : BOOLEAN]
      BY DEF NoKey
    <3> QED BY <1>1, <1>5, <3>1
  <2>3. FailuresAreForgotten'
    BY <1>1, <1>5, <2>1 DEF NoKey, Inv, FailuresAreForgotten
  <2> QED BY <1>2, <1>5, <2>1, <2>2, <2>3
<1>6. /\ Incremented \in [count : Nat, ttl : BOOLEAN, stuck : BOOLEAN]
      /\ Incremented.count = counter.count + 1 /\ Incremented.ttl = counter.ttl
      /\ Incremented.stuck = counter.stuck
  BY <1>1 DEF Incremented
<1>7. CASE CountFailure(r)
  <2>1. /\ req[r].pc = "failing" /\ counter' = Incremented /\ UNCHANGED Rows
        /\ IF OpensWindow THEN Goto(r, "expiring") ELSE Done(r)
    BY <1>7 DEF CountFailure
  <2>2. CASE OpensWindow
    <3>1. PICK x \in Request : Sound(x) /\ x.pc = "expiring" /\ req' = [req EXCEPT ![r] = x]
      BY <1>3, <2>1, <2>2
    <3>2. FailuresAreForgotten'
      BY <1>1, <3>1 DEF FailuresAreForgotten
    <3> QED BY <1>2, <1>6, <2>1, <3>1, <3>2
  <2>3. CASE ~OpensWindow
    <3>1. Done(r)
      BY <2>1, <2>3
    <3>2. counter.count > 0
      BY <1>1, <2>3 DEF OpensWindow
    <3>3. FailuresAreForgotten'
      BY <1>1, <1>6, <2>1, <3>1, <3>2 DEF FailuresAreForgotten, Inv, Done
    <3> QED BY <1>4, <1>6, <2>1, <3>1, <3>3
  <2> QED BY <2>2, <2>3
<1>8. ASSUME Done(r), UNCHANGED Rows, req[r].pc = "expiring",
             counter' = [counter EXCEPT !.ttl = counter.count > 0]
      PROVE  Inv'
  <2>1. counter' \in [count : Nat, ttl : BOOLEAN, stuck : BOOLEAN]
    <3>1. (counter.count > 0) \in BOOLEAN
      BY <1>1
    <3>2. \A b \in BOOLEAN :
            [counter EXCEPT !.ttl = b] \in [count : Nat, ttl : BOOLEAN, stuck : BOOLEAN]
      BY <1>1
    <3> QED BY <1>8, <3>1, <3>2
  <2>2. FailuresAreForgotten'
    BY <1>1, <1>8 DEF FailuresAreForgotten
  <2> QED BY <1>4, <1>8, <2>1, <2>2
<1>9. CASE SetWindow(r)
  BY <1>8, <1>9 DEF SetWindow
<1>10. CASE ClearCounter(r)
  BY <1>5, <1>10 DEF ClearCounter
<1>11. CASE RedisFails(r)
  <2>1. CASE /\ req[r].pc = "failing" /\ Done(r) /\ UNCHANGED Rows
             /\ counter' \in {counter, [Incremented EXCEPT !.stuck = @ \/ OpensWindow]}
    <3>1. counter' \in [count : Nat, ttl : BOOLEAN, stuck : BOOLEAN]
      BY <1>1, <1>6, <2>1 DEF OpensWindow
    <3>2. FailuresAreForgotten'
      <4>1. CASE counter' = counter
        BY <1>1, <2>1, <4>1 DEF FailuresAreForgotten, Inv, Done
      <4>2. CASE counter' = [Incremented EXCEPT !.stuck = @ \/ OpensWindow]
        <5>1. /\ counter'.ttl = counter.ttl
              /\ counter'.stuck = (counter.stuck \/ OpensWindow)
          BY <1>6, <4>2
        <5>2. ~OpensWindow => counter.count > 0
          BY <1>1 DEF OpensWindow
        <5> QED BY <1>1, <2>1, <5>1, <5>2 DEF FailuresAreForgotten, Inv, Done
      <4> QED BY <2>1, <4>1, <4>2
    <3> QED BY <1>4, <2>1, <3>1, <3>2
  <2>2. CASE /\ req[r].pc = "expiring" /\ Done(r) /\ UNCHANGED Rows
             /\ counter' = [counter EXCEPT !.stuck = @ \/ counter.count > 0]
    <3>1. counter' \in [count : Nat, ttl : BOOLEAN, stuck : BOOLEAN]
      BY <1>1, <2>2
    <3>2. FailuresAreForgotten'
      BY <1>1, <2>2 DEF FailuresAreForgotten
    <3> QED BY <1>4, <2>2, <3>1, <3>2
  <2> QED BY <1>5, <1>8, <1>11, <2>1, <2>2 DEF RedisFails
<1> QED BY <1>7, <1>9, <1>10, <1>11

(* Redis drops the key; a reset token is sent. *)
LEMMA OutsideKeeps ==
    ASSUME Inv, WindowEnds \/ ForgotPassword
    PROVE  Inv'
<1>1. CASE WindowEnds
  <2>1. counter' = NoKey /\ UNCHANGED <<Rows, req>>
    BY <1>1 DEF WindowEnds
  <2>2. FailuresAreForgotten' /\ counter' \in [count : Nat, ttl : BOOLEAN, stuck : BOOLEAN]
    BY <2>1 DEF NoKey, FailuresAreForgotten
  <2>3. \A r \in Requests : Sound(req[r])'
    BY <2>1 DEF Inv, Rows, Sound, RotationSound, EndsExisting, EndedHit, ResetCovers
  <2> QED BY <2>1, <2>2, <2>3 DEF Inv, TypeOK, Rows, TokensEndWithTheirSession,
                                  ResetEndsOldSessions, Live
<1>2. CASE ForgotPassword
  <2>1. PICK k \in ResetIds : resets' = [resets EXCEPT ![k] = "fresh"]
    BY <1>2 DEF ForgotPassword
  <2>2. UNCHANGED <<account, sessions, tokens, counter, req>>
    BY <1>2 DEF ForgotPassword
  <2>3. \A r \in Requests : Sound(req[r])'
    BY <2>2 DEF Inv, Sound, RotationSound, EndsExisting, EndedHit, ResetCovers
  <2> QED BY <2>1, <2>2, <2>3 DEF Inv, TypeOK, TokensEndWithTheirSession,
                                  ResetEndsOldSessions, FailuresAreForgotten, Live
<1> QED BY <1>1, <1>2

(* A request that commits is gone; the others stay as they are. *)
LEMMA DoneKeeps ==
    ASSUME Inv, NEW r \in Requests, Done(r), req[r].pc # "expiring", UNCHANGED counter,
           \A q \in Requests \ {r} : Sound(req[q]) => Sound(req[q])',
           account' \in Account, sessions' \in [SessionIds -> SessionRow],
           tokens' \in [TokenIds -> TokenRow], resets' \in [ResetIds -> {"none", "fresh", "used"}],
           TokensEndWithTheirSession', ResetEndsOldSessions'
    PROVE  Inv'
<1>1. req \in [Requests -> Request] /\ req' = [req EXCEPT ![r] = Idle]
  BY DEF Inv, TypeOK, Done
<1>2. ASSUME NEW q \in Requests PROVE Sound(req[q])'
  <2>1. CASE q = r
    <3>1. req'[q] = Idle
      BY <1>1, <2>1
    <3> QED BY <3>1, IdleSound DEF Sound, RotationSound, EndsExisting, EndedHit, ResetCovers
  <2>2. CASE q # r
    <3>1. Sound(req[q]) => Sound(req[q])'
      BY <2>2
    <3> QED BY <3>1 DEF Inv
  <2> QED BY <2>1, <2>2
<1>3. FailuresAreForgotten'
  BY <1>1 DEF Inv, FailuresAreForgotten
<1> QED BY <1>1, <1>2, <1>3, IdleSound DEF Inv, TypeOK

(* register. *)
LEMMA RegisterKeeps ==
    ASSUME Inv, NEW r \in Requests, RegisterCommit(r)
    PROVE  Inv'
<1>1. /\ req[r].pc = "registering" /\ account' = [account EXCEPT !.exists = TRUE] /\ Done(r)
      /\ UNCHANGED <<sessions, tokens, resets, counter>>
  BY DEF RegisterCommit
<1>2. /\ account' \in Account /\ account'.resets = account.resets
      /\ sessions \in [SessionIds -> SessionRow] /\ tokens \in [TokenIds -> TokenRow]
      /\ resets \in [ResetIds -> {"none", "fresh", "used"}]
      /\ req \in [Requests -> Request]
  BY <1>1 DEF Inv, TypeOK, Account
<1>3. ASSUME NEW q \in Requests \ {r}, Sound(req[q]) PROVE Sound(req[q])'
  <2>1. req'[q] = req[q]
    BY <1>1, <1>2 DEF Done
  <2> QED BY <1>1, <1>3, <2>1 DEF Sound, RotationSound, EndsExisting, EndedHit, ResetCovers
<1>4. TokensEndWithTheirSession' /\ ResetEndsOldSessions'
  BY <1>1, <1>2 DEF Inv, TokensEndWithTheirSession, ResetEndsOldSessions, Live
<1> QED BY <1>1, <1>2, <1>3, <1>4, DoneKeeps

(* The numbers of rows that are free. *)
LEMMA FreeRow ==
    ASSUME TypeOK
    PROVE  /\ Free(sessions) # {} =>
                Min(Free(sessions)) \in SessionIds /\ sessions[Min(Free(sessions))].state = "none"
           /\ Free(tokens) # {} =>
                Min(Free(tokens)) \in TokenIds /\ tokens[Min(Free(tokens))].state = "none"
<1>1. Free(sessions) \in SUBSET Nat /\ Free(tokens) \in SUBSET Nat
  BY SessionsAssumption DEF TypeOK, Free, SessionIds, TokenIds
<1>2. /\ Free(sessions) # {} => Min(Free(sessions)) \in Free(sessions)
      /\ Free(tokens) # {} => Min(Free(tokens)) \in Free(tokens)
  BY <1>1, MinIsMember
<1> QED BY <1>2 DEF TypeOK, Free

(* A login. *)
LEMMA OpenKeeps ==
    ASSUME Inv, NEW r \in Requests, OpenSession(r)
    PROVE  Inv'
<1> DEFINE s == Min(Free(sessions))
           n == Min(Free(tokens))
           row == [state |-> "live", epoch |-> req[r].epoch,
                   overlapped |-> ResetUnderWay \/ account.resets # req[r].epoch]
           tok == [state |-> "live", session |-> s, late |-> FALSE]
<1>1. /\ req[r].pc = "opening" /\ Free(sessions) # {} /\ Free(tokens) # {}
      /\ sessions' = [sessions EXCEPT ![s] = row] /\ tokens' = [tokens EXCEPT ![n] = tok]
      /\ Done(r) /\ UNCHANGED <<account, resets, counter>>
  BY DEF OpenSession
<1>2. TypeOK
  BY DEF Inv
<1>3. s \in SessionIds /\ sessions[s].state = "none" /\ n \in TokenIds /\ tokens[n].state = "none"
  BY <1>1, <1>2, FreeRow
<1>4. /\ sessions \in [SessionIds -> SessionRow] /\ tokens \in [TokenIds -> TokenRow]
      /\ req \in [Requests -> Request] /\ req[r] \in Request
      /\ account \in Account /\ resets \in [ResetIds -> {"none", "fresh", "used"}]
  BY <1>2 DEF TypeOK
<1> HIDE DEF s, n
<1>5. row \in SessionRow /\ row.state = "live" /\ row.epoch = req[r].epoch
      /\ row.overlapped = (ResetUnderWay \/ account.resets # req[r].epoch)
  BY <1>4 DEF SessionRow, Request
<1>6. tok \in TokenRow /\ tok.state = "live" /\ tok.session = s
  BY <1>3 DEF TokenRow
<1> HIDE DEF row, tok
<1>7. /\ sessions'[s] = row /\ \A z \in SessionIds \ {s} : sessions'[z] = sessions[z]
      /\ tokens'[n] = tok /\ \A t \in TokenIds \ {n} : tokens'[t] = tokens[t]
      /\ sessions' \in [SessionIds -> SessionRow] /\ tokens' \in [TokenIds -> TokenRow]
  BY <1>1, <1>3, <1>4, <1>5, <1>6
<1>8. ASSUME NEW q \in Requests \ {r}, Sound(req[q]) PROVE Sound(req[q])'
  <2>1. req'[q] = req[q] /\ req[q] \in Request
    BY <1>1, <1>4 DEF Done
  <2>2. /\ req[q].token \in TokenIds /\ req[q].ended \subseteq SessionIds
        /\ req[q].todo \subseteq SessionIds
    BY <2>1 DEF Request
  <2>3. RotationSound(req[q])'
    BY <1>6, <1>7, <1>8, <2>1, <2>2 DEF Sound, RotationSound
  <2>4. EndsExisting(req[q])'
    BY <1>5, <1>7, <1>8, <2>1, <2>2 DEF Sound, EndsExisting
  <2>5. s \notin req[q].ended
    BY <1>3, <1>8 DEF Sound, EndsExisting
  <2>6. EndedHit(req[q])'
    BY <1>6, <1>7, <1>8, <2>1, <2>5 DEF Sound, EndedHit
  <2>7. ASSUME req[q].pc = "revoking", req[q].reset # 0 PROVE row.overlapped
    BY <1>5, <2>7 DEF ResetUnderWay
  <2>8. ResetCovers(req[q])'
    BY <1>7, <1>8, <2>1, <2>7 DEF Sound, ResetCovers
  <2> QED BY <1>8, <2>1, <2>3, <2>4, <2>6, <2>8 DEF Sound
<1>9. TokensEndWithTheirSession'
  <2> SUFFICES ASSUME NEW t \in TokenIds, tokens'[t].state = "live",
                      sessions'[tokens'[t].session].state = "revoked"
               PROVE  tokens'[t].late
    BY DEF TokensEndWithTheirSession
  <2>1. tokens'[t].session \in SessionIds
    BY <1>7 DEF TokenRow
  <2>2. tokens'[t].session # s
    BY <1>5, <1>7
  <2>3. t # n /\ tokens'[t] = tokens[t]
    BY <1>6, <1>7, <2>2
  <2> QED BY <1>7, <2>1, <2>2, <2>3 DEF Inv, TokensEndWithTheirSession
<1>10. ResetEndsOldSessions'
  <2> SUFFICES ASSUME NEW z \in SessionIds, sessions'[z].state = "live",
                      sessions'[z].epoch < account.resets
               PROVE  sessions'[z].overlapped
    BY <1>1, <1>7 DEF ResetEndsOldSessions, Live
  <2>1. CASE z = s
    <3>1. account.resets # req[r].epoch
      BY <1>4, <1>5, <1>7, <2>1 DEF Account, Request
    <3> QED BY <1>5, <1>7, <2>1, <3>1
  <2>2. CASE z # s
    BY <1>4, <1>7, <2>2 DEF Inv, ResetEndsOldSessions, Live
  <2> QED BY <2>1, <2>2
<1> QED BY <1>1, <1>4, <1>7, <1>8, <1>9, <1>10, DoneKeeps

(* A rotation. *)
LEMMA RotateKeeps ==
    ASSUME Inv, NEW r \in Requests, RotateCommit(r)
    PROVE  Inv'
<1> DEFINE o == req[r].token
           n == Min(Free(tokens))
           s == tokens[o].session
           tok == [state |-> "live", session |-> s,
                   late |-> req[r].saw = "live" /\
                              (sessions[s].state = "revoked" \/ \E q \in Requests : s \in req[q].ended)]
<1>1. /\ req[r].pc = "rotating" /\ Free(tokens) # {}
      /\ tokens' = [tokens EXCEPT ![o].state = "consumed", ![n] = tok]
      /\ Done(r) /\ UNCHANGED <<account, sessions, resets, counter>>
  BY DEF RotateCommit, Touched
<1>2. TypeOK
  BY DEF Inv
<1>3. n \in TokenIds /\ tokens[n].state = "none"
  BY <1>1, <1>2, FreeRow
<1>4. /\ sessions \in [SessionIds -> SessionRow] /\ tokens \in [TokenIds -> TokenRow]
      /\ req \in [Requests -> Request] /\ req[r] \in Request
      /\ account \in Account /\ resets \in [ResetIds -> {"none", "fresh", "used"}]
  BY <1>2 DEF TypeOK
<1>5. o \in TokenIds /\ s \in SessionIds
  <2>1. o \in TokenIds
    BY <1>4 DEF Request
  <2> QED BY <1>4, <2>1 DEF TokenRow
<1>6. req[r].saw = "live" /\ tokens[o].state # "none"
  BY <1>1 DEF Inv, Sound, RotationSound
<1> HIDE DEF n, o, s
<1>7. /\ tok \in TokenRow /\ tok.state = "live" /\ tok.session = s
      /\ tok.late = (sessions[s].state = "revoked" \/ \E q \in Requests : s \in req[q].ended)
  BY <1>5, <1>6 DEF TokenRow
<1> HIDE DEF tok
<1>8. /\ n # o /\ tokens'[n] = tok /\ tokens'[o].state = "consumed"
      /\ \A t \in TokenIds \ {n, o} : tokens'[t] = tokens[t]
      /\ tokens' \in [TokenIds -> TokenRow]
  BY <1>1, <1>3, <1>4, <1>5, <1>6, <1>7 DEF TokenRow
<1>9. ASSUME NEW q \in Requests \ {r}, Sound(req[q]) PROVE Sound(req[q])'
  <2>1. req'[q] = req[q] /\ req[q] \in Request
    BY <1>1, <1>4 DEF Done
  <2>2. req[q].token \in TokenIds
    BY <2>1 DEF Request
  <2>3. RotationSound(req[q])'
    BY <1>7, <1>8, <1>9, <2>1, <2>2 DEF Sound, RotationSound
  <2>4. EndsExisting(req[q])' /\ ResetCovers(req[q])'
    BY <1>1, <1>9, <2>1 DEF Sound, EndsExisting, ResetCovers
  <2>5. EndedHit(req[q])'
    <3> SUFFICES ASSUME NEW t \in TokenIds, tokens'[t].state = "live",
                        tokens'[t].session \in req[q].ended
                 PROVE  t \in req[q].hit \/ tokens'[t].late
      BY <2>1 DEF EndedHit
    <3>1. CASE t = n
      BY <1>7, <1>8, <3>1
    <3>2. CASE t # n
      <4>1. tokens'[t] = tokens[t]
        BY <1>8, <3>2
      <4> QED BY <1>9, <4>1 DEF Sound, EndedHit
    <3> QED BY <3>1, <3>2
  <2> QED BY <1>9, <2>1, <2>3, <2>4, <2>5 DEF Sound
<1>10. TokensEndWithTheirSession'
  <2> SUFFICES ASSUME NEW t \in TokenIds, tokens'[t].state = "live",
                      sessions[tokens'[t].session].state = "revoked"
               PROVE  tokens'[t].late
    BY <1>1 DEF TokensEndWithTheirSession
  <2>1. CASE t = n
    BY <1>7, <1>8, <2>1
  <2>2. CASE t # n
    <3>1. tokens'[t] = tokens[t]
      BY <1>8, <2>2
    <3> QED BY <3>1 DEF Inv, TokensEndWithTheirSession
  <2> QED BY <2>1, <2>2
<1>11. ResetEndsOldSessions'
  BY <1>1 DEF Inv, ResetEndsOldSessions, Live
<1> QED BY <1>1, <1>4, <1>8, <1>9, <1>10, <1>11, DoneKeeps

(* A revocation, and a password reset with it. *)
LEMMA RevokeKeeps ==
    ASSUME Inv, NEW r \in Requests, RevokeCommit(r)
    PROVE  Inv'
<1>1. /\ req[r].pc = "revoking" /\ req[r].todo = {}
      /\ sessions' = [s \in SessionIds |-> IF s \in req[r].ended
                        THEN [sessions[s] EXCEPT !.state = "revoked"] ELSE sessions[s]]
      /\ tokens' = [t \in TokenIds |-> IF t \in req[r].hit
                        THEN [tokens[t] EXCEPT !.state = "consumed"] ELSE tokens[t]]
      /\ Done(r) /\ UNCHANGED counter
  BY DEF RevokeCommit
<1>2. /\ sessions \in [SessionIds -> SessionRow] /\ tokens \in [TokenIds -> TokenRow]
      /\ req \in [Requests -> Request] /\ req[r] \in Request /\ Sound(req[r])
      /\ account \in Account /\ resets \in [ResetIds -> {"none", "fresh", "used"}]
  BY DEF Inv, TypeOK
<1>3. /\ sessions' \in [SessionIds -> SessionRow]
      /\ \A s \in SessionIds :
            IF s \in req[r].ended THEN sessions'[s].state = "revoked"
                                  ELSE sessions'[s] = sessions[s]
  BY <1>1, <1>2 DEF SessionRow
<1>4. /\ tokens' \in [TokenIds -> TokenRow]
      /\ \A t \in TokenIds :
            /\ tokens'[t].session = tokens[t].session
            /\ IF t \in req[r].hit THEN tokens'[t].state = "consumed"
                                   ELSE tokens'[t] = tokens[t]
  BY <1>1, <1>2 DEF TokenRow
<1>5. /\ account' \in Account /\ resets' \in [ResetIds -> {"none", "fresh", "used"}]
      /\ account.resets \in Nat
      /\ account'.resets = IF req[r].reset = 0 THEN account.resets ELSE account.resets + 1
  <2>1. CASE req[r].reset = 0
    <3>1. UNCHANGED <<account, resets>>
      BY <2>1 DEF RevokeCommit
    <3> QED BY <1>2, <2>1, <3>1 DEF Account
  <2>2. CASE req[r].reset # 0
    <3>1. /\ account' = [account EXCEPT !.resets = @ + 1]
          /\ resets' = [resets EXCEPT ![req[r].reset] = "used"]
      BY <2>2 DEF RevokeCommit
    <3>2. resets' \in [ResetIds -> {"none", "fresh", "used"}]
      BY <1>2, <3>1
    <3>3. account' \in Account /\ account.resets \in Nat /\ account'.resets = account.resets + 1
      BY <1>2, <3>1 DEF Account
    <3> QED BY <2>2, <3>2, <3>3
  <2> QED BY <2>1, <2>2
<1>6. ASSUME NEW q \in Requests \ {r}, Sound(req[q]) PROVE Sound(req[q])'
  <2>1. req'[q] = req[q] /\ req[q] \in Request
    BY <1>1, <1>2 DEF Done
  <2>2. /\ req[q].token \in TokenIds /\ req[q].ended \subseteq SessionIds
        /\ req[q].todo \subseteq SessionIds
    BY <2>1 DEF Request
  <2>3. RotationSound(req[q])'
    BY <1>4, <1>6, <2>1, <2>2 DEF Sound, RotationSound
  <2>4. EndsExisting(req[q])'
    BY <1>3, <1>6, <2>1, <2>2 DEF Sound, EndsExisting
  <2>5. EndedHit(req[q])'
    BY <1>4, <1>6, <2>1 DEF Sound, EndedHit
  <2>6. ResetCovers(req[q])'
    BY <1>3, <1>6, <2>1 DEF Sound, ResetCovers
  <2> QED BY <1>6, <2>1, <2>3, <2>4, <2>5, <2>6 DEF Sound
<1>7. TokensEndWithTheirSession'
  <2> SUFFICES ASSUME NEW t \in TokenIds, tokens'[t].state = "live",
                      sessions'[tokens'[t].session].state = "revoked"
               PROVE  tokens'[t].late
    BY DEF TokensEndWithTheirSession
  <2>1. t \notin req[r].hit /\ tokens'[t] = tokens[t]
    BY <1>4
  <2>2. tokens[t].session \in SessionIds
    BY <1>2 DEF TokenRow
  <2>3. CASE tokens[t].session \in req[r].ended
    BY <1>2, <2>1, <2>3 DEF Sound, EndedHit
  <2>4. CASE tokens[t].session \notin req[r].ended
    <3>1. sessions[tokens[t].session].state = "revoked"
      BY <1>3, <2>1, <2>2, <2>4
    <3> QED BY <2>1, <3>1 DEF Inv, TokensEndWithTheirSession
  <2> QED BY <2>3, <2>4
<1>8. ResetEndsOldSessions'
  <2> SUFFICES ASSUME NEW s \in SessionIds, sessions'[s].state = "live",
                      sessions'[s].epoch < account'.resets
               PROVE  sessions'[s].overlapped
    BY <1>3 DEF ResetEndsOldSessions, Live
  <2>1. s \notin req[r].ended /\ sessions'[s] = sessions[s]
    BY <1>3
  <2>2. CASE req[r].reset = 0
    BY <1>2, <1>5, <2>1, <2>2 DEF Inv, ResetEndsOldSessions, Live
  <2>3. CASE req[r].reset # 0
    BY <1>1, <1>2, <2>1, <2>3 DEF Sound, ResetCovers
  <2> QED BY <2>2, <2>3
<1> QED BY <1>1, <1>3, <1>4, <1>5, <1>6, <1>7, <1>8, DoneKeeps

(* Inv holds before anyone has registered. *)
LEMMA InitInv == Init => Inv
<1> SUFFICES ASSUME Init PROVE Inv
  OBVIOUS
<1>1. TypeOK
  BY SessionsAssumption, IdleSound DEF Init, TypeOK, Account, SessionRow, TokenRow, SessionIds
<1>2. \A r \in Requests : Sound(req[r])
  BY IdleSound DEF Init
<1>3. TokensEndWithTheirSession /\ ResetEndsOldSessions /\ FailuresAreForgotten
  BY DEF Init, TokensEndWithTheirSession, ResetEndsOldSessions, FailuresAreForgotten, Live
<1> QED BY <1>1, <1>2, <1>3 DEF Inv

(* Inv is inductive. *)
THEOREM Invariance == Spec => []Inv
<1>1. Inv /\ [Next]_vars => Inv'
  <2> SUFFICES ASSUME Inv, [Next]_vars PROVE Inv'
    OBVIOUS
  <2>1. CASE UNCHANGED vars
    <3>1. \A r \in Requests : Sound(req[r])'
      BY <2>1 DEF Inv, vars, Sound, RotationSound, EndsExisting, EndedHit, ResetCovers
    <3> QED BY <2>1, <3>1 DEF Inv, TypeOK, vars, TokensEndWithTheirSession,
                              ResetEndsOldSessions, FailuresAreForgotten, Live
  <2>2. CASE Next
    BY <2>2, LooksKeep, RevocationKeeps, CounterKeeps, OutsideKeeps, RegisterKeeps, OpenKeeps,
       RotateKeeps, RevokeKeeps DEF Next, Step
  <2> QED BY <2>1, <2>2
<1> QED BY <1>1, InitInv, PTL DEF Spec

(* The rows of an account, its counter and its requests keep their shapes. *)
THEOREM TypeCorrect == Spec => []TypeOK
<1>1. Inv => TypeOK
  BY DEF Inv
<1> QED BY <1>1, Invariance, PTL

(* revoke_session and rotate: for any number of overlapping rotations and  *)
(* revocations, only a rotation that overlapped the revocation leaves a    *)
(* usable token of a revoked session.                                      *)
THEOREM TokensEnd == Spec => []TokensEndWithTheirSession
<1>1. Inv => TokensEndWithTheirSession
  BY DEF Inv
<1> QED BY <1>1, Invariance, PTL

(* reset_password: for any number of logins and resets, a session that     *)
(* outlives a reset was opened by a login that overlapped it.              *)
THEOREM SessionsEnd == Spec => []ResetEndsOldSessions
<1>1. Inv => ResetEndsOldSessions
  BY DEF Inv
<1> QED BY <1>1, Invariance, PTL

(* LoginGuard: for any limit and any number of failing logins, a counter   *)
(* that is not 0 has an end in sight.                                      *)
THEOREM FailuresEnd == Spec => []FailuresAreForgotten
<1>1. Inv => FailuresAreForgotten
  BY DEF Inv
<1> QED BY <1>1, Invariance, PTL

=============================================================================
