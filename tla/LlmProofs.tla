----------------------------- MODULE LlmProofs -----------------------------
(***************************************************************************)
(* Calls of language models, for every set of calls and all limits.        *)
(***************************************************************************)
EXTENDS LlmAccess, Sums, FunctionTheorems

Flushed == {"append", "reply", "commit", "closing"}
AllKinds == {"chat", "structured", "agent", "stream"}
AllPlaces == {"new"} \cup Running \cup Over
RowIds == Requests \cup {Earlier}

Call == [pc : AllPlaces, kind : AllKinds, account : Accounts \cup {Agents, None},
         prompt : Prompts \cup {None}, talk : Talks \cup {None},
         tries : 0..MaxRetries, drafts : 0..MaxDrafts, row : RowIds \cup {None},
         seen : Nat, pending : 0..(MaxDrafts + 1), said : SUBSET Message]

(* A call that has read its rollup row, or found that there is none. *)
HasRow(c) == c.pc = "flushing" \/ c.pending > 0

(* What the place of a call says of its kind, of what it has flushed and   *)
(* of what it has added to a conversation.                                 *)
Sound(c) ==
    /\ c.pc \in Running =>
          /\ c.account \in Accounts \cup {Agents} /\ c.prompt \in Prompts
          /\ c.kind = "agent" <=> c.account = Agents
    /\ c.talk \in Talks => c.kind = "chat"
    /\ c.pc \in {"calling", "backoff", "answered"} => c.kind # "stream"
    /\ c.pc \in {"streaming", "closing"} => c.kind = "stream"
    /\ c.pc \in {"accounting", "flushing"} \cup Flushed => c.kind # "agent"
    /\ c.pc \in {"append", "reply"} => c.talk \in Talks
    /\ c.pc \in Flushed => c.pending = c.drafts + 1
    /\ c.pc \notin Flushed => c.pending = c.drafts
    /\ c.drafts > 0 => c.kind = "structured" /\ c.pc \in Running
    /\ HasRow(c) => c.row \in RowIds
    /\ ~HasRow(c) => c.seen = 0
    /\ c.pc = "backoff" => c.tries >= 1
    /\ c.said # {} => c.pc \in {"reply", "commit"} /\ c.talk \in Talks
    /\ IsFiniteSet(c.said)

Typed ==
    /\ cached \subseteq Prompts
    /\ window \in [Accounts \cup {Agents} -> [count : Nat, ttl : BOOLEAN]]
    /\ failures \in Nat /\ late \in Nat
    /\ opened \in {"no", "yes", "due"}
    /\ req \in [Requests -> Call]
    /\ rollups = [a \in Accounts |-> rollups[a]]
    /\ \A a \in Accounts : Rows(a) \subseteq RowIds /\ rollups[a] \in [Rows(a) -> Nat]
    /\ recorded \in [Accounts -> Nat]
    /\ messages \in [Talks -> SUBSET Message]
    /\ \A t \in Talks : IsFiniteSet(messages[t])

AllSound == \A r \in Requests : Sound(req[r])

Inv == Typed /\ AllSound

-----------------------------------------------------------------------------
(* How a call c comes after the call d in one step of request r. *)

(* It holds a slot only if it did, or if one was free. *)
KeepsSlots(r, c) ==
    c.pc \in {"calling", "backoff", "streaming", "closing"}
        \/ (c.kind = "stream" /\ c.pc \in {"accounting", "flushing"})
    => InSlot(r) \/ SlotFree

(* The row it has is the one it had, a new one, or one just read. *)
KeepsRow(r, c) ==
    HasRow(c) =>
        \/ /\ HasRow(req[r]) /\ c.row = req[r].row /\ c.seen = req[r].seen
           /\ c.account = req[r].account
        \/ c.seen = 0
        \/ /\ c.row \in Rows(c.account) /\ c.seen = rollups[c.account][c.row]

(* It has a lock only if it had, or if nobody else had. *)
KeepsLock(r, c) ==
    c.pending > 0 => c.account = req[r].account /\ (req[r].pending > 0 \/ ~Locked(r))

(* What it has said it had said before, unless it says it now. *)
KeepsSaid(r, c) ==
    c.said # {} =>
        /\ c.talk = req[r].talk /\ c.account = req[r].account
        /\ \/ c.said = req[r].said
           \/ /\ req[r].pending > 0
              /\ \E m \in Message :
                    /\ c.said = req[r].said \cup {m}
                    /\ m.seq = NextSequence(r) /\ m.account = req[r].account

Follows(r, c) ==
    /\ c \in Call /\ Sound(c)
    /\ KeepsSlots(r, c) /\ KeepsRow(r, c) /\ KeepsLock(r, c) /\ KeepsSaid(r, c)

(* A call that is over, or has not begun. *)
LEMMA EndedCall ==
    ASSUME NEW p \in {"new"} \cup Over, NEW c, c = [Idle EXCEPT !.pc = p]
    PROVE  /\ c \in Call /\ Sound(c)
           /\ c.pc = p /\ c.pending = 0 /\ c.said = {} /\ ~HasRow(c) /\ c.kind = "chat"
<1>1. c.pc = p /\ c.kind = "chat" /\ c.account = None /\ c.prompt = None /\ c.talk = None
      /\ c.tries = 0 /\ c.drafts = 0 /\ c.row = None /\ c.seen = 0 /\ c.pending = 0 /\ c.said = {}
  BY DEF Idle
<1>2. c \in Call
  BY LlmAssumption DEF Call, Idle, AllPlaces, AllKinds
<1>3. p \notin Running /\ p \notin Flushed /\ p \notin {"flushing", "accounting", "backoff", "calling"}
  BY DEF Over, Running, Flushed
<1>4. ~HasRow(c)
  BY <1>1, <1>3 DEF HasRow
<1>5. IsFiniteSet(c.said)
  BY <1>1, FS_EmptySet
<1>6. Sound(c)
  BY <1>1, <1>3, <1>4, <1>5, LlmAssumption DEF Sound, Running, Over, Flushed
<1> QED BY <1>1, <1>2, <1>4, <1>6

(* It follows every call. *)
LEMMA EndFollows ==
    ASSUME Inv, NEW r \in Requests, NEW p \in {"new"} \cup Over, NEW c, c = [Idle EXCEPT !.pc = p]
    PROVE  Follows(r, c) /\ c.pc = p /\ c.pending = 0 /\ c.said = {} /\ ~HasRow(c)
<1>1. /\ c \in Call /\ Sound(c)
      /\ c.pc = p /\ c.pending = 0 /\ c.said = {} /\ ~HasRow(c) /\ c.kind = "chat"
  BY EndedCall
<1> QED BY <1>1 DEF Follows, KeepsSlots, KeepsRow, KeepsLock, KeepsSaid, Over

(* A call that only moves on. *)
Same(d, c) ==
    /\ c.kind = d.kind /\ c.account = d.account /\ c.prompt = d.prompt /\ c.talk = d.talk
    /\ c.drafts = d.drafts /\ c.row = d.row /\ c.seen = d.seen /\ c.pending = d.pending
    /\ c.said = d.said

Moved(d, p, n) == [d EXCEPT !.pc = p, !.tries = n]

(* It changes nothing else. *)
LEMMA MovedCall ==
    ASSUME NEW d \in Call, NEW p \in AllPlaces, NEW n \in 0..MaxRetries
    PROVE  /\ Moved(d, p, n) \in Call
           /\ Moved(d, p, n).pc = p /\ Moved(d, p, n).tries = n /\ Same(d, Moved(d, p, n))
BY DEF Call, Same, Moved

LEMMA MoveFollows ==
    ASSUME Inv, NEW r \in Requests, NEW c \in Call, Same(req[r], c), Sound(c),
           KeepsSlots(r, c), HasRow(c) => HasRow(req[r])
    PROVE  Follows(r, c)
<1>1. req[r] \in Call /\ Sound(req[r])
  BY DEF Inv, Typed, AllSound
<1>2. KeepsLock(r, c)
  BY DEF KeepsLock, Same
<1> QED BY <1>1, <1>2 DEF Follows, KeepsRow, KeepsSaid, Same, HasRow

(* Moves(r, p) changes the place of the call alone. *)
LEMMA MovesTo ==
    ASSUME Inv, NEW r \in Requests, NEW p \in AllPlaces, Moves(r, p)
    PROVE  \E c \in Call : /\ req' = [req EXCEPT ![r] = c]
                           /\ c.pc = p /\ c.tries = req[r].tries /\ Same(req[r], c)
<1> DEFINE d == req[r]
           c == Moved(d, p, d.tries)
<1>1. req \in [Requests -> Call] /\ d \in Call /\ d.tries \in 0..MaxRetries
  BY DEF Inv, Typed, Call
<1>2. c = [d EXCEPT !.pc = p]
  BY <1>1 DEF Call, Moved
<1>3. req' = [req EXCEPT ![r] = [d EXCEPT !.pc = p]]
  BY <1>1 DEF Moves
<1>4. c \in Call /\ c.pc = p /\ c.tries = d.tries /\ Same(d, c)
  BY <1>1, MovedCall
<1> HIDE DEF c
<1> QED BY <1>2, <1>3, <1>4

(* Ends(r, p) is followed by a call that is over. *)
LEMMA EndsTo ==
    ASSUME Inv, NEW r \in Requests, NEW p \in Over, Ends(r, p)
    PROVE  \E c : /\ req' = [req EXCEPT ![r] = c] /\ Follows(r, c)
                  /\ c.pc = p /\ c.pending = 0 /\ c.said = {} /\ ~HasRow(c)
<1> DEFINE c == [Idle EXCEPT !.pc = p]
<1>1. req' = [req EXCEPT ![r] = c]
  BY DEF Ends
<1>2. Follows(r, c) /\ c.pc = p /\ c.pending = 0 /\ c.said = {} /\ ~HasRow(c)
  BY EndFollows
<1> HIDE DEF c
<1> QED BY <1>1, <1>2

(* The step of one call, as the invariants need it. *)
Steps(r) == \E c : Follows(r, c) /\ req' = [req EXCEPT ![r] = c]

(* The steps up to the answer. *)
LEMMA CallingSteps ==
    ASSUME Inv, NEW r \in Requests,
           \/ CheckRpm(r) \/ Admit(r) \/ Answer(r) \/ TransientFailure(r) \/ OtherFailure(r)
           \/ Retry(r) \/ Store(r) \/ StreamBegins(r) \/ StreamEnds(r) \/ StreamCloses(r) \/ Abort(r)
    PROVE  Steps(r)
<1> DEFINE d == req[r]
<1>d. d \in Call /\ Sound(d) /\ req \in [Requests -> Call]
  BY DEF Inv, Typed, AllSound
<1>e. ASSUME NEW p \in Over, Ends(r, p) PROVE Steps(r)
  BY <1>e, EndsTo DEF Steps
<1>m. ASSUME NEW p \in AllPlaces, Moves(r, p), d.pc \in Running,
             \A c \in Call : c.pc = p /\ Same(d, c) => Sound(c) /\ KeepsSlots(r, c),
             p # "flushing"
      PROVE  Steps(r)
  <2>1. PICK c \in Call : req' = [req EXCEPT ![r] = c] /\ c.pc = p /\ Same(d, c)
    BY <1>m, MovesTo
  <2>2. HasRow(c) => HasRow(d)
    BY <1>m, <2>1 DEF HasRow, Same
  <2>3. Follows(r, c)
    BY <1>m, <2>1, <2>2, MoveFollows
  <2> QED BY <2>1, <2>3 DEF Steps
<1> USE DEF Running, AllPlaces, Over, Flushed
<1>1. CASE CheckRpm(r)
  <2>1. d.pc = "limit"
    BY <1>1 DEF CheckRpm
  <2>2. CASE Moves(r, "waiting")
    <3>1. ASSUME NEW c \in Call, c.pc = "waiting", Same(d, c) PROVE Sound(c) /\ KeepsSlots(r, c)
      BY <1>d, <2>1, <3>1 DEF Sound, Same, HasRow, KeepsSlots, d
    <3> QED BY <1>m, <2>1, <2>2, <3>1
  <2> QED BY <1>1, <1>e, <2>2 DEF CheckRpm
<1>2. ASSUME d.pc \in {"waiting", "backoff"}, Moves(r, "calling"), d.kind # "stream",
             InSlot(r) \/ SlotFree
      PROVE  Steps(r)
  <2>1. ASSUME NEW c \in Call, c.pc = "calling", Same(d, c) PROVE Sound(c) /\ KeepsSlots(r, c)
    BY <1>d, <1>2, <2>1 DEF Sound, Same, HasRow, KeepsSlots, d
  <2> QED BY <1>m, <1>2, <2>1
<1>3. CASE Admit(r)
  BY <1>2, <1>3, <1>e DEF Admit, Attempt, Moves
<1>4. CASE Retry(r)
  <2>1. InSlot(r) /\ d.kind # "stream"
    BY <1>4, <1>d DEF Retry, InSlot, Sound
  <2> QED BY <1>2, <1>4, <2>1 DEF Retry, Attempt, Moves
<1>5. CASE Answer(r)
  <2>1. ASSUME NEW c \in Call, c.pc = "answered", Same(d, c) PROVE Sound(c) /\ KeepsSlots(r, c)
    BY <1>d, <1>5, <2>1 DEF Answer, Sound, Same, HasRow, KeepsSlots, d
  <2> QED BY <1>m, <1>5, <2>1 DEF Answer
<1>6. CASE TransientFailure(r)
  <2>1. CASE d.tries + 1 > MaxRetries
    BY <1>6, <1>e, <2>1 DEF TransientFailure
  <2>2. CASE ~(d.tries + 1 > MaxRetries)
    <3> DEFINE c == Moved(d, "backoff", d.tries + 1)
    <3>1. req' = [req EXCEPT ![r] = c]
      BY <1>6, <1>d, <2>2 DEF TransientFailure, Moved
    <3>2. d.tries + 1 \in 0..MaxRetries /\ d.tries + 1 >= 1
      BY <1>d, <2>2, LlmAssumption DEF Call
    <3>3. c \in Call /\ c.pc = "backoff" /\ c.tries = d.tries + 1 /\ Same(d, c)
      <4>1. "backoff" \in AllPlaces
        OBVIOUS
      <4> HIDE DEF AllPlaces, d
      <4>2. /\ Moved(d, "backoff", d.tries + 1) \in Call
            /\ Moved(d, "backoff", d.tries + 1).pc = "backoff"
            /\ Moved(d, "backoff", d.tries + 1).tries = d.tries + 1
            /\ Same(d, Moved(d, "backoff", d.tries + 1))
        BY <1>d, <3>2, <4>1, MovedCall
      <4> QED BY <4>2
    <3> HIDE DEF c
    <3>4. d.pc = "calling" /\ InSlot(r)
      BY <1>6 DEF TransientFailure, InSlot
    <3>5. Sound(c) /\ KeepsSlots(r, c) /\ (HasRow(c) => HasRow(d))
      BY <1>d, <3>2, <3>3, <3>4 DEF Sound, Same, HasRow, KeepsSlots, d
    <3> QED BY <3>1, <3>3, <3>5, MoveFollows DEF Steps
  <2> QED BY <2>1, <2>2
<1>7. CASE OtherFailure(r)
  BY <1>7, <1>e DEF OtherFailure
<1>8. CASE Store(r)
  <2>1. d.pc = "answered" /\ Moves(r, AfterAnswer(d.kind))
    BY <1>8 DEF Store
  <2>2. ASSUME NEW c \in Call, c.pc = AfterAnswer(d.kind), Same(d, c)
        PROVE  Sound(c) /\ KeepsSlots(r, c)
    BY <1>d, <2>1, <2>2 DEF Sound, Same, HasRow, KeepsSlots, AfterAnswer, d
  <2> QED BY <1>m, <2>1, <2>2 DEF AfterAnswer
<1>9. CASE StreamBegins(r)
  <2>1. ASSUME NEW c \in Call, c.pc = "streaming", Same(d, c) PROVE Sound(c) /\ KeepsSlots(r, c)
    BY <1>d, <1>9, <2>1 DEF StreamBegins, Sound, Same, HasRow, KeepsSlots, d
  <2> QED BY <1>m, <1>9, <2>1 DEF StreamBegins
<1>10. CASE StreamEnds(r)
  <2>0. d.pc = "streaming" /\ InSlot(r)
    BY <1>10 DEF StreamEnds, InSlot
  <2>1. ASSUME NEW c \in Call, c.pc = "accounting", Same(d, c) PROVE Sound(c) /\ KeepsSlots(r, c)
    BY <1>d, <2>0, <2>1 DEF Sound, Same, HasRow, KeepsSlots, d
  <2> QED BY <1>m, <1>e, <1>10, <2>0, <2>1 DEF StreamEnds
<1>11. CASE StreamCloses(r)
  <2>0. d.pc = "closing"
    BY <1>11 DEF StreamCloses
  <2>1. ASSUME NEW c \in Call, c.pc = "commit", Same(d, c) PROVE Sound(c) /\ KeepsSlots(r, c)
    BY <1>d, <2>0, <2>1 DEF Sound, Same, HasRow, KeepsSlots, d
  <2> QED BY <1>m, <1>e, <1>11, <2>0, <2>1 DEF StreamCloses
<1>12. CASE Abort(r)
  BY <1>12, <1>e DEF Abort
<1> QED BY <1>1, <1>3, <1>4, <1>5, <1>6, <1>7, <1>8, <1>9, <1>10, <1>11, <1>12

(* next_sequence is past all that the session sees of the conversation. *)
LEMMA NextIsPast ==
    ASSUME Inv, NEW r \in Requests, req[r].talk \in Talks
    PROVE  /\ NextSequence(r) \in Nat
           /\ \A m \in messages[req[r].talk] \cup req[r].said : m.seq < NextSequence(r)
<1> DEFINE X == messages[req[r].talk] \cup req[r].said
           nums == {m.seq : m \in X}
           f == [m \in X |-> m.seq]
           all == {0} \cup nums
<1>1. req[r] \in Call /\ Sound(req[r]) /\ IsFiniteSet(messages[req[r].talk])
      /\ messages[req[r].talk] \subseteq Message
  BY DEF Inv, Typed, AllSound
<1>2. IsFiniteSet(X) /\ X \subseteq Message
  BY <1>1, FS_Union DEF Sound, Call
<1>3. \A m \in X : m.seq \in Nat
  BY <1>2 DEF Message
<1>q. NextSequence(r) = 1 + Max(all)
  BY DEF NextSequence
<1> HIDE DEF X
<1>4. f \in Surjection(X, nums)
  BY DEF Surjection
<1>5. IsFiniteSet(nums)
  <2> HIDE DEF f, nums
  <2> QED BY <1>2, <1>4, FS_Surjection
<1>6. nums \subseteq Nat /\ \A m \in X : m.seq \in nums
  BY <1>3
<1> HIDE DEF nums
<1>7. IsFiniteSet(all) /\ all \in SUBSET Nat /\ all # {}
  <2>1. IsFiniteSet({0})
    BY FS_Singleton
  <2>2. IsFiniteSet({0} \cup nums)
    BY <1>5, <2>1, FS_Union
  <2> QED BY <1>6, <2>2
<1>8. \E n \in all : \A m \in all : m <= n
  <2> HIDE DEF all
  <2> QED BY <1>7, Greatest
<1>9. \E n \in all : \A m \in all : n >= m
  BY <1>7, <1>8
<1>10. Max(all) \in all /\ \A m \in all : Max(all) >= m
  <2> HIDE DEF all
  <2> QED BY <1>9 DEF Max
<1>11. Max(all) \in Nat
  BY <1>7, <1>10
<1>12. \A m \in X : m.seq \in all /\ m.seq \in Nat
  BY <1>3, <1>6
<1> HIDE DEF all
<1>13. ASSUME NEW m \in X PROVE m.seq < NextSequence(r)
  BY <1>q, <1>10, <1>11, <1>12
<1> QED BY <1>q, <1>11, <1>13 DEF X

(* The first step of a call. *)
LEMMA BeginSteps ==
    ASSUME Inv, NEW r \in Requests, NEW kind \in Kinds, NEW a \in Accounts \cup {Agents},
           NEW q \in Prompts, NEW t \in Talks \cup {None}, Begin(r, kind, a, q, t)
    PROVE  Steps(r)
<1> DEFINE place == IF Cacheable(kind) /\ q \in cached THEN AfterAnswer(kind) ELSE "limit"
           c == [Idle EXCEPT !.pc = place, !.kind = kind, !.account = a, !.prompt = q, !.talk = t]
<1>1. req' = [req EXCEPT ![r] = c] /\ ((kind = "agent") <=> (a = Agents)) /\ (t # None => kind = "chat")
  BY DEF Begin
<1>2. kind \in AllKinds
  BY LlmAssumption DEF AllKinds
<1>3. /\ place \in {"limit", "done", "accounting"} /\ (place = "accounting" => kind = "chat")
      /\ (place = "done" => kind = "agent")
  BY <1>2 DEF Cacheable, AfterAnswer
<1> HIDE DEF place
<1>4. /\ c.pc = place /\ c.kind = kind /\ c.account = a /\ c.prompt = q /\ c.talk = t
      /\ c.tries = 0 /\ c.drafts = 0 /\ c.row = None /\ c.seen = 0 /\ c.pending = 0 /\ c.said = {}
  BY DEF Idle
<1>5. c \in Call
  <2>1. 0 \in 0..MaxRetries /\ 0 \in 0..MaxDrafts /\ 0 \in 0..(MaxDrafts + 1)
    BY LlmAssumption
  <2>2. place \in AllPlaces
    BY <1>3 DEF AllPlaces, Running, Over
  <2>3. Idle \in Call
    BY <2>1 DEF Call, Idle, AllPlaces, AllKinds
  <2> QED BY <1>2, <2>2, <2>3 DEF Call
<1> HIDE DEF c
<1>6. IsFiniteSet(c.said)
  BY <1>4, FS_EmptySet
<1>7. ~HasRow(c)
  BY <1>3, <1>4 DEF HasRow
<1>8. Sound(c)
  BY <1>1, <1>3, <1>4, <1>6, <1>7, LlmAssumption DEF Sound, Flushed, Running
<1>9. KeepsSlots(r, c)
  BY <1>3, <1>4 DEF KeepsSlots
<1>10. Follows(r, c)
  BY <1>4, <1>5, <1>7, <1>8, <1>9 DEF Follows, KeepsRow, KeepsLock, KeepsSaid
<1> QED BY <1>1, <1>10 DEF Steps

(* The steps of the accounting and of the conversation. *)
LEMMA AccountingSteps ==
    ASSUME Inv, NEW r \in Requests,
           AccountRead(r) \/ Flush(r) \/ FlushMalformed(r) \/ AppendTurn(r) \/ Commit(r)
    PROVE  Steps(r)
<1> DEFINE d == req[r]
<1>d. d \in Call /\ Sound(d) /\ req \in [Requests -> Call]
  BY DEF Inv, Typed, AllSound
<1>e. ASSUME NEW p \in Over, Ends(r, p) PROVE Steps(r)
  BY <1>e, EndsTo DEF Steps
<1>n. d.tries \in Nat /\ d.drafts \in Nat /\ d.pending \in Nat /\ d.seen \in Nat
  BY <1>d, LlmAssumption DEF Call
<1>a. d.pc \in {"accounting", "flushing"} \cup Flushed => d.account \in Accounts
  BY <1>d DEF Sound, Running, Flushed
<1>1. CASE AccountRead(r)
  <2>0. d.pc = "accounting" /\ d.pending = d.drafts /\ d.account \in Accounts /\ d.said = {}
    BY <1>1, <1>a, <1>d DEF AccountRead, Sound, Flushed
  <2>1. CASE d.pending > 0 /\ Moves(r, "flushing")
    <3>1. PICK c \in Call : req' = [req EXCEPT ![r] = c] /\ c.pc = "flushing" /\ Same(d, c)
      BY <2>1, MovesTo DEF AllPlaces, Running
    <3>2. Sound(c)
      BY <1>d, <2>0, <2>1, <3>1 DEF Sound, Same, HasRow, Flushed, Running
    <3>3. KeepsSlots(r, c)
      BY <2>0, <3>1 DEF KeepsSlots, Same, InSlot
    <3>4. HasRow(d)
      BY <2>1 DEF HasRow
    <3> QED BY <3>1, <3>2, <3>3, <3>4, MoveFollows DEF Steps
  <2>2. ASSUME NEW row \in RowIds, NEW seen \in Nat, d.pending = 0,
               req' = [req EXCEPT ![r] = [d EXCEPT !.pc = "flushing", !.row = row, !.seen = seen]],
               seen = 0 \/ (row \in Rows(d.account) /\ seen = rollups[d.account][row])
        PROVE  Steps(r)
    <3> DEFINE c == [d EXCEPT !.pc = "flushing", !.row = row, !.seen = seen]
    <3>1. /\ c.pc = "flushing" /\ c.kind = d.kind /\ c.account = d.account /\ c.prompt = d.prompt
          /\ c.talk = d.talk /\ c.tries = d.tries /\ c.drafts = d.drafts /\ c.row = row
          /\ c.seen = seen /\ c.pending = d.pending /\ c.said = d.said
      BY <1>d DEF Call
    <3>2. c \in Call
      BY <1>d DEF Call, AllPlaces, Running
    <3> HIDE DEF c
    <3>3. Sound(c)
      BY <1>d, <2>0, <2>2, <3>1 DEF Sound, HasRow, Flushed, Running
    <3>4. KeepsSlots(r, c)
      BY <2>0, <3>1 DEF KeepsSlots, InSlot
    <3>5. KeepsRow(r, c)
      BY <2>2, <3>1 DEF KeepsRow
    <3>6. KeepsLock(r, c) /\ KeepsSaid(r, c)
      BY <2>0, <2>2, <3>1 DEF KeepsLock, KeepsSaid
    <3>7. Follows(r, c)
      BY <3>2, <3>3, <3>4, <3>5, <3>6 DEF Follows
    <3> QED BY <2>2, <3>7 DEF Steps, c
  <2>3. CASE Visible(r) = {} /\ req' = [req EXCEPT ![r].pc = "flushing", ![r].row = r]
    <3>1. d.pending = 0
      BY <1>n, <2>3 DEF Visible
    <3>2. d.seen = 0
      BY <1>d, <2>0, <3>1 DEF Sound, HasRow
    <3>3. [d EXCEPT !.pc = "flushing", !.row = r] = [d EXCEPT !.pc = "flushing", !.row = r, !.seen = 0]
      BY <1>d, <3>2 DEF Call
    <3>4. req' = [req EXCEPT ![r] = [d EXCEPT !.pc = "flushing", !.row = r, !.seen = 0]]
      BY <1>d, <2>3, <3>3
    <3>5. r \in RowIds /\ 0 \in Nat
      BY DEF RowIds
    <3> QED BY <2>2, <3>1, <3>4, <3>5, Zenon
  <2>4. ASSUME d.pending = 0, NEW row \in Rows(d.account),
               req' = [req EXCEPT ![r].pc = "flushing", ![r].row = row,
                                  ![r].seen = rollups[d.account][row]]
        PROVE  Steps(r)
    <3>1. row \in RowIds /\ rollups[d.account][row] \in Nat
      BY <2>0 DEF Inv, Typed
    <3>2. req' = [req EXCEPT ![r] = [d EXCEPT !.pc = "flushing", !.row = row,
                                              !.seen = rollups[d.account][row]]]
      BY <1>d, <2>4
    <3> QED BY <2>2, <2>4, <3>1, <3>2
  <2>5. CASE Ends(r, "failed")
    BY <1>e, <2>5 DEF Over
  <2> QED BY <1>1, <2>1, <2>3, <2>4, <2>5 DEF AccountRead
<1>f. ASSUME NEW p \in {"commit", "append", "closing", "limit"}, NEW n \in 0..MaxDrafts, ~Locked(r),
             d.pc = "flushing",
             p = "append" => d.talk \in Talks,
             p = "closing" => d.kind = "stream",
             p = "limit" => d.kind = "structured" /\ n = d.drafts + 1,
             p # "limit" => n = d.drafts,
             req' = [req EXCEPT ![r] = [d EXCEPT !.pc = p, !.drafts = n, !.pending = d.pending + 1,
                                                 !.tries = 0]]
      PROVE  Steps(r)
  <2> DEFINE c == [d EXCEPT !.pc = p, !.drafts = n, !.pending = d.pending + 1, !.tries = 0]
  <2>0. d.pending = d.drafts /\ d.account \in Accounts /\ d.said = {} /\ d.row \in RowIds
    BY <1>a, <1>d, <1>f DEF Sound, Flushed, HasRow
  <2>1. /\ c.pc = p /\ c.kind = d.kind /\ c.account = d.account /\ c.prompt = d.prompt
        /\ c.talk = d.talk /\ c.tries = 0 /\ c.drafts = n /\ c.row = d.row
        /\ c.seen = d.seen /\ c.pending = d.pending + 1 /\ c.said = d.said
    BY <1>d DEF Call
  <2>2. d.pending + 1 \in 0..(MaxDrafts + 1) /\ 0 \in 0..MaxRetries
    BY <1>d, <2>0, LlmAssumption DEF Call
  <2>3. c \in Call
    BY <1>d, <2>2 DEF Call, AllPlaces, Running
  <2> HIDE DEF c
  <2>4. HasRow(c) /\ HasRow(d)
    BY <1>f, <1>n, <2>1 DEF HasRow
  <2>5. Sound(c)
    BY <1>d, <1>f, <1>n, <2>0, <2>1, <2>4 DEF Sound, Flushed, Running
  <2>6. KeepsSlots(r, c)
    BY <1>f, <2>1 DEF KeepsSlots, InSlot
  <2>7. KeepsRow(r, c) /\ KeepsLock(r, c) /\ KeepsSaid(r, c)
    BY <1>f, <2>0, <2>1, <2>4 DEF KeepsRow, KeepsLock, KeepsSaid
  <2>8. Follows(r, c)
    BY <2>3, <2>5, <2>6, <2>7 DEF Follows
  <2> QED BY <1>f, <2>8 DEF Steps, c
<1>2. CASE Flush(r)
  <2>0. d.pc = "flushing" /\ ~Locked(r) /\ d.drafts \in 0..MaxDrafts
    BY <1>2, <1>d DEF Flush, Call
  <2>1. ASSUME NEW p \in {"commit", "append", "closing"}, Flushes(r, p),
               p = "append" => d.talk \in Talks, p = "closing" => d.kind = "stream"
        PROVE  Steps(r)
    <3>1. req' = [req EXCEPT ![r] = [d EXCEPT !.pc = p, !.pending = d.pending + 1, !.tries = 0]]
      BY <1>d, <2>1 DEF Flushes
    <3>2. [d EXCEPT !.pc = p, !.pending = d.pending + 1, !.tries = 0]
             = [d EXCEPT !.pc = p, !.drafts = d.drafts, !.pending = d.pending + 1, !.tries = 0]
      BY <1>d DEF Call
    <3>3. req' = [req EXCEPT ![r] = [d EXCEPT !.pc = p, !.drafts = d.drafts,
                                              !.pending = d.pending + 1, !.tries = 0]]
      BY <3>1, <3>2
    <3> QED BY <1>f, <2>0, <2>1, <3>3
  <2>2. CASE Ends(r, "failed")
    BY <1>e, <2>2 DEF Over
  <2>3. d.talk # None => d.talk \in Talks
    BY <1>d DEF Call
  <2> QED BY <1>2, <2>1, <2>2, <2>3 DEF Flush
<1>3. CASE FlushMalformed(r)
  <2>0. d.pc = "flushing" /\ ~Locked(r) /\ d.drafts \in 0..MaxDrafts /\ d.kind = "structured"
    BY <1>3, <1>d DEF FlushMalformed, Call
  <2>1. CASE d.drafts = MaxDrafts
    BY <1>3, <1>e, <2>1 DEF FlushMalformed, Over
  <2>2. CASE d.drafts # MaxDrafts
    <3>1. d.drafts + 1 \in 0..MaxDrafts
      BY <2>0, <2>2, LlmAssumption
    <3>2. req' = [req EXCEPT ![r] = [d EXCEPT !.pc = "limit", !.drafts = d.drafts + 1,
                                              !.pending = d.pending + 1, !.tries = 0]]
      BY <1>3, <1>d, <2>2 DEF FlushMalformed
    <3> QED BY <1>f, <2>0, <3>1, <3>2
  <2> QED BY <2>1, <2>2
<1>4. CASE AppendTurn(r)
  <2> DEFINE user == d.pc = "append"
             p == IF user THEN "reply" ELSE "commit"
             m == [turn |-> r, role |-> IF user THEN "user" ELSE "assistant",
                   seq |-> NextSequence(r), account |-> d.account]
             c == [d EXCEPT !.pc = p, !.said = d.said \cup {m}]
  <2>0. d.pc \in {"append", "reply"} /\ d.talk \in Talks /\ d.account \in Accounts
    BY <1>4, <1>a, <1>d DEF AppendTurn, Sound, Flushed
  <2>1. req' = [req EXCEPT ![r] = c]
    BY <1>4, <1>d DEF AppendTurn
  <2>2. NextSequence(r) \in Nat
    BY <2>0, NextIsPast
  <2>3. m \in Message /\ m.seq = NextSequence(r) /\ m.account = d.account
    BY <2>0, <2>2 DEF Message
  <2>4. p \in {"reply", "commit"}
    OBVIOUS
  <2> HIDE DEF m, p
  <2>5. /\ c.pc = p /\ c.kind = d.kind /\ c.account = d.account /\ c.prompt = d.prompt
        /\ c.talk = d.talk /\ c.tries = d.tries /\ c.drafts = d.drafts /\ c.row = d.row
        /\ c.seen = d.seen /\ c.pending = d.pending /\ c.said = d.said \cup {m}
    BY <1>d DEF Call
  <2>6. c \in Call
    BY <1>d, <2>3, <2>4 DEF Call, AllPlaces, Running
  <2> HIDE DEF c
  <2>8. IsFiniteSet(c.said)
    BY <1>d, <2>5, FS_AddElement DEF Sound
  <2>9. d.pending > 0 /\ HasRow(d) /\ HasRow(c)
    BY <1>d, <1>n, <2>0, <2>5 DEF Sound, HasRow, Flushed
  <2>10. Sound(c)
    BY <1>d, <2>0, <2>4, <2>5, <2>8, <2>9 DEF Sound, Flushed, Running
  <2>11. KeepsSlots(r, c)
    BY <2>4, <2>5 DEF KeepsSlots
  <2>12. KeepsRow(r, c) /\ KeepsLock(r, c)
    BY <2>5, <2>9 DEF KeepsRow, KeepsLock
  <2>13. KeepsSaid(r, c)
    BY <2>3, <2>5, <2>9 DEF KeepsSaid
  <2>14. Follows(r, c)
    BY <2>6, <2>10, <2>11, <2>12, <2>13 DEF Follows
  <2> QED BY <2>1, <2>14 DEF Steps
<1>5. CASE Commit(r)
  BY <1>5, <1>e DEF Commit, Over
<1> QED BY <1>1, <1>2, <1>3, <1>4, <1>5

(* The steps of one call. *)
Acts(r) ==
    \/ \E kind \in Kinds, a \in Accounts \cup {Agents}, q \in Prompts, t \in Talks \cup {None} :
          Begin(r, kind, a, q, t)
    \/ Proceed(r) \/ Abort(r)

(* All of them are such steps. *)
LEMMA ActsStep == ASSUME Inv, NEW r \in Requests, Acts(r) PROVE Steps(r)
BY BeginSteps, CallingSteps, AccountingSteps DEF Acts, Proceed

(* What a step of one call leaves of the others. *)
LEMMA OtherCalls ==
    ASSUME Inv, NEW r \in Requests, NEW c, Follows(r, c), req' = [req EXCEPT ![r] = c]
    PROVE  /\ req' \in [Requests -> Call] /\ AllSound'
           /\ req'[r] = c /\ \A q \in Requests \ {r} : req'[q] = req[q]
<1>1. req \in [Requests -> Call] /\ c \in Call /\ Sound(c)
  BY DEF Inv, Typed, Follows
<1>2. req'[r] = c /\ \A q \in Requests \ {r} : req'[q] = req[q]
  BY <1>1
<1>3. req' \in [Requests -> Call]
  BY <1>1
<1>4. \A q \in Requests : Sound(req'[q])
  BY <1>1, <1>2 DEF Inv, AllSound
<1> QED BY <1>2, <1>3, <1>4 DEF AllSound

(* What a commit does to the tables. *)
LEMMA CommitWrites ==
    ASSUME Inv, NEW r \in Requests, Commit(r)
    PROVE  /\ req[r].account \in Accounts /\ req[r].row \in RowIds
           /\ req[r].seen \in Nat /\ req[r].pending \in Nat \ {0} /\ req[r].said \subseteq Message
           /\ IsFiniteSet(req[r].said)
           /\ recorded' = [recorded EXCEPT ![req[r].account] =
                             recorded[req[r].account] + req[r].pending]
           /\ rollups' = [rollups EXCEPT ![req[r].account] =
                 [q \in Rows(req[r].account) \cup {req[r].row} |->
                    IF q = req[r].row THEN req[r].seen + req[r].pending
                    ELSE rollups[req[r].account][q]]]
           /\ messages' = [t \in Talks |-> IF t = req[r].talk THEN messages[t] \cup req[r].said
                                           ELSE messages[t]]
<1>1. req[r] \in Call /\ Sound(req[r]) /\ req[r].pc = "commit"
  BY DEF Inv, Typed, AllSound, Commit
<1>2. req[r].pending = req[r].drafts + 1 /\ req[r].drafts \in Nat /\ req[r].seen \in Nat
      /\ req[r].said \subseteq Message
  BY <1>1, LlmAssumption DEF Sound, Flushed, Call
<1>3. req[r].account \in Accounts
  BY <1>1 DEF Sound, Flushed, Running
<1>4. req[r].row \in RowIds
  BY <1>1, <1>2 DEF Sound, HasRow
<1>5. recorded \in [Accounts -> Nat]
  BY DEF Inv, Typed
<1> QED BY <1>1, <1>2, <1>3, <1>4, <1>5 DEF Commit, Sound

(* Every step keeps the shapes and what the places say. *)
LEMMA InvStep == Inv /\ [Next]_vars => Inv'
<1> SUFFICES ASSUME Inv, [Next]_vars PROVE Inv'
  OBVIOUS
<1>t. Typed /\ AllSound
  BY DEF Inv
<1>d. ASSUME UNCHANGED db
      PROVE  /\ rollups' = [a \in Accounts |-> rollups'[a]]
             /\ \A a \in Accounts : Rows(a)' \subseteq RowIds /\ rollups'[a] \in [Rows(a)' -> Nat]
             /\ recorded' \in [Accounts -> Nat]
             /\ messages' \in [Talks -> SUBSET Message]
             /\ \A t \in Talks : IsFiniteSet(messages'[t])
  BY <1>d, <1>t DEF Typed, Rows, db
<1>1. ASSUME NEW r \in Requests, Acts(r) PROVE Inv'
  <2>1. req' \in [Requests -> Call] /\ AllSound'
    BY <1>1, ActsStep, OtherCalls DEF Steps
  <2>2. cached' \subseteq Prompts
    <3>1. CASE Store(r)
      <4>1. req[r].prompt \in Prompts
        BY <1>t, <3>1 DEF AllSound, Sound, Store, Running
      <4> QED BY <1>t, <3>1, <4>1 DEF Store, Typed
    <3> QED BY <1>1, <1>t, <3>1
      DEF Typed, Acts, Proceed, Begin, CheckRpm, Admit, Answer, TransientFailure, OtherFailure, Retry,
          StreamBegins, StreamEnds, StreamCloses, AccountRead, Flush, FlushMalformed, AppendTurn,
          Commit, Abort
  <2>3. window' \in [Accounts \cup {Agents} -> [count : Nat, ttl : BOOLEAN]]
    <3>1. CASE CheckRpm(r)
      <4> DEFINE a == req[r].account
      <4>1. a \in Accounts \cup {Agents}
        BY <1>t, <3>1 DEF AllSound, Sound, CheckRpm, Running
      <4>2. window[a] \in [count : Nat, ttl : BOOLEAN]
        BY <1>t, <4>1 DEF Typed
      <4>3. [count |-> window[a].count + 1, ttl |-> window[a].ttl \/ window[a].count + 1 = 1]
               \in [count : Nat, ttl : BOOLEAN]
        BY <4>2
      <4>4. [window[a] EXCEPT !.count = 1] \in [count : Nat, ttl : BOOLEAN]
        BY <4>2
      <4>5. \/ window' = window
            \/ window' = [window EXCEPT ![a] = [count |-> window[a].count + 1,
                                                ttl |-> window[a].ttl \/ window[a].count + 1 = 1]]
            \/ window' = [window EXCEPT ![a] = [window[a] EXCEPT !.count = 1]]
        BY <1>t, <3>1, <4>1 DEF CheckRpm, Typed
      <4> QED BY <1>t, <4>1, <4>3, <4>4, <4>5 DEF Typed
    <3> QED BY <1>1, <1>t, <3>1
      DEF Typed, Acts, Proceed, Begin, Store, Admit, Answer, TransientFailure, OtherFailure, Retry,
          StreamBegins, StreamEnds, StreamCloses, AccountRead, Flush, FlushMalformed, AppendTurn,
          Commit, Abort
  <2>4. failures' \in Nat /\ late' \in Nat /\ opened' \in {"no", "yes", "due"}
    <3>1. failures \in Nat /\ late \in Nat /\ opened \in {"no", "yes", "due"}
      BY <1>t DEF Typed
    <3>2. CASE UNCHANGED breaker
      BY <3>1, <3>2 DEF breaker
    <3>3. CASE Admit(r)
      BY <3>1, <3>3 DEF Admit, Attempt, breaker
    <3>4. CASE Answer(r) \/ Retry(r)
      BY <3>1, <3>4 DEF Answer, Retry, Attempt
    <3>5. CASE TransientFailure(r) \/ OtherFailure(r)
      <4>1. RecordFailure
        BY <3>5 DEF TransientFailure, OtherFailure
      <4> QED BY <3>1, <4>1 DEF RecordFailure
    <3> QED BY <1>1, <3>2, <3>3, <3>4, <3>5
      DEF Acts, Proceed, Begin, CheckRpm, Store, StreamBegins, StreamEnds, StreamCloses, AccountRead,
          Flush, FlushMalformed, AppendTurn, Commit, Abort
  <2>5. /\ rollups' = [a \in Accounts |-> rollups'[a]]
        /\ \A a \in Accounts : Rows(a)' \subseteq RowIds /\ rollups'[a] \in [Rows(a)' -> Nat]
        /\ recorded' \in [Accounts -> Nat]
        /\ messages' \in [Talks -> SUBSET Message]
        /\ \A t \in Talks : IsFiniteSet(messages'[t])
    <3>1. CASE Commit(r)
      <4> DEFINE d == req[r]
                 new == [q \in Rows(d.account) \cup {d.row} |->
                           IF q = d.row THEN d.seen + d.pending ELSE rollups[d.account][q]]
      <4>1. /\ d.account \in Accounts /\ d.row \in RowIds /\ d.seen \in Nat /\ d.pending \in Nat
            /\ d.said \subseteq Message /\ IsFiniteSet(d.said)
            /\ recorded' = [recorded EXCEPT ![d.account] = recorded[d.account] + d.pending]
            /\ rollups' = [rollups EXCEPT ![d.account] = new]
            /\ messages' = [t \in Talks |-> IF t = d.talk THEN messages[t] \cup d.said ELSE messages[t]]
        BY <3>1, CommitWrites
      <4>2. DOMAIN new = Rows(d.account) \cup {d.row} /\ DOMAIN new \subseteq RowIds
        BY <1>t, <4>1 DEF Typed
      <4>3. new \in [DOMAIN new -> Nat]
        BY <1>t, <4>1, <4>2 DEF Typed
      <4> HIDE DEF new
      <4>4. ASSUME NEW a \in Accounts
            PROVE  rollups'[a] = IF a = d.account THEN new ELSE rollups[a]
        BY <1>t, <4>1 DEF Typed
      <4>5. rollups' = [a \in Accounts |-> rollups'[a]]
        BY <1>t, <4>1 DEF Typed
      <4>6. ASSUME NEW a \in Accounts
            PROVE  Rows(a)' \subseteq RowIds /\ rollups'[a] \in [Rows(a)' -> Nat]
        BY <1>t, <4>2, <4>3, <4>4 DEF Rows, Typed
      <4>7. recorded' \in [Accounts -> Nat]
        BY <1>t, <4>1 DEF Typed
      <4>8. messages' \in [Talks -> SUBSET Message]
        BY <1>t, <4>1 DEF Typed
      <4>9. ASSUME NEW t \in Talks PROVE IsFiniteSet(messages'[t])
        BY <1>t, <4>1, FS_Union DEF Typed
      <4> QED BY <4>5, <4>6, <4>7, <4>8, <4>9
    <3>2. CASE UNCHANGED db
      BY <1>d, <3>2
    <3> QED BY <1>1, <3>1, <3>2
      DEF Acts, Proceed, Begin, CheckRpm, Store, Admit, Answer, TransientFailure, OtherFailure,
        Retry, StreamBegins, StreamEnds, StreamCloses, AccountRead, Flush, FlushMalformed, AppendTurn,
        Abort
  <2> QED BY <2>1, <2>2, <2>3, <2>4, <2>5 DEF Inv, Typed
<1>2. ASSUME NEW q \in Prompts, CacheExpires(q) PROVE Inv'
  <2>1. UNCHANGED <<window, breaker, req, db>> /\ cached' \subseteq Prompts
    BY <1>2, <1>t DEF CacheExpires, Typed
  <2> QED BY <1>d, <1>t, <2>1 DEF Inv, Typed, AllSound, breaker
<1>3. ASSUME NEW a \in Accounts \cup {Agents}, WindowExpires(a) PROVE Inv'
  <2>1. UNCHANGED <<cached, breaker, req, db>>
    BY <1>3 DEF WindowExpires
  <2>2. window' \in [Accounts \cup {Agents} -> [count : Nat, ttl : BOOLEAN]]
    BY <1>3, <1>t DEF WindowExpires, Typed
  <2> QED BY <1>d, <1>t, <2>1, <2>2 DEF Inv, Typed, AllSound, breaker
<1>4. CASE ResetAfter
  <2>1. UNCHANGED <<cached, window, failures, late, req, db>> /\ opened' = "due"
    BY <1>4 DEF ResetAfter
  <2> QED BY <1>d, <1>t, <2>1 DEF Inv, Typed, AllSound
<1>5. CASE UNCHANGED vars
  <2>1. UNCHANGED <<cached, window, breaker, req, db>>
    BY <1>5 DEF vars
  <2> QED BY <1>d, <1>t, <2>1 DEF Inv, Typed, AllSound, breaker
<1> QED BY <1>1, <1>2, <1>3, <1>4, <1>5 DEF Next, Acts

(* Nothing has been called. *)
LEMMA InitInv == Init => Inv
<1> SUFFICES ASSUME Init PROVE Inv
  OBVIOUS
<1>1. Idle = [Idle EXCEPT !.pc = "new"]
  BY DEF Idle
<1>2. Idle \in Call /\ Sound(Idle)
  BY <1>1, EndedCall
<1>3. PICK used \in SUBSET (Accounts \ NullAccounts) :
        /\ rollups = [a \in Accounts |-> [q \in {Earlier : x \in used \cap {a}} |-> 1]]
        /\ recorded = [a \in Accounts |-> IF a \in used THEN 1 ELSE 0]
  BY DEF Init
<1>4. ASSUME NEW a \in Accounts PROVE Rows(a) \subseteq RowIds /\ rollups[a] \in [Rows(a) -> Nat]
  BY <1>3 DEF Rows, RowIds
<1>5. rollups = [a \in Accounts |-> rollups[a]] /\ recorded \in [Accounts -> Nat]
  BY <1>3
<1>6. messages \in [Talks -> SUBSET Message] /\ \A t \in Talks : IsFiniteSet(messages[t])
  BY FS_EmptySet DEF Init
<1>7. req \in [Requests -> Call] /\ AllSound
  BY <1>2 DEF Init, AllSound
<1> QED BY <1>4, <1>5, <1>6, <1>7 DEF Init, Inv, Typed

(* The shapes hold in every state. *)
LEMMA Invariance == Spec => []Inv
BY InitInv, InvStep, PTL DEF Spec

(* No call is tried more often than the policy says, no session flushes    *)
(* more than one record per draft (core/llm/retry.py, services/llm).       *)
THEOREM TypeCorrect == Spec => []TypeOK
<1>1. Inv => TypeOK
  <2> SUFFICES ASSUME Inv PROVE TypeOK
    OBVIOUS
  <2>1. ASSUME NEW r \in Requests
        PROVE  /\ req[r].pc \in {"new"} \cup Running \cup Over
               /\ req[r].tries \in 0..MaxRetries /\ req[r].drafts \in 0..MaxDrafts
               /\ req[r].pending \in 0..(MaxDrafts + 1) /\ req[r].seen \in Nat
               /\ req[r].said \subseteq Message
    BY DEF Inv, Typed, Call, AllPlaces
  <2>2. \A a \in Accounts : /\ Rows(a) \subseteq Requests \cup {Earlier}
                            /\ \A q \in Rows(a) : rollups[a][q] \in Nat
    BY DEF Inv, Typed, RowIds
  <2> QED BY <2>1, <2>2 DEF Inv, Typed, TypeOK
<1> QED BY <1>1, Invariance, PTL

-----------------------------------------------------------------------------
(* Every record stands behind one rollup row: the row that the session     *)
(* that wrote it had read.  No row, and no copy of a row, counts more than *)
(* stand behind it.                                                        *)
Backs(a, owner) ==
    /\ \A q \in Rows(a) : rollups[a][q] <= Share(owner, recorded[a], q)
    /\ \A r \in Requests : HasRow(req[r]) /\ req[r].account = a =>
          req[r].seen <= Share(owner, recorded[a], req[r].row)

Backed == \A a \in Accounts : \E owner \in [1..recorded[a] -> RowIds] : Backs(a, owner)

(* A number of records stand behind a row. *)
LEMMA ShareIsNat == ASSUME NEW owner, NEW n \in Nat, NEW q PROVE Share(owner, n, q) \in Nat
<1> DEFINE all == 1..n
           those == {i \in all : owner[i] = q}
<1>1. IsFiniteSet(all)
  BY FS_Interval
<1>2. those \in SUBSET all
  OBVIOUS
<1>3. Share(owner, n, q) = Cardinality(those)
  BY DEF Share
<1> HIDE DEF those, all
<1>4. IsFiniteSet(those)
  BY <1>1, <1>2, FS_Subset
<1> QED BY <1>3, <1>4, FS_CardinalityType

(* The first n records stand where they stood, k more behind one row. *)
Adds(owner, n, k, row) == [i \in 1..(n + k) |-> IF i <= n THEN owner[i] ELSE row]

(* So much more stands behind it. *)
LEMMA AddsToShare ==
    ASSUME NEW n \in Nat, NEW k \in Nat \ {0}, NEW owner \in [1..n -> RowIds], NEW row \in RowIds
    PROVE  /\ Adds(owner, n, k, row) \in [1..(n + k) -> RowIds]
           /\ Share(Adds(owner, n, k, row), n + k, row) = Share(owner, n, row) + k
           /\ \A q \in RowIds : Share(owner, n, q) <= Share(Adds(owner, n, k, row), n + k, q)
<1> DEFINE next == Adds(owner, n, k, row)
           new == (n + 1)..(n + k)
           was(q) == {i \in 1..n : owner[i] = q}
           is(q) == {i \in 1..(n + k) : next[i] = q}
<1>1. next \in [1..(n + k) -> RowIds]
  BY DEF Adds
<1>2. \A i \in 1..(n + k) : next[i] = IF i <= n THEN owner[i] ELSE row
  BY DEF Adds
<1> HIDE DEF next
<1>3. \A q \in RowIds : was(q) \subseteq is(q)
  BY <1>2
<1>4. is(row) = was(row) \cup new /\ was(row) \cap new = {}
  BY <1>2
<1>5. IsFiniteSet(1..n) /\ IsFiniteSet(1..(n + k)) /\ IsFiniteSet(new) /\ Cardinality(new) = k
  BY FS_Interval
<1>6. \A q : was(q) \in SUBSET (1..n) /\ is(q) \in SUBSET (1..(n + k))
  OBVIOUS
<1>7. \A q : Share(owner, n, q) = Cardinality(was(q)) /\ Share(next, n + k, q) = Cardinality(is(q))
  BY DEF Share
<1> HIDE DEF was, is, new
<1>8. \A q : IsFiniteSet(was(q)) /\ IsFiniteSet(is(q))
  <2> DEFINE low == 1..n
             high == 1..(n + k)
  <2>1. IsFiniteSet(low) /\ IsFiniteSet(high) /\ \A q : was(q) \in SUBSET low /\ is(q) \in SUBSET high
    BY <1>5, <1>6
  <2> HIDE DEF low, high
  <2> QED BY <2>1, FS_Subset
<1>9. Cardinality(is(row)) = Cardinality(was(row)) + k
  <2>1. Cardinality(was(row)) \in Nat
    BY <1>8, FS_CardinalityType
  <2>2. Cardinality(was(row) \cup new) =
           Cardinality(was(row)) + Cardinality(new) - Cardinality(was(row) \cap new)
    BY <1>5, <1>8, FS_Union
  <2>3. Cardinality(was(row) \cap new) = 0
    BY <1>4, FS_EmptySet
  <2> QED BY <1>4, <1>5, <2>1, <2>2, <2>3
<1>10. ASSUME NEW q \in RowIds PROVE Cardinality(was(q)) <= Cardinality(is(q))
  BY <1>3, <1>8, FS_Subset
<1> QED BY <1>1, <1>7, <1>9, <1>10 DEF next

(* The first call of the day stands behind its row. *)
LEMMA InitBacked == Init => Backed
<1> SUFFICES ASSUME Init, NEW a \in Accounts
             PROVE  \E owner \in [1..recorded[a] -> RowIds] : Backs(a, owner)
  BY DEF Backed
<1>1. PICK used \in SUBSET (Accounts \ NullAccounts) :
        /\ rollups = [x \in Accounts |-> [q \in {Earlier : y \in used \cap {x}} |-> 1]]
        /\ recorded = [x \in Accounts |-> IF x \in used THEN 1 ELSE 0]
  BY DEF Init
<1> DEFINE owner == [i \in 1..recorded[a] |-> Earlier]
<1>2. owner \in [1..recorded[a] -> RowIds] /\ recorded[a] \in Nat
  BY <1>1 DEF RowIds
<1>3. \A r \in Requests : ~HasRow(req[r])
  BY DEF Init, Idle, HasRow
<1>4. ASSUME NEW q \in Rows(a) PROVE rollups[a][q] <= Share(owner, recorded[a], q)
  <2>1. q = Earlier /\ a \in used /\ rollups[a][q] = 1 /\ recorded[a] = 1
    BY <1>1 DEF Rows
  <2>2. {i \in 1..recorded[a] : owner[i] = q} = {1}
    BY <2>1
  <2>3. Share(owner, recorded[a], q) = 1
    BY <2>2, FS_Singleton DEF Share
  <2> QED BY <2>1, <2>3
<1> HIDE DEF owner
<1>5. Backs(a, owner)
  BY <1>3, <1>4 DEF Backs
<1> QED BY <1>2, <1>5

(* Whatever sessions overwrite, a record that is written stands behind the *)
(* row that its session writes.                                            *)
LEMMA BackedStep == Inv /\ Inv' /\ Backed /\ [Next]_vars => Backed'
<1> SUFFICES ASSUME Inv, Inv', Backed, [Next]_vars, NEW a \in Accounts
             PROVE  \E owner \in [1..recorded'[a] -> RowIds] : Backs(a, owner)'
  BY DEF Backed
<1>1. PICK owner \in [1..recorded[a] -> RowIds] : Backs(a, owner)
  BY DEF Backed
<1>n. recorded[a] \in Nat
  BY DEF Inv, Typed
<1>2. ASSUME UNCHANGED <<req, db>> PROVE Backs(a, owner)' /\ recorded'[a] = recorded[a]
  BY <1>1, <1>2 DEF Backs, Rows, db
<1>3. ASSUME NEW r \in Requests, Acts(r), UNCHANGED db
      PROVE  Backs(a, owner)' /\ recorded'[a] = recorded[a]
  <2>1. PICK c : Follows(r, c) /\ req' = [req EXCEPT ![r] = c]
    BY <1>3, ActsStep DEF Steps
  <2>2. req'[r] = c /\ \A q \in Requests \ {r} : req'[q] = req[q]
    BY <2>1, OtherCalls
  <2>3. recorded' = recorded /\ rollups' = rollups /\ Rows(a)' = Rows(a)
    BY <1>3 DEF db, Rows
  <2>4. ASSUME HasRow(c), c.account = a PROVE c.seen <= Share(owner, recorded[a], c.row)
    <3>1. Share(owner, recorded[a], c.row) \in Nat
      BY <1>n, ShareIsNat
    <3>2. KeepsRow(r, c)
      BY <2>1 DEF Follows
    <3> QED BY <1>1, <2>4, <3>1, <3>2 DEF KeepsRow, Backs
  <2>5. ASSUME NEW q \in Requests, HasRow(req'[q]), req'[q].account = a
        PROVE  req'[q].seen <= Share(owner, recorded[a], req'[q].row)
    BY <1>1, <2>2, <2>4, <2>5 DEF Backs
  <2>6. \A q \in Rows(a) : rollups[a][q] <= Share(owner, recorded[a], q)
    BY <1>1 DEF Backs
  <2> QED BY <2>3, <2>5, <2>6 DEF Backs
<1>4. ASSUME NEW r \in Requests, Commit(r)
      PROVE  \E next \in [1..recorded'[a] -> RowIds] : Backs(a, next)'
  <2> DEFINE d == req[r]
             b == d.account
             k == d.pending
             n == recorded[a]
             new == [q \in Rows(b) \cup {d.row} |->
                       IF q = d.row THEN d.seen + k ELSE rollups[b][q]]
  <2>1. /\ b \in Accounts /\ d.row \in RowIds /\ d.seen \in Nat /\ k \in Nat \ {0}
        /\ recorded' = [recorded EXCEPT ![b] = recorded[b] + k]
        /\ rollups' = [rollups EXCEPT ![b] = new]
    BY <1>4, CommitWrites
  <2>2. \A q \in Requests \ {r} : req'[q] = req[q]
    BY <1>4 DEF Commit, Ends, Inv, Typed
  <2>3. ~HasRow(req'[r])
    <3>1. PICK c : req' = [req EXCEPT ![r] = c] /\ Follows(r, c) /\ ~HasRow(c)
      BY <1>4, EndsTo DEF Commit, Over
    <3> QED BY <3>1, OtherCalls
  <2>4. HasRow(d) /\ d.pending > 0
    BY <2>1 DEF HasRow
  <2>5. CASE a # b
    <3>1. recorded'[a] = recorded[a] /\ rollups'[a] = rollups[a] /\ Rows(a)' = Rows(a)
      BY <2>1, <2>5 DEF Rows, Inv, Typed
    <3>2. Backs(a, owner)'
      BY <1>1, <2>2, <2>3, <3>1 DEF Backs
    <3> QED BY <1>1, <3>1, <3>2
  <2>6. CASE a = b
    <3>0. PICK next : next = Adds(owner, n, k, d.row)
      OBVIOUS
    <3>1. /\ next \in [1..(n + k) -> RowIds]
          /\ Share(next, n + k, d.row) = Share(owner, n, d.row) + k
          /\ \A q \in RowIds : Share(owner, n, q) <= Share(next, n + k, q)
      BY <1>n, <2>1, <3>0, AddsToShare
    <3>2. recorded'[a] = n + k /\ rollups'[a] = new
      BY <2>1, <2>6 DEF Inv, Typed
    <3>3. d.seen <= Share(owner, n, d.row)
      BY <1>1, <2>4, <2>6 DEF Backs
    <3>4. \A q : Share(owner, n, q) \in Nat /\ Share(next, n + k, q) \in Nat
      BY <1>n, <2>1, ShareIsNat
    <3>5. /\ DOMAIN new = Rows(b) \cup {d.row}
          /\ \A q \in DOMAIN new : new[q] = IF q = d.row THEN d.seen + k ELSE rollups[b][q]
      OBVIOUS
    <3> HIDE DEF new
    <3>6. ASSUME NEW q \in DOMAIN new PROVE new[q] <= Share(next, n + k, q)
      <4>1. CASE q = d.row
        BY <2>1, <3>1, <3>3, <3>4, <3>5, <4>1
      <4>2. CASE q # d.row
        <5>1. q \in Rows(a) /\ q \in RowIds /\ new[q] = rollups[a][q] /\ rollups[a][q] \in Nat
          BY <2>6, <3>5, <4>2 DEF Inv, Typed
        <5>2. rollups[a][q] <= Share(owner, n, q)
          BY <1>1, <5>1 DEF Backs
        <5> QED BY <3>1, <3>4, <5>1, <5>2
      <4> QED BY <4>1, <4>2
    <3>7. ASSUME NEW q \in Requests, HasRow(req'[q]), req'[q].account = a
          PROVE  req'[q].seen <= Share(next, n + k, req'[q].row)
      <4>1. q # r /\ req'[q] = req[q]
        BY <2>2, <2>3, <3>7
      <4>2. req[q] \in Call /\ Sound(req[q])
        BY DEF Inv, Typed, AllSound
      <4>3. req[q].row \in RowIds /\ req[q].seen \in Nat
        BY <3>7, <4>1, <4>2 DEF Sound, Call
      <4>4. req[q].seen <= Share(owner, n, req[q].row)
        BY <1>1, <3>7, <4>1 DEF Backs
      <4>5. Share(owner, n, req[q].row) <= Share(next, n + k, req[q].row)
        BY <3>1, <4>3
      <4> QED BY <3>4, <4>1, <4>3, <4>4, <4>5
    <3>8. Rows(a)' = DOMAIN new
      BY <3>2 DEF Rows
    <3>9. Backs(a, next)'
      BY <3>2, <3>6, <3>7, <3>8 DEF Backs
    <3> QED BY <3>1, <3>2, <3>9
  <2> QED BY <2>5, <2>6
<1>5. ASSUME NEW r \in Requests, Acts(r) PROVE Commit(r) \/ UNCHANGED db
  BY <1>5
  DEF Acts, Proceed, Begin, CheckRpm, Store, Admit, Answer, TransientFailure, OtherFailure,
      Retry, StreamBegins, StreamEnds, StreamCloses, AccountRead, Flush, FlushMalformed, AppendTurn,
      Abort
<1>6. CASE UNCHANGED <<req, db>>
  BY <1>1, <1>2, <1>6
<1>7. ASSUME NEW r \in Requests, Acts(r)
      PROVE  \E next \in [1..recorded'[a] -> RowIds] : Backs(a, next)'
  BY <1>1, <1>3, <1>4, <1>5, <1>7
<1> QED BY <1>6, <1>7 DEF Next, Acts, CacheExpires, WindowExpires, ResetAfter, vars

(* The counts of the rollups of an organization, a day and a model, taken  *)
(* together, never exceed the records (AccountingService.record), for any  *)
(* number of sessions that overwrite each other's counts.                  *)
THEOREM RollupsCorrect == Spec => []RollupsNeverExceedRecords
<1>1. Inv /\ Backed => RollupsNeverExceedRecords
  <2> SUFFICES ASSUME Inv, Backed, NEW a \in Accounts
               PROVE  MapThenSumSet(LAMBDA q : rollups[a][q], Rows(a)) <= recorded[a]
    BY DEF RollupsNeverExceedRecords
  <2> DEFINE f == rollups[a]
             S == Rows(a)
  <2>1. PICK owner \in [1..recorded[a] -> RowIds] : Backs(a, owner)
    BY DEF Backed
  <2>2. recorded[a] \in Nat /\ S \in SUBSET RowIds /\ f \in [S -> Nat]
    BY DEF Inv, Typed
  <2>3. IsFiniteSet(RowIds)
    BY LlmAssumption, FS_AddElement DEF RowIds
  <2>4. IsFiniteSet(S)
    BY <2>2, <2>3, FS_Subset
  <2>5. \A q \in S : f[q] <= Share(owner, recorded[a], q)
    BY <2>1 DEF Backs
  <2>6. PICK g \in [SUBSET S -> Nat] : IsSum(g, f, S) /\ MapThenSumSet(LAMBDA x : f[x], S) = g[S]
    <3> HIDE DEF f, S
    <3> QED BY <2>2, <2>4, SumOfMap
  <2>7. g[S] <= recorded[a]
    <3> HIDE DEF f, S
    <3> QED BY <2>2, <2>4, <2>5, <2>6, SumBounded
  <2> QED BY <2>6, <2>7
<1>2. Init => Inv /\ Backed
  BY InitInv, InitBacked
<1>3. Inv /\ Backed /\ [Next]_vars => (Inv /\ Backed)'
  BY InvStep, BackedStep
<1> QED BY <1>1, <1>2, <1>3, PTL DEF Spec

-----------------------------------------------------------------------------
(* The lock on the rollup row: of the sessions that have flushed to the    *)
(* rollup of one organization there is one.                                *)
OneLock ==
    \A q, r \in Requests :
        q # r /\ req[q].pending > 0 /\ req[r].pending > 0 /\ req[q].account = req[r].account
        => req[r].account \in NullAccounts

(* What a session has said and not committed comes after all that others   *)
(* of the account have committed to the conversation.                      *)
AheadOf(c, rows) ==
    /\ \A m \in c.said : m.account = c.account
    /\ \A m, n \in c.said : m.seq = n.seq => m = n
    /\ c.account \notin NullAccounts =>
          \A m \in c.said : \A n \in rows : n.account = m.account => n.seq < m.seq

Ahead == \A r \in Requests : AheadOf(req[r], messages[req[r].talk])

(* Locks are kept, and taken when they are free. *)
LEMMA LockStep ==
    ASSUME Inv, OneLock, NEW r \in Requests, NEW c, Follows(r, c), req' = [req EXCEPT ![r] = c]
    PROVE  OneLock'
<1>1. req'[r] = c /\ \A q \in Requests \ {r} : req'[q] = req[q]
  BY OtherCalls
<1>2. KeepsLock(r, c)
  BY DEF Follows
<1>3. ASSUME NEW q \in Requests \ {r}, req[q].pending > 0, c.pending > 0, req[q].account = c.account
      PROVE  c.account \in NullAccounts
  BY <1>2, <1>3 DEF KeepsLock, OneLock, Locked
<1> QED BY <1>1, <1>3 DEF OneLock

(* Who has said something holds the lock. *)
LEMMA SaidLocks ==
    ASSUME Inv, NEW r \in Requests, req[r].said # {}
    PROVE  req[r].pending > 0 /\ req[r].talk \in Talks
<1>1. req[r] \in Call /\ Sound(req[r])
  BY DEF Inv, Typed, AllSound
<1>2. req[r].pc \in Flushed /\ req[r].drafts \in Nat /\ req[r].talk \in Talks
  BY <1>1, LlmAssumption DEF Sound, Flushed, Call
<1> QED BY <1>1, <1>2 DEF Sound

(* A session that speaks goes past what it sees. *)
LEMMA SpeakerAhead ==
    ASSUME Inv, Ahead, NEW r \in Requests, NEW c, Follows(r, c), c.said # {}
    PROVE  AheadOf(c, messages[req[r].talk]) /\ c.talk = req[r].talk
<1> DEFINE d == req[r]
<1>1. c \in Call /\ Sound(c) /\ KeepsSaid(r, c)
  BY DEF Follows
<1>2. c.talk = d.talk /\ c.account = d.account /\ d.talk \in Talks
  BY <1>1 DEF KeepsSaid, Sound
<1>3. AheadOf(d, messages[d.talk])
  BY DEF Ahead
<1>4. CASE c.said = d.said
  BY <1>2, <1>3, <1>4 DEF AheadOf
<1>5. ASSUME NEW m \in Message, c.said = d.said \cup {m}, m.seq = NextSequence(r),
             m.account = d.account
      PROVE  AheadOf(c, messages[d.talk])
  <2>1. NextSequence(r) \in Nat /\ \A n \in messages[d.talk] \cup d.said : n.seq < m.seq
    BY <1>2, <1>5, NextIsPast
  <2>2. d.said \subseteq Message /\ \A n \in d.said : n.seq \in Nat
    BY DEF Inv, Typed, Call, Message
  <2>3. \A n \in d.said : n.seq # m.seq
    BY <1>5, <2>1, <2>2
  <2>4. \A n \in c.said : n.account = c.account
    BY <1>2, <1>3, <1>5 DEF AheadOf
  <2>5. \A x, y \in c.said : x.seq = y.seq => x = y
    BY <1>3, <1>5, <2>3 DEF AheadOf
  <2>6. c.account \notin NullAccounts =>
           \A x \in c.said : \A n \in messages[d.talk] : n.account = x.account => n.seq < x.seq
    BY <1>2, <1>3, <1>5, <2>1 DEF AheadOf
  <2> QED BY <2>4, <2>5, <2>6 DEF AheadOf
<1> QED BY <1>1, <1>2, <1>4, <1>5 DEF KeepsSaid

Ordered == OneLock /\ Ahead /\ SequencesDiffer

(* The numbers stay apart. *)
LEMMA OrderedStep == Inv /\ Ordered /\ [Next]_vars => Ordered'
<1> SUFFICES ASSUME Inv, Ordered, [Next]_vars PROVE Ordered'
  OBVIOUS
<1>1. CASE UNCHANGED <<req, messages>>
  BY <1>1 DEF Ordered, OneLock, Ahead, SequencesDiffer
<1>2. ASSUME NEW r \in Requests, Acts(r) PROVE Ordered'
  <2>1. PICK c : Follows(r, c) /\ req' = [req EXCEPT ![r] = c]
    BY <1>2, ActsStep DEF Steps
  <2>2. req'[r] = c /\ \A q \in Requests \ {r} : req'[q] = req[q]
    BY <2>1, OtherCalls
  <2>3. OneLock'
    BY <2>1, LockStep DEF Ordered
  <2>4. CASE UNCHANGED messages
    <3>1. AheadOf(c, messages[c.talk])
      <4>1. CASE c.said = {}
        BY <4>1 DEF AheadOf
      <4>2. CASE c.said # {}
        BY <2>1, <4>2, SpeakerAhead DEF Ordered
      <4> QED BY <4>1, <4>2
    <3>2. \A q \in Requests : AheadOf(req'[q], messages[req'[q].talk])
      BY <2>2, <3>1 DEF Ordered, Ahead
    <3> QED BY <2>3, <2>4, <3>2 DEF Ordered, Ahead, SequencesDiffer
  <2>5. CASE Commit(r)
    <3> DEFINE d == req[r]
    <3>1. /\ d.said \subseteq Message /\ d.pending \in Nat \ {0}
          /\ messages' = [t \in Talks |-> IF t = d.talk THEN messages[t] \cup d.said ELSE messages[t]]
      BY <2>5, CommitWrites
    <3>2. AheadOf(d, messages[d.talk])
      BY DEF Ordered, Ahead
    <3>3. req'[r].said = {}
      <4>1. PICK e : req' = [req EXCEPT ![r] = e] /\ Follows(r, e) /\ e.said = {}
        BY <2>5, EndsTo DEF Commit, Over
      <4> QED BY <4>1, OtherCalls
    <3>4. ASSUME NEW q \in Requests \ {r}, req[q].said # {}, req[q].account \notin NullAccounts
          PROVE  d.account # req[q].account
      BY <3>1, <3>4, SaidLocks DEF Ordered, OneLock
    <3>5. ASSUME NEW q \in Requests PROVE AheadOf(req'[q], messages'[req'[q].talk])
      <4>1. CASE q = r
        BY <3>3, <4>1 DEF AheadOf
      <4>2. CASE q # r
        <5>1. AheadOf(req[q], messages[req[q].talk]) /\ req'[q] = req[q]
          BY <2>2, <4>2 DEF Ordered, Ahead
        <5>2. CASE req[q].said = {}
          BY <5>1, <5>2 DEF AheadOf
        <5>3. CASE req[q].said # {}
          <6>1. req[q].talk \in Talks
            BY <5>3, SaidLocks
          <6>2. messages'[req[q].talk] \subseteq messages[req[q].talk] \cup d.said
            BY <3>1, <6>1
          <6>3. ASSUME req[q].account \notin NullAccounts, NEW m \in req[q].said,
                       NEW n \in messages'[req[q].talk], n.account = m.account
                PROVE  n.seq < m.seq
            <7>1. m.account = req[q].account
              BY <5>1 DEF AheadOf
            <7>2. n \notin d.said
              BY <3>2, <3>4, <4>2, <5>3, <6>3, <7>1 DEF AheadOf
            <7> QED BY <5>1, <6>2, <6>3, <7>2 DEF AheadOf
          <6> QED BY <5>1, <6>3 DEF AheadOf
        <5> QED BY <5>2, <5>3
      <4> QED BY <4>1, <4>2
    <3>6. ASSUME NEW t \in Talks, NEW m \in messages'[t], NEW n \in messages'[t],
                 m.seq = n.seq, m.account = n.account, m.account \notin NullAccounts
          PROVE  m = n
      <4>1. \A x, y \in messages[t] :
               x.seq = y.seq /\ x.account = y.account /\ x.account \notin NullAccounts => x = y
        BY DEF Ordered, SequencesDiffer
      <4>2. CASE t # d.talk
        BY <3>1, <3>6, <4>1, <4>2
      <4>3. CASE t = d.talk
        <5>1. m \in messages[t] \cup d.said /\ n \in messages[t] \cup d.said
          BY <3>1, <4>3
        <5>2. m.seq \in Nat /\ n.seq \in Nat
          BY <3>1, <5>1 DEF Inv, Typed, Message
        <5>3. CASE m \in d.said /\ n \in d.said
          BY <3>2, <3>6, <5>3 DEF AheadOf
        <5>4. CASE m \in d.said /\ n \in messages[t]
          BY <3>2, <3>6, <4>3, <5>2, <5>4 DEF AheadOf
        <5>5. CASE n \in d.said /\ m \in messages[t]
          BY <3>2, <3>6, <4>3, <5>2, <5>5 DEF AheadOf
        <5>6. CASE m \in messages[t] /\ n \in messages[t]
          BY <3>6, <4>1, <5>6
        <5> QED BY <5>1, <5>3, <5>4, <5>5, <5>6
      <4> QED BY <4>2, <4>3
    <3>7. Ahead'
      BY <3>5 DEF Ahead
    <3>8. SequencesDiffer'
      BY <3>6 DEF SequencesDiffer
    <3> QED BY <2>3, <3>7, <3>8 DEF Ordered
  <2> QED BY <1>2, <2>4, <2>5
    DEF Acts, Proceed, Begin, CheckRpm, Store, Admit, Answer, TransientFailure, OtherFailure,
        Retry, StreamBegins, StreamEnds, StreamCloses, AccountRead, Flush, FlushMalformed, AppendTurn,
        Abort, db
<1> QED BY <1>1, <1>2 DEF Next, Acts, CacheExpires, WindowExpires, ResetAfter, vars, db

(* next_sequence gives no number twice to turns that are accounted to one  *)
(* organization, day and model, for any number of sessions: the rollup row *)
(* they flush first is their lock (ConversationService.append after        *)
(* AccountingService.record).                                              *)
THEOREM SequencesCorrect == Spec => []SequencesDiffer
<1>1. Init => Inv /\ Ordered
  <2> SUFFICES ASSUME Init PROVE Ordered
    BY InitInv
  <2>1. \A r \in Requests : req[r].pending = 0 /\ req[r].said = {}
    BY DEF Init, Idle
  <2>2. \A t \in Talks : messages[t] = {}
    BY DEF Init
  <2> QED BY <2>1, <2>2 DEF Ordered, OneLock, Ahead, AheadOf, SequencesDiffer
<1>2. Inv /\ Ordered /\ [Next]_vars => (Inv /\ Ordered)'
  BY InvStep, OrderedStep
<1>3. Ordered => SequencesDiffer
  BY DEF Ordered
<1> QED BY <1>1, <1>2, <1>3, PTL DEF Spec

-----------------------------------------------------------------------------
(* Slots are never given out twice. *)
SlotsKept == Cardinality(Holders) <= Concurrent

(* A slot is taken when there is one. *)
LEMMA SlotsStep ==
    ASSUME Inv, SlotsKept, NEW r \in Requests, NEW c, Follows(r, c), req' = [req EXCEPT ![r] = c]
    PROVE  SlotsKept'
<1>1. req'[r] = c /\ \A q \in Requests \ {r} : req'[q] = req[q]
  BY OtherCalls
<1>2. KeepsSlots(r, c)
  BY DEF Follows
<1>3. Holders \subseteq Requests /\ Holders' \subseteq Requests
  BY DEF Holders
<1>4. \A q \in Requests \ {r} : q \in Holders' => q \in Holders
  BY <1>1 DEF Holders, InSlot
<1>5. r \in Holders' => r \in Holders \/ SlotFree
  BY <1>1, <1>2 DEF Holders, InSlot, KeepsSlots
<1>6. IsFiniteSet(Holders) /\ Cardinality(Holders) \in Nat
  BY <1>3, LlmAssumption, FS_Subset, FS_CardinalityType
<1>7. CASE Holders' \subseteq Holders
  <2>1. /\ IsFiniteSet(Holders') /\ Cardinality(Holders') \in Nat
        /\ Cardinality(Holders') <= Cardinality(Holders)
    BY <1>6, <1>7, FS_Subset, FS_CardinalityType
  <2> QED BY <1>6, <2>1, LlmAssumption DEF SlotsKept
<1>8. CASE Holders' \subseteq Holders \cup {r} /\ SlotFree
  <2>1. /\ IsFiniteSet(Holders \cup {r})
        /\ Cardinality(Holders \cup {r}) \in Nat
        /\ Cardinality(Holders \cup {r}) <= Cardinality(Holders) + 1
    <3>1. /\ IsFiniteSet(Holders \cup {r})
          /\ Cardinality(Holders \cup {r}) = IF r \in Holders THEN Cardinality(Holders)
                                             ELSE Cardinality(Holders) + 1
      BY <1>6, FS_AddElement
    <3> QED BY <1>6, <3>1
  <2>2. Cardinality(Holders') <= Cardinality(Holders \cup {r}) /\ Cardinality(Holders') \in Nat
    BY <1>8, <2>1, FS_Subset, FS_CardinalityType
  <2> QED BY <1>6, <1>8, <2>1, <2>2, LlmAssumption DEF SlotFree, SlotsKept
<1> QED BY <1>3, <1>4, <1>5, <1>7, <1>8

(* The attempts that are late are retries of calls that held a slot when   *)
(* the circuit opened; no call makes the same retry twice.                 *)
Busy == {"calling", "backoff"}

Explains(H, L) ==
    /\ H \subseteq Requests /\ Cardinality(H) <= Concurrent
    /\ L \subseteq H \X (1..MaxRetries) /\ Cardinality(L) = late
    /\ opened # "no" =>
          /\ \A r \in Requests : req[r].pc \in Busy => r \in H
          /\ \A h \in H, i \in 1..MaxRetries : <<h, i>> \in L =>
                /\ req[h].pc = "calling" => i <= req[h].tries
                /\ req[h].pc = "backoff" => i < req[h].tries

Explained == \E H, L : Explains(H, L)

(* What the other steps do to the calls that are busy. *)
LEMMA QuietStep ==
    ASSUME Inv, NEW r \in Requests, Acts(r)
    PROVE  \/ Admit(r) \/ Answer(r) \/ Retry(r) \/ TransientFailure(r) \/ OtherFailure(r)
           \/ UNCHANGED breaker /\ req'[r].pc \notin Busy
<1>1. req \in [Requests -> Call]
  BY DEF Inv, Typed
<1>2. ASSUME NEW p, Moves(r, p) PROVE req'[r].pc = p
  BY <1>1, <1>2 DEF Moves, Call
<1>3. ASSUME NEW p, Ends(r, p) PROVE req'[r].pc = p
  BY <1>1, <1>3 DEF Ends, Idle
<1> USE DEF Busy
<1>4. ASSUME NEW kind, NEW a, NEW q, NEW t, Begin(r, kind, a, q, t)
      PROVE  UNCHANGED breaker /\ req'[r].pc \notin Busy
  <2>1. req'[r].pc \in {"limit", "done", "accounting"}
    BY <1>1, <1>4 DEF Begin, Idle, AfterAnswer
  <2> QED BY <1>4, <2>1 DEF Begin
<1>5. CASE CheckRpm(r)
  BY <1>2, <1>3, <1>5 DEF CheckRpm
<1>6. CASE Store(r)
  BY <1>2, <1>6 DEF Store, AfterAnswer
<1>7. CASE StreamBegins(r) \/ StreamEnds(r) \/ StreamCloses(r)
  BY <1>2, <1>3, <1>7 DEF StreamBegins, StreamEnds, StreamCloses
<1>8. CASE AccountRead(r)
  <2>1. req'[r].pc \in {"failed", "flushing"}
    BY <1>1, <1>2, <1>3, <1>8 DEF AccountRead, Call
  <2> QED BY <1>8, <2>1 DEF AccountRead
<1>9. CASE Flush(r) \/ FlushMalformed(r)
  <2>1. req'[r].pc \in {"failed", "commit", "append", "closing", "limit"}
    BY <1>1, <1>3, <1>9 DEF Flush, FlushMalformed, Flushes, Call
  <2> QED BY <1>9, <2>1 DEF Flush, FlushMalformed
<1>10. CASE AppendTurn(r)
  <2>1. req'[r].pc \in {"reply", "commit"}
    BY <1>1, <1>10 DEF AppendTurn, Call
  <2> QED BY <1>10, <2>1 DEF AppendTurn
<1>11. CASE Commit(r) \/ Abort(r)
  BY <1>3, <1>11 DEF Commit, Abort
<1> QED BY <1>4, <1>5, <1>6, <1>7, <1>8, <1>9, <1>10, <1>11 DEF Acts, Proceed

(* Late attempts stay explained. *)
LEMMA ExplainedStep == Inv /\ SlotsKept' /\ Explained /\ [Next]_vars => Explained'
<1> SUFFICES ASSUME Inv, SlotsKept', Explained, [Next]_vars PROVE Explained'
  OBVIOUS
<1>1. PICK H, L : Explains(H, L)
  BY DEF Explained
<1>2. CASE UNCHANGED <<req, breaker>>
  <2>1. Explains(H, L)'
    BY <1>1, <1>2 DEF Explains, breaker
  <2> QED BY <2>1 DEF Explained
<1>3. CASE ResetAfter
  <2>1. Explains(H, L)'
    BY <1>1, <1>3 DEF Explains, ResetAfter
  <2> QED BY <2>1 DEF Explained
<1>4. ASSUME NEW r \in Requests, Acts(r) PROVE Explained'
  <2> DEFINE d == req[r]
  <2>1. PICK c : Follows(r, c) /\ req' = [req EXCEPT ![r] = c]
    BY <1>4, ActsStep DEF Steps
  <2>2. req'[r] = c /\ \A q \in Requests \ {r} : req'[q] = req[q]
    BY <2>1, OtherCalls
  <2>3. c \in Call /\ Sound(c) /\ d \in Call /\ Sound(d) /\ req \in [Requests -> Call]
    BY <2>1 DEF Follows, Inv, Typed, AllSound
  <2>n. d.tries \in Nat
    BY <2>3, LlmAssumption DEF Call
  <2>4. CASE opened' = "no" /\ late' = late
    <3>1. Explains(H, L)'
      BY <1>1, <2>4 DEF Explains
    <3> QED BY <3>1 DEF Explained
  <2>5. CASE UNCHANGED breaker /\ req'[r].pc \notin Busy
    <3>1. Explains(H, L)'
      BY <1>1, <2>2, <2>5 DEF Explains, breaker, Busy
    <3> QED BY <3>1 DEF Explained
  <2>6. CASE Retry(r)
    <3>1. d.pc = "backoff" /\ opened' = opened /\ late' = IF opened = "yes" THEN late + 1 ELSE late
      BY <2>6 DEF Retry, Attempt
    <3>2. c.pc = "calling" /\ c.tries = d.tries
      BY <2>2, <2>3, <2>6 DEF Retry, Attempt, Call
    <3>3. CASE opened # "yes"
      <4>1. ASSUME opened' # "no", NEW h \in H, NEW i \in 1..MaxRetries, <<h, i>> \in L
            PROVE  /\ req'[h].pc = "calling" => i <= req'[h].tries
                   /\ req'[h].pc = "backoff" => i < req'[h].tries
        <5>1. /\ req[h].pc = "calling" => i <= req[h].tries
              /\ req[h].pc = "backoff" => i < req[h].tries
          BY <1>1, <3>1, <4>1 DEF Explains
        <5>2. h \in Requests
          BY <1>1 DEF Explains
        <5> QED BY <2>2, <2>n, <3>1, <3>2, <5>1, <5>2
      <4>2. \A q \in Requests : req'[q].pc \in Busy => req[q].pc \in Busy
        BY <2>2, <3>1 DEF Busy
      <4>3. Explains(H, L)'
        BY <1>1, <3>1, <3>3, <4>1, <4>2 DEF Explains
      <4> QED BY <4>3 DEF Explained
    <3>4. CASE opened = "yes"
      <4>0. PICK M : M = L \cup {<<r, d.tries>>}
        OBVIOUS
      <4>1. d.tries \in 1..MaxRetries
        BY <2>3, <3>1 DEF Sound, Call
      <4>2. r \in H /\ <<r, d.tries>> \notin L
        BY <1>1, <2>n, <3>1, <3>4, <4>1 DEF Explains, Busy
      <4>3. IsFiniteSet(L)
        <5>1. IsFiniteSet(H)
          BY <1>1, LlmAssumption, FS_Subset DEF Explains
        <5>2. IsFiniteSet(1..MaxRetries)
          BY LlmAssumption, FS_Interval
        <5>3. IsFiniteSet(H \X (1..MaxRetries))
          BY <5>1, <5>2, FS_Product
        <5> QED BY <1>1, <5>3, FS_Subset DEF Explains
      <4>4. Cardinality(M) = late + 1
        BY <1>1, <4>0, <4>2, <4>3, FS_AddElement DEF Explains
      <4>5. M \subseteq H \X (1..MaxRetries)
        BY <1>1, <4>0, <4>1, <4>2 DEF Explains
      <4>6. ASSUME NEW h \in H, NEW i \in 1..MaxRetries, <<h, i>> \in M
            PROVE  /\ req'[h].pc = "calling" => i <= req'[h].tries
                   /\ req'[h].pc = "backoff" => i < req'[h].tries
        <5>1. CASE <<h, i>> \in L
          <6>1. /\ req[h].pc = "calling" => i <= req[h].tries
                /\ req[h].pc = "backoff" => i < req[h].tries
            BY <1>1, <3>4, <5>1 DEF Explains
          <6>2. h \in Requests
            BY <1>1 DEF Explains
          <6> QED BY <2>2, <2>n, <3>1, <3>2, <6>1, <6>2
        <5>2. CASE <<h, i>> = <<r, d.tries>>
          BY <2>2, <2>n, <3>2, <5>2
        <5> QED BY <4>0, <4>6, <5>1, <5>2
      <4>7. \A q \in Requests : req'[q].pc \in Busy => req[q].pc \in Busy
        BY <2>2, <3>1 DEF Busy
      <4>8. Explains(H, M)'
        BY <1>1, <3>1, <3>4, <4>4, <4>5, <4>6, <4>7 DEF Explains
      <4> QED BY <4>8 DEF Explained
    <3> QED BY <3>3, <3>4
  <2>7. CASE TransientFailure(r) \/ OtherFailure(r)
    <3>1. d.pc = "calling" /\ RecordFailure
      BY <2>7 DEF TransientFailure, OtherFailure
    <3>2. c.pc = "failed" \/ (c.pc = "backoff" /\ c.tries = d.tries + 1)
      BY <2>2, <2>3, <2>7 DEF TransientFailure, OtherFailure, Ends, Idle, Call
    <3>3. CASE opened # "no"
      <4>1. late' = late
        BY <3>1, <3>3 DEF RecordFailure
      <4>2. ASSUME NEW h \in H, NEW i \in 1..MaxRetries, <<h, i>> \in L
            PROVE  /\ req'[h].pc = "calling" => i <= req'[h].tries
                   /\ req'[h].pc = "backoff" => i < req'[h].tries
        <5>1. /\ req[h].pc = "calling" => i <= req[h].tries
              /\ req[h].pc = "backoff" => i < req[h].tries
          BY <1>1, <3>3, <4>2 DEF Explains
        <5>2. h \in Requests
          BY <1>1 DEF Explains
        <5> QED BY <2>2, <2>n, <3>1, <3>2, <5>1, <5>2
      <4>3. \A q \in Requests : req'[q].pc \in Busy => req[q].pc \in Busy
        BY <2>2, <3>1 DEF Busy
      <4>4. Explains(H, L)'
        BY <1>1, <3>3, <4>1, <4>2, <4>3 DEF Explains
      <4> QED BY <4>4 DEF Explained
    <3>4. CASE opened = "no"
      <4>1. late' = 0
        BY <3>1, <3>4 DEF RecordFailure
      <4>2. PICK now : now = {q \in Requests : req'[q].pc \in Busy}
        OBVIOUS
      <4>3. now \subseteq Holders' /\ Holders' \subseteq Requests
        BY <4>2 DEF Holders, InSlot, Busy
      <4>4. Cardinality(now) <= Concurrent
        <5>1. IsFiniteSet(Holders')
          BY <4>3, LlmAssumption, FS_Subset
        <5>2. Cardinality(now) <= Cardinality(Holders') /\ IsFiniteSet(now)
          BY <4>3, <5>1, FS_Subset
        <5>3. Cardinality(now) \in Nat /\ Cardinality(Holders') \in Nat
          BY <5>1, <5>2, FS_CardinalityType
        <5> QED BY <5>2, <5>3, LlmAssumption DEF SlotsKept
      <4>5. Explains(now, {})'
        BY <4>1, <4>2, <4>4, FS_EmptySet DEF Explains
      <4> QED BY <4>5 DEF Explained
    <3> QED BY <3>3, <3>4
  <2>8. CASE Answer(r)
    BY <2>4, <2>8 DEF Answer
  <2>9. CASE Admit(r)
    <3>1. CASE opened = "yes" /\ Ends(r, "open") /\ UNCHANGED breaker
      <4>1. req'[r].pc = "open"
        BY <2>3, <3>1 DEF Ends, Idle
      <4> QED BY <2>5, <3>1, <4>1 DEF Busy
    <3> QED BY <2>4, <2>9, <3>1 DEF Admit, Attempt
  <2> QED BY <1>4, <2>5, <2>6, <2>7, <2>8, <2>9, QuietStep
<1> QED BY <1>2, <1>3, <1>4 DEF Next, Acts, CacheExpires, WindowExpires, vars

(* Once the circuit has opened (CircuitBreaker.record_failure), the        *)
(* provider sees no more attempts than the calls that hold a slot have     *)
(* retries, whatever the order of failures, retries and resets.            *)
THEOREM LateCorrect == Spec => []FewLateAttempts
<1>1. Init => Inv /\ SlotsKept /\ Explained
  <2> SUFFICES ASSUME Init PROVE SlotsKept /\ Explained
    BY InitInv
  <2>1. Holders = {}
    BY DEF Init, Idle, Holders, InSlot
  <2>2. SlotsKept
    BY <2>1, FS_EmptySet, LlmAssumption DEF SlotsKept
  <2>3. Explains({}, {})
    BY FS_EmptySet, LlmAssumption DEF Init, Explains
  <2> QED BY <2>2, <2>3 DEF Explained
<1>2. Inv /\ SlotsKept /\ [Next]_vars => SlotsKept'
  <2> SUFFICES ASSUME Inv, SlotsKept, [Next]_vars PROVE SlotsKept'
    OBVIOUS
  <2>1. CASE UNCHANGED req
    <3>1. Holders' = Holders
      BY <2>1 DEF Holders, InSlot
    <3> QED BY <3>1 DEF SlotsKept
  <2>2. ASSUME NEW r \in Requests, Acts(r) PROVE SlotsKept'
    BY <2>2, ActsStep, SlotsStep DEF Steps
  <2> QED BY <2>1, <2>2 DEF Next, Acts, CacheExpires, WindowExpires, ResetAfter, vars
<1>3. Inv /\ SlotsKept /\ Explained /\ [Next]_vars => (Inv /\ SlotsKept /\ Explained)'
  BY <1>2, InvStep, ExplainedStep
<1>4. Explained => FewLateAttempts
  <2> SUFFICES ASSUME Explained PROVE FewLateAttempts
    OBVIOUS
  <2>1. PICK H, L : Explains(H, L)
    BY DEF Explained
  <2>2. IsFiniteSet(H) /\ Cardinality(H) \in Nat /\ Cardinality(H) <= Concurrent
    BY <2>1, LlmAssumption, FS_Subset, FS_CardinalityType DEF Explains
  <2>3. IsFiniteSet(1..MaxRetries) /\ Cardinality(1..MaxRetries) = MaxRetries
    BY LlmAssumption, FS_Interval
  <2>4. /\ IsFiniteSet(H \X (1..MaxRetries))
        /\ Cardinality(H \X (1..MaxRetries)) = Cardinality(H) * MaxRetries
    BY <2>2, <2>3, FS_Product
  <2>5. late <= Cardinality(H) * MaxRetries
    BY <2>1, <2>4, FS_Subset DEF Explains
  <2>6. Cardinality(H) * MaxRetries <= Concurrent * MaxRetries
    BY <2>2, LlmAssumption
  <2>7. late \in Nat /\ Cardinality(H) * MaxRetries \in Nat /\ Concurrent * MaxRetries \in Nat
    <3>1. IsFiniteSet(L)
      BY <2>1, <2>4, FS_Subset DEF Explains
    <3> QED BY <2>1, <2>2, <3>1, LlmAssumption, FS_CardinalityType DEF Explains
  <2> QED BY <2>5, <2>6, <2>7 DEF FewLateAttempts
<1> QED BY <1>1, <1>3, <1>4, PTL DEF Spec
=============================================================================
