------------------------- MODULE VideoPipelineProofs -------------------------
(***************************************************************************)
(* What the pipeline guarantees for any number of callers, runs, scripts   *)
(* and days.  The versions carry the argument: a row that still has the    *)
(* version a session loaded is the row that session loaded (Loaded), so a  *)
(* commit that passes the comparison builds on what is stored.             *)
(***************************************************************************)
EXTENDS VideoPipeline, FiniteSetTheorems, TLAPS

(* What a session that has loaded a run knows of it and of the video. *)
Loaded(w) ==
    (session[w].pc # "idle" /\ session[w].op # "start") =>
        /\ session[w].run \in DOMAIN runs
        /\ session[w].row.version <= runs[session[w].run].version
        /\ session[w].row.version = runs[session[w].run].version
             => session[w].row = runs[session[w].run]
        /\ session[w].video.version <= video.version
        /\ session[w].video.version = video.version => session[w].video = video

(* What a call relies on from its Begin to its commit. *)
Checked(w) ==
    /\ session[w].pc \in {"claimed", "uploaded"} => session[w].op = "publish"
    /\ session[w].pc = "uploaded" => session[w].seen # 0
    /\ session[w].pc # "idle" =>
        /\ session[w].op \in {"voiceover", "render"} => session[w].video.current # 0
        /\ session[w].op = "script" => /\ session[w].seen = session[w].video.current
                                       /\ session[w].seen <= scripts

(* One session at a time holds the publication. *)
OneClaim ==
    \A v, w \in Workers :
        session[v].pc \in {"claimed", "uploaded"} /\ session[w].pc \in {"claimed", "uploaded"}
            => v = w

Inv ==
    /\ TypeOK
    /\ uploads \in Seq(Nat)
    /\ \A w \in Workers : Loaded(w) /\ Checked(w)
    /\ OneClaim
    /\ CurrentIsNewest

-----------------------------------------------------------------------------
(* _advance makes a row of a row, keeps its version and all its artifacts  *)
(* but the one it stores.                                                  *)
LEMMA AdvanceTyped ==
    ASSUME NEW row \in RunRow, NEW stage \in Stages, NEW name \in Artifacts, NEW value \in Nat
    PROVE  /\ Advance(row, stage, name, value) \in RunRow
           /\ Advance(row, stage, name, value).version = row.version
           /\ \A a \in Artifacts : Advance(row, stage, name, value).artifacts[a] =
                                     IF a = name THEN value ELSE row.artifacts[a]
  BY DEF Advance, RunRow

(* The rows a call leaves are rows; no artifact is lost, and only script   *)
(* moves the current version.                                              *)
LEMMA RowsAfter ==
    ASSUME NEW s \in Session,
           s.op \in {"voiceover", "render"} => s.video.current # 0,
           s.op = "publish" => s.seen # 0
    PROVE  /\ RunAfter(s) \in RunRow
           /\ RunAfter(s).version = s.row.version
           /\ \A a \in Artifacts : s.row.artifacts[a] # 0 => RunAfter(s).artifacts[a] # 0
           /\ VideoAfter(s) \in VideoRow
           /\ VideoAfter(s).version = s.video.version
           /\ VideoAfter(s).current = IF s.op = "script" THEN s.seen + 1 ELSE s.video.current
<1>1. /\ s.row \in RunRow /\ s.video \in VideoRow /\ s.seen \in Nat /\ s.video.current \in Nat
      /\ s.op \in {"start"} \cup StageCalls
  BY DEF Session, VideoRow
<1>2. /\ VideoAfter(s) \in VideoRow
      /\ VideoAfter(s).version = s.video.version
      /\ VideoAfter(s).current = IF s.op = "script" THEN s.seen + 1 ELSE s.video.current
  <2>1. CASE s.op = "script"
    <3> DEFINE Scripted(v, n) == [v EXCEPT !.current = n, !.status = "scripting"]
    <3>1. \A v \in VideoRow, n \in Nat :
            /\ Scripted(v, n) \in VideoRow
            /\ Scripted(v, n).version = v.version
            /\ Scripted(v, n).current = n
      BY DEF VideoRow
    <3>2. PICK n \in Nat : n = s.seen + 1
      BY <1>1
    <3>3. VideoAfter(s) = Scripted(s.video, n)
      BY <2>1, <3>2 DEF VideoAfter, VersionNumber
    <3> HIDE DEF Scripted
    <3>4. s.video \in VideoRow
      BY <1>1
    <3>5. /\ Scripted(s.video, n) \in VideoRow
          /\ Scripted(s.video, n).version = s.video.version
          /\ Scripted(s.video, n).current = n
      BY <3>1, <3>4
    <3>6. /\ VideoAfter(s) \in VideoRow
          /\ VideoAfter(s).version = s.video.version
          /\ VideoAfter(s).current = n
      BY <3>3, <3>5
    <3> QED BY <2>1, <3>2, <3>6
  <2>2. CASE s.op = "render"
    BY <1>1, <2>2 DEF VideoAfter, VideoRow
  <2>3. CASE s.op = "publish"
    BY <1>1, <2>3 DEF VideoAfter, VideoRow
  <2>4. CASE s.op \notin {"script", "render", "publish"}
    BY <1>1, <2>4 DEF VideoAfter
  <2> QED BY <2>1, <2>2, <2>3, <2>4
<1>3. ASSUME NEW stage \in Stages, NEW name \in Artifacts, NEW value \in Nat \ {0},
             RunAfter(s) = Advance(s.row, stage, name, value)
      PROVE  /\ RunAfter(s) \in RunRow
             /\ RunAfter(s).version = s.row.version
             /\ \A a \in Artifacts : s.row.artifacts[a] # 0 => RunAfter(s).artifacts[a] # 0
  BY <1>1, <1>3, AdvanceTyped
<1>4. CASE s.op = "fail"
  BY <1>1, <1>2, <1>4 DEF RunAfter, RunRow, Stages
<1>5. CASE s.op = "research"
  <2>1. RunAfter(s) = Advance(s.row, "script", "research", 1)
    BY <1>5 DEF RunAfter
  <2>2. "script" \in Stages /\ "research" \in Artifacts /\ 1 \in Nat \ {0}
    BY DEF Stages, Artifacts
  <2> QED BY <1>2, <1>3, <2>1, <2>2
<1>6. CASE s.op = "script"
  <2>1. RunAfter(s) = Advance(s.row, "voiceover", "script", s.seen + 1)
    BY <1>6 DEF RunAfter, VersionNumber
  <2>2. s.seen + 1 \in Nat \ {0}
    BY <1>1
  <2>3. "voiceover" \in Stages /\ "script" \in Artifacts
    BY DEF Stages, Artifacts
  <2> QED BY <1>2, <1>3, <2>1, <2>2, <2>3
<1>7. CASE s.op = "voiceover"
  <2>1. RunAfter(s) = Advance(s.row, "render", "voiceover", s.video.current)
    BY <1>7 DEF RunAfter
  <2>2. "render" \in Stages /\ "voiceover" \in Artifacts /\ s.video.current \in Nat \ {0}
    BY <1>1, <1>7 DEF Stages, Artifacts
  <2> QED BY <1>2, <1>3, <2>1, <2>2
<1>8. CASE s.op = "render"
  <2>1. RunAfter(s) = Advance(s.row, "publish", "render", s.video.current)
    BY <1>8 DEF RunAfter
  <2>2. "publish" \in Stages /\ "render" \in Artifacts /\ s.video.current \in Nat \ {0}
    BY <1>1, <1>8 DEF Stages, Artifacts
  <2> QED BY <1>2, <1>3, <2>1, <2>2
<1>9. CASE s.op = "publish"
  <2>1. RunAfter(s) = Advance(s.row, "analytics", "publish", s.seen)
    BY <1>9 DEF RunAfter
  <2>2. "analytics" \in Stages /\ "publish" \in Artifacts /\ s.seen \in Nat \ {0}
    BY <1>1, <1>9 DEF Stages, Artifacts
  <2> QED BY <1>2, <1>3, <2>1, <2>2
<1>10. CASE s.op = "learn"
  <2>1. RunAfter(s) = Advance(s.row, "done", "learning", 1)
    BY <1>10 DEF RunAfter
  <2>2. "done" \in Stages /\ "learning" \in Artifacts /\ 1 \in Nat \ {0}
    BY DEF Stages, Artifacts
  <2> QED BY <1>2, <1>3, <2>1, <2>2
<1>11. CASE s.op \in {"start", "analytics"}
  BY <1>1, <1>2, <1>11 DEF RunAfter
<1> QED BY <1>1, <1>4, <1>5, <1>6, <1>7, <1>8, <1>9, <1>10, <1>11 DEF StageCalls

(* A row that a step writes has a new version. *)
Moves ==
    /\ runs' \in Seq(RunRow) /\ video' \in VideoRow /\ scripts' \in Nat
    /\ DOMAIN runs \subseteq DOMAIN runs'
    /\ \A r \in DOMAIN runs : runs'[r] = runs[r] \/ runs'[r].version > runs[r].version
    /\ video' = video \/ video'.version > video.version
    /\ scripts' >= scripts

(* What a commit that finds the versions it loaded does to the two rows. *)
LEMMA WriteRowsWrites ==
    ASSUME Inv, NEW w \in Workers,
           session[w].pc # "idle", session[w].op # "start",
           session[w].op = "publish" => session[w].seen # 0,
           NotStale(session[w]), WriteRows(session[w])
    PROVE  /\ runs' \in Seq(RunRow) /\ DOMAIN runs' = DOMAIN runs
           /\ video' \in VideoRow
           /\ \A r \in DOMAIN runs : runs'[r] = runs[r] \/ runs'[r].version > runs[r].version
           /\ video' = video \/ video'.version > video.version
           /\ \A r \in DOMAIN runs, a \in Artifacts :
                runs[r].artifacts[a] # 0 => runs'[r].artifacts[a] # 0
           /\ session[w].op # "script" => video'.current = video.current
           /\ session[w].op = "script" => video'.current = session[w].seen + 1
<1> DEFINE s == session[w]
<1>1. s \in Session /\ runs \in Seq(RunRow) /\ video \in VideoRow
  BY DEF Inv, TypeOK
<1>2. /\ s.run \in DOMAIN runs
      /\ s.row.version = runs[s.run].version => s.row = runs[s.run]
      /\ s.video.version = video.version => s.video = video
      /\ s.op \in {"voiceover", "render"} => s.video.current # 0
      /\ s.op = "script" => s.seen = s.video.current
  BY DEF Inv, Loaded, Checked
<1>3. /\ RunAfter(s) \in RunRow
      /\ RunAfter(s).version = s.row.version
      /\ \A a \in Artifacts : s.row.artifacts[a] # 0 => RunAfter(s).artifacts[a] # 0
      /\ VideoAfter(s) \in VideoRow
      /\ VideoAfter(s).version = s.video.version
      /\ VideoAfter(s).current = IF s.op = "script" THEN s.seen + 1 ELSE s.video.current
  BY <1>1, <1>2, RowsAfter
<1> HIDE DEF s
<1>4. /\ runs' = IF RunChanges(s) THEN [runs EXCEPT ![s.run] = Bumped(RunAfter(s))] ELSE runs
      /\ video' = IF VideoChanges(s) THEN Bumped(VideoAfter(s)) ELSE video
  BY DEF s, WriteRows
<1>5. /\ RunChanges(s) => runs[s.run].version = s.row.version
      /\ VideoChanges(s) => video.version = s.video.version
  BY DEF s, NotStale
<1>6. ASSUME RunChanges(s)
      PROVE  /\ runs' \in Seq(RunRow) /\ DOMAIN runs' = DOMAIN runs
             /\ \A r \in DOMAIN runs : runs'[r] = runs[r] \/ runs'[r].version > runs[r].version
             /\ \A r \in DOMAIN runs, a \in Artifacts :
                  runs[r].artifacts[a] # 0 => runs'[r].artifacts[a] # 0
  <2> DEFINE new == Bumped(RunAfter(s))
  <2>1. new \in RunRow /\ new.version = RunAfter(s).version + 1
        /\ new.artifacts = RunAfter(s).artifacts
    BY <1>3 DEF Bumped, RunRow
  <2>2. runs[s.run] \in RunRow /\ s.row = runs[s.run]
    BY <1>1, <1>2, <1>5, <1>6
  <2>3. new.version > runs[s.run].version
    BY <1>3, <2>1, <2>2 DEF RunRow
  <2> HIDE DEF new
  <2>4. runs' = [runs EXCEPT ![s.run] = new]
    BY <1>4, <1>6 DEF new
  <2> QED BY <1>1, <1>2, <1>3, <2>1, <2>2, <2>3, <2>4
<1>7. ASSUME VideoChanges(s)
      PROVE  /\ video' \in VideoRow /\ video'.version > video.version
             /\ video'.current = VideoAfter(s).current
             /\ s.video = video
  BY <1>1, <1>2, <1>3, <1>4, <1>5, <1>7 DEF Bumped, VideoRow
<1>8. s.op = "script" => VideoChanges(s)
  <2> SUFFICES ASSUME s.op = "script", VideoAfter(s) = s.video PROVE FALSE
    BY DEF VideoChanges
  <2> QED BY <1>1, <1>2, <1>3 DEF Session
<1>9. ~RunChanges(s) => runs' = runs
  BY <1>4
<1>10. ~VideoChanges(s) => video' = video
  BY <1>4
<1>11. /\ s.op # "script" => video'.current = video.current
       /\ s.op = "script" => video'.current = s.seen + 1
  BY <1>3, <1>7, <1>8, <1>10
<1>12. video' \in VideoRow /\ (video' = video \/ video'.version > video.version)
  BY <1>1, <1>7, <1>10
<1>13. /\ runs' \in Seq(RunRow) /\ DOMAIN runs' = DOMAIN runs
       /\ \A r \in DOMAIN runs : runs'[r] = runs[r] \/ runs'[r].version > runs[r].version
       /\ \A r \in DOMAIN runs, a \in Artifacts :
            runs[r].artifacts[a] # 0 => runs'[r].artifacts[a] # 0
  BY <1>1, <1>6, <1>9
<1> QED BY <1>11, <1>12, <1>13 DEF s

-----------------------------------------------------------------------------
(* A worker between calls, a new run and a new video have their shapes. *)
LEMMA IdleTyped == Idle \in Session /\ NewVideo \in VideoRow /\ \A n \in Nat : NewRun(n) \in RunRow
<1>1. NewVideo \in VideoRow /\ \A n \in Nat : NewRun(n) \in RunRow
  BY DEF NewVideo, VideoRow, NewRun, RunRow, NoArtifacts, Stages
<1> QED BY <1>1 DEF Idle, Session

(* What a session has loaded and checked outlives the steps of others. *)
LEMMA OthersKeep ==
    ASSUME Inv, Moves, NEW v \in Workers, session'[v] = session[v]
    PROVE  Loaded(v)' /\ Checked(v)'
<1>1. /\ session[v] \in Session /\ runs \in Seq(RunRow) /\ video \in VideoRow
      /\ scripts \in Nat /\ Loaded(v) /\ Checked(v)
  BY DEF Inv, TypeOK
<1>2. Checked(v)'
  <2>1. session[v].seen \in Nat
    BY <1>1 DEF Session
  <2>2. scripts' \in Nat /\ scripts' >= scripts
    BY DEF Moves
  <2>3. session[v].seen <= scripts => session[v].seen <= scripts'
    BY <1>1, <2>1, <2>2
  <2> QED BY <1>1, <2>3 DEF Checked
<1>3. Loaded(v)'
  <2> SUFFICES ASSUME session[v].pc # "idle", session[v].op # "start"
               PROVE  /\ session[v].run \in DOMAIN runs'
                      /\ session[v].row.version <= runs'[session[v].run].version
                      /\ session[v].row.version = runs'[session[v].run].version
                           => session[v].row = runs'[session[v].run]
                      /\ session[v].video.version <= video'.version
                      /\ session[v].video.version = video'.version => session[v].video = video'
    BY DEF Loaded
  <2> DEFINE r == session[v].run
  <2>1. /\ r \in DOMAIN runs
        /\ session[v].row.version <= runs[r].version
        /\ session[v].row.version = runs[r].version => session[v].row = runs[r]
        /\ session[v].video.version <= video.version
        /\ session[v].video.version = video.version => session[v].video = video
    BY <1>1 DEF Loaded
  <2>2. session[v].row.version \in Nat /\ session[v].video.version \in Nat
    BY <1>1 DEF Session, RunRow, VideoRow
  <2>3. runs[r] \in RunRow /\ runs[r].version \in Nat /\ video.version \in Nat
    <3>1. runs[r] \in RunRow
      BY <1>1, <2>1
    <3> HIDE DEF r
    <3> QED BY <1>1, <3>1 DEF RunRow, VideoRow
  <2>4. /\ r \in DOMAIN runs' /\ runs'[r] \in RunRow /\ video' \in VideoRow
        /\ runs'[r] = runs[r] \/ runs'[r].version > runs[r].version
        /\ video' = video \/ video'.version > video.version
    BY <2>1 DEF Moves
  <2> HIDE DEF r
  <2>5. runs'[r].version \in Nat /\ video'.version \in Nat
    BY <2>4 DEF RunRow, VideoRow
  <2>6. /\ session[v].row.version <= runs'[r].version
        /\ session[v].row.version = runs'[r].version => session[v].row = runs'[r]
    <3>1. CASE runs'[r] = runs[r]
      BY <2>1, <3>1
    <3>2. CASE runs'[r].version > runs[r].version
      BY <2>1, <2>2, <2>3, <2>5, <3>2
    <3> QED BY <2>4, <3>1, <3>2
  <2>7. /\ session[v].video.version <= video'.version
        /\ session[v].video.version = video'.version => session[v].video = video'
    BY <2>1, <2>2, <2>3, <2>4, <2>5
  <2> QED BY <2>4, <2>6, <2>7 DEF r
<1> QED BY <1>2, <1>3

(* A session that ends leaves the others as they are. *)
LEMMA EndKeeps ==
    ASSUME Inv, Moves, NEW w \in Workers, End(w)
    PROVE  /\ session' \in [Workers -> Session]
           /\ \A v \in Workers : Loaded(v)' /\ Checked(v)'
           /\ OneClaim'
<1>1. session \in [Workers -> Session] /\ session' = [session EXCEPT ![w] = Idle]
  BY DEF Inv, TypeOK, End
<1>2. session' \in [Workers -> Session]
  BY <1>1, IdleTyped
<1>3. ASSUME NEW v \in Workers PROVE Loaded(v)' /\ Checked(v)'
  <2>1. CASE v = w
    BY <1>1, <2>1 DEF Loaded, Checked, Idle
  <2>2. CASE v # w
    BY <1>1, <2>2, OthersKeep
  <2> QED BY <2>1, <2>2
<1>4. OneClaim'
  BY <1>1 DEF Inv, OneClaim, Idle
<1> QED BY <1>2, <1>3, <1>4

(* A session that goes on keeps what it holds, and the others theirs. *)
LEMMA StepKeeps ==
    ASSUME Inv, NEW w \in Workers, UNCHANGED db, NEW s \in Session,
           session' = [session EXCEPT ![w] = s],
           Loaded(w)', Checked(w)',
           s.pc \in {"claimed", "uploaded"} =>
               \A v \in Workers \ {w} : session[v].pc \notin {"claimed", "uploaded"}
    PROVE  /\ session' \in [Workers -> Session]
           /\ \A v \in Workers : Loaded(v)' /\ Checked(v)'
           /\ OneClaim'
<1>1. session \in [Workers -> Session]
  BY DEF Inv, TypeOK
<1>2. Moves
  BY DEF Inv, TypeOK, Moves, db
<1>3. ASSUME NEW v \in Workers PROVE Loaded(v)' /\ Checked(v)'
  <2>1. CASE v = w
    BY <2>1
  <2>2. CASE v # w
    <3>1. session'[v] = session[v]
      BY <1>1, <2>2
    <3> QED BY <1>2, <3>1, OthersKeep
  <2> QED BY <2>1, <2>2
<1>4. OneClaim'
  BY <1>1 DEF Inv, OneClaim
<1> QED BY <1>1, <1>3, <1>4

-----------------------------------------------------------------------------
(* Inv holds of an empty pipeline. *)
LEMMA InitInv == Init => Inv
<1> SUFFICES ASSUME Init PROVE Inv
  OBVIOUS
<1>1. publication \in SUBSET PublicationRow /\ Cardinality(publication) <= 1
  BY FS_EmptySet DEF Init
<1>2. TypeOK
  BY <1>1, IdleTyped DEF Init, TypeOK
<1>3. uploads \in Seq(Nat) /\ CurrentIsNewest
  BY DEF Init, CurrentIsNewest, NewVideo
<1>4. (\A w \in Workers : Loaded(w) /\ Checked(w)) /\ OneClaim
  BY DEF Init, Loaded, Checked, OneClaim, Idle
<1> QED BY <1>2, <1>3, <1>4 DEF Inv

(* start. *)
LEMMA StartKeeps ==
    ASSUME Inv, NEW w \in Workers, BeginStart(w) \/ InsertRun(w)
    PROVE  Inv'
<1> USE DEF Inv
<1>1. CASE BeginStart(w)
  <2> DEFINE s == [Idle EXCEPT !.pc = "working", !.row = NewRun(calls + 1)]
  <2>1. UNCHANGED <<db, history>> /\ session' = [session EXCEPT ![w] = s] /\ calls' = calls + 1
    BY <1>1 DEF BeginStart
  <2>2. calls \in Nat /\ session \in [Workers -> Session]
    BY DEF TypeOK
  <2>3. NewRun(calls + 1) \in RunRow
    BY <2>2, IdleTyped
  <2>4. s \in Session /\ s.pc = "working" /\ s.op = "start"
    BY <2>3, IdleTyped DEF Idle, Session
  <2> HIDE DEF s
  <2>5. session'[w] = s
    BY <2>1, <2>2
  <2>6. Loaded(w)' /\ Checked(w)'
    BY <2>4, <2>5 DEF Loaded, Checked
  <2>7. /\ session' \in [Workers -> Session]
        /\ \A v \in Workers : Loaded(v)' /\ Checked(v)'
        /\ OneClaim'
    BY <2>1, <2>4, <2>6, StepKeeps
  <2> QED BY <2>1, <2>7 DEF TypeOK, CurrentIsNewest, db, history
<1>2. CASE InsertRun(w)
  <2>1. /\ runs' = Append(runs, session[w].row) /\ End(w)
        /\ UNCHANGED <<video, scripts, publication, analytics, usage, history, calls>>
    BY <1>2 DEF InsertRun
  <2>2. runs \in Seq(RunRow) /\ session[w].row \in RunRow
    BY DEF TypeOK, Session
  <2>3. runs' \in Seq(RunRow) /\ DOMAIN runs \subseteq DOMAIN runs'
        /\ \A r \in DOMAIN runs : runs'[r] = runs[r]
    BY <2>1, <2>2
  <2>4. Moves
    BY <2>1, <2>3 DEF Moves, TypeOK
  <2>5. /\ session' \in [Workers -> Session]
        /\ \A v \in Workers : Loaded(v)' /\ Checked(v)'
        /\ OneClaim'
    BY <2>1, <2>4, EndKeeps
  <2> QED BY <2>1, <2>3, <2>5 DEF TypeOK, CurrentIsNewest, history
<1> QED BY <1>1, <1>2

(* The begin of a call on a run. *)
LEMMA BeginKeeps ==
    ASSUME Inv, NEW w \in Workers, NEW op \in StageCalls, NEW r \in DOMAIN runs, Begin(w, op, r)
    PROVE  Inv'
<1> USE DEF Inv
<1> DEFINE seen == CASE op = "script"    -> scripts
                     [] op = "analytics" -> (CHOOSE p \in publication : TRUE).upload
                     [] OTHER            -> 0
           s == [pc |-> "working", op |-> op, run |-> r, row |-> runs[r], video |-> video,
                 seen |-> seen]
<1>1. /\ UNCHANGED <<db, history>> /\ session' = [session EXCEPT ![w] = s] /\ calls' = calls + 1
      /\ Accepts(op, runs[r])
  BY DEF Begin
<1>2. /\ calls \in Nat /\ session \in [Workers -> Session] /\ runs[r] \in RunRow
      /\ video \in VideoRow /\ scripts \in Nat /\ publication \in SUBSET PublicationRow
      /\ r \in Nat
  BY DEF TypeOK
<1>3. seen \in Nat
  <2>1. CASE op = "script"
    BY <1>2, <2>1
  <2>2. CASE op = "analytics"
    <3>1. publication # {}
      BY <1>1, <2>2 DEF Accepts
    <3>2. (CHOOSE p \in publication : TRUE) \in PublicationRow
      BY <1>2, <3>1
    <3> QED BY <2>2, <3>2 DEF PublicationRow
  <2>3. CASE op \notin {"script", "analytics"}
    BY <2>3
  <2> QED BY <2>1, <2>2, <2>3
<1>4. op = "script" => seen = scripts
  OBVIOUS
<1>5. op \in {"voiceover", "render"} => video.current # 0
  BY <1>1 DEF Accepts
<1> HIDE DEF seen
<1>6. s \in Session
  BY <1>2, <1>3 DEF Session
<1>7. session'[w] = s
  BY <1>1, <1>2
<1>8. Loaded(w)'
  <2>1. runs[r].version \in Nat /\ video.version \in Nat
    BY <1>2 DEF RunRow, VideoRow
  <2>2. runs' = runs /\ video' = video
    BY <1>1 DEF db
  <2> QED BY <1>7, <2>1, <2>2 DEF Loaded
<1>9. Checked(w)'
  <2>1. video.current = scripts /\ scripts' = scripts
    BY <1>1 DEF CurrentIsNewest, db
  <2> QED BY <1>2, <1>4, <1>5, <1>7, <2>1 DEF Checked
<1>10. /\ session' \in [Workers -> Session]
       /\ \A v \in Workers : Loaded(v)' /\ Checked(v)'
       /\ OneClaim'
  <2>1. s.pc \notin {"claimed", "uploaded"}
    OBVIOUS
  <2> HIDE DEF s
  <2> QED BY <1>1, <1>6, <1>8, <1>9, <2>1, StepKeeps
<1> QED BY <1>1, <1>2, <1>10 DEF TypeOK, CurrentIsNewest, db, history

(* The commits of the calls that write no publication. *)
LEMMA CommitKeeps ==
    ASSUME Inv, NEW w \in Workers,
           \/ CommitRun(w) \/ CommitScript(w) \/ CommitRender(w)
           \/ \E d \in Days : CommitAnalytics(w, d)
    PROVE  Inv'
<1> USE DEF Inv
<1> DEFINE s == session[w]
<1>1. s \in Session /\ scripts \in Nat /\ video \in VideoRow /\ Checked(w)
  BY DEF TypeOK
<1>2. CASE CommitRun(w)
  <2>1. /\ s.pc = "working" /\ s.op \in {"fail", "research", "voiceover", "learn"}
        /\ NotStale(s) /\ WriteRows(s) /\ End(w)
        /\ UNCHANGED <<scripts, publication, analytics, usage, history, calls>>
    BY <1>2 DEF CommitRun
  <2>2. /\ Moves /\ runs' \in Seq(RunRow) /\ video' \in VideoRow
        /\ video'.current = video.current
    <3>1. s.pc # "idle" /\ s.op # "start" /\ s.op # "publish" /\ s.op # "script"
      BY <2>1
    <3>2. /\ runs' \in Seq(RunRow) /\ DOMAIN runs' = DOMAIN runs /\ video' \in VideoRow
          /\ \A r \in DOMAIN runs : runs'[r] = runs[r] \/ runs'[r].version > runs[r].version
          /\ video' = video \/ video'.version > video.version
          /\ video'.current = video.current
      BY <2>1, <3>1, WriteRowsWrites
    <3> QED BY <1>1, <2>1, <3>2 DEF Moves
  <2>3. /\ session' \in [Workers -> Session]
        /\ \A v \in Workers : Loaded(v)' /\ Checked(v)'
        /\ OneClaim'
    BY <2>1, <2>2, EndKeeps
  <2> QED BY <2>1, <2>2, <2>3 DEF TypeOK, CurrentIsNewest, history
<1>3. CASE CommitScript(w)
  <2>1. /\ s.pc = "working" /\ s.op = "script" /\ s.seen + 1 \notin 1 .. scripts
        /\ NotStale(s) /\ WriteRows(s) /\ End(w) /\ scripts' = scripts + 1
        /\ UNCHANGED <<publication, analytics, usage, history, calls>>
    BY <1>3 DEF CommitScript, VersionNumber
  <2>2. /\ Moves /\ runs' \in Seq(RunRow) /\ video' \in VideoRow
        /\ video'.current = s.seen + 1
    <3>1. s.pc # "idle" /\ s.op # "start" /\ s.op # "publish" /\ s.op = "script"
      BY <2>1
    <3>2. /\ runs' \in Seq(RunRow) /\ DOMAIN runs' = DOMAIN runs /\ video' \in VideoRow
          /\ \A r \in DOMAIN runs : runs'[r] = runs[r] \/ runs'[r].version > runs[r].version
          /\ video' = video \/ video'.version > video.version
          /\ video'.current = s.seen + 1
      BY <2>1, <3>1, WriteRowsWrites
    <3> QED BY <1>1, <2>1, <3>2 DEF Moves
  <2>3. s.seen = scripts
    <3>1. s.seen \in Nat /\ s.seen <= scripts
      BY <1>1, <2>1 DEF Session, Checked
    <3> QED BY <1>1, <2>1, <3>1
  <2>4. /\ session' \in [Workers -> Session]
        /\ \A v \in Workers : Loaded(v)' /\ Checked(v)'
        /\ OneClaim'
    BY <2>1, <2>2, EndKeeps
  <2> QED BY <2>1, <2>2, <2>3, <2>4 DEF TypeOK, CurrentIsNewest, history
<1>4. CASE CommitRender(w)
  <2>1. /\ s.pc = "working" /\ s.op = "render" /\ NotStale(s) /\ End(w)
        /\ renders' = renders + 1
        /\ UNCHANGED <<scripts, publication, analytics, uploads, calls>>
        /\ \/ UNCHANGED <<runs, video, usage>>
           \/ WriteRows(s) /\ usage' = [usage EXCEPT ![MeteredOwner] = @ + 1]
    BY <1>4 DEF CommitRender
  <2>2. /\ Moves /\ runs' \in Seq(RunRow) /\ video' \in VideoRow
        /\ video'.current = video.current
    <3>1. CASE UNCHANGED <<runs, video, usage>>
      BY <2>1, <3>1 DEF Moves, TypeOK
    <3>2. CASE WriteRows(s)
      <4>1. s.pc # "idle" /\ s.op # "start" /\ s.op # "publish" /\ s.op # "script"
        BY <2>1
      <4>2. /\ runs' \in Seq(RunRow) /\ DOMAIN runs' = DOMAIN runs /\ video' \in VideoRow
            /\ \A r \in DOMAIN runs : runs'[r] = runs[r] \/ runs'[r].version > runs[r].version
            /\ video' = video \/ video'.version > video.version
            /\ video'.current = video.current
        BY <2>1, <3>2, <4>1, WriteRowsWrites
      <4> QED BY <1>1, <2>1, <4>2 DEF Moves
    <3> QED BY <2>1, <3>1, <3>2
  <2>3. usage' \in [{"organization", "project"} -> Nat]
    BY <2>1 DEF TypeOK, MeteredOwner
  <2>4. /\ session' \in [Workers -> Session]
        /\ \A v \in Workers : Loaded(v)' /\ Checked(v)'
        /\ OneClaim'
    BY <2>1, <2>2, EndKeeps
  <2> QED BY <2>1, <2>2, <2>3, <2>4 DEF TypeOK, CurrentIsNewest
<1>5. CASE \E d \in Days : CommitAnalytics(w, d)
  <2>1. PICK d \in Days : CommitAnalytics(w, d)
    BY <1>5
  <2>2. /\ analytics' = [analytics EXCEPT ![d] = s.seen] /\ End(w)
        /\ UNCHANGED <<runs, video, scripts, publication, usage, history, calls>>
    BY <2>1 DEF CommitAnalytics
  <2>3. Moves
    BY <2>2 DEF Moves, TypeOK
  <2>4. analytics' \in [Days -> Nat]
    BY <1>1, <2>2 DEF TypeOK, Session
  <2>5. /\ session' \in [Workers -> Session]
        /\ \A v \in Workers : Loaded(v)' /\ Checked(v)'
        /\ OneClaim'
    BY <2>2, <2>3, EndKeeps
  <2> QED BY <2>2, <2>4, <2>5 DEF TypeOK, CurrentIsNewest, history
<1> QED BY <1>2, <1>3, <1>4, <1>5

(* publish. *)
LEMMA PublishKeeps ==
    ASSUME Inv, NEW w \in Workers, Claim(w) \/ Upload(w) \/ CommitPublish(w)
    PROVE  Inv'
<1> USE DEF Inv
<1>1. /\ session \in [Workers -> Session] /\ session[w] \in Session
      /\ uploads \in Seq(Nat) /\ Loaded(w) /\ Checked(w)
  BY DEF TypeOK
<1>2. CASE Claim(w)
  <2> DEFINE s == [session[w] EXCEPT !.pc = "claimed"]
  <2>1. /\ session[w].pc = "working" /\ session[w].op = "publish" /\ ~PublicationLocked
        /\ session' = [session EXCEPT ![w] = s] /\ UNCHANGED <<db, history, calls>>
    BY <1>2 DEF Claim
  <2>2. s \in Session /\ session'[w] = s
    BY <1>1, <2>1 DEF Session
  <2>3. Loaded(w)' /\ Checked(w)'
    BY <1>1, <2>1, <2>2 DEF Loaded, Checked, db, Session
  <2>4. \A v \in Workers : session[v].pc \notin {"claimed", "uploaded"}
    BY <2>1 DEF PublicationLocked
  <2> HIDE DEF s
  <2>5. /\ session' \in [Workers -> Session]
        /\ \A v \in Workers : Loaded(v)' /\ Checked(v)'
        /\ OneClaim'
    BY <2>1, <2>2, <2>3, <2>4, StepKeeps
  <2> QED BY <2>1, <2>5 DEF TypeOK, CurrentIsNewest, db, history
<1>3. CASE Upload(w)
  <2> DEFINE s == [session[w] EXCEPT !.pc = "uploaded", !.seen = Len(uploads) + 1]
  <2>1. /\ session[w].pc = "claimed" /\ uploads' = Append(uploads, session[w].row.artifacts["render"])
        /\ session' = [session EXCEPT ![w] = s] /\ UNCHANGED <<db, renders, calls>>
    BY <1>3 DEF Upload
  <2>2. Len(uploads) + 1 \in Nat \ {0}
    BY <1>1
  <2>3. s \in Session /\ session'[w] = s
    BY <1>1, <2>1, <2>2 DEF Session
  <2>4. /\ s.pc = "uploaded" /\ s.seen # 0 /\ s.op = session[w].op /\ s.run = session[w].run
        /\ s.row = session[w].row /\ s.video = session[w].video
    BY <1>1, <2>2 DEF Session
  <2>5. session[w].op = "publish"
    BY <1>1, <2>1 DEF Checked
  <2> HIDE DEF s
  <2>6. Loaded(w)' /\ Checked(w)'
    BY <1>1, <2>1, <2>3, <2>4, <2>5 DEF Loaded, Checked, db
  <2>7. \A v \in Workers \ {w} : session[v].pc \notin {"claimed", "uploaded"}
    BY <2>1 DEF OneClaim
  <2>8. /\ session' \in [Workers -> Session]
        /\ \A v \in Workers : Loaded(v)' /\ Checked(v)'
        /\ OneClaim'
    BY <2>1, <2>3, <2>6, <2>7, StepKeeps
  <2>9. uploads' \in Seq(Nat)
    <3>1. session[w].row.artifacts["render"] \in Nat
      BY <1>1 DEF Session, RunRow, Artifacts
    <3> QED BY <1>1, <2>1, <3>1
  <2> QED BY <2>1, <2>8, <2>9 DEF TypeOK, CurrentIsNewest, db
<1>4. CASE CommitPublish(w)
  <2> DEFINE s == session[w]
             row == [status |-> "published", upload |-> s.seen]
  <2>1. /\ s.pc = "uploaded" /\ NotStale(s) /\ WriteRows(s) /\ End(w)
        /\ publication' = {row}
        /\ UNCHANGED <<scripts, analytics, usage, history, calls>>
    BY <1>4 DEF CommitPublish
  <2>2. s.op = "publish" /\ s.seen # 0 /\ s.seen \in Nat
    BY <1>1, <2>1 DEF Checked, Session
  <2>3. /\ Moves /\ runs' \in Seq(RunRow) /\ video' \in VideoRow
        /\ video'.current = video.current
    <3>1. s.pc # "idle" /\ s.op # "start" /\ s.op # "script"
      BY <2>1, <2>2
    <3>2. /\ runs' \in Seq(RunRow) /\ DOMAIN runs' = DOMAIN runs /\ video' \in VideoRow
          /\ \A r \in DOMAIN runs : runs'[r] = runs[r] \/ runs'[r].version > runs[r].version
          /\ video' = video \/ video'.version > video.version
          /\ video'.current = video.current
      BY <2>1, <2>2, <3>1, WriteRowsWrites
    <3> QED BY <2>1, <3>2 DEF Moves, TypeOK
  <2>4. publication' \in SUBSET PublicationRow /\ Cardinality(publication') <= 1
    <3>1. row \in PublicationRow
      BY <2>2 DEF PublicationRow
    <3> HIDE DEF row
    <3>2. Cardinality({row}) = 1
      BY FS_Singleton
    <3> QED BY <2>1, <3>1, <3>2
  <2>5. /\ session' \in [Workers -> Session]
        /\ \A v \in Workers : Loaded(v)' /\ Checked(v)'
        /\ OneClaim'
    BY <2>1, <2>3, EndKeeps
  <2> QED BY <2>1, <2>3, <2>4, <2>5 DEF TypeOK, CurrentIsNewest, history
<1> QED BY <1>2, <1>3, <1>4

(* A call that is rolled back. *)
LEMMA AbortKeeps ==
    ASSUME Inv, NEW w \in Workers, Abort(w)
    PROVE  Inv'
<1> USE DEF Inv
<1>1. End(w) /\ UNCHANGED <<db, history, calls>>
  BY DEF Abort
<1>2. Moves
  BY <1>1 DEF Moves, TypeOK, db
<1>3. /\ session' \in [Workers -> Session]
      /\ \A v \in Workers : Loaded(v)' /\ Checked(v)'
      /\ OneClaim'
  BY <1>1, <1>2, EndKeeps
<1> QED BY <1>1, <1>3 DEF TypeOK, CurrentIsNewest, db, history

(* Inv is inductive. *)
THEOREM Invariance == Spec => []Inv
<1>1. Inv /\ [Next]_vars => Inv'
  <2> SUFFICES ASSUME Inv, [Next]_vars PROVE Inv'
    OBVIOUS
  <2>1. CASE UNCHANGED vars
    BY <2>1 DEF Inv, TypeOK, Loaded, Checked, OneClaim, CurrentIsNewest, vars, db, history
  <2>2. CASE Next
    BY <2>2, StartKeeps, BeginKeeps, CommitKeeps, PublishKeeps, AbortKeeps DEF Next
  <2> QED BY <2>1, <2>2
<1> QED BY <1>1, InitInv, PTL DEF Spec

(* The pipeline's rows and sessions keep their shapes; a publication that  *)
(* is committed is PUBLISHED.                                              *)
THEOREM TypeCorrect == Spec => []TypeOK
<1>1. Inv => TypeOK
  BY DEF Inv
<1> QED BY <1>1, Invariance, PTL

(* However many scripts are written at once (VideoPipelineService.script), *)
(* the video points at the newest version.                                 *)
THEOREM CurrentCorrect == Spec => []CurrentIsNewest
<1>1. Inv => CurrentIsNewest
  BY DEF Inv
<1> QED BY <1>1, Invariance, PTL

(* No two calls of publish ever have the platform's answer in hand at      *)
(* once: the flush before the upload serialises them.                      *)
THEOREM UploadsSerialised == Spec => []OneUploadAtATime
<1>1. Inv => OneUploadAtATime
  BY DEF Inv, OneClaim, OneUploadAtATime
<1> QED BY <1>1, Invariance, PTL

(* _advance writes back the dictionary its session loaded, and still no    *)
(* call loses an artifact another has stored.                              *)
THEOREM ArtifactsKept == Spec => ArtifactsAccumulate
<1> DEFINE Kept == \A r \in DOMAIN runs, a \in Artifacts :
                     runs[r].artifacts[a] # 0 => runs'[r].artifacts[a] # 0
<1>1. ASSUME Inv, Next PROVE Kept
  <2>1. PICK w \in Workers :
          \/ BeginStart(w) \/ InsertRun(w)
          \/ \E op \in StageCalls, r \in DOMAIN runs : Begin(w, op, r)
          \/ CommitRun(w) \/ CommitScript(w) \/ CommitRender(w)
          \/ \E d \in Days : CommitAnalytics(w, d)
          \/ Claim(w) \/ Upload(w) \/ CommitPublish(w)
          \/ Abort(w)
    BY <1>1 DEF Next
  <2>2. CASE runs' = runs
    BY <2>2
  <2>3. CASE InsertRun(w)
    <3>1. runs \in Seq(RunRow) /\ runs' = Append(runs, session[w].row)
      BY <1>1, <2>3 DEF InsertRun, Inv, TypeOK
    <3>2. \A r \in DOMAIN runs : runs'[r] = runs[r]
      BY <3>1
    <3> QED BY <3>2
  <2>4. CASE /\ session[w].pc # "idle" /\ session[w].op # "start"
             /\ session[w].op = "publish" => session[w].seen # 0
             /\ NotStale(session[w]) /\ WriteRows(session[w])
    BY <1>1, <2>4, WriteRowsWrites
  <2>5. CASE CommitRun(w) \/ CommitScript(w)
    BY <2>4, <2>5 DEF CommitRun, CommitScript
  <2>6. CASE CommitRender(w)
    BY <2>2, <2>4, <2>6 DEF CommitRender
  <2>7. CASE CommitPublish(w)
    <3>1. session[w].pc = "uploaded" /\ NotStale(session[w]) /\ WriteRows(session[w])
      BY <2>7 DEF CommitPublish
    <3>2. session[w].op = "publish" /\ session[w].seen # 0
      BY <1>1, <3>1 DEF Inv, Checked
    <3> QED BY <2>4, <3>1, <3>2
  <2> QED BY <2>1, <2>2, <2>3, <2>5, <2>6, <2>7
          DEF BeginStart, Begin, CommitAnalytics, Claim, Upload, Abort, db
<1>2. Inv /\ [Next]_vars => [Kept]_vars
  BY <1>1
<1> QED BY <1>2, Invariance, PTL DEF Spec, ArtifactsAccumulate

=============================================================================
