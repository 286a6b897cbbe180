---------------------------- MODULE VideoPipeline ----------------------------
(***************************************************************************)
(* VideoPipelineService (services/pipeline.py) for one video: the runs     *)
(* that take it from research to learning, its script versions, its        *)
(* publication and the uploads a platform has seen.                        *)
(*                                                                         *)
(* Production "runs drive the stages individually", so a call is a session *)
(* of its own: Begin loads the run and the video, the provider works, and  *)
(* the commit writes back what the call changed.  Between the two any      *)
(* other call may be made.  The ORM compares the version of a row it       *)
(* updates and updates only rows whose attributes changed.  Publish also   *)
(* flushes its publication before it calls the platform, so that it holds  *)
(* the lock on that row until it ends.                                     *)
(***************************************************************************)
EXTENDS Integers, Sequences, FiniteSets

CONSTANTS
    Workers,         \* callers of the service, each making one call at a time
    Days,            \* days analytics are measured on
    ForeignKeys,     \* the database enforces foreign keys (PostgreSQL) or not
    MaxCalls,        \* bound: calls made
    MaxRuns,         \* bound: runs created
    MaxScripts       \* bound: script versions

ASSUME PipelineAssumption ==
    ForeignKeys \in BOOLEAN /\ MaxCalls \in Nat /\ MaxRuns \in Nat /\ MaxScripts \in Nat

VARIABLES
    runs,            \* pipeline_run rows; a run's id is its index
    video,           \* the video row
    scripts,         \* number of video_version rows; the n-th has version_number n
    publication,     \* rows (at most one: UNIQUE on video and platform)
    analytics,       \* per day: the upload the stored metrics are of, 0 if none
    usage,           \* usage rows of metric video_render, by organization_id
    session,
    uploads,         \* history: the scripts of the videos the platform was given
    renders,         \* history: renders that were completed
    calls            \* history: calls made; orders created_at

db == <<runs, video, scripts, publication, analytics, usage>>
history == <<uploads, renders>>
vars == <<db, session, history, calls>>

Stages == {"research", "script", "voiceover", "render", "publish", "analytics",
           "learning", "done", "failed"}
Artifacts == {"research", "script", "voiceover", "render", "publish", "learning"}

(* An artifact is the number of what it was made of or refers to: the      *)
(* script version, the upload; 0 is an absent key.                         *)
RunRow == [stage : Stages, finished : BOOLEAN, error : BOOLEAN,
           artifacts : [Artifacts -> Nat], created : Nat, version : Nat]
VideoRow == [current : Nat, status : {"draft", "scripting", "rendering", "published"},
             version : Nat]
PublicationRow == [status : {"published"}, upload : Nat \ {0}]

NoArtifacts == [a \in Artifacts |-> 0]
NewRun(created) == [stage |-> "research", finished |-> FALSE, error |-> FALSE,
                    artifacts |-> NoArtifacts, created |-> created, version |-> 1]
NewVideo == [current |-> 0, status |-> "draft", version |-> 1]

StageCalls == {"fail", "research", "script", "voiceover", "render", "publish",
               "analytics", "learn"}
Idle == [pc |-> "idle", op |-> "start", run |-> 0, row |-> NewRun(0),
         video |-> NewVideo, seen |-> 0]

(* pc: "working" up to the commit, or, publishing, "claimed" with the      *)
(* publication locked and "uploaded" when the platform has answered.  seen *)
(* is the number of script versions read, or the upload in question.       *)
Session == [pc : {"idle", "working", "claimed", "uploaded"},
            op : {"start"} \cup StageCalls, run : Nat, row : RunRow,
            video : VideoRow, seen : Nat]

Init ==
    /\ runs = <<>>
    /\ video = NewVideo
    /\ scripts = 0
    /\ publication = {}
    /\ analytics = [d \in Days |-> 0]
    /\ usage = [owner \in {"organization", "project"} |-> 0]
    /\ session = [w \in Workers |-> Idle]
    /\ uploads = <<>>
    /\ renders = 0
    /\ calls = 0

-----------------------------------------------------------------------------
End(w) == session' = [session EXCEPT ![w] = Idle]

(* latest_for_video: by created_at, which is the begin of the transaction. *)
LatestFinished ==
    \A r \in DOMAIN runs :
        (\A q \in DOMAIN runs : runs[q].created <= runs[r].created) => runs[r].finished

(* start, up to the insert. *)
BeginStart(w) ==
    /\ session[w].pc = "idle"
    /\ calls < MaxCalls
    /\ LatestFinished
    /\ calls' = calls + 1
    /\ session' = [session EXCEPT ![w] =
                      [Idle EXCEPT !.pc = "working", !.row = NewRun(calls + 1)]]
    /\ UNCHANGED <<db, history>>

InsertRun(w) ==
    /\ session[w].pc = "working" /\ session[w].op = "start"
    /\ Len(runs) < MaxRuns
    /\ runs' = Append(runs, session[w].row)
    /\ End(w)
    /\ UNCHANGED <<video, scripts, publication, analytics, usage, history, calls>>

(* What a call demands of the run and the video it loads; otherwise it     *)
(* ends in ValidationError or NotFoundError.  No call looks at the stage.  *)
Accepts(op, row) ==
    CASE op \in {"voiceover", "render"} -> video.current # 0
      [] op = "publish"   -> row.artifacts["render"] # 0
      [] op = "analytics" -> publication # {}
      [] OTHER            -> TRUE

Begin(w, op, r) ==
    /\ session[w].pc = "idle"
    /\ calls < MaxCalls
    /\ Accepts(op, runs[r])
    /\ op = "script" => scripts < MaxScripts
    /\ calls' = calls + 1
    /\ session' = [session EXCEPT ![w] =
          [pc |-> "working", op |-> op, run |-> r, row |-> runs[r], video |-> video,
           seen |-> CASE op = "script"    -> scripts
                      [] op = "analytics" -> (CHOOSE p \in publication : TRUE).upload
                      [] OTHER            -> 0]]
    /\ UNCHANGED <<db, history>>

-----------------------------------------------------------------------------

(* _advance *)
Advance(row, stage, name, value) ==
    [row EXCEPT !.stage = stage, !.error = FALSE, !.artifacts[name] = value,
                !.finished = @ \/ stage \in {"done", "failed"}]

(* A deviation: numbered by the rows there are. *)
VersionNumberOfLast(s) == s.seen

VersionNumber(s) == s.seen + 1

(* The run row a call leaves. *)
RunAfter(s) ==
    CASE s.op = "fail"      -> [s.row EXCEPT !.stage = "failed", !.error = TRUE,
                                             !.finished = TRUE]
      [] s.op = "research"  -> Advance(s.row, "script", "research", 1)
      [] s.op = "script"    -> Advance(s.row, "voiceover", "script", VersionNumber(s))
      [] s.op = "voiceover" -> Advance(s.row, "render", "voiceover", s.video.current)
      [] s.op = "render"    -> Advance(s.row, "publish", "render", s.video.current)
      [] s.op = "publish"   -> Advance(s.row, "analytics", "publish", s.seen)
      [] s.op = "learn"     -> Advance(s.row, "done", "learning", 1)
      [] OTHER              -> s.row

VideoAfter(s) ==
    CASE s.op = "script"  -> [s.video EXCEPT !.current = VersionNumber(s),
                                             !.status = "scripting"]
      [] s.op = "render"  -> [s.video EXCEPT !.status = "rendering"]
      [] s.op = "publish" -> [s.video EXCEPT !.status = "published"]
      [] OTHER            -> s.video

(* A deviation: rows are written without comparing versions. *)
Overwrites(s) == TRUE

(* fail and learn stamp finished_at, which always changes the row. *)
RunChanges(s) == RunAfter(s) # s.row \/ s.op \in {"fail", "learn"}
VideoChanges(s) == VideoAfter(s) # s.video

(* Every row to be updated still has the version that was loaded. *)
NotStale(s) ==
    /\ RunChanges(s) => runs[s.run].version = s.row.version
    /\ VideoChanges(s) => video.version = s.video.version

Bumped(row) == [row EXCEPT !.version = @ + 1]

(* The updates of the run and of the video. *)
WriteRows(s) ==
    /\ runs' = IF RunChanges(s) THEN [runs EXCEPT ![s.run] = Bumped(RunAfter(s))] ELSE runs
    /\ video' = IF VideoChanges(s) THEN Bumped(VideoAfter(s)) ELSE video

(* fail, research, voiceover and learn: no other table. *)
CommitRun(w) ==
    LET s == session[w]
    IN  /\ s.pc = "working"
        /\ s.op \in {"fail", "research", "voiceover", "learn"}
        /\ NotStale(s)
        /\ WriteRows(s)
        /\ End(w)
        /\ UNCHANGED <<scripts, publication, analytics, usage, history, calls>>

(* UNIQUE on (video_id, version_number) refuses a number that was taken    *)
(* meanwhile.                                                              *)
CommitScript(w) ==
    LET s == session[w]
    IN  /\ s.pc = "working" /\ s.op = "script"
        /\ VersionNumber(s) \notin 1..scripts
        /\ NotStale(s)
        /\ WriteRows(s)
        /\ scripts' = scripts + 1
        /\ End(w)
        /\ UNCHANGED <<publication, analytics, usage, history, calls>>

(* render meters itself last, under the id of the video's project, which   *)
(* is no row of organization: a foreign key refuses it and the call is     *)
(* rolled back.                                                            *)
MeteredOwner == "project"

CommitRender(w) ==
    LET s == session[w]
    IN  /\ s.pc = "working" /\ s.op = "render"
        /\ NotStale(s)
        /\ renders' = renders + 1
        /\ IF ForeignKeys /\ MeteredOwner # "organization"
           THEN UNCHANGED <<runs, video, usage>>
           ELSE WriteRows(s) /\ usage' = [usage EXCEPT ![MeteredOwner] = @ + 1]
        /\ End(w)
        /\ UNCHANGED <<scripts, publication, analytics, uploads, calls>>

CommitAnalytics(w, d) ==
    /\ session[w].pc = "working" /\ session[w].op = "analytics"
    /\ analytics' = [analytics EXCEPT ![d] = session[w].seen]
    /\ End(w)
    /\ UNCHANGED <<runs, video, scripts, publication, usage, history, calls>>

-----------------------------------------------------------------------------
(* A deviation: the publication is not flushed before the platform is called. *)
NobodyLocks == FALSE

PublicationLocked == \E w \in Workers : session[w].pc \in {"claimed", "uploaded"}

(* The publication is found or made, and flushed as PUBLISHING. *)
Claim(w) ==
    /\ session[w].pc = "working" /\ session[w].op = "publish"
    /\ ~PublicationLocked
    /\ session' = [session EXCEPT ![w].pc = "claimed"]
    /\ UNCHANGED <<db, history, calls>>

Upload(w) ==
    LET s == session[w]
    IN  /\ s.pc = "claimed"
        /\ uploads' = Append(uploads, s.row.artifacts["render"])
        /\ session' = [session EXCEPT ![w].pc = "uploaded", ![w].seen = Len(uploads) + 1]
        /\ UNCHANGED <<db, renders, calls>>

CommitPublish(w) ==
    LET s == session[w]
    IN  /\ s.pc = "uploaded"
        /\ NotStale(s)
        /\ WriteRows(s)
        /\ publication' = {[status |-> "published", upload |-> s.seen]}
        /\ End(w)
        /\ UNCHANGED <<scripts, analytics, usage, history, calls>>

(* A provider error, StaleDataError, IntegrityError, a lost connection or  *)
(* the death of the worker: nothing of the session stays.  This includes   *)
(* the FAILED status that publish writes when the platform refuses,        *)
(* because it then raises through session_scope.                           *)
Abort(w) ==
    /\ session[w].pc # "idle"
    /\ End(w)
    /\ UNCHANGED <<db, history, calls>>

Next ==
    \E w \in Workers :
        \/ BeginStart(w) \/ InsertRun(w)
        \/ \E op \in StageCalls, r \in DOMAIN runs : Begin(w, op, r)
        \/ CommitRun(w) \/ CommitScript(w) \/ CommitRender(w)
        \/ \E d \in Days : CommitAnalytics(w, d)
        \/ Claim(w) \/ Upload(w) \/ CommitPublish(w)
        \/ Abort(w)

Spec == Init /\ [][Next]_vars

-----------------------------------------------------------------------------
(* The rows and sessions have the shapes above.  In particular no          *)
(* committed publication is left PUBLISHING or FAILED.                     *)
TypeOK ==
    /\ runs \in Seq(RunRow)
    /\ video \in VideoRow
    /\ scripts \in Nat
    /\ publication \in SUBSET PublicationRow /\ Cardinality(publication) <= 1
    /\ analytics \in [Days -> Nat]
    /\ usage \in [{"organization", "project"} -> Nat]
    /\ session \in [Workers -> Session]
    /\ renders \in Nat /\ calls \in Nat

(* docs/VideoPipeline.md: "PipelineRun.artifacts accumulates what each     *)
(* stage produced".  _advance rebuilds the dictionary from the copy its    *)
(* session loaded; however two calls on one run overlap, no artifact that  *)
(* was stored is lost.                                                     *)
ArtifactsAccumulate ==
    [][\A r \in DOMAIN runs, a \in Artifacts :
          runs[r].artifacts[a] # 0 => runs'[r].artifacts[a] # 0]_vars

(* script takes its number from a count it read earlier and then points    *)
(* the video at the new row; the current version is always the newest.     *)
CurrentIsNewest == video.current = scripts

(* publish flushes the publication before it calls the platform, so two    *)
(* calls never upload the video at the same time, on the same run or on    *)
(* two.                                                                    *)
OneUploadAtATime ==
    \A v, w \in Workers : session[v].pc = "uploaded" /\ session[w].pc = "uploaded" => v = w

-----------------------------------------------------------------------------
(* docs/VideoPipeline.md: "Rendering records a video_render usage event,   *)
(* so a plan's render quota is enforced against real work."                *)
RendersAreMetered == usage["organization"] = renders
=============================================================================
