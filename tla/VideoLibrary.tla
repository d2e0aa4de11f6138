---------------------------- MODULE VideoLibrary ----------------------------
(***************************************************************************)
(* One owner's videos: upload, YouTube import, soft and hard deletion      *)
(* (routers/videos.py, services/video_service.py), and what refers to a    *)
(* video in the database: analysis jobs (job_service.py) and the videos of *)
(* judging entries (judging_service.py).  The row is in PostgreSQL and the *)
(* bytes are in the file system or in S3 (storage.py); no transaction      *)
(* spans the two.                                                          *)
(*                                                                         *)
(* A request runs in steps, and between two of them other requests commit. *)
(* Rows are inserted and deleted with their foreign keys checked:          *)
(* analysis_jobs and judging_entry_videos refer to video_assets without    *)
(* ON DELETE.                                                              *)
(***************************************************************************)
EXTENDS FiniteSets, Naturals

CONSTANTS
  Videos,     (* Ids of videos; every id is used for one upload at most.    *)
  Sources,    (* YouTube ids.                                               *)
  Jobs,       (* Ids of analysis jobs.                                      *)
  Clients,    (* Requests in flight at a time.                              *)
  Backends,   (* The storage backends to consider, of "local" and "s3".     *)
  MaxErrors,  (* Bound: the errors that interrupt a request.                *)
  None,       (* No source, no video, no request.                           *)
  OnePage     (* TRUE: videos are added from one page, whose form is        *)
              (* disabled while it waits (AddVideoPanel.tsx).               *)

AddKinds    == {"upload", "import"}
DeleteKinds == {"soft", "hard"}
Kinds       == AddKinds \cup DeleteKinds \cup {"analyse", "link"}

ASSUME BackendsAssumption  == Backends \subseteq {"local", "s3"}
ASSUME MaxErrorsAssumption == MaxErrors \in Nat
ASSUME NoneAssumption      == None \notin Videos \cup Sources \cup Kinds
ASSUME OnePageAssumption   == OnePage \in BOOLEAN

VARIABLES
  backend,   (* settings.storage_backend.                                   *)
  row,       (* video_assets: the row of each video ...                     *)
  source,    (* ... and its source_external_id.                             *)
  bytes,     (* The videos whose bytes are stored.                          *)
  jobs,      (* analysis_jobs: the video of each job.                       *)
  linked,    (* The videos in a judging entry.                              *)
  req,       (* The requests in flight.                                     *)
  errors,    (* Errors so far.                                              *)
  refused    (* History: videos whose hard deletion a foreign key refused.  *)

rows == <<row, source, jobs, linked>>
vars == <<backend, rows, bytes, req, errors, refused>>

-----------------------------------------------------------------------------
Request ==
  [kind   : Kinds \cup {None},
   pc     : {"idle", "store", "erase", "load", "commit"},
   video  : Videos \cup {None},
   source : Sources \cup {None},
   seen   : SUBSET Jobs]           \* The jobs a hard deletion has loaded.

Idle == [kind |-> None, pc |-> "idle", video |-> None, source |-> None, seen |-> {}]

\* A tombstone is a row with deleted_at set.
TypeOK ==
  /\ backend \in Backends
  /\ row \in [Videos -> {"absent", "live", "tombstone", "removed"}]
  /\ source \in [Videos -> Sources \cup {None}]
  /\ bytes \subseteq Videos
  /\ jobs \in [Jobs -> Videos \cup {None}]
  /\ linked \subseteq Videos
  /\ req \in [Clients -> Request]
  /\ errors \in 0 .. MaxErrors
  /\ refused \subseteq Videos

Adding(c)   == req[c].kind \in AddKinds
Deleting(c) == req[c].kind \in DeleteKinds
Live(v)     == row[v] = "live"
InTable(v)  == row[v] \in {"live", "tombstone"}
JobsOf(v)   == {j \in Jobs : jobs[j] = v}

\* A new UUID (generate_storage_key, and the default of each id column).
FreshVideo(v) == row[v] = "absent" /\ v \notin bytes /\ \A c \in Clients : req[c].video # v
FreshJob(j)   == jobs[j] = None /\ \A c \in Clients : j \notin req[c].seen

-----------------------------------------------------------------------------
Init ==
  /\ backend \in Backends
  /\ row = [v \in Videos |-> "absent"]
  /\ source = [v \in Videos |-> None]
  /\ bytes = {}
  /\ jobs = [j \in Jobs |-> None]
  /\ linked = {}
  /\ req = [c \in Clients |-> Idle]
  /\ errors = 0
  /\ refused = {}

Begin(c, kind, pc, v, s) ==
  /\ req[c] = Idle
  /\ req' = [req EXCEPT ![c] =
               [Idle EXCEPT !.kind = kind, !.pc = pc, !.video = v, !.source = s]]
  /\ UNCHANGED <<backend, rows, bytes, errors, refused>>

Goto(c, pc) == req' = [req EXCEPT ![c].pc = pc]
Ends(c)     == req' = [req EXCEPT ![c] = Idle]

\* The form of the page is free.
MayAdd == OnePage => \A c \in Clients : ~Adding(c)

-----------------------------------------------------------------------------
(* Adding a video.                                                         *)

\* The file has passed its validation.
BeginUpload(c, v) == FreshVideo(v) /\ MayAdd /\ Begin(c, "upload", "store", v, None)

\* Mutant: the lookup finds only the deleted copies.
BeginImportAgain(c, v, s) ==
  /\ FreshVideo(v)
  /\ MayAdd
  /\ \A w \in Videos : ~(row[w] = "tombstone" /\ source[w] = s)
  /\ Begin(c, "import", "store", v, s)

\* The duplicates are looked up first; the download follows.  With two live
\* rows for the source the lookup itself raises.
BeginImport(c, v, s) ==
  /\ FreshVideo(v)
  /\ MayAdd
  /\ \A w \in Videos : ~(Live(w) /\ source[w] = s)
  /\ Begin(c, "import", "store", v, s)

\* storage.put, before the row is inserted.
Store(c) ==
  /\ req[c].pc = "store"
  /\ bytes' = bytes \cup {req[c].video}
  /\ Goto(c, "commit")
  /\ UNCHANGED <<backend, rows, errors, refused>>

\* Mutant: the upload is committed before its bytes are stored.
CommitAddEarly(c, newJobs) ==
  /\ Adding(c) /\ req[c].pc \in {"store", "commit"}
  /\ row' = [row EXCEPT ![req[c].video] = "live"]
  /\ source' = [source EXCEPT ![req[c].video] = req[c].source]
  /\ jobs' = [j \in Jobs |-> IF j \in newJobs THEN req[c].video ELSE jobs[j]]
  /\ Ends(c)
  /\ UNCHANGED <<backend, bytes, linked, errors, refused>>

\* One transaction: the row, and a first job if the division is 1A.
CommitAdd(c, newJobs) ==
  /\ Adding(c) /\ req[c].pc = "commit"
  /\ row' = [row EXCEPT ![req[c].video] = "live"]
  /\ source' = [source EXCEPT ![req[c].video] = req[c].source]
  /\ jobs' = [j \in Jobs |-> IF j \in newJobs THEN req[c].video ELSE jobs[j]]
  /\ Ends(c)
  /\ UNCHANGED <<backend, bytes, linked, errors, refused>>

\* No job, or a new one.
FirstJobs == {{}} \cup {{j} : j \in {i \in Jobs : FreshJob(i)}}

-----------------------------------------------------------------------------
(* Deleting a video.                                                       *)

BeginDelete(c, v, kind) == Live(v) /\ Begin(c, kind, "erase", v, None)

AfterErase(c) == Goto(c, IF req[c].kind = "hard" THEN "load" ELSE "commit")

\* if storage.exists(...): storage.delete(...)
Erase(c) ==
  /\ req[c].pc = "erase"
  /\ bytes' = bytes \ {req[c].video}
  /\ AfterErase(c)
  /\ UNCHANGED <<backend, rows, errors, refused>>

\* Mutant: every backend takes an error for "no such object".
EraseSkippedAnywhere(c) ==
  /\ req[c].pc = "erase"
  /\ errors < MaxErrors
  /\ errors' = errors + 1
  /\ AfterErase(c)
  /\ UNCHANGED <<backend, rows, bytes, refused>>

\* S3: an error of head_object is taken for "no such object".
EraseSkipped(c) ==
  /\ req[c].pc = "erase"
  /\ backend = "s3"
  /\ errors < MaxErrors
  /\ errors' = errors + 1
  /\ AfterErase(c)
  /\ UNCHANGED <<backend, rows, bytes, refused>>

\* Mutant: the deletion remembers the videos of the jobs and not the jobs.
LoadChildrenVideos(c) ==
  /\ req[c].pc = "load"
  /\ req' = [req EXCEPT ![c].seen = {jobs[j] : j \in JobsOf(req[c].video)},
                        ![c].pc = "commit"]
  /\ UNCHANGED <<backend, rows, bytes, errors, refused>>

\* session.delete loads the jobs it will delete with the video.
LoadChildren(c) ==
  /\ req[c].pc = "load"
  /\ req' = [req EXCEPT ![c].seen = JobsOf(req[c].video), ![c].pc = "commit"]
  /\ UNCHANGED <<backend, rows, bytes, errors, refused>>

\* An UPDATE of deleted_at.  With the row gone it matches no row and raises.
CommitSoft(c) ==
  /\ req[c].kind = "soft" /\ req[c].pc = "commit"
  /\ row' = IF InTable(req[c].video)
            THEN [row EXCEPT ![req[c].video] = "tombstone"] ELSE row
  /\ Ends(c)
  /\ UNCHANGED <<backend, source, jobs, linked, bytes, errors, refused>>

\* Mutant: analysis_jobs.video_id is a plain column without a foreign key.
HeldByLinks(c) == req[c].video \in linked

\* What still refers to the video when the loaded jobs are deleted: a judging
\* entry, or a job inserted since.
Held(c) ==
  \/ req[c].video \in linked
  \/ JobsOf(req[c].video) \ req[c].seen # {}

CommitHard(c) ==
  /\ req[c].kind = "hard" /\ req[c].pc = "commit" /\ ~Held(c)
  /\ row' = [row EXCEPT ![req[c].video] = "removed"]
  /\ jobs' = [j \in Jobs |-> IF j \in req[c].seen THEN None ELSE jobs[j]]
  /\ Ends(c)
  /\ UNCHANGED <<backend, source, linked, bytes, errors, refused>>

\* The foreign key refuses the DELETE, and the rows are rolled back.
RefuseHard(c) ==
  /\ req[c].kind = "hard" /\ req[c].pc = "commit" /\ Held(c)
  /\ refused' = refused \cup {req[c].video}
  /\ Ends(c)
  /\ UNCHANGED <<backend, rows, bytes, errors>>

-----------------------------------------------------------------------------
(* What refers to a video.                                                 *)

BeginAnalyse(c, v) == Live(v) /\ Begin(c, "analyse", "commit", v, None)

\* The INSERT needs the row, which may be a tombstone by now.
CommitAnalyse(c, j) ==
  /\ req[c].kind = "analyse"
  /\ FreshJob(j)
  /\ jobs' = IF InTable(req[c].video) THEN [jobs EXCEPT ![j] = req[c].video] ELSE jobs
  /\ Ends(c)
  /\ UNCHANGED <<backend, row, source, linked, bytes, errors, refused>>

BeginLink(c, v) == Live(v) /\ v \notin linked /\ Begin(c, "link", "commit", v, None)

CommitLink(c) ==
  /\ req[c].kind = "link"
  /\ linked' = IF InTable(req[c].video) THEN linked \cup {req[c].video} ELSE linked
  /\ Ends(c)
  /\ UNCHANGED <<backend, row, source, jobs, bytes, errors, refused>>

\* The judging entry is deleted; its videos stay.
Unlink(v) ==
  /\ v \in linked
  /\ linked' = linked \ {v}
  /\ UNCHANGED <<backend, row, source, jobs, bytes, req, errors, refused>>

\* delete_analysis.
RemoveJob(j) ==
  /\ jobs[j] # None
  /\ jobs' = [jobs EXCEPT ![j] = None]
  /\ UNCHANGED <<backend, row, source, linked, bytes, req, errors, refused>>

\* A step raises, or the process is lost: the database rolls back, the storage
\* does not.
Abort(c) ==
  /\ req[c] # Idle
  /\ errors < MaxErrors
  /\ errors' = errors + 1
  /\ Ends(c)
  /\ UNCHANGED <<backend, rows, bytes, refused>>

-----------------------------------------------------------------------------
Arrives(c) ==
  \/ \E v \in Videos :
       \/ BeginUpload(c, v)
       \/ \E s \in Sources : BeginImport(c, v, s)
       \/ \E kind \in DeleteKinds : BeginDelete(c, v, kind)
       \/ BeginAnalyse(c, v)
       \/ BeginLink(c, v)

Server(c) ==
  \/ Store(c)
  \/ \E newJobs \in FirstJobs : CommitAdd(c, newJobs)
  \/ Erase(c)
  \/ EraseSkipped(c)
  \/ LoadChildren(c)
  \/ CommitSoft(c)
  \/ CommitHard(c)
  \/ RefuseHard(c)
  \/ \E j \in Jobs : CommitAnalyse(c, j)
  \/ CommitLink(c)
  \/ Abort(c)

Next ==
  \/ \E c \in Clients : Arrives(c) \/ Server(c)
  \/ \E v \in Videos : Unlink(v)
  \/ \E j \in Jobs : RemoveJob(j)

Spec == Init /\ [][Next]_vars
-----------------------------------------------------------------------------
(* Properties.                                                             *)

\* Without errors the storage agrees with the table: nothing is stored that is
\* neither listed nor being added, and a listed video can be played, unless a
\* deletion is at work or the database has refused one after the bytes had gone.
\* Interleavings of soft and hard deletions of a video with new jobs and links
\* are what could break it (create_video_from_upload, delete_video).
StorageAgrees ==
  errors = 0 =>
    \A v \in Videos :
      /\ v \in bytes => Live(v) \/ \E c \in Clients : Adding(c) /\ req[c].video = v
      /\ Live(v) =>
           v \in bytes \cup refused \/ \E c \in Clients : Deleting(c) /\ req[c].video = v

\* With the file system a deleted video has no bytes, whatever step fails
\* (delete_video: the storage is emptied before the row changes, and an error
\* of the storage ends the request).
GoneHasNoBytes ==
  backend = "local" =>
    \A v \in Videos : row[v] \in {"tombstone", "removed"} => v \notin bytes

\* A removed video stays removed and nothing refers to it again, although soft
\* deletions, analyses and links of it may be in flight (delete_video,
\* trigger_video_analysis, add_videos).
RemovedForGood ==
  [][\A v \in Videos : row[v] = "removed" =>
       row'[v] = "removed" /\ v \notin linked' /\ \A j \in Jobs : jobs'[j] # v]_vars

\* From one page, a YouTube video is in the library once at a time: deleted and
\* imported again, but never twice (import_youtube_video).
SourceOnce ==
  OnePage =>
    \A v, w \in Videos : Live(v) /\ Live(w) /\ source[v] = source[w] =>
      v = w \/ source[v] = None

=============================================================================
