-------------------------- MODULE Retrieval_proofs --------------------------
(***************************************************************************)
(* Proofs about files, collections and ingestion, for any files,           *)
(* collections, links and handlers, and any number of jobs and mishaps.    *)
(*                                                                         *)
(* All rest on Base: whatever mentions a link (its row, a job, a request,  *)
(* a chunk) means the same file and collection (Agree), for ids are not    *)
(* used twice (Known), a file has one link to a collection (OneLink), and  *)
(* the collection of a link is there (InCollection).  On top of it each    *)
(* property has its own invariant: HandInv, StrayInv, IndexInv with        *)
(* IndexedInv, and SweepInv.                                               *)
(***************************************************************************)
EXTENDS Retrieval, TLAPS

FileSteps == {"upload stored", "file emptied"}
PostSteps == {"post linked", "post saved"}
LinkSteps == PostSteps \cup {"unlink loaded", "unlink emptied"}
RemovalSteps == {"clear dropped", "clear emptied", "destroy emptied"}

HandlerState == [at: HandlerSteps, file: Files \cup {None}, coll: Collections \cup {None},
                 link: Links \cup {None}]

\* A request has what its step is about, and a link only when it is about one.
WellFormed(r) ==
    /\ r \in HandlerState
    /\ r.at = "idle" => r = Idle
    /\ r.at \in FileSteps => r.file \in Files /\ r.link = None
    /\ r.at \in LinkSteps => r.file \in Files /\ r.coll \in Collections /\ r.link \in Links
    /\ r.at \in RemovalSteps => r.coll \in Collections /\ r.link = None

FilesOK == content \in [Files -> Contents] /\ rows \subseteq Files /\ blobs \subseteq Files
RagOK ==
    /\ collections \subseteq Collections /\ stores \subseteq Collections
    /\ links \in [Links -> Link \cup {NoLink}]
    /\ vectors \subseteq Job
QueueOK == jobs \in Seq(Job)
WorkerOK ==
    /\ worker \in [step: WorkerSteps, job: Job \cup {NoJob}]
    /\ worker.step = "idle" <=> worker.job = NoJob
HandlersOK == handler \in [Handlers -> HandlerState] /\ \A h \in Handlers : WellFormed(handler[h])
CountsOK ==
    /\ cleanup \in [Services -> {"none", "never", "emptied", "confirmed", "lost"}]
    /\ asked \in 0..MaxJobs /\ mishaps \in 0..MaxMishaps

TypeInv == FilesOK /\ RagOK /\ QueueOK /\ WorkerOK /\ HandlersOK /\ CountsOK

LEMMA TypeEnough == ASSUME TypeInv PROVE RetrievalTypeOK
  BY DEF TypeInv, FilesOK, RagOK, QueueOK, WorkerOK, HandlersOK, CountsOK, RetrievalTypeOK, HandlerState

-----------------------------------------------------------------------------
(* What the steps are made of.                                             *)

LEMMA Nothing ==
    /\ WellFormed(Idle) /\ Idle.at = "idle" /\ Idle.link = None /\ Idle.file = None
    /\ NoJob \notin Job /\ NoJob.link = None /\ NoLink \notin Link
    /\ NoLink.coll = None /\ NoLink.status = "absent"
<1>1. WellFormed(Idle) /\ Idle.at = "idle" /\ Idle.link = None /\ Idle.file = None
  BY DEF WellFormed, Idle, HandlerState, HandlerSteps, FileSteps, LinkSteps, PostSteps, RemovalSteps
<1>2. NoJob \notin Job /\ NoJob.link = None
  BY RetrievalAssumption DEF NoJob, Job
<1>3. NoLink \notin Link /\ NoLink.coll = None /\ NoLink.status = "absent"
  BY RetrievalAssumption DEF NoLink, Link
<1> QED BY <1>1, <1>2, <1>3

LEMMA HandlerChange ==
    ASSUME HandlersOK, NEW h, NEW r, WellFormed(r), handler' = [handler EXCEPT ![h] = r]
    PROVE  HandlersOK'
  BY DEF HandlersOK, WellFormed

LEMMA StartOK ==
    ASSUME HandlersOK, NEW h, NEW at, NEW f, NEW c, NEW l, Start(h, at, f, c, l),
           WellFormed([at |-> at, file |-> f, coll |-> c, link |-> l])
    PROVE  HandlersOK'
  BY HandlerChange DEF Start

LEMMA FinishOK == ASSUME HandlersOK, NEW h, Finish(h) PROVE HandlersOK'
  BY HandlerChange, Nothing DEF Finish

LEMMA GoOK ==
    ASSUME HandlersOK, NEW h \in Handlers, NEW at, Go(h, at),
           \/ handler[h].at \in PostSteps /\ at \in PostSteps
           \/ handler[h].at \in LinkSteps \ PostSteps /\ at \in LinkSteps \ PostSteps
           \/ handler[h].at \in RemovalSteps /\ at \in RemovalSteps
    PROVE  HandlersOK'
<1> DEFINE r == [handler[h] EXCEPT !.at = at]
<1>1. WellFormed(handler[h]) /\ handler[h] \in HandlerState
  BY DEF HandlersOK
<1>2. r \in HandlerState /\ r.at = at /\ r.file = handler[h].file /\ r.coll = handler[h].coll
      /\ r.link = handler[h].link
  BY <1>1 DEF HandlerState, HandlerSteps, LinkSteps, PostSteps, RemovalSteps
<1>3. handler' = [handler EXCEPT ![h] = r]
  BY DEF Go, HandlersOK
<1> HIDE DEF r
<1>4. WellFormed(r)
  BY <1>1, <1>2 DEF WellFormed, FileSteps, LinkSteps, PostSteps, RemovalSteps
<1> QED BY <1>3, <1>4, HandlerChange

LEMMA MishapOK == ASSUME CountsOK, Mishap PROVE mishaps' \in 0..MaxMishaps
  BY RetrievalAssumption DEF CountsOK, Mishap

\* Who has opened a store that is deleted keeps the job.
LEMMA DropOK ==
    ASSUME RagOK, WorkerOK, NEW cs, Drop(cs)
    PROVE  /\ stores' \subseteq Collections /\ vectors' \subseteq Job /\ WorkerOK'
           /\ worker'.job = worker.job
           /\ worker'.step = worker.step \/ (worker.step = "opened" /\ worker'.step = "stale")
<1>1. stores' \subseteq Collections /\ vectors' \subseteq Job
  BY DEF Drop, RagOK
<1>2. worker' = worker \/ (worker.step = "opened" /\ worker' = [worker EXCEPT !.step = "stale"])
  BY DEF Drop
<1>3. ASSUME worker.step = "opened", worker' = [worker EXCEPT !.step = "stale"]
      PROVE  WorkerOK' /\ worker'.job = worker.job /\ worker'.step = "stale"
  BY <1>3 DEF WorkerOK, WorkerSteps
<1> QED BY <1>1, <1>2, <1>3 DEF WorkerOK

LEMMA GoesOK ==
    ASSUME WorkerOK, NEW step \in WorkerSteps \ {"idle"}, worker.step # "idle", Goes(step)
    PROVE  WorkerOK' /\ worker'.job = worker.job /\ worker'.step = step
  BY DEF WorkerOK, Goes, WorkerSteps

LEMMA RestOK ==
    ASSUME worker' = [step |-> "idle", job |-> NoJob]
    PROVE  WorkerOK' /\ worker'.job = NoJob /\ worker'.step = "idle"
  BY DEF WorkerOK, WorkerSteps

\* A row that is written has what the request or the worker knows of the link.
LEMMA SavedOK ==
    ASSUME RagOK, HandlersOK, NEW h \in Handlers, handler[h].at \in PostSteps,
           NEW status \in {"pending", "ingesting", "completed", "error"}
    PROVE  /\ SavedLink(h, status) \in [Links -> Link \cup {NoLink}]
           /\ handler[h].link \in Links
           /\ SavedLink(h, status)[handler[h].link] \in Link
           /\ SavedLink(h, status)[handler[h].link] = [coll |-> handler[h].coll, file |-> handler[h].file,
                                                       status |-> status]
<1>1. handler[h].coll \in Collections /\ handler[h].file \in Files /\ handler[h].link \in Links
  BY DEF HandlersOK, WellFormed, LinkSteps
<1>2. [coll |-> handler[h].coll, file |-> handler[h].file, status |-> status] \in Link
  BY <1>1 DEF Link
<1> QED BY <1>1, <1>2 DEF SavedLink, RagOK

LEMMA StatusOK ==
    ASSUME RagOK, NEW l \in Links, NEW status \in {"pending", "ingesting", "completed", "error"},
           UpdateFileLinkStatus(l, status)
    PROVE  /\ links' \in [Links -> Link \cup {NoLink}]
           /\ \A k \in Links : k # l => links'[k] = links[k]
           /\ LinkExists(l) => links'[l] \in Link /\ links'[l].coll = links[l].coll
                                 /\ links'[l].file = links[l].file /\ links'[l].status = status
           /\ ~LinkExists(l) => links'[l] = links[l]
<1>1. CASE LinkExists(l)
  <2>1. links' = [links EXCEPT ![l] = [links[l] EXCEPT !.status = status]] /\ links[l] \in Link
    BY <1>1 DEF UpdateFileLinkStatus, LinkExists, RagOK
  <2> DEFINE r == [links[l] EXCEPT !.status = status]
  <2>2. r \in Link /\ r.coll = links[l].coll /\ r.file = links[l].file /\ r.status = status
    BY <2>1 DEF Link
  <2> HIDE DEF r
  <2>3. links' = [links EXCEPT ![l] = r]
    BY <2>1 DEF r
  <2> QED BY <1>1, <2>2, <2>3 DEF RagOK
<1>2. CASE ~LinkExists(l)
  BY <1>2 DEF UpdateFileLinkStatus, RagOK
<1> QED BY <1>1, <1>2

-----------------------------------------------------------------------------
(* Types.                                                                  *)

LEMMA InitType == RetrievalInit => TypeInv
<1> SUFFICES ASSUME RetrievalInit PROVE TypeInv
  OBVIOUS
<1>1. FilesOK /\ RagOK /\ QueueOK
  BY DEF RetrievalInit, FilesOK, RagOK, QueueOK
<1>2. WorkerOK /\ HandlersOK
  BY Nothing DEF RetrievalInit, WorkerOK, WorkerSteps, HandlersOK, WellFormed
<1>3. CountsOK
  BY RetrievalAssumption DEF RetrievalInit, CountsOK, Services
<1> QED BY <1>1, <1>2, <1>3 DEF TypeInv

LEMMA FileType == ASSUME TypeInv, NEW h \in Handlers, FileNext(h) PROVE TypeInv'
<1>0. FilesOK /\ RagOK /\ QueueOK /\ WorkerOK /\ HandlersOK /\ CountsOK
  BY DEF TypeInv
<1>1. UNCHANGED <<ragVars, jobs, worker, asked, cleanup, mishaps>>
  BY DEF FileNext, UploadStore, DeleteFileBlob, UploadRow, DeleteFileRow
<1>2. RagOK' /\ QueueOK' /\ WorkerOK' /\ CountsOK'
  BY <1>0, <1>1 DEF RagOK, QueueOK, WorkerOK, CountsOK, ragVars
<1>3. FilesOK'
  BY <1>0 DEF FileNext, UploadStore, DeleteFileBlob, UploadRow, DeleteFileRow, FilesOK, HandlersOK,
              WellFormed, FileSteps
<1>4. HandlersOK'
  <2>1. ASSUME NEW f \in Files, NEW at \in FileSteps, Start(h, at, f, None, None) PROVE HandlersOK'
    <3>1. WellFormed([at |-> at, file |-> f, coll |-> None, link |-> None])
      BY DEF WellFormed, HandlerState, HandlerSteps, FileSteps, LinkSteps, PostSteps, RemovalSteps
    <3> QED BY <1>0, <2>1, <3>1, StartOK
  <2> QED BY <1>0, <2>1, FinishOK
      DEF FileNext, UploadStore, DeleteFileBlob, UploadRow, DeleteFileRow, FilesOK, FileSteps
<1> QED BY <1>2, <1>3, <1>4 DEF TypeInv

LEMMA CollectionType == ASSUME TypeInv, NEW h \in Handlers, CollectionNext(h) PROVE TypeInv'
<1>0. FilesOK /\ RagOK /\ QueueOK /\ WorkerOK /\ HandlersOK /\ CountsOK
  BY DEF TypeInv
<1>1. UNCHANGED <<fileVars, jobs, asked, cleanup>>
  BY DEF CollectionNext, ClearDrop, DestroyDrop, ClearCreate, ClearRows, DestroyRow
<1>2. CountsOK'
  <2>1. mishaps' \in 0..MaxMishaps
    BY <1>0, MishapOK DEF CollectionNext, ClearDrop, DestroyDrop, ClearCreate, ClearRows, DestroyRow, CountsOK
  <2> QED BY <1>0, <1>1, <2>1 DEF CountsOK
<1>3. FilesOK' /\ QueueOK'
  BY <1>0, <1>1 DEF FilesOK, QueueOK, fileVars
<1>4. WorkerOK' /\ stores' \subseteq Collections /\ vectors' \subseteq Job
  <2>1. ASSUME NEW c, Drop({c}) PROVE WorkerOK' /\ stores' \subseteq Collections /\ vectors' \subseteq Job
    BY <1>0, <2>1, DropOK
  <2>2. CASE UNCHANGED <<worker, vectors>>
             /\ \/ stores' = stores
                \/ handler[h].at = "clear dropped" /\ stores' = stores \cup {handler[h].coll}
    BY <1>0, <2>2 DEF WorkerOK, RagOK, HandlersOK, WellFormed, RemovalSteps
  <2>3. CASE \E c \in Collections : ClearDrop(h, c) \/ DestroyDrop(h, c)
    BY <2>1, <2>2, <2>3 DEF ClearDrop, DestroyDrop
  <2>4. CASE ClearCreate(h) \/ ClearRows(h) \/ DestroyRow(h)
    BY <2>2, <2>4 DEF ClearCreate, ClearRows, DestroyRow
  <2> QED BY <2>3, <2>4 DEF CollectionNext
<1>5. RagOK'
  <2>1. collections' \subseteq Collections
    BY <1>0 DEF CollectionNext, ClearDrop, DestroyDrop, ClearCreate, ClearRows, DestroyRow, RagOK
  <2>2. \A cs : Unlinked(cs) \in [Links -> Link \cup {NoLink}]
    BY <1>0 DEF Unlinked, RagOK
  <2>3. links' \in [Links -> Link \cup {NoLink}]
    BY <1>0, <2>2 DEF CollectionNext, ClearDrop, DestroyDrop, ClearCreate, ClearRows, DestroyRow, RagOK
  <2> QED BY <1>4, <2>1, <2>3 DEF RagOK
<1>6. HandlersOK'
  <2>1. ASSUME NEW c \in Collections, NEW at \in RemovalSteps, Start(h, at, None, c, None) PROVE HandlersOK'
    <3>1. WellFormed([at |-> at, file |-> None, coll |-> c, link |-> None])
      BY DEF WellFormed, HandlerState, HandlerSteps, FileSteps, LinkSteps, PostSteps, RemovalSteps
    <3> QED BY <1>0, <2>1, <3>1, StartOK
  <2>2. CASE \E c \in Collections : ClearDrop(h, c) \/ DestroyDrop(h, c)
    BY <2>1, <2>2 DEF ClearDrop, DestroyDrop, RemovalSteps
  <2>3. CASE ClearCreate(h)
    BY <1>0, <2>3, FinishOK, GoOK DEF ClearCreate, RemovalSteps
  <2>4. CASE ClearRows(h) \/ DestroyRow(h)
    BY <1>0, <2>4, FinishOK DEF ClearRows, DestroyRow
  <2> QED BY <2>2, <2>3, <2>4 DEF CollectionNext
<1> QED BY <1>2, <1>3, <1>4, <1>5, <1>6 DEF TypeInv

LEMMA LinkType == ASSUME TypeInv, NEW h \in Handlers, LinkNext(h) PROVE TypeInv'
<1>0. FilesOK /\ RagOK /\ QueueOK /\ WorkerOK /\ HandlersOK /\ CountsOK
  BY DEF TypeInv
<1>1. UNCHANGED <<fileVars, collections, stores, worker, cleanup>>
  BY DEF LinkNext, PostCreate, PostAgain, UnlinkLoad, PostSave, PostPublish, UnlinkEmpty, UnlinkRow,
         ragVars
<1>2. CountsOK'
  <2>1. mishaps' \in 0..MaxMishaps
    BY <1>0, MishapOK DEF LinkNext, PostCreate, PostAgain, UnlinkLoad, PostSave, PostPublish,
                          UnlinkEmpty, UnlinkRow, CountsOK
  <2>2. asked' \in 0..MaxJobs
    <3>1. UNCHANGED asked \/ (asked < MaxJobs /\ asked' = asked + 1)
      BY DEF LinkNext, PostCreate, PostAgain, UnlinkLoad, PostSave, PostPublish, UnlinkEmpty, UnlinkRow
    <3> QED BY <1>0, <3>1, RetrievalAssumption DEF CountsOK
  <2> QED BY <1>0, <1>1, <2>1, <2>2 DEF CountsOK
<1>3. FilesOK' /\ WorkerOK'
  BY <1>0, <1>1 DEF FilesOK, WorkerOK, fileVars
<1>4. QueueOK' /\ HandlersOK' /\ RagOK'
  <2>0. ASSUME NEW f \in Files, NEW c \in Collections, NEW l \in Links, NEW at \in LinkSteps,
               Start(h, at, f, c, l)
        PROVE  HandlersOK'
    <3>1. WellFormed([at |-> at, file |-> f, coll |-> c, link |-> l])
      BY DEF WellFormed, HandlerState, HandlerSteps, FileSteps, LinkSteps, PostSteps, RemovalSteps
    <3> QED BY <1>0, <2>0, <3>1, StartOK
  <2>1. ASSUME NEW c \in Collections, NEW f \in Files, NEW l \in Links, PostCreate(h, c, f, l)
        PROVE  QueueOK' /\ HandlersOK' /\ RagOK'
    <3>1. [coll |-> c, file |-> f, status |-> "pending"] \in Link
      BY DEF Link
    <3>2. HandlersOK'
      BY <2>0, <2>1 DEF PostCreate, LinkSteps, PostSteps
    <3> QED BY <1>0, <2>1, <3>1, <3>2 DEF PostCreate, QueueOK, RagOK
  <2>2. ASSUME NEW l \in Links, PostAgain(h, l) \/ UnlinkLoad(h, l)
        PROVE  QueueOK' /\ HandlersOK' /\ RagOK'
    <3>1. links[l] \in Link
      BY <1>0, <2>2 DEF PostAgain, UnlinkLoad, LinkExists, RagOK
    <3>2. links[l].file \in Files /\ links[l].coll \in Collections
      BY <3>1 DEF Link
    <3>3. HandlersOK'
      BY <2>0, <2>2, <3>2 DEF PostAgain, UnlinkLoad, LinkSteps, PostSteps
    <3> QED BY <1>0, <2>2, <3>3 DEF PostAgain, UnlinkLoad, QueueOK, RagOK, ragVars
  <2>3. CASE PostSave(h)
    <3>1. links' \in [Links -> Link \cup {NoLink}]
      BY <1>0, <2>3, SavedOK DEF PostSave, PostSteps, RagOK
    <3>2. HandlersOK'
      BY <1>0, <2>3, FinishOK, GoOK DEF PostSave, PostSteps
    <3> QED BY <1>0, <2>3, <3>1, <3>2 DEF PostSave, QueueOK, RagOK
  <2>4. CASE PostPublish(h)
    <3>1. links' \in [Links -> Link \cup {NoLink}]
      BY <1>0, <2>4, SavedOK DEF PostPublish, PostSteps, RagOK
    <3>2. HandlersOK'
      BY <1>0, <2>4, FinishOK DEF PostPublish
    <3>3. [link |-> handler[h].link, coll |-> handler[h].coll, file |-> handler[h].file] \in Job
      BY <1>0, <2>4 DEF PostPublish, HandlersOK, WellFormed, LinkSteps, PostSteps, Job
    <3>4. QueueOK'
      <4> DEFINE j == [link |-> handler[h].link, coll |-> handler[h].coll, file |-> handler[h].file]
      <4>1. jobs' = Append(jobs, j) \/ UNCHANGED jobs
        BY <2>4 DEF PostPublish
      <4>2. j \in Job
        BY <3>3
      <4> HIDE DEF j
      <4> QED BY <1>0, <4>1, <4>2 DEF QueueOK
    <3> QED BY <1>0, <2>4, <3>1, <3>2, <3>4 DEF PostPublish, RagOK
  <2>5. CASE UnlinkEmpty(h)
    <3>1. vectors' \subseteq vectors
      BY <2>5 DEF UnlinkEmpty, Without
    <3>2. HandlersOK'
      BY <1>0, <2>5, FinishOK, GoOK DEF UnlinkEmpty, LinkSteps, PostSteps
    <3> QED BY <1>0, <2>5, <3>1, <3>2 DEF UnlinkEmpty, QueueOK, RagOK
  <2>6. CASE UnlinkRow(h)
    BY <1>0, <2>6, FinishOK DEF UnlinkRow, QueueOK, RagOK
  <2> QED BY <2>1, <2>2, <2>3, <2>4, <2>5, <2>6 DEF LinkNext
<1> QED BY <1>2, <1>3, <1>4 DEF TypeInv

LEMMA WorkerType == ASSUME TypeInv, WorkerNext PROVE TypeInv'
<1>0. FilesOK /\ RagOK /\ QueueOK /\ WorkerOK /\ HandlersOK /\ CountsOK
  BY DEF TypeInv
<1>1. UNCHANGED <<fileVars, collections, handler, asked, cleanup>>
  BY DEF WorkerNext, Receive, GetFileContent, AddChunks, MarkCompleted, MarkError, CallFails, WorkerCrash,
         ragVars
<1>2. CountsOK'
  <2>1. mishaps' \in 0..MaxMishaps
    BY <1>0, MishapOK DEF WorkerNext, Receive, GetFileContent, AddChunks, MarkCompleted, MarkError,
                          CallFails, WorkerCrash, CountsOK
  <2> QED BY <1>0, <1>1, <2>1 DEF CountsOK
<1>3. FilesOK' /\ HandlersOK'
  BY <1>0, <1>1 DEF FilesOK, HandlersOK, fileVars
<1>4. worker.step # "idle" => worker.job \in Job
  BY <1>0 DEF WorkerOK
<1>5. QueueOK' /\ WorkerOK' /\ RagOK'
  <2>1. CASE Receive
    <3>1. Head(jobs) \in Job /\ Tail(jobs) \in Seq(Job)
      BY <1>0, <2>1 DEF Receive, QueueOK
    <3>2. Head(jobs).link \in Links
      BY <3>1 DEF Job
    <3>3. links' \in [Links -> Link \cup {NoLink}]
      BY <1>0, <2>1, <3>2, StatusOK DEF Receive
    <3>4. WorkerOK'
      BY <2>1, <3>1, Nothing DEF Receive, WorkerOK, WorkerSteps
    <3> QED BY <1>0, <2>1, <3>1, <3>3, <3>4 DEF Receive, QueueOK, RagOK
  <2>2. CASE GetFileContent
    <3>1. WorkerOK'
      BY <1>0, <2>2, GoesOK DEF GetFileContent, At, WorkerSteps
    <3>2. stores' \subseteq Collections
      BY <1>0, <1>4, <2>2 DEF GetFileContent, At, RagOK, Job
    <3> QED BY <1>0, <2>2, <3>1, <3>2 DEF GetFileContent, QueueOK, RagOK
  <2>3. CASE AddChunks
    <3>1. WorkerOK'
      BY <1>0, <2>3, GoesOK DEF AddChunks, At, WorkerSteps
    <3>2. vectors' \subseteq Job
      BY <1>0, <1>4, <2>3 DEF AddChunks, At, RagOK
    <3> QED BY <1>0, <2>3, <3>1, <3>2 DEF AddChunks, QueueOK, RagOK
  <2>4. CASE MarkCompleted
    <3>1. worker.job.link \in Links
      BY <1>4, <2>4 DEF MarkCompleted, At, Job
    <3>2. links' \in [Links -> Link \cup {NoLink}]
      BY <1>0, <2>4, <3>1, StatusOK DEF MarkCompleted
    <3> QED BY <1>0, <2>4, <3>2, RestOK DEF MarkCompleted, QueueOK, RagOK
  <2>5. CASE MarkError
    <3>1. worker.job.link \in Links
      BY <1>4, <2>5 DEF MarkError, At, Job
    <3>2. UpdateFileLinkStatus(worker.job.link, "error")
      BY <2>5 DEF MarkError, Failed, UpdateFileLinkStatus
    <3>3. links' \in [Links -> Link \cup {NoLink}]
      BY <1>0, <3>1, <3>2, StatusOK
    <3> QED BY <1>0, <2>5, <3>3, RestOK DEF MarkError, QueueOK, RagOK
  <2>6. CASE CallFails
    <3>1. WorkerOK'
      BY <1>0, <2>6, GoesOK, RestOK DEF CallFails, At, WorkerSteps
    <3> QED BY <1>0, <2>6, <3>1 DEF CallFails, QueueOK, RagOK, ragVars
  <2>7. CASE WorkerCrash
    <3>1. jobs' \in Seq(Job)
      BY <1>0, <1>4, <2>7 DEF WorkerCrash, At, QueueOK
    <3> QED BY <1>0, <2>7, <3>1, RestOK DEF WorkerCrash, QueueOK, RagOK, ragVars
  <2> QED BY <2>1, <2>2, <2>3, <2>4, <2>5, <2>6, <2>7 DEF WorkerNext
<1> QED BY <1>2, <1>3, <1>5 DEF TypeInv

Sweeping == SweepFiles \/ SweepStores \/ SweepCollectionRows

LEMMA OtherType ==
    ASSUME TypeInv, Sweeping \/ (\E c \in Collections : CreateCollection(c)) \/ \E h \in Handlers : Abandon(h)
    PROVE  TypeInv'
<1>0. FilesOK /\ RagOK /\ QueueOK /\ WorkerOK /\ HandlersOK /\ CountsOK
  BY DEF TypeInv
<1>2. ASSUME NEW c \in Collections, CreateCollection(c) PROVE TypeInv'
  BY <1>0, <1>2 DEF CreateCollection, TypeInv, FilesOK, RagOK, QueueOK, WorkerOK, HandlersOK, CountsOK,
                    fileVars, taskVars
<1>3. ASSUME NEW h \in Handlers, Abandon(h) PROVE TypeInv'
  <2>1. HandlersOK'
    BY <1>0, <1>3, FinishOK DEF Abandon
  <2>2. mishaps' \in 0..MaxMishaps
    BY <1>0, <1>3, MishapOK DEF Abandon
  <2> QED BY <1>0, <1>3, <2>1, <2>2
      DEF Abandon, TypeInv, FilesOK, RagOK, QueueOK, WorkerOK, CountsOK, fileVars, ragVars
<1>4. ASSUME Sweeping PROVE CountsOK' /\ QueueOK' /\ HandlersOK' /\ UNCHANGED asked
  <2>1. mishaps' \in 0..MaxMishaps
    BY <1>0, <1>4, MishapOK DEF Sweeping, SweepFiles, SweepStores, SweepCollectionRows, Confirm, CountsOK
  <2>2. PICK s \in Services, to \in {"emptied", "confirmed", "lost"} : cleanup' = [cleanup EXCEPT ![s] = to]
    BY <1>4 DEF Sweeping, SweepFiles, SweepStores, SweepCollectionRows, Confirm, Services
  <2>3. UNCHANGED <<asked, jobs, handler>>
    BY <1>4 DEF Sweeping, SweepFiles, SweepStores, SweepCollectionRows, taskVars
  <2> QED BY <1>0, <2>1, <2>2, <2>3 DEF CountsOK, QueueOK, HandlersOK
<1>5. CASE SweepFiles
  BY <1>0, <1>4, <1>5
  DEF Sweeping, SweepFiles, SweptBlobs, TypeInv, FilesOK, RagOK, WorkerOK, ragVars, taskVars
<1>6. CASE SweepStores
  <2>1. ASSUME NEW cs, Drop(cs) PROVE WorkerOK' /\ stores' \subseteq Collections /\ vectors' \subseteq Job
    BY <1>0, <2>1, DropOK
  <2>2. ASSUME UNCHANGED <<stores, vectors, worker>>
        PROVE  WorkerOK' /\ stores' \subseteq Collections /\ vectors' \subseteq Job
    BY <1>0, <2>2 DEF WorkerOK, RagOK
  <2>3. WorkerOK' /\ stores' \subseteq Collections /\ vectors' \subseteq Job
    BY <1>6, <2>1, <2>2 DEF SweepStores
  <2> QED BY <1>0, <1>4, <1>6, <2>3 DEF Sweeping, SweepStores, TypeInv, FilesOK, RagOK, fileVars
<1>7. CASE SweepCollectionRows
  BY <1>0, <1>4, <1>7
  DEF Sweeping, SweepCollectionRows, TypeInv, FilesOK, RagOK, WorkerOK, fileVars, taskVars
<1> QED BY <1>2, <1>3, <1>5, <1>6, <1>7 DEF Sweeping

LEMMA TypeStep == ASSUME TypeInv, [RetrievalNext]_retrievalVars PROVE TypeInv'
<1>1. CASE UNCHANGED retrievalVars
  BY <1>1 DEF retrievalVars, fileVars, ragVars, taskVars, TypeInv, FilesOK, RagOK, QueueOK, WorkerOK,
              HandlersOK, CountsOK
<1>2. CASE RetrievalNext
  BY <1>2, FileType, CollectionType, LinkType, WorkerType, OtherType DEF RetrievalNext, Sweeping
<1> QED BY <1>1, <1>2

-----------------------------------------------------------------------------
(* Everything that mentions a link means the same file and collection.     *)

Triple(r) == [link |-> r.link, coll |-> r.coll, file |-> r.file]
HandlerMentions == {Triple(handler[h]) : h \in {k \in Handlers : handler[k].link # None}}
LinkMentions == {[link |-> l, coll |-> links[l].coll, file |-> links[l].file] :
                     l \in {k \in Links : links[k] # NoLink}}
JobMentions == {jobs[i] : i \in 1..Len(jobs)}
WorkerMentions == {worker.job} \ {NoJob}
Mentions == HandlerMentions \cup LinkMentions \cup JobMentions \cup WorkerMentions \cup vectors

Agree == \A x, y \in Mentions : x.link = y.link => x = y
Known == \A x \in Mentions : x.link \in used

\* A file has at most one link to a collection, and a link a collection that exists.
OneLink ==
    \A k, l \in Links :
        links[k] # NoLink /\ links[l] # NoLink
            /\ links[k].coll = links[l].coll /\ links[k].file = links[l].file => k = l
InCollection == \A l \in Links : links[l] # NoLink => links[l].coll \in collections

Base == TypeInv /\ Agree /\ Known /\ OneLink /\ InCollection

LEMMA MentionsKeep ==
    ASSUME Agree, Known, Mentions' \subseteq Mentions, used \subseteq used'
    PROVE  Agree' /\ Known'
  BY DEF Agree, Known

LEMMA MentionsGrow ==
    ASSUME Agree, Known, NEW x, Mentions' \subseteq Mentions \cup {x}, x.link \notin used,
           used \cup {x.link} \subseteq used'
    PROVE  Agree' /\ Known'
  BY DEF Agree, Known

\* Rows that only go, or change their status.
LinksGo ==
    \A l \in Links : links'[l] # NoLink =>
        links[l] # NoLink /\ links'[l].coll = links[l].coll /\ links'[l].file = links[l].file

LEMMA LinksGoKeep ==
    ASSUME LinksGo
    PROVE  /\ LinkMentions' \subseteq LinkMentions
           /\ OneLink => OneLink'
           /\ InCollection /\ collections \subseteq collections' => InCollection'
  BY DEF LinksGo, LinkMentions, OneLink, InCollection

LEMMA HandlerMentionsKeep ==
    ASSUME HandlersOK, NEW h, NEW r, handler' = [handler EXCEPT ![h] = r]
    PROVE  HandlerMentions' \subseteq HandlerMentions \cup (IF r.link = None THEN {} ELSE {Triple(r)})
  BY DEF HandlersOK, HandlerMentions

LEMMA StartMentions ==
    ASSUME HandlersOK, NEW h, NEW at, NEW f, NEW c, NEW l, Start(h, at, f, c, l)
    PROVE  HandlerMentions' \subseteq HandlerMentions \cup
               (IF l = None THEN {} ELSE {[link |-> l, coll |-> c, file |-> f]})
<1> DEFINE r == [at |-> at, file |-> f, coll |-> c, link |-> l]
<1>1. handler' = [handler EXCEPT ![h] = r]
  BY DEF Start
<1>2. r.link = l /\ Triple(r) = [link |-> l, coll |-> c, file |-> f]
  BY DEF Triple
<1> HIDE DEF r
<1> QED BY <1>1, <1>2, HandlerMentionsKeep

LEMMA FinishMentions == ASSUME HandlersOK, NEW h, Finish(h) PROVE HandlerMentions' \subseteq HandlerMentions
  BY HandlerMentionsKeep, Nothing DEF Finish

LEMMA GoMentions ==
    ASSUME HandlersOK, NEW h \in Handlers, NEW at, Go(h, at)
    PROVE  HandlerMentions' \subseteq HandlerMentions
  BY DEF HandlersOK, HandlerMentions, Go, HandlerState, Triple

LEMMA MentionsAreJobs == ASSUME TypeInv PROVE Mentions \subseteq Job
<1>1. HandlerMentions \subseteq Job
  <2> SUFFICES ASSUME NEW h \in Handlers, handler[h].link # None PROVE Triple(handler[h]) \in Job
    BY DEF HandlerMentions
  <2>1. WellFormed(handler[h])
    BY DEF TypeInv, HandlersOK
  <2>2. handler[h].at \in LinkSteps
    BY <2>1, Nothing DEF WellFormed, HandlerState, HandlerSteps, FileSteps, LinkSteps, PostSteps, RemovalSteps
  <2> QED BY <2>1, <2>2 DEF WellFormed, Triple, Job
<1>2. LinkMentions \subseteq Job
  BY DEF TypeInv, RagOK, LinkMentions, Link, Job
<1>3. JobMentions \subseteq Job /\ WorkerMentions \subseteq Job /\ vectors \subseteq Job
  BY DEF TypeInv, RagOK, QueueOK, WorkerOK, JobMentions, WorkerMentions
<1> QED BY <1>1, <1>2, <1>3 DEF Mentions

LEMMA InitBase == RetrievalInit => Base
<1> SUFFICES ASSUME RetrievalInit PROVE Base
  OBVIOUS
<1>1. Mentions = {}
  BY Nothing DEF RetrievalInit, Mentions, HandlerMentions, LinkMentions, JobMentions, WorkerMentions
<1> QED BY <1>1, InitType DEF RetrievalInit, Base, Agree, Known, OneLink, InCollection

LEMMA FileBase == ASSUME Base, NEW h \in Handlers, FileNext(h) PROVE Base'
<1>0. HandlersOK
  BY DEF Base, TypeInv
<1>1. UNCHANGED <<ragVars, jobs, worker>> /\ used \subseteq used'
  BY DEF FileNext, UploadStore, DeleteFileBlob, UploadRow, DeleteFileRow, past
<1>2. HandlerMentions' \subseteq HandlerMentions
  BY <1>0, StartMentions, FinishMentions DEF FileNext, UploadStore, DeleteFileBlob, UploadRow, DeleteFileRow
<1>3. Mentions' \subseteq Mentions
  BY <1>1, <1>2 DEF Mentions, LinkMentions, JobMentions, WorkerMentions, ragVars
<1>4. Agree' /\ Known'
  BY <1>1, <1>3, MentionsKeep DEF Base
<1>5. OneLink' /\ InCollection'
  BY <1>1 DEF Base, OneLink, InCollection, ragVars
<1> QED BY <1>4, <1>5, FileType DEF Base

LEMMA CollectionBase == ASSUME Base, NEW h \in Handlers, CollectionNext(h) PROVE Base'
<1>0. HandlersOK /\ RagOK /\ WorkerOK
  BY DEF Base, TypeInv
<1>1. UNCHANGED <<jobs, used>>
  BY DEF CollectionNext, ClearDrop, DestroyDrop, ClearCreate, ClearRows, DestroyRow, past
<1>2. vectors' \subseteq vectors /\ worker'.job = worker.job
  <2>1. ASSUME NEW c, Drop({c}) PROVE vectors' \subseteq vectors /\ worker'.job = worker.job
    BY <1>0, <2>1, DropOK DEF Drop
  <2>2. CASE \E c \in Collections : ClearDrop(h, c) \/ DestroyDrop(h, c)
    BY <2>1, <2>2 DEF ClearDrop, DestroyDrop
  <2>3. CASE ClearCreate(h) \/ ClearRows(h) \/ DestroyRow(h)
    BY <2>3 DEF ClearCreate, ClearRows, DestroyRow
  <2> QED BY <2>2, <2>3 DEF CollectionNext
<1>3. HandlerMentions' \subseteq HandlerMentions
  <2>1. CASE \E c \in Collections : ClearDrop(h, c) \/ DestroyDrop(h, c)
    BY <1>0, <2>1, StartMentions DEF ClearDrop, DestroyDrop
  <2>2. CASE ClearCreate(h) \/ ClearRows(h) \/ DestroyRow(h)
    BY <1>0, <2>2, FinishMentions, GoMentions DEF ClearCreate, ClearRows, DestroyRow
  <2> QED BY <2>1, <2>2 DEF CollectionNext
<1>4. LinksGo /\ InCollection'
  <2>1. CASE DestroyRow(h)
    BY <1>0, <2>1 DEF Base, DestroyRow, Unlinked, LinksGo, InCollection, RagOK
  <2>2. CASE ClearRows(h)
    BY <1>0, <2>2 DEF Base, ClearRows, Unlinked, LinksGo, InCollection, RagOK
  <2>3. CASE UNCHANGED <<links, collections>>
    BY <1>0, <2>3 DEF Base, LinksGo, InCollection
  <2> QED BY <2>1, <2>2, <2>3 DEF CollectionNext, ClearDrop, DestroyDrop, ClearCreate
<1>5. Mentions' \subseteq Mentions
  BY <1>1, <1>2, <1>3, <1>4, LinksGoKeep DEF Mentions, JobMentions, WorkerMentions
<1>6. Agree' /\ Known'
  BY <1>1, <1>5, MentionsKeep DEF Base
<1> QED BY <1>4, <1>6, LinksGoKeep, CollectionType DEF Base

\* A row saved by a request that puts a file into a collection.
LEMMA SaveBase ==
    ASSUME Base, NEW h \in Handlers, handler[h].at \in PostSteps, CanSave(h),
           NEW status \in {"pending", "ingesting", "completed", "error"},
           links' = SavedLink(h, status), UNCHANGED collections
    PROVE  /\ LinkMentions' \subseteq LinkMentions \cup {Triple(handler[h])}
           /\ OneLink' /\ InCollection'
<1>1. HandlersOK /\ RagOK
  BY DEF Base, TypeInv
<1> DEFINE l == handler[h].link
<1>2. /\ l \in Links /\ links'[l] # NoLink
      /\ links'[l].coll = handler[h].coll /\ links'[l].file = handler[h].file
      /\ \A k \in Links : k # l => links'[k] = links[k]
  <2>1. \A k \in Links : k # l => links'[k] = links[k]
    BY <1>1 DEF SavedLink, RagOK
  <2>2. l \in Links /\ links'[l] \in Link
        /\ links'[l] = [coll |-> handler[h].coll, file |-> handler[h].file, status |-> status]
    BY <1>1, SavedOK
  <2> HIDE DEF l
  <2>3. links'[l] # NoLink
    BY <2>2, Nothing
  <2>4. links'[l].coll = handler[h].coll /\ links'[l].file = handler[h].file
    BY <2>2
  <2> QED BY <2>1, <2>2, <2>3, <2>4
<1>3. LinkMentions' \subseteq LinkMentions \cup {Triple(handler[h])}
  BY <1>2 DEF LinkMentions, Triple
<1>4. handler[h].coll \in collections
      /\ \A k \in Links : links[k].coll = handler[h].coll /\ links[k].file = handler[h].file => k = l
  BY DEF CanSave, LinksOf
<1> HIDE DEF l
<1>5. OneLink' /\ InCollection'
  BY <1>2, <1>4 DEF Base, OneLink, InCollection
<1> QED BY <1>3, <1>5

LEMMA LinkBase == ASSUME Base, NEW h \in Handlers, LinkNext(h) PROVE Base'
<1>0. HandlersOK /\ RagOK /\ QueueOK /\ TypeInv'
  BY LinkType DEF Base, TypeInv
<1>1. UNCHANGED <<collections, worker>> /\ vectors' \subseteq vectors /\ used \subseteq used'
  BY DEF LinkNext, PostCreate, PostAgain, UnlinkLoad, PostSave, PostPublish, UnlinkEmpty, UnlinkRow,
         ragVars, past, Without
<1>2. ASSUME NEW c \in Collections, NEW f \in Files, NEW l \in Links, PostCreate(h, c, f, l) PROVE Base'
  <2> DEFINE x == [link |-> l, coll |-> c, file |-> f]
  <2>1. l # None /\ HandlerMentions' \subseteq HandlerMentions \cup {x}
    BY <1>0, <1>2, StartMentions, RetrievalAssumption DEF PostCreate
  <2>2. /\ links'[l] = [coll |-> c, file |-> f, status |-> "pending"]
        /\ \A k \in Links : k # l => links'[k] = links[k]
        /\ UNCHANGED jobs
    BY <1>0, <1>2 DEF PostCreate, RagOK
  <2>3. LinkMentions' \subseteq LinkMentions \cup {x}
    BY <2>2 DEF LinkMentions
  <2>4. Mentions' \subseteq Mentions \cup {x}
    BY <1>1, <2>1, <2>2, <2>3 DEF Mentions, JobMentions, WorkerMentions
  <2>5. x.link \notin used /\ used \cup {x.link} \subseteq used'
    BY <1>2 DEF PostCreate
  <2>6. Agree' /\ Known'
    <3> HIDE DEF x
    <3> QED BY <2>4, <2>5, MentionsGrow DEF Base
  <2>7. c \in collections /\ \A k \in Links : links[k].coll = c => links[k].file # f
    BY <1>2 DEF PostCreate, LinksOf
  <2>8. OneLink' /\ InCollection'
    BY <1>1, <2>2, <2>7 DEF Base, OneLink, InCollection
  <2> QED BY <1>0, <2>6, <2>8 DEF Base
<1>3. ASSUME NEW l \in Links, PostAgain(h, l) \/ UnlinkLoad(h, l) PROVE Base'
  <2>1. UNCHANGED <<links, jobs, vectors>> /\ links[l] # NoLink
    BY <1>3 DEF PostAgain, UnlinkLoad, ragVars, LinkExists
  <2>2. [link |-> l, coll |-> links[l].coll, file |-> links[l].file] \in LinkMentions
    BY <2>1 DEF LinkMentions
  <2>3. HandlerMentions' \subseteq HandlerMentions \cup LinkMentions
    BY <1>0, <1>3, <2>2, StartMentions DEF PostAgain, UnlinkLoad
  <2>4. Mentions' \subseteq Mentions
    BY <1>1, <2>1, <2>3 DEF Mentions, LinkMentions, JobMentions, WorkerMentions
  <2>5. OneLink' /\ InCollection'
    BY <1>1, <2>1 DEF Base, OneLink, InCollection
  <2> QED BY <1>0, <1>1, <2>4, <2>5, MentionsKeep DEF Base
<1>4. CASE PostSave(h) \/ PostPublish(h)
  <2>1. handler[h].at \in PostSteps /\ handler[h].link # None
    BY <1>0, <1>4, RetrievalAssumption
    DEF PostSave, PostPublish, PostSteps, HandlersOK, WellFormed, LinkSteps
  <2>2. Triple(handler[h]) \in HandlerMentions
    BY <2>1 DEF HandlerMentions
  <2>3. HandlerMentions' \subseteq HandlerMentions
    BY <1>0, <1>4, FinishMentions, GoMentions DEF PostSave, PostPublish
  <2>4. LinkMentions' \subseteq LinkMentions \cup HandlerMentions /\ OneLink' /\ InCollection'
    <3>1. CASE UNCHANGED links
      BY <1>1, <3>1 DEF Base, LinkMentions, OneLink, InCollection
    <3>2. CASE CanSave(h) /\ (links' = SavedLink(h, "pending") \/ links' = SavedLink(h, "error"))
      BY <1>1, <2>1, <2>2, <3>2, SaveBase
    <3> QED BY <1>4, <3>1, <3>2 DEF PostSave, PostPublish
  <2>5. JobMentions' \subseteq JobMentions \cup HandlerMentions
    <3> DEFINE j == [link |-> handler[h].link, coll |-> handler[h].coll, file |-> handler[h].file]
    <3>1. j \in HandlerMentions
      BY <2>2 DEF Triple
    <3>2. UNCHANGED jobs \/ jobs' = Append(jobs, j)
      BY <1>4 DEF PostSave, PostPublish
    <3> HIDE DEF j
    <3>3. CASE jobs' = Append(jobs, j)
      <4>1. Len(jobs') = Len(jobs) + 1 /\ \A i \in 1..Len(jobs') : jobs'[i] = IF i = Len(jobs) + 1 THEN j ELSE jobs[i]
        BY <1>0, <3>3 DEF QueueOK
      <4>2. Len(jobs) \in Nat
        BY <1>0 DEF QueueOK
      <4> QED BY <3>1, <4>1, <4>2 DEF JobMentions
    <3> QED BY <3>2, <3>3 DEF JobMentions
  <2>6. Mentions' \subseteq Mentions
    BY <1>1, <2>3, <2>4, <2>5 DEF Mentions, WorkerMentions
  <2> QED BY <1>0, <1>1, <2>4, <2>6, MentionsKeep DEF Base
<1>5. CASE UnlinkEmpty(h) \/ UnlinkRow(h)
  <2>1. HandlerMentions' \subseteq HandlerMentions
    BY <1>0, <1>5, FinishMentions, GoMentions DEF UnlinkEmpty, UnlinkRow
  <2>2. LinksGo /\ UNCHANGED jobs
    BY <1>0, <1>5 DEF UnlinkEmpty, UnlinkRow, LinksGo, RagOK
  <2>3. LinkMentions' \subseteq LinkMentions /\ OneLink' /\ InCollection'
    BY <1>1, <2>2, LinksGoKeep DEF Base
  <2>4. Mentions' \subseteq Mentions
    BY <1>1, <2>1, <2>2, <2>3 DEF Mentions, JobMentions, WorkerMentions
  <2> QED BY <1>0, <1>1, <2>3, <2>4, MentionsKeep DEF Base
<1> QED BY <1>2, <1>3, <1>4, <1>5 DEF LinkNext

LEMMA WorkerBase == ASSUME Base, WorkerNext PROVE Base'
<1>0. RagOK /\ QueueOK /\ WorkerOK /\ TypeInv'
  BY WorkerType DEF Base, TypeInv
<1>1. UNCHANGED <<collections, handler, used>>
  BY DEF WorkerNext, Receive, GetFileContent, AddChunks, MarkCompleted, MarkError, CallFails, WorkerCrash,
         ragVars, past
<1>2. worker.step # "idle" => worker.job \in Job /\ WorkerMentions = {worker.job}
  BY <1>0, Nothing DEF WorkerOK, WorkerMentions
<1>3. LinksGo
  <2>1. ASSUME NEW l \in Links, NEW status \in {"pending", "ingesting", "completed", "error"},
               UpdateFileLinkStatus(l, status)
        PROVE  LinksGo
    BY <1>0, <2>1, StatusOK DEF LinksGo, LinkExists
  <2>2. CASE Receive
    <3>1. Head(jobs) \in Job
      BY <1>0, <2>2 DEF Receive, QueueOK
    <3>2. Head(jobs).link \in Links
      BY <3>1 DEF Job
    <3> QED BY <2>1, <2>2, <3>2 DEF Receive
  <2>3. CASE MarkCompleted \/ MarkError
    <3>1. worker.job.link \in Links
      BY <1>2, <2>3 DEF MarkCompleted, MarkError, At, Job
    <3>2. \E status \in {"completed", "error"} : UpdateFileLinkStatus(worker.job.link, status)
      BY <2>3 DEF MarkCompleted, MarkError, Failed, UpdateFileLinkStatus
    <3> QED BY <2>1, <3>1, <3>2
  <2>4. CASE UNCHANGED links
    BY <2>4 DEF LinksGo
  <2> QED BY <2>2, <2>3, <2>4 DEF WorkerNext, GetFileContent, AddChunks, CallFails, WorkerCrash, ragVars
<1>4. WorkerMentions' \cup JobMentions' \cup vectors' \subseteq WorkerMentions \cup JobMentions \cup vectors
  <2>1. CASE Receive
    <3>1. worker'.job = jobs[1] /\ jobs' = Tail(jobs) /\ UNCHANGED vectors /\ Len(jobs) \in Nat \ {0}
      BY <1>0, <2>1 DEF Receive, QueueOK
    <3>2. Len(jobs') = Len(jobs) - 1 /\ \A i \in 1..Len(jobs') : jobs'[i] = jobs[i + 1]
      BY <1>0, <3>1 DEF QueueOK
    <3>3. jobs[1] \in JobMentions
      BY <3>1 DEF JobMentions
    <3>4. JobMentions' \subseteq JobMentions
      <4> SUFFICES ASSUME NEW i \in 1..Len(jobs') PROVE jobs'[i] \in JobMentions
        BY DEF JobMentions
      <4>1. i + 1 \in 1..Len(jobs) /\ jobs'[i] = jobs[i + 1]
        BY <3>1, <3>2
      <4> QED BY <4>1 DEF JobMentions
    <3> QED BY <3>1, <3>3, <3>4 DEF WorkerMentions
  <2>2. CASE WorkerCrash
    <3>1. worker'.job = NoJob /\ jobs' = <<worker.job>> \o jobs /\ UNCHANGED vectors /\ worker.job \in Job
          /\ worker.job \in WorkerMentions
      BY <1>2, <2>2 DEF WorkerCrash, At, ragVars
    <3>2. Len(jobs') = Len(jobs) + 1 /\ Len(jobs) \in Nat
          /\ \A i \in 1..Len(jobs') : jobs'[i] = IF i = 1 THEN worker.job ELSE jobs[i - 1]
      BY <1>0, <3>1 DEF QueueOK
    <3>3. JobMentions' \subseteq JobMentions \cup {worker.job}
      <4> SUFFICES ASSUME NEW i \in 1..Len(jobs') PROVE jobs'[i] \in JobMentions \cup {worker.job}
        BY DEF JobMentions
      <4>1. jobs'[i] = worker.job \/ (i - 1 \in 1..Len(jobs) /\ jobs'[i] = jobs[i - 1])
        BY <3>2
      <4> QED BY <4>1 DEF JobMentions
    <3> QED BY <3>1, <3>3 DEF WorkerMentions
  <2>3. CASE UNCHANGED jobs /\ worker'.job \in {worker.job, NoJob} /\ vectors' \subseteq vectors \cup WorkerMentions
    BY <2>3 DEF WorkerMentions, JobMentions
  <2>4. ASSUME NEW step, Goes(step) PROVE worker'.job = worker.job
    BY <1>0, <2>4 DEF Goes, WorkerOK
  <2>5. CASE AddChunks
    BY <1>2, <2>3, <2>4, <2>5 DEF AddChunks, At
  <2>6. CASE GetFileContent \/ CallFails
    BY <2>3, <2>4, <2>6 DEF GetFileContent, CallFails, ragVars
  <2>7. CASE MarkCompleted \/ MarkError
    BY <2>3, <2>7 DEF MarkCompleted, MarkError
  <2> QED BY <2>1, <2>2, <2>5, <2>6, <2>7 DEF WorkerNext
<1>5. Mentions' \subseteq Mentions
  <2>1. HandlerMentions' = HandlerMentions
    BY <1>1 DEF HandlerMentions
  <2>2. LinkMentions' \subseteq LinkMentions
    BY <1>3, LinksGoKeep
  <2> QED BY <1>4, <2>1, <2>2 DEF Mentions
<1> QED BY <1>0, <1>1, <1>3, <1>5, MentionsKeep, LinksGoKeep DEF Base

LEMMA OtherBase ==
    ASSUME Base, Sweeping \/ (\E c \in Collections : CreateCollection(c)) \/ \E h \in Handlers : Abandon(h)
    PROVE  Base'
<1>0. HandlersOK /\ RagOK /\ WorkerOK /\ TypeInv'
  BY OtherType DEF Base, TypeInv
<1>1. UNCHANGED jobs /\ used \subseteq used'
  BY DEF Sweeping, SweepFiles, SweepStores, SweepCollectionRows, CreateCollection, Abandon, taskVars
<1>2. worker'.job = worker.job /\ vectors' \subseteq vectors
  <2>1. ASSUME NEW cs, Drop(cs) PROVE vectors' \subseteq vectors /\ worker'.job = worker.job
    BY <1>0, <2>1, DropOK DEF Drop
  <2> QED BY <2>1 DEF Sweeping, SweepFiles, SweepStores, SweepCollectionRows, CreateCollection, Abandon,
                      taskVars, ragVars
<1>3. HandlerMentions' \subseteq HandlerMentions
  <2>1. CASE \E h \in Handlers : Abandon(h)
    BY <1>0, <2>1, FinishMentions DEF Abandon
  <2>2. CASE UNCHANGED handler
    BY <2>2 DEF HandlerMentions
  <2> QED BY <2>1, <2>2 DEF Sweeping, SweepFiles, SweepStores, SweepCollectionRows, CreateCollection, taskVars
<1>4. LinksGo /\ InCollection'
  <2>1. CASE SweepCollectionRows
    BY <2>1 DEF Base, SweepCollectionRows, LinksGo, InCollection
  <2>2. CASE UNCHANGED links /\ collections \subseteq collections'
    BY <2>2 DEF Base, LinksGo, InCollection
  <2> QED BY <2>1, <2>2 DEF Sweeping, SweepFiles, SweepStores, CreateCollection, Abandon, ragVars
<1>5. Mentions' \subseteq Mentions
  BY <1>1, <1>2, <1>3, <1>4, LinksGoKeep DEF Mentions, JobMentions, WorkerMentions
<1> QED BY <1>0, <1>1, <1>4, <1>5, MentionsKeep, LinksGoKeep DEF Base

LEMMA StillBase ==
    ASSUME UNCHANGED retrievalVars, Base PROVE Base'
  BY TypeStep DEF retrievalVars, fileVars, ragVars, taskVars, past, Base, Agree, Known, OneLink, InCollection,
         Mentions, HandlerMentions, LinkMentions, JobMentions, WorkerMentions

LEMMA BaseStep == ASSUME Base, [RetrievalNext]_retrievalVars PROVE Base'
<1>1. CASE RetrievalNext
  BY <1>1, FileBase, CollectionBase, LinkBase, WorkerBase, OtherBase DEF RetrievalNext, Sweeping
<1> QED BY <1>1, StillBase

-----------------------------------------------------------------------------
(* What the requests are about.                                            *)

Existing == {l \in Links : links[l] # NoLink}

PostingOf(r) == IF r.at \in PostSteps THEN {r.link} ELSE {}
UnlinkingOf(r) == IF r.at = "unlink emptied" THEN {r.link} ELSE {}
ClearingOf(r) == IF r.at \in RemovalSteps THEN {r.coll} ELSE {}

\* Links about to be ingested, links about to go, and collections that are emptied.
Posting == UNION {PostingOf(handler[h]) : h \in Handlers}
Unlinking == UNION {UnlinkingOf(handler[h]) : h \in Handlers}
Clearing == UNION {ClearingOf(handler[h]) : h \in Handlers}
Queued == {x.link : x \in JobMentions}
Elsewhere == Queued \cup Posting

\* A removal of a link, of a collection's links, or of all.
RemovalParts ==
    Unlinking \cup {l \in Links : links[l].coll \in Clearing}
        \cup (IF cleanup["collections"] = "emptied" THEN Existing ELSE {})

LEMMA RemovalNow == HandlersOK => BeingRemoved = RemovalParts
<1> SUFFICES ASSUME HandlersOK PROVE BeingRemoved = RemovalParts
  OBVIOUS
<1>1. Unlinking \subseteq Links
  BY RetrievalAssumption DEF HandlersOK, WellFormed, LinkSteps, Unlinking, UnlinkingOf
<1>2. \A l \in Links : l \in Unlinking <=> \E h \in Handlers : handler[h].at = "unlink emptied" /\ handler[h].link = l
  BY DEF Unlinking, UnlinkingOf
<1>3. \A l \in Links : links[l].coll \in Clearing <=>
                         \E h \in Handlers : handler[h].at \in RemovalSteps /\ handler[h].coll = links[l].coll
  BY DEF Clearing, ClearingOf
<1>4. \A l \in Links : l \in BeingRemoved <=>
            l \in Unlinking \/ links[l].coll \in Clearing \/ (cleanup["collections"] = "emptied" /\ l \in Existing)
  BY <1>2, <1>3 DEF BeingRemoved, RemovalSteps, Existing, LinkExists
<1>5. \A l \in Links : l \in RemovalParts <=>
            l \in Unlinking \/ links[l].coll \in Clearing \/ (cleanup["collections"] = "emptied" /\ l \in Existing)
  BY DEF RemovalParts
<1>6. BeingRemoved \subseteq Links /\ RemovalParts \subseteq Links
  BY <1>1 DEF BeingRemoved, RemovalParts, Existing
<1> QED BY <1>4, <1>5, <1>6

LEMMA Removal == HandlersOK /\ HandlersOK' => BeingRemoved = RemovalParts /\ (BeingRemoved = RemovalParts)'
  BY RemovalNow, PTL

\* What one request starts or stops doing.
LEMMA RequestChange ==
    ASSUME HandlersOK, NEW h \in Handlers, NEW r, handler' = [handler EXCEPT ![h] = r]
    PROVE  /\ Posting' \subseteq Posting \cup PostingOf(r)
           /\ Posting \subseteq Posting' \cup PostingOf(handler[h]) /\ PostingOf(r) \subseteq Posting'
           /\ Unlinking' \subseteq Unlinking \cup UnlinkingOf(r)
           /\ Unlinking \subseteq Unlinking' \cup UnlinkingOf(handler[h])
           /\ Clearing' \subseteq Clearing \cup ClearingOf(r)
           /\ Clearing \subseteq Clearing' \cup ClearingOf(handler[h])
           /\ UnlinkingOf(r) \subseteq Unlinking' /\ ClearingOf(r) \subseteq Clearing'
           /\ PostingOf(handler[h]) \subseteq Posting /\ UnlinkingOf(handler[h]) \subseteq Unlinking
           /\ ClearingOf(handler[h]) \subseteq Clearing
<1>1. handler'[h] = r /\ \A k \in Handlers : k # h => handler'[k] = handler[k]
  BY DEF HandlersOK
<1>2. /\ Posting' \subseteq Posting \cup PostingOf(r)
      /\ Posting \subseteq Posting' \cup PostingOf(handler[h]) /\ PostingOf(r) \subseteq Posting'
      /\ PostingOf(handler[h]) \subseteq Posting
  BY <1>1 DEF Posting, PostingOf
<1>3. /\ Unlinking' \subseteq Unlinking \cup UnlinkingOf(r)
      /\ Unlinking \subseteq Unlinking' \cup UnlinkingOf(handler[h]) /\ UnlinkingOf(r) \subseteq Unlinking'
      /\ UnlinkingOf(handler[h]) \subseteq Unlinking
  BY <1>1 DEF Unlinking, UnlinkingOf
<1>4. /\ Clearing' \subseteq Clearing \cup ClearingOf(r)
      /\ Clearing \subseteq Clearing' \cup ClearingOf(handler[h]) /\ ClearingOf(r) \subseteq Clearing'
      /\ ClearingOf(handler[h]) \subseteq Clearing
  BY <1>1 DEF Clearing, ClearingOf
<1> QED BY <1>2, <1>3, <1>4

LEMMA OfIdle == PostingOf(Idle) = {} /\ UnlinkingOf(Idle) = {} /\ ClearingOf(Idle) = {}
  BY Nothing DEF PostingOf, UnlinkingOf, ClearingOf, PostSteps, RemovalSteps

\* A request that starts.
LEMMA StartRequest ==
    ASSUME HandlersOK, NEW h \in Handlers, NEW at, NEW f, NEW c, NEW l, Start(h, at, f, c, l)
    PROVE  /\ Posting' = Posting \cup (IF at \in PostSteps THEN {l} ELSE {})
           /\ Unlinking' = Unlinking \cup (IF at = "unlink emptied" THEN {l} ELSE {})
           /\ Clearing' = Clearing \cup (IF at \in RemovalSteps THEN {c} ELSE {})
<1> DEFINE r == [at |-> at, file |-> f, coll |-> c, link |-> l]
<1>1. handler[h] = Idle /\ handler' = [handler EXCEPT ![h] = r]
  BY DEF Start
<1>2. /\ PostingOf(r) = IF at \in PostSteps THEN {l} ELSE {}
      /\ UnlinkingOf(r) = IF at = "unlink emptied" THEN {l} ELSE {}
      /\ ClearingOf(r) = IF at \in RemovalSteps THEN {c} ELSE {}
  BY DEF PostingOf, UnlinkingOf, ClearingOf
<1> HIDE DEF r
<1> QED BY <1>1, <1>2, OfIdle, RequestChange

\* A request that ends: nothing is about what it was about, unless another request is.
LEMMA FinishRequest ==
    ASSUME HandlersOK, NEW h \in Handlers, Finish(h)
    PROVE  /\ Posting' \subseteq Posting /\ Posting \subseteq Posting' \cup PostingOf(handler[h])
           /\ Unlinking' \subseteq Unlinking /\ Unlinking \subseteq Unlinking' \cup UnlinkingOf(handler[h])
           /\ Clearing' \subseteq Clearing /\ Clearing \subseteq Clearing' \cup ClearingOf(handler[h])
  BY OfIdle, RequestChange DEF Finish

\* A request that goes on.
LEMMA GoRequest ==
    ASSUME HandlersOK, NEW h \in Handlers, NEW at, Go(h, at)
    PROVE  /\ handler[h].at \in PostSteps /\ at \in PostSteps =>
                  Posting' = Posting /\ Unlinking' = Unlinking /\ Clearing' = Clearing
           /\ handler[h].at \in RemovalSteps /\ at \in RemovalSteps =>
                  Posting' = Posting /\ Unlinking' = Unlinking /\ Clearing' = Clearing
           /\ handler[h].at = "unlink loaded" /\ at = "unlink emptied" =>
                  Posting' = Posting /\ Unlinking' = Unlinking \cup {handler[h].link} /\ Clearing' = Clearing
<1> DEFINE r == [handler[h] EXCEPT !.at = at]
<1>1. handler' = [handler EXCEPT ![h] = r] /\ handler[h] \in HandlerState
  BY DEF Go, HandlersOK
<1>2. r.at = at /\ r.link = handler[h].link /\ r.coll = handler[h].coll
  BY <1>1 DEF HandlerState
<1> HIDE DEF r
<1>3. CASE handler[h].at \in PostSteps /\ at \in PostSteps
  <2>1. /\ PostingOf(r) = PostingOf(handler[h]) /\ UnlinkingOf(r) = {} /\ UnlinkingOf(handler[h]) = {}
        /\ ClearingOf(r) = {} /\ ClearingOf(handler[h]) = {}
    BY <1>2, <1>3 DEF PostingOf, UnlinkingOf, ClearingOf, PostSteps, RemovalSteps
  <2> QED BY <1>1, <1>3, <2>1, RequestChange DEF PostSteps, RemovalSteps
<1>4. CASE handler[h].at \in RemovalSteps /\ at \in RemovalSteps
  <2>1. /\ ClearingOf(r) = ClearingOf(handler[h]) /\ UnlinkingOf(r) = {} /\ UnlinkingOf(handler[h]) = {}
        /\ PostingOf(r) = {} /\ PostingOf(handler[h]) = {}
    BY <1>2, <1>4 DEF PostingOf, UnlinkingOf, ClearingOf, PostSteps, RemovalSteps
  <2> QED BY <1>1, <1>4, <2>1, RequestChange DEF PostSteps, RemovalSteps
<1>5. CASE handler[h].at = "unlink loaded" /\ at = "unlink emptied"
  <2>1. /\ UnlinkingOf(r) = {handler[h].link} /\ UnlinkingOf(handler[h]) = {}
        /\ PostingOf(r) = {} /\ PostingOf(handler[h]) = {} /\ ClearingOf(r) = {} /\ ClearingOf(handler[h]) = {}
    BY <1>2, <1>5 DEF PostingOf, UnlinkingOf, ClearingOf, PostSteps, RemovalSteps
  <2> QED BY <1>1, <1>5, <2>1, RequestChange DEF PostSteps, RemovalSteps
<1> QED BY <1>3, <1>4, <1>5

-----------------------------------------------------------------------------
(* Facts that hold of every reachable state and of every step.             *)

\* Chunks are those of the link they name.
LEMMA VectorOfLink ==
    ASSUME Base, NEW v \in vectors, v.link \in Existing
    PROVE  v.coll = links[v.link].coll /\ v.file = links[v.link].file
<1> DEFINE x == [link |-> v.link, coll |-> links[v.link].coll, file |-> links[v.link].file]
<1>1. x \in Mentions /\ v \in Mentions /\ x.link = v.link
  BY DEF Existing, Mentions, LinkMentions
<1>2. x = v
  <2> HIDE DEF x
  <2> QED BY <1>1 DEF Base, Agree
<1> QED BY <1>2

LEMMA JobOfLink ==
    ASSUME Base, worker.step # "idle", worker.job.link \in Existing
    PROVE  worker.job.file = links[worker.job.link].file
<1> DEFINE l == worker.job.link
           x == [link |-> l, coll |-> links[l].coll, file |-> links[l].file]
<1>1. worker.job \in Mentions
  BY DEF Base, TypeInv, WorkerOK, Mentions, WorkerMentions
<1>2. x \in Mentions /\ x.link = worker.job.link
  BY DEF Existing, Mentions, LinkMentions
<1>3. x = worker.job
  <2> HIDE DEF x
  <2> QED BY <1>1, <1>2 DEF Base, Agree
<1> QED BY <1>3

\* A request that puts a file into a collection means the link that is there.
LEMMA RequestOfLink ==
    ASSUME Base, NEW h \in Handlers, handler[h].at \in LinkSteps
    PROVE  /\ handler[h].link \in Links /\ handler[h].link # None
           /\ handler[h].link \in Existing => links[handler[h].link].coll = handler[h].coll
                                                /\ links[handler[h].link].file = handler[h].file
           /\ \A v \in vectors : v.link = handler[h].link => v.coll = handler[h].coll /\ v.file = handler[h].file
<1>1. handler[h].link \in Links /\ handler[h].link # None
  BY RetrievalAssumption DEF Base, TypeInv, HandlersOK, WellFormed
<1> DEFINE l == handler[h].link
           x == [link |-> l, coll |-> links[l].coll, file |-> links[l].file]
<1>2. Triple(handler[h]) \in Mentions /\ Triple(handler[h]).link = l
  BY <1>1 DEF Mentions, HandlerMentions, Triple
<1>3. l \in Existing => x \in Mentions /\ x.link = l
  BY DEF Existing, Mentions, LinkMentions
<1>4. l \in Existing => x = Triple(handler[h])
  <2> HIDE DEF x, l
  <2> QED BY <1>2, <1>3 DEF Base, Agree
<1>5. \A v \in vectors : v.link = l => v = Triple(handler[h])
  BY <1>2 DEF Base, Agree, Mentions
<1> QED BY <1>1, <1>4, <1>5 DEF Triple

\* Saving fails only when the link has no row.
LEMMA SaveFails ==
    ASSUME Base, NEW h \in Handlers, handler[h].at \in PostSteps, handler[h].link \in Existing
    PROVE  CanSave(h)
<1> DEFINE l == handler[h].link
<1>1. l \in Links /\ links[l] # NoLink /\ links[l].coll = handler[h].coll /\ links[l].file = handler[h].file
  BY RequestOfLink DEF Existing, LinkSteps
<1>2. handler[h].coll \in Collections
  BY DEF Base, TypeInv, HandlersOK, WellFormed, LinkSteps
<1>3. \A k \in LinksOf(handler[h].coll) : links[k] # NoLink
  BY <1>2, Nothing, RetrievalAssumption DEF LinksOf
<1>4. handler[h].coll \in collections
  BY <1>1 DEF Base, InCollection
<1> HIDE DEF l
<1>5. \A k \in LinksOf(handler[h].coll) : links[k].file = handler[h].file => k = l
  BY <1>1, <1>3 DEF Base, OneLink, LinksOf
<1> QED BY <1>4, <1>5 DEF CanSave, l

LEMMA HistoryGrows ==
    ASSUME [RetrievalNext]_retrievalVars
    PROVE  overtaken \subseteq overtaken' /\ wiped \subseteq wiped' /\ halfway \subseteq halfway'
           /\ after \subseteq after'
<1>1. CASE UNCHANGED retrievalVars
  BY <1>1 DEF retrievalVars, past
<1>2. CASE \E h \in Handlers : FileNext(h) \/ CollectionNext(h)
  BY <1>2 DEF FileNext, UploadStore, DeleteFileBlob, UploadRow, DeleteFileRow,
              CollectionNext, ClearDrop, DestroyDrop, ClearCreate, ClearRows, DestroyRow, past
<1>3. CASE \E h \in Handlers : LinkNext(h) \/ Abandon(h)
  BY <1>3 DEF LinkNext, PostCreate, PostAgain, UnlinkLoad, PostSave, PostPublish, UnlinkEmpty, UnlinkRow,
              Abandon, past
<1>4. CASE WorkerNext
  BY <1>4 DEF WorkerNext, Receive, GetFileContent, AddChunks, MarkCompleted, MarkError, CallFails, WorkerCrash,
              past
<1>5. CASE Sweeping \/ \E c \in Collections : CreateCollection(c)
  BY <1>5 DEF Sweeping, SweepFiles, SweepStores, SweepCollectionRows, CreateCollection
<1> QED BY <1>1, <1>2, <1>3, <1>4, <1>5 DEF RetrievalNext, Sweeping
LEMMA QueueChange ==
    /\ UNCHANGED jobs => Queued' = Queued
    /\ \A x \in Job : jobs \in Seq(Job) /\ jobs' = Append(jobs, x) => Queued' = Queued \cup {x.link}
    /\ \A x \in Job : jobs \in Seq(Job) /\ jobs' = <<x>> \o jobs => Queued' = Queued \cup {x.link}
    /\ jobs \in Seq(Job) /\ jobs # <<>> /\ jobs' = Tail(jobs) => Queued \subseteq Queued' \cup {Head(jobs).link}
<1>1. UNCHANGED jobs => Queued' = Queued
  BY DEF Queued, JobMentions
<1>2. ASSUME NEW x \in Job, jobs \in Seq(Job), jobs' = Append(jobs, x) PROVE JobMentions' = JobMentions \cup {x}
  <2>1. /\ Len(jobs) \in Nat /\ Len(jobs') = Len(jobs) + 1
        /\ \A i \in 1..Len(jobs) : jobs'[i] = jobs[i]
        /\ jobs'[Len(jobs) + 1] = x
    BY <1>2
  <2> QED BY <2>1 DEF JobMentions
<1>3. ASSUME NEW x \in Job, jobs \in Seq(Job), jobs' = <<x>> \o jobs PROVE JobMentions' = JobMentions \cup {x}
  <2>1. /\ Len(jobs) \in Nat /\ Len(jobs') = Len(jobs) + 1
        /\ \A i \in 1..Len(jobs') : jobs'[i] = IF i = 1 THEN x ELSE jobs[i - 1]
    BY <1>3
  <2>2. \A i \in 1..Len(jobs) : i + 1 \in 1..Len(jobs') /\ jobs'[i + 1] = jobs[i]
    BY <2>1
  <2>3. 1 \in 1..Len(jobs') /\ jobs'[1] = x /\ \A i \in 1..Len(jobs') : i # 1 => i - 1 \in 1..Len(jobs)
    BY <2>1
  <2>4. JobMentions \cup {x} \subseteq JobMentions'
    BY <2>2, <2>3 DEF JobMentions
  <2>5. JobMentions' \subseteq JobMentions \cup {x}
    BY <2>1, <2>3 DEF JobMentions
  <2> QED BY <2>4, <2>5
<1>4. ASSUME jobs \in Seq(Job), jobs # <<>>, jobs' = Tail(jobs) PROVE JobMentions \subseteq JobMentions' \cup {Head(jobs)}
  <2>1. /\ Len(jobs) \in Nat \ {0} /\ Len(jobs') = Len(jobs) - 1 /\ Head(jobs) = jobs[1]
        /\ \A i \in 1..Len(jobs') : jobs'[i] = jobs[i + 1]
    BY <1>4
  <2>2. \A i \in 1..Len(jobs) : i # 1 => i - 1 \in 1..Len(jobs') /\ jobs'[i - 1] = jobs[i]
    BY <2>1
  <2> QED BY <2>1, <2>2 DEF JobMentions
<1>5. ASSUME NEW x \in Job, JobMentions' = JobMentions \cup {x} PROVE Queued' = Queued \cup {x.link}
  BY <1>5 DEF Queued
<1>6. ASSUME NEW x, JobMentions \subseteq JobMentions' \cup {x} PROVE Queued \subseteq Queued' \cup {x.link}
  BY <1>6 DEF Queued
<1>7. \A x \in Job : jobs \in Seq(Job) /\ jobs' = Append(jobs, x) => Queued' = Queued \cup {x.link}
  BY <1>2, <1>5
<1>8. \A x \in Job : jobs \in Seq(Job) /\ jobs' = <<x>> \o jobs => Queued' = Queued \cup {x.link}
  BY <1>3, <1>5
<1>9. jobs \in Seq(Job) /\ jobs # <<>> /\ jobs' = Tail(jobs) => Queued \subseteq Queued' \cup {Head(jobs).link}
  BY <1>4, <1>6
<1> QED BY <1>1, <1>7, <1>8, <1>9

LEMMA RowIsThere == ASSUME Base, NEW l \in Links, links[l].status # "absent" PROVE l \in Existing
  BY Nothing DEF Existing

-----------------------------------------------------------------------------
(* Ingestions that are announced are in hand.                              *)

Pending == {l \in Links : links[l].status \in {"pending", "ingesting"}}
Covered == Queued \cup Posting \cup {worker.job.link} \cup halfway

HandInv == Pending \subseteq Covered

LEMMA PendingExists == ASSUME Base PROVE Pending \subseteq Existing
  BY RowIsThere DEF Pending

LEMMA HandEnough == ASSUME Base, HandInv PROVE IngestionInHand
<1> SUFFICES ASSUME NEW l \in Links, links[l].status \in {"pending", "ingesting"}, l \notin halfway
    PROVE  InHand(l)
  BY DEF IngestionInHand
<1>1. l \in Queued \cup Posting \cup {worker.job.link}
  BY DEF HandInv, Pending, Covered
<1>2. CASE l \in Queued
  BY <1>2 DEF Queued, JobMentions, InHand
<1>3. CASE l \in Posting
  BY <1>3 DEF Posting, PostingOf, PostSteps, InHand
<1> QED BY <1>1, <1>2, <1>3 DEF InHand

\* Nothing is announced, and nothing that covers a link is lost.
LEMMA HandKept ==
    ASSUME HandInv, Pending' \subseteq Pending, Covered \subseteq Covered'
    PROVE  HandInv'
  BY DEF HandInv

LEMMA FileHand == ASSUME Base, HandInv, NEW h \in Handlers, FileNext(h) PROVE HandInv'
<1>0. HandlersOK
  BY DEF Base, TypeInv
<1>1. UNCHANGED <<links, jobs, worker, halfway>>
  BY DEF FileNext, UploadStore, DeleteFileBlob, UploadRow, DeleteFileRow, past, ragVars
<1>2. Posting \subseteq Posting'
  <2>1. CASE \E f \in Files : UploadStore(h, f) \/ DeleteFileBlob(h, f)
    BY <1>0, <2>1, StartRequest DEF UploadStore, DeleteFileBlob
  <2>2. CASE UploadRow(h) \/ DeleteFileRow(h)
    <3>1. PostingOf(handler[h]) = {}
      BY <2>2 DEF UploadRow, DeleteFileRow, PostingOf, PostSteps
    <3> QED BY <1>0, <2>2, <3>1, FinishRequest DEF UploadRow, DeleteFileRow
  <2> QED BY <2>1, <2>2 DEF FileNext
<1>3. Pending' = Pending /\ Queued' = Queued
  BY <1>1, QueueChange DEF Pending
<1> QED BY <1>1, <1>2, <1>3, HandKept DEF Covered

LEMMA CollectionHand == ASSUME Base, HandInv, NEW h \in Handlers, CollectionNext(h) PROVE HandInv'
<1>0. HandlersOK /\ RagOK /\ WorkerOK
  BY DEF Base, TypeInv
<1>1. UNCHANGED jobs /\ halfway \subseteq halfway'
  BY DEF CollectionNext, ClearDrop, DestroyDrop, ClearCreate, ClearRows, DestroyRow, past
<1>2. worker'.job = worker.job
  <2>1. CASE \E c \in Collections : ClearDrop(h, c) \/ DestroyDrop(h, c)
    BY <1>0, <2>1, DropOK DEF ClearDrop, DestroyDrop
  <2>2. CASE ClearCreate(h) \/ ClearRows(h) \/ DestroyRow(h)
    BY <2>2 DEF ClearCreate, ClearRows, DestroyRow
  <2> QED BY <2>1, <2>2 DEF CollectionNext
<1>3. Posting \subseteq Posting'
  <2>1. CASE \E c \in Collections : ClearDrop(h, c) \/ DestroyDrop(h, c)
    BY <1>0, <2>1, StartRequest DEF ClearDrop, DestroyDrop
  <2>2. CASE ClearCreate(h) \/ ClearRows(h) \/ DestroyRow(h)
    <3>1. PostingOf(handler[h]) = {}
      BY <2>2 DEF ClearCreate, ClearRows, DestroyRow, PostingOf, PostSteps
    <3>2. Finish(h) \/ (Go(h, "clear emptied") /\ handler[h].at = "clear dropped")
      BY <2>2 DEF ClearCreate, ClearRows, DestroyRow
    <3> QED BY <1>0, <3>1, <3>2, FinishRequest, GoRequest DEF RemovalSteps
  <2> QED BY <2>1, <2>2 DEF CollectionNext
<1>4. \A l \in Links : links'[l] = links[l] \/ links'[l] = NoLink
  BY <1>0 DEF CollectionNext, ClearDrop, DestroyDrop, ClearCreate, ClearRows, DestroyRow, Unlinked, RagOK
<1>5. Pending' \subseteq Pending
  BY <1>4, Nothing DEF Pending
<1>6. Queued' = Queued
  BY <1>1, QueueChange
<1> QED BY <1>1, <1>2, <1>3, <1>5, <1>6, HandKept DEF Covered

LEMMA LinkHand == ASSUME Base, HandInv, NEW h \in Handlers, LinkNext(h) PROVE HandInv'
<1>0. HandlersOK /\ RagOK /\ QueueOK
  BY DEF Base, TypeInv
<1>1. UNCHANGED worker /\ halfway \subseteq halfway'
  BY DEF LinkNext, PostCreate, PostAgain, UnlinkLoad, PostSave, PostPublish, UnlinkEmpty, UnlinkRow, past
<1>2. ASSUME NEW c \in Collections, NEW f \in Files, NEW l \in Links, PostCreate(h, c, f, l) PROVE HandInv'
  <2>1. Posting' = Posting \cup {l} /\ Queued' = Queued
    BY <1>0, <1>2, StartRequest, QueueChange DEF PostCreate, PostSteps
  <2>2. Pending' \subseteq Pending \cup {l}
    BY <1>0, <1>2 DEF PostCreate, Pending, RagOK
  <2> QED BY <1>1, <2>1, <2>2 DEF HandInv, Covered
<1>3. ASSUME NEW l \in Links, PostAgain(h, l) \/ UnlinkLoad(h, l) PROVE HandInv'
  <2>1. Posting \subseteq Posting' /\ Queued' = Queued /\ UNCHANGED links
    BY <1>0, <1>3, StartRequest, QueueChange DEF PostAgain, UnlinkLoad, ragVars
  <2> QED BY <1>1, <2>1, HandKept DEF Covered, Pending
<1>4. CASE PostSave(h)
  <2>1. handler[h].at \in PostSteps /\ Queued' = Queued /\ PostingOf(handler[h]) = {handler[h].link}
    BY <1>4, QueueChange DEF PostSave, PostSteps, PostingOf
  <2>2. PostingOf(handler[h]) \subseteq Posting
    BY DEF Posting
  <2>3. CASE CanSave(h) /\ links' = SavedLink(h, "pending") /\ Go(h, "post saved")
    <3>1. Posting' = Posting
      BY <1>0, <2>1, <2>3, GoRequest DEF PostSteps
    <3>2. Pending' \subseteq Pending \cup {handler[h].link}
      BY <1>0, <2>3 DEF Pending, SavedLink, RagOK
    <3> QED BY <1>1, <2>1, <2>2, <3>1, <3>2 DEF HandInv, Covered
  <2>4. CASE ~CanSave(h) /\ Finish(h) /\ UNCHANGED links
    <3>1. Posting \subseteq Posting' \cup {handler[h].link}
      BY <1>0, <2>1, <2>4, FinishRequest
    <3>2. handler[h].link \notin Pending /\ Pending' = Pending
      BY <2>1, <2>4, SaveFails, PendingExists DEF Pending
    <3> QED BY <1>1, <2>1, <3>1, <3>2 DEF HandInv, Covered
  <2> QED BY <1>4, <2>3, <2>4 DEF PostSave
<1>5. CASE PostPublish(h)
  <2>1. handler[h].at \in PostSteps /\ PostingOf(handler[h]) = {handler[h].link}
    BY <1>5 DEF PostPublish, PostSteps, PostingOf
  <2>2. Posting \subseteq Posting' \cup {handler[h].link}
    BY <1>0, <1>5, <2>1, FinishRequest DEF PostPublish
  <2>3. Pending' \subseteq Pending
    <3>1. UNCHANGED links \/ links' = SavedLink(h, "error")
      BY <1>5 DEF PostPublish
    <3> QED BY <1>0, <3>1 DEF Pending, SavedLink, RagOK
  <2>4. handler[h].link \in Queued' \cup halfway' /\ Queued \subseteq Queued'
    <3> DEFINE x == Triple(handler[h])
    <3>1. x \in Job /\ x.link = handler[h].link
      BY <1>0, <2>1 DEF HandlersOK, WellFormed, LinkSteps, Triple, Job
    <3>2. jobs' = Append(jobs, x) \/ (UNCHANGED jobs /\ handler[h].link \in halfway')
      BY <1>5 DEF PostPublish, Triple
    <3> HIDE DEF x
    <3> QED BY <1>0, <3>1, <3>2, QueueChange DEF QueueOK
  <2> QED BY <1>1, <2>2, <2>3, <2>4 DEF HandInv, Covered
<1>6. CASE UnlinkEmpty(h) \/ UnlinkRow(h)
  <2>1. PostingOf(handler[h]) = {} /\ Queued' = Queued
    BY <1>6, QueueChange DEF UnlinkEmpty, UnlinkRow, PostingOf, PostSteps
  <2>2. Finish(h) \/ (Go(h, "unlink emptied") /\ handler[h].at = "unlink loaded")
    BY <1>6 DEF UnlinkEmpty, UnlinkRow
  <2>3. Posting \subseteq Posting'
    BY <1>0, <2>1, <2>2, FinishRequest, GoRequest
  <2>4. \A l \in Links : links'[l] = links[l] \/ links'[l] = NoLink
    BY <1>0, <1>6 DEF UnlinkEmpty, UnlinkRow, RagOK
  <2>5. Pending' \subseteq Pending
    BY <2>4, Nothing DEF Pending
  <2> QED BY <1>1, <2>1, <2>3, <2>5, HandKept DEF Covered
<1> QED BY <1>2, <1>3, <1>4, <1>5, <1>6 DEF LinkNext

LEMMA WorkerHand == ASSUME Base, HandInv, WorkerNext PROVE HandInv'
<1>0. RagOK /\ QueueOK /\ WorkerOK
  BY DEF Base, TypeInv
<1>1. UNCHANGED handler /\ halfway \subseteq halfway'
  BY DEF WorkerNext, Receive, GetFileContent, AddChunks, MarkCompleted, MarkError, CallFails, WorkerCrash, past
<1>2. Posting' = Posting
  BY <1>1 DEF Posting
<1>3. worker.step # "idle" => worker.job \in Job /\ worker.job.link \in Links
  BY <1>0 DEF WorkerOK, Job
<1>4. CASE Receive
  <2>1. Head(jobs) \in Job /\ Queued \subseteq Queued' \cup {Head(jobs).link} /\ worker'.job = Head(jobs)
    BY <1>0, <1>4, QueueChange DEF Receive, QueueOK
  <2>2. worker.job.link = None /\ Head(jobs).link \in Links
    BY <1>0, <1>4, <2>1, Nothing DEF Receive, At, WorkerOK, Job
  <2>3. Pending' \subseteq Pending \cup {Head(jobs).link}
    BY <1>0, <1>4, <2>2, StatusOK DEF Receive, Pending
  <2>4. None \notin Pending
    BY RetrievalAssumption DEF Pending
  <2> QED BY <1>1, <1>2, <2>1, <2>2, <2>3, <2>4 DEF HandInv, Covered
<1>5. CASE GetFileContent \/ AddChunks \/ (CallFails /\ ~At("failed"))
  <2>1. UNCHANGED <<links, jobs>> /\ worker.step # "idle" /\ \E step : Goes(step)
    BY <1>5 DEF GetFileContent, AddChunks, CallFails, At, ragVars
  <2>2. worker'.job = worker.job
    BY <1>0, <2>1 DEF Goes, WorkerOK
  <2> QED BY <1>1, <1>2, <2>1, <2>2, QueueChange, HandKept DEF Covered, Pending
<1>6. CASE MarkCompleted \/ MarkError
  <2>1. worker.job.link \in Links /\ Queued' = Queued
    BY <1>3, <1>6, QueueChange DEF MarkCompleted, MarkError, At
  <2>2. \E status \in {"completed", "error"} : UpdateFileLinkStatus(worker.job.link, status)
    BY <1>6 DEF MarkCompleted, MarkError, Failed, UpdateFileLinkStatus
  <2>3. PICK status \in {"completed", "error"} : UpdateFileLinkStatus(worker.job.link, status)
    BY <2>2
  <2>4. Pending' \subseteq Pending \ {worker.job.link}
    <3>1. \A l \in Links : l # worker.job.link => links'[l] = links[l]
      BY <1>0, <2>1, <2>3, StatusOK
    <3>2. links'[worker.job.link].status \notin {"pending", "ingesting"}
      BY <1>0, <2>1, <2>3, StatusOK, Nothing DEF LinkExists
    <3> QED BY <3>1, <3>2 DEF Pending
  <2> QED BY <1>1, <1>2, <2>1, <2>4 DEF HandInv, Covered
<1>7. CASE CallFails /\ At("failed")
  <2>1. UNCHANGED <<links, jobs>> /\ worker.job.link \in halfway'
    BY <1>7 DEF CallFails, ragVars
  <2> QED BY <1>1, <1>2, <2>1, QueueChange, HandKept DEF Covered, Pending
<1>8. CASE WorkerCrash
  <2>1. UNCHANGED links /\ Queued' = Queued \cup {worker.job.link}
    BY <1>0, <1>3, <1>8, QueueChange DEF WorkerCrash, At, QueueOK, ragVars
  <2> QED BY <1>1, <1>2, <2>1, HandKept DEF Covered, Pending
<1> QED BY <1>4, <1>5, <1>6, <1>7, <1>8 DEF WorkerNext

LEMMA OtherHand ==
    ASSUME Base, HandInv,
           Sweeping \/ (\E c \in Collections : CreateCollection(c)) \/ \E h \in Handlers : Abandon(h)
    PROVE  HandInv'
<1>0. HandlersOK /\ RagOK /\ WorkerOK
  BY DEF Base, TypeInv
<1>1. UNCHANGED jobs /\ halfway \subseteq halfway'
  BY DEF Sweeping, SweepFiles, SweepStores, SweepCollectionRows, CreateCollection, Abandon, taskVars
<1>2. worker'.job = worker.job
  BY <1>0, DropOK DEF Sweeping, SweepFiles, SweepStores, SweepCollectionRows, CreateCollection, Abandon, taskVars
<1>3. Posting \subseteq Posting' \cup halfway'
  <2>1. ASSUME NEW h \in Handlers, Abandon(h) PROVE Posting \subseteq Posting' \cup halfway'
    <3>1. PostingOf(handler[h]) \subseteq halfway'
      <4>1. handler[h].link # None => handler[h].link \in halfway'
        BY <2>1 DEF Abandon
      <4>2. CASE handler[h].at \in PostSteps
        BY <4>1, <4>2, RequestOfLink DEF PostingOf, LinkSteps
      <4> QED BY <4>2 DEF PostingOf
    <3> QED BY <1>0, <2>1, <3>1, FinishRequest DEF Abandon
  <2>2. CASE UNCHANGED handler
    BY <2>2 DEF Posting
  <2> QED BY <2>1, <2>2 DEF Sweeping, SweepFiles, SweepStores, SweepCollectionRows, CreateCollection, taskVars
<1>4. \A l \in Links : links'[l] = links[l] \/ links'[l] = NoLink
  BY <1>0 DEF Sweeping, SweepFiles, SweepStores, SweepCollectionRows, CreateCollection, Abandon, ragVars
<1>5. Pending' \subseteq Pending
  BY <1>4, Nothing DEF Pending
<1>6. Queued' = Queued
  BY <1>1, QueueChange
<1> QED BY <1>1, <1>2, <1>3, <1>5, <1>6, HandKept DEF Covered

LEMMA HandStep == ASSUME Base, HandInv, [RetrievalNext]_retrievalVars PROVE HandInv'
<1>1. CASE RetrievalNext
  BY <1>1, FileHand, CollectionHand, LinkHand, WorkerHand, OtherHand DEF RetrievalNext, Sweeping
<1>2. CASE UNCHANGED retrievalVars
  BY <1>2 DEF retrievalVars, ragVars, taskVars, past, HandInv, Pending, Covered, Queued, JobMentions, Posting
<1> QED BY <1>1, <1>2

-----------------------------------------------------------------------------
(* Chunks that stay without a link.                                        *)

\* Links that are there and that nobody is removing.
Settled == Existing \ BeingRemoved
Emptied == cleanup["collections"] = "emptied"

StrayInv == \A v \in vectors : v.link \in Settled \cup overtaken \/ v.coll \in halfway

LEMMA StrayEnough == ASSUME StrayInv PROVE NoStrayVectors
  BY DEF StrayInv, NoStrayVectors, Settled, Existing, LinkExists

LEMMA SettledAgain ==
    ASSUME Base, Base', NEW l \in Settled, l \in Existing', links'[l].coll = links[l].coll,
           l \in Unlinking' => l \in Unlinking,
           links[l].coll \in Clearing' => links[l].coll \in Clearing,
           Emptied' => Emptied
    PROVE  l \in Settled'
<1>1. HandlersOK /\ HandlersOK' /\ l \in Existing /\ l \in Links
  BY DEF Base, TypeInv, Settled, Existing
<1>2. l \notin RemovalParts
  BY <1>1, Removal DEF Settled
<1>3. l \notin Unlinking /\ links[l].coll \notin Clearing /\ ~Emptied
  BY <1>1, <1>2 DEF RemovalParts, Emptied
<1>4. l \notin RemovalParts'
  BY <1>1, <1>3 DEF RemovalParts, Emptied
<1> QED BY <1>1, <1>4, Removal DEF Settled

LEMMA SettledIs ==
    ASSUME Base, NEW l \in Settled
    PROVE  l \in Existing /\ l \in Links /\ l \notin Unlinking /\ links[l].coll \notin Clearing /\ ~Emptied
<1>1. HandlersOK /\ l \in Existing /\ l \in Links
  BY DEF Base, TypeInv, Settled, Existing
<1>2. l \notin RemovalParts
  BY <1>1, RemovalNow DEF Settled
<1> QED BY <1>1, <1>2 DEF RemovalParts, Emptied

LEMMA StartsNoRemoval ==
    ASSUME HandlersOK, NEW h \in Handlers, NEW at \in FileSteps \cup PostSteps \cup {"unlink loaded"},
           NEW f, NEW c, NEW l, Start(h, at, f, c, l)
    PROVE  Unlinking' = Unlinking /\ Clearing' = Clearing
<1>1. at \notin RemovalSteps /\ at # "unlink emptied"
  BY DEF FileSteps, PostSteps, RemovalSteps
<1> QED BY <1>1, StartRequest

\* A step that adds no chunks and takes no settled link.
LEMMA StrayKept ==
    ASSUME Base, Base', StrayInv, vectors' \subseteq vectors, overtaken \subseteq overtaken',
           halfway \subseteq halfway',
           \A l \in Settled : l \in Existing' /\ links'[l].coll = links[l].coll,
           Unlinking' \subseteq Unlinking, Clearing' \subseteq Clearing, Emptied' => Emptied
    PROVE  StrayInv'
<1>1. Settled \subseteq Settled'
  BY SettledAgain
<1> QED BY <1>1 DEF StrayInv

LEMMA FileStray == ASSUME Base, Base', StrayInv, NEW h \in Handlers, FileNext(h) PROVE StrayInv'
<1>0. HandlersOK
  BY DEF Base, TypeInv
<1>1. UNCHANGED <<links, vectors, overtaken, halfway, cleanup>>
  BY DEF FileNext, UploadStore, DeleteFileBlob, UploadRow, DeleteFileRow, past, ragVars
<1>2. Unlinking' \subseteq Unlinking /\ Clearing' \subseteq Clearing
  <2>1. CASE \E f \in Files : UploadStore(h, f) \/ DeleteFileBlob(h, f)
    BY <1>0, <2>1, StartsNoRemoval DEF UploadStore, DeleteFileBlob, FileSteps
  <2>2. CASE UploadRow(h) \/ DeleteFileRow(h)
    BY <1>0, <2>2, FinishRequest DEF UploadRow, DeleteFileRow
  <2> QED BY <2>1, <2>2 DEF FileNext
<1> QED BY <1>1, <1>2, StrayKept, SettledIs DEF Existing, Emptied

LEMMA DropStray ==
    ASSUME Base, Base', StrayInv, NEW h \in Handlers, NEW c \in Collections,
           Start(h, "clear dropped", None, c, None) \/ Start(h, "destroy emptied", None, c, None),
           vectors' \subseteq vectors, \A v \in vectors' : v.coll # c \/ c \in halfway',
           UNCHANGED <<links, overtaken, cleanup>>, halfway \subseteq halfway'
    PROVE  StrayInv'
<1>0. HandlersOK
  BY DEF Base, TypeInv
<1>1. Unlinking' = Unlinking /\ Clearing' = Clearing \cup {c} /\ Existing' = Existing /\ Emptied' = Emptied
  BY <1>0, StartRequest DEF RemovalSteps, Existing, Emptied
<1>2. \A l \in Settled : links[l].coll # c => l \in Settled'
  BY <1>1, SettledAgain, SettledIs
<1>3. \A v \in vectors : v.link \in Settled => v.coll = links[v.link].coll
  BY VectorOfLink, SettledIs
<1> QED BY <1>2, <1>3 DEF StrayInv

LEMMA CollectionStray == ASSUME Base, Base', StrayInv, NEW h \in Handlers, CollectionNext(h) PROVE StrayInv'
<1>0. HandlersOK /\ RagOK
  BY DEF Base, TypeInv
<1>1. ASSUME NEW c \in Collections, ClearDrop(h, c) \/ DestroyDrop(h, c) PROVE StrayInv'
  <2>1. /\ Start(h, "clear dropped", None, c, None) \/ Start(h, "destroy emptied", None, c, None)
        /\ UNCHANGED <<links, overtaken, cleanup>> /\ halfway \subseteq halfway'
        /\ Drop({c}) \/ (UNCHANGED vectors /\ c \in halfway')
    BY <1>1 DEF ClearDrop, DestroyDrop, past
  <2>2. vectors' \subseteq vectors /\ \A v \in vectors' : v.coll # c \/ c \in halfway'
    BY <2>1 DEF Drop
  <2> QED BY <2>1, <2>2, DropStray
<1>2. CASE ClearCreate(h) \/ ClearRows(h) \/ DestroyRow(h)
  <2>1. UNCHANGED <<vectors, overtaken, cleanup>> /\ halfway \subseteq halfway'
    BY <1>2 DEF ClearCreate, ClearRows, DestroyRow, past
  <2>2. Finish(h) \/ (Go(h, "clear emptied") /\ handler[h].at = "clear dropped")
    BY <1>2 DEF ClearCreate, ClearRows, DestroyRow
  <2>3. Unlinking' \subseteq Unlinking /\ Clearing' \subseteq Clearing
    BY <1>0, <2>2, FinishRequest, GoRequest DEF RemovalSteps
  <2>4. handler[h].at \in RemovalSteps
    BY <1>2 DEF ClearCreate, ClearRows, DestroyRow, RemovalSteps
  <2>5. handler[h].coll \in Clearing
    BY <2>4 DEF Clearing, ClearingOf
  <2>6. UNCHANGED links \/ links' = Unlinked({handler[h].coll})
    BY <1>2 DEF ClearCreate, ClearRows, DestroyRow
  <2>7. \A l \in Settled : links'[l] = links[l] /\ l \in Existing'
    BY <2>5, <2>6, SettledIs DEF Unlinked, Existing
  <2> QED BY <2>1, <2>3, <2>7, StrayKept DEF Emptied
<1> QED BY <1>1, <1>2 DEF CollectionNext

LEMMA LinkStray == ASSUME Base, Base', StrayInv, NEW h \in Handlers, LinkNext(h) PROVE StrayInv'
<1>0. HandlersOK /\ RagOK
  BY DEF Base, TypeInv
<1>1. UNCHANGED <<overtaken, cleanup>> /\ halfway \subseteq halfway' /\ vectors' \subseteq vectors /\ Emptied' = Emptied
  BY DEF LinkNext, PostCreate, PostAgain, UnlinkLoad, PostSave, PostPublish, UnlinkEmpty, UnlinkRow, past,
         ragVars, Without, Emptied
<1>2. ASSUME NEW c \in Collections, NEW f \in Files, NEW l \in Links, PostCreate(h, c, f, l) PROVE StrayInv'
  <2>1. Unlinking' = Unlinking /\ Clearing' = Clearing
    BY <1>0, <1>2, StartsNoRemoval DEF PostCreate, PostSteps
  <2>2. l \notin Existing
    <3> DEFINE x == [link |-> l, coll |-> links[l].coll, file |-> links[l].file]
    <3>1. l \in Existing => x \in Mentions /\ x.link = l
      BY DEF Existing, Mentions, LinkMentions
    <3> HIDE DEF x
    <3> QED BY <1>2, <3>1 DEF PostCreate, Base, Known
  <2>3. \A k \in Links : k # l => links'[k] = links[k]
    BY <1>0, <1>2 DEF PostCreate, RagOK
  <2>4. \A k \in Settled : links'[k] = links[k] /\ k \in Existing'
    BY <2>2, <2>3, SettledIs DEF Existing
  <2> QED BY <1>1, <2>1, <2>4, StrayKept
<1>3. ASSUME NEW l \in Links, PostAgain(h, l) \/ UnlinkLoad(h, l) PROVE StrayInv'
  <2>1. Unlinking' = Unlinking /\ Clearing' = Clearing /\ UNCHANGED links
    BY <1>0, <1>3, StartsNoRemoval DEF PostAgain, UnlinkLoad, PostSteps, ragVars
  <2> QED BY <1>1, <2>1, StrayKept, SettledIs DEF Existing
<1>4. CASE PostSave(h) \/ PostPublish(h)
  <2>1. handler[h].at \in PostSteps
    BY <1>4 DEF PostSave, PostPublish, PostSteps
  <2>2. Finish(h) \/ Go(h, "post saved")
    BY <1>4 DEF PostSave, PostPublish
  <2>3. Unlinking' \subseteq Unlinking /\ Clearing' \subseteq Clearing
    BY <1>0, <2>1, <2>2, FinishRequest, GoRequest DEF PostSteps
  <2>4. UNCHANGED links \/ \E status \in {"pending", "ingesting", "completed", "error"} : links' = SavedLink(h, status)
    BY <1>4 DEF PostSave, PostPublish
  <2>5. \A l \in Settled : l \in Existing' /\ links'[l].coll = links[l].coll
    <3>1. CASE UNCHANGED links
      BY <3>1, SettledIs DEF Existing
    <3>2. ASSUME NEW status \in {"pending", "ingesting", "completed", "error"}, links' = SavedLink(h, status),
                 NEW l \in Settled
          PROVE  l \in Existing' /\ links'[l].coll = links[l].coll
      <4>1. l \in Existing /\ l \in Links
        BY SettledIs
      <4>2. CASE l = handler[h].link
        <5>1. links[l].coll = handler[h].coll
          BY <2>1, <4>1, <4>2, RequestOfLink DEF LinkSteps
        <5>2. links'[l] \in Link /\ links'[l] = [coll |-> handler[h].coll, file |-> handler[h].file, status |-> status]
          BY <1>0, <2>1, <3>2, <4>2, SavedOK
        <5>3. links'[l].coll = handler[h].coll
          BY <5>2
        <5> QED BY <4>1, <5>1, <5>2, <5>3, Nothing DEF Existing
      <4>3. CASE l # handler[h].link
        BY <1>0, <3>2, <4>1, <4>3 DEF SavedLink, RagOK, Existing
      <4> QED BY <4>2, <4>3
    <3> QED BY <2>4, <3>1, <3>2
  <2> QED BY <1>1, <2>3, <2>5, StrayKept
<1>5. CASE UnlinkEmpty(h)
  <2>1. handler[h].at = "unlink loaded" /\ UNCHANGED links
    BY <1>5 DEF UnlinkEmpty
  <2>2. handler[h].at \in LinkSteps
    BY <2>1 DEF LinkSteps
  <2>3. CASE Finish(h) /\ UNCHANGED vectors
    <3>1. Unlinking' \subseteq Unlinking /\ Clearing' \subseteq Clearing
      BY <1>0, <2>3, FinishRequest
    <3> QED BY <1>1, <2>1, <3>1, StrayKept, SettledIs DEF Existing
  <2>4. CASE Go(h, "unlink emptied") /\ vectors' = Without(handler[h].coll, handler[h].file)
    <3>1. Unlinking' = Unlinking \cup {handler[h].link} /\ Clearing' = Clearing
      BY <1>0, <2>1, <2>4, GoRequest
    <3>2. \A l \in Settled : l # handler[h].link => l \in Settled'
      BY <1>1, <2>1, <3>1, SettledAgain, SettledIs DEF Existing
    <3>3. \A v \in vectors' : v \in vectors /\ v.link # handler[h].link
      BY <2>2, <2>4, RequestOfLink DEF Without
    <3> QED BY <1>1, <3>2, <3>3 DEF StrayInv
  <2> QED BY <1>5, <2>3, <2>4 DEF UnlinkEmpty
<1>6. CASE UnlinkRow(h)
  <2>1. handler[h].link \in Unlinking
    BY <1>6 DEF UnlinkRow, Unlinking, UnlinkingOf
  <2>2. Unlinking' \subseteq Unlinking /\ Clearing' \subseteq Clearing
    BY <1>0, <1>6, FinishRequest DEF UnlinkRow
  <2>3. \A l \in Links : l # handler[h].link => links'[l] = links[l]
    BY <1>0, <1>6 DEF UnlinkRow, RagOK
  <2>4. \A l \in Settled : links'[l] = links[l] /\ l \in Existing'
    BY <2>1, <2>3, SettledIs DEF Existing
  <2> QED BY <1>1, <2>2, <2>4, StrayKept
<1> QED BY <1>2, <1>3, <1>4, <1>5, <1>6 DEF LinkNext

LEMMA WorkerStray == ASSUME Base, Base', StrayInv, WorkerNext PROVE StrayInv'
<1>0. RagOK /\ QueueOK /\ WorkerOK
  BY DEF Base, TypeInv
<1>1. UNCHANGED <<handler, cleanup>> /\ halfway \subseteq halfway' /\ overtaken \subseteq overtaken'
  BY DEF WorkerNext, Receive, GetFileContent, AddChunks, MarkCompleted, MarkError, CallFails, WorkerCrash, past
<1>2. Unlinking' = Unlinking /\ Clearing' = Clearing /\ Emptied' = Emptied
  BY <1>1 DEF Unlinking, Clearing, Emptied
<1>3. \A l \in Existing : l \in Existing' /\ links'[l].coll = links[l].coll
  <2>1. ASSUME NEW l \in Links, NEW status \in {"pending", "ingesting", "completed", "error"},
               UpdateFileLinkStatus(l, status), NEW k \in Existing
        PROVE  k \in Existing' /\ links'[k].coll = links[k].coll
    <3>1. k \in Links /\ LinkExists(k)
      BY DEF Existing, LinkExists
    <3> QED BY <1>0, <2>1, <3>1, StatusOK, Nothing DEF Existing, LinkExists
  <2>2. CASE Receive
    <3>1. Head(jobs) \in Job
      BY <1>0, <2>2 DEF Receive, QueueOK
    <3>2. Head(jobs).link \in Links
      BY <3>1 DEF Job
    <3> QED BY <2>1, <2>2, <3>2 DEF Receive
  <2>3. CASE MarkCompleted \/ MarkError
    <3>1. worker.job.link \in Links
      BY <1>0, <2>3 DEF MarkCompleted, MarkError, At, WorkerOK, Job
    <3>2. \E status \in {"completed", "error"} : UpdateFileLinkStatus(worker.job.link, status)
      BY <2>3 DEF MarkCompleted, MarkError, Failed, UpdateFileLinkStatus
    <3> QED BY <2>1, <3>1, <3>2
  <2>4. CASE UNCHANGED links
    BY <2>4 DEF Existing
  <2> QED BY <2>2, <2>3, <2>4 DEF WorkerNext, GetFileContent, AddChunks, CallFails, WorkerCrash, ragVars
<1>4. Settled \subseteq Settled'
  BY <1>2, <1>3, SettledAgain, SettledIs
<1>5. \A v \in vectors' \ vectors : v.link \in Settled' \cup overtaken'
  <2>1. CASE At("opened") /\ AddChunks
    <3>1. vectors' = vectors \cup {worker.job}
      BY <2>1 DEF AddChunks, At
    <3>2. worker.job.link \in Settled \cup overtaken'
      <4>1. worker.job.link \in Links
        BY <1>0, <2>1 DEF At, WorkerOK, Job
      <4> QED BY <2>1, <4>1 DEF AddChunks, At, Settled, Existing, LinkExists
    <3> QED BY <1>4, <3>1, <3>2
  <2>2. CASE vectors' = vectors
    BY <2>2
  <2> QED BY <2>1, <2>2 DEF WorkerNext, Receive, GetFileContent, AddChunks, MarkCompleted, MarkError,
                            CallFails, WorkerCrash, ragVars
<1> QED BY <1>1, <1>4, <1>5 DEF StrayInv

LEMMA OtherStray ==
    ASSUME Base, Base', StrayInv,
           Sweeping \/ (\E c \in Collections : CreateCollection(c)) \/ \E h \in Handlers : Abandon(h)
    PROVE  StrayInv'
<1>0. HandlersOK /\ RagOK /\ CountsOK
  BY DEF Base, TypeInv
<1>1. UNCHANGED overtaken /\ halfway \subseteq halfway'
  BY DEF Sweeping, SweepFiles, SweepStores, SweepCollectionRows, CreateCollection, Abandon
<1>2. ASSUME NEW h \in Handlers, Abandon(h) PROVE StrayInv'
  <2>1. UNCHANGED <<links, vectors, cleanup>> /\ Unlinking' \subseteq Unlinking /\ Clearing' \subseteq Clearing
    BY <1>0, <1>2, FinishRequest DEF Abandon, ragVars
  <2> QED BY <1>1, <2>1, StrayKept, SettledIs DEF Existing, Emptied
<1>3. CASE SweepFiles \/ \E c \in Collections : CreateCollection(c)
  <2>1. UNCHANGED <<links, vectors, handler>> /\ cleanup'["collections"] = cleanup["collections"]
    BY <1>0, <1>3 DEF SweepFiles, Confirm, CreateCollection, ragVars, taskVars, CountsOK, Services
  <2>2. Unlinking' = Unlinking /\ Clearing' = Clearing
    BY <2>1 DEF Unlinking, Clearing
  <2> QED BY <1>1, <2>1, <2>2, StrayKept, SettledIs DEF Existing, Emptied
<1>4. CASE SweepStores
  <2>1. UNCHANGED <<links, handler, collections>>
    BY <1>4 DEF SweepStores
  <2>2. CASE cleanup' = [cleanup EXCEPT !["collections"] = "lost"] /\ UNCHANGED vectors
    <3>1. ~Emptied'
      BY <1>0, <2>2 DEF CountsOK, Services, Emptied
    <3>2. Unlinking' = Unlinking /\ Clearing' = Clearing
      BY <2>1 DEF Unlinking, Clearing
    <3> QED BY <1>1, <2>1, <2>2, <3>1, <3>2, StrayKept, SettledIs DEF Existing
  <2>3. CASE Drop(collections) \/ \E c \in collections : Drop(collections \ {c}) /\ halfway' = halfway \cup {c}
    <3>1. vectors' \subseteq vectors /\ \A v \in vectors' : v.coll \notin collections \/ v.coll \in halfway'
      BY <2>3 DEF Drop
    <3>2. \A v \in vectors : v.link \in Settled => v.coll \in collections
      <4> SUFFICES ASSUME NEW v \in vectors, v.link \in Settled PROVE v.coll \in collections
        OBVIOUS
      <4>1. v.link \in Links /\ v.link \in Existing
        BY SettledIs
      <4> QED BY <4>1, VectorOfLink DEF Base, InCollection, Existing
    <3> QED BY <1>1, <3>1, <3>2 DEF StrayInv
  <2> QED BY <1>4, <2>2, <2>3 DEF SweepStores
<1>5. CASE SweepCollectionRows
  <2>1. Emptied /\ UNCHANGED vectors
    BY <1>5 DEF SweepCollectionRows, Emptied
  <2>2. Settled = {}
    BY <2>1, SettledIs
  <2> QED BY <1>1, <2>1, <2>2 DEF StrayInv
<1> QED BY <1>2, <1>3, <1>4, <1>5 DEF Sweeping

LEMMA StrayStep == ASSUME Base, Base', StrayInv, [RetrievalNext]_retrievalVars PROVE StrayInv'
<1>1. CASE RetrievalNext
  BY <1>1, FileStray, CollectionStray, LinkStray, WorkerStray, OtherStray DEF RetrievalNext, Sweeping
<1>2. CASE UNCHANGED retrievalVars
  <2>1. UNCHANGED <<links, vectors, overtaken, halfway, cleanup, handler>>
    BY <1>2 DEF retrievalVars, ragVars, past, taskVars
  <2>2. Unlinking' = Unlinking /\ Clearing' = Clearing
    BY <2>1 DEF Unlinking, Clearing
  <2> QED BY <2>1, <2>2, StrayKept, SettledIs DEF Existing, Emptied
<1> QED BY <1>1, <1>2

-----------------------------------------------------------------------------
(* What is left when a cleanup is confirmed.                               *)

UploadingOf(r) == IF r.at = "upload stored" THEN {r.file} ELSE {}
DeletingOf(r) == IF r.at = "file emptied" THEN {r.file} ELSE {}
Uploading == UNION {UploadingOf(handler[h]) : h \in Handlers}
Deleting == UNION {DeletingOf(handler[h]) : h \in Handlers}

\* A blob without a row is one being uploaded: that is what makes the cleanup, which goes by
\* the rows, leave nothing else; a file that is being deleted has no blob and gets none.
FilesKnown == rows \cup Uploading \cup Deleting \subseteq used /\ Deleting \cap blobs = {}
BlobsHaveRows == cleanup["files"] = "none" => blobs \subseteq rows \cup Uploading \cup halfway
FilesSwept == cleanup["files"] = "confirmed" => rows \cup blobs \subseteq after \cup halfway \cup Uploading \cup Deleting
CollectionsSwept == cleanup["collections"] = "confirmed" => collections \subseteq after

SweepInv == FilesKnown /\ BlobsHaveRows /\ FilesSwept /\ CollectionsSwept

LEMMA SweepEnough == ASSUME SweepInv PROVE ProjectSwept
<1>1. Uploading \cup Deleting \subseteq {handler[h].file : h \in Handlers}
  BY DEF Uploading, Deleting, UploadingOf, DeletingOf
<1> QED BY <1>1 DEF SweepInv, FilesSwept, CollectionsSwept, ProjectSwept

LEMMA FileRequestChange ==
    ASSUME HandlersOK, NEW h \in Handlers, NEW r, handler' = [handler EXCEPT ![h] = r]
    PROVE  /\ Uploading' \subseteq Uploading \cup UploadingOf(r) /\ UploadingOf(r) \subseteq Uploading'
           /\ Uploading \subseteq Uploading' \cup UploadingOf(handler[h])
           /\ UploadingOf(handler[h]) \subseteq Uploading
           /\ Deleting' \subseteq Deleting \cup DeletingOf(r) /\ DeletingOf(r) \subseteq Deleting'
           /\ Deleting \subseteq Deleting' \cup DeletingOf(handler[h])
           /\ DeletingOf(handler[h]) \subseteq Deleting
<1>1. handler'[h] = r /\ \A k \in Handlers : k # h => handler'[k] = handler[k]
  BY DEF HandlersOK
<1>2. /\ Uploading' \subseteq Uploading \cup UploadingOf(r) /\ UploadingOf(r) \subseteq Uploading'
      /\ Uploading \subseteq Uploading' \cup UploadingOf(handler[h])
      /\ UploadingOf(handler[h]) \subseteq Uploading
  BY <1>1 DEF Uploading, UploadingOf
<1>3. /\ Deleting' \subseteq Deleting \cup DeletingOf(r) /\ DeletingOf(r) \subseteq Deleting'
      /\ Deleting \subseteq Deleting' \cup DeletingOf(handler[h])
      /\ DeletingOf(handler[h]) \subseteq Deleting
  BY <1>1 DEF Deleting, DeletingOf
<1> QED BY <1>2, <1>3

LEMMA NoFileStep == \A r : r.at \notin FileSteps => UploadingOf(r) = {} /\ DeletingOf(r) = {}
  BY DEF FileSteps, UploadingOf, DeletingOf

LEMMA FileStep ==
    \A r : /\ r.at = "upload stored" => UploadingOf(r) = {r.file} /\ DeletingOf(r) = {}
           /\ r.at = "file emptied" => UploadingOf(r) = {} /\ DeletingOf(r) = {r.file}
  BY DEF UploadingOf, DeletingOf

\* A request that is not about a file.
LEMMA NotAboutFiles ==
    ASSUME HandlersOK, NEW h \in Handlers, CollectionNext(h) \/ LinkNext(h)
    PROVE  Uploading' = Uploading /\ Deleting' = Deleting
<1>1. handler[h] \in HandlerState /\ Idle.at \notin FileSteps
  BY Nothing DEF HandlersOK, FileSteps
<1>2. ASSUME NEW r, handler' = [handler EXCEPT ![h] = r], handler[h].at \notin FileSteps, r.at \notin FileSteps
      PROVE  Uploading' = Uploading /\ Deleting' = Deleting
  BY <1>2, NoFileStep, FileRequestChange
<1>3. ASSUME NEW at, NEW f, NEW c, NEW l, Start(h, at, f, c, l), at \notin FileSteps
      PROVE  Uploading' = Uploading /\ Deleting' = Deleting
  <2> DEFINE r == [at |-> at, file |-> f, coll |-> c, link |-> l]
  <2>1. handler[h] = Idle /\ handler' = [handler EXCEPT ![h] = r] /\ r.at = at
    BY <1>3 DEF Start
  <2> HIDE DEF r
  <2> QED BY <1>1, <1>2, <1>3, <2>1
<1>4. ASSUME Finish(h), handler[h].at \notin FileSteps PROVE Uploading' = Uploading /\ Deleting' = Deleting
  BY <1>1, <1>2, <1>4 DEF Finish
<1>5. ASSUME NEW at, Go(h, at), at \notin FileSteps, handler[h].at \notin FileSteps
      PROVE  Uploading' = Uploading /\ Deleting' = Deleting
  <2> DEFINE r == [handler[h] EXCEPT !.at = at]
  <2>1. handler' = [handler EXCEPT ![h] = r] /\ r.at = at
    BY <1>1, <1>5 DEF Go, HandlersOK, HandlerState
  <2> HIDE DEF r
  <2> QED BY <1>2, <1>5, <2>1
<1>6. /\ "clear dropped" \notin FileSteps /\ "clear emptied" \notin FileSteps /\ "destroy emptied" \notin FileSteps
      /\ "post linked" \notin FileSteps /\ "post saved" \notin FileSteps
      /\ "unlink loaded" \notin FileSteps /\ "unlink emptied" \notin FileSteps
  BY DEF FileSteps
<1>7. CASE \E c \in Collections : ClearDrop(h, c) \/ DestroyDrop(h, c)
  BY <1>3, <1>6, <1>7 DEF ClearDrop, DestroyDrop
<1>8. CASE ClearCreate(h) \/ ClearRows(h) \/ DestroyRow(h)
  BY <1>4, <1>5, <1>6, <1>8 DEF ClearCreate, ClearRows, DestroyRow
<1>9. CASE \E l \in Links : PostAgain(h, l) \/ UnlinkLoad(h, l) \/ \E c \in Collections, f \in Files : PostCreate(h, c, f, l)
  BY <1>3, <1>6, <1>9 DEF PostAgain, UnlinkLoad, PostCreate
<1>10. CASE PostSave(h) \/ PostPublish(h) \/ UnlinkEmpty(h) \/ UnlinkRow(h)
  BY <1>4, <1>5, <1>6, <1>10 DEF PostSave, PostPublish, UnlinkEmpty, UnlinkRow
<1> QED BY <1>7, <1>8, <1>9, <1>10 DEF CollectionNext, LinkNext

\* A step that touches neither files nor the cleanup.
LEMMA SweepKept ==
    ASSUME SweepInv, UNCHANGED <<rows, blobs, cleanup>>, collections' \subseteq collections,
           used \subseteq used', halfway \subseteq halfway', after \subseteq after',
           Uploading' = Uploading, Deleting' = Deleting
    PROVE  SweepInv'
  BY DEF SweepInv, FilesKnown, BlobsHaveRows, FilesSwept, CollectionsSwept

LEMMA FileSweep == ASSUME Base, SweepInv, NEW h \in Handlers, FileNext(h) PROVE SweepInv'
<1>0. HandlersOK
  BY DEF Base, TypeInv
<1>1. UNCHANGED <<collections, cleanup, halfway>> /\ used \subseteq used' /\ after \subseteq after'
  BY DEF FileNext, UploadStore, DeleteFileBlob, UploadRow, DeleteFileRow, past, ragVars
<1>2. CollectionsSwept'
  BY <1>1 DEF SweepInv, CollectionsSwept
<1>3. UploadingOf(Idle) = {} /\ DeletingOf(Idle) = {}
  BY Nothing DEF UploadingOf, DeletingOf
<1>4. ASSUME NEW f \in Files, UploadStore(h, f) PROVE SweepInv'
  <2> DEFINE r == [at |-> "upload stored", file |-> f, coll |-> None, link |-> None]
  <2>1. handler[h] = Idle /\ handler' = [handler EXCEPT ![h] = r]
    BY <1>4 DEF UploadStore, Start
  <2>2. UploadingOf(r) = {f} /\ DeletingOf(r) = {}
    BY FileStep
  <2> HIDE DEF r
  <2>3. Uploading' = Uploading \cup {f} /\ Deleting' = Deleting
    BY <1>0, <1>3, <2>1, <2>2, FileRequestChange
  <2>4. f \notin used /\ used' = used \cup {f} /\ blobs' = blobs \cup {f} /\ UNCHANGED <<rows, after>>
    BY <1>4 DEF UploadStore
  <2> QED BY <1>1, <1>2, <2>3, <2>4 DEF SweepInv, FilesKnown, BlobsHaveRows, FilesSwept
<1>5. CASE UploadRow(h)
  <2> DEFINE f == handler[h].file
  <2>1. handler' = [handler EXCEPT ![h] = Idle] /\ UploadingOf(handler[h]) = {f} /\ DeletingOf(handler[h]) = {}
    BY <1>5, FileStep DEF UploadRow, Finish
  <2>2. rows' = rows \cup {f} /\ UNCHANGED <<used, blobs>>
    BY <1>5 DEF UploadRow
  <2>3. cleanup["files"] = "confirmed" => f \in after'
    BY <1>5 DEF UploadRow
  <2> HIDE DEF f
  <2>4. /\ Uploading' \subseteq Uploading /\ Uploading \subseteq Uploading' \cup {f} /\ f \in Uploading
        /\ Deleting' = Deleting
    BY <1>0, <1>3, <2>1, FileRequestChange
  <2> QED BY <1>1, <1>2, <2>2, <2>3, <2>4 DEF SweepInv, FilesKnown, BlobsHaveRows, FilesSwept
<1>6. ASSUME NEW f \in Files, DeleteFileBlob(h, f) PROVE SweepInv'
  <2> DEFINE r == [at |-> "file emptied", file |-> f, coll |-> None, link |-> None]
  <2>1. handler[h] = Idle /\ handler' = [handler EXCEPT ![h] = r]
    BY <1>6 DEF DeleteFileBlob, Start
  <2>2. UploadingOf(r) = {} /\ DeletingOf(r) = {f}
    BY FileStep
  <2> HIDE DEF r
  <2>3. Uploading' = Uploading /\ Deleting' = Deleting \cup {f}
    BY <1>0, <1>3, <2>1, <2>2, FileRequestChange
  <2>4. f \in rows /\ blobs' = blobs \ {f} /\ UNCHANGED <<rows, after, used>>
    BY <1>6 DEF DeleteFileBlob, past
  <2> QED BY <1>1, <1>2, <2>3, <2>4 DEF SweepInv, FilesKnown, BlobsHaveRows, FilesSwept
<1>7. CASE DeleteFileRow(h)
  <2> DEFINE f == handler[h].file
  <2>1. handler' = [handler EXCEPT ![h] = Idle] /\ UploadingOf(handler[h]) = {} /\ DeletingOf(handler[h]) = {f}
    BY <1>7, FileStep DEF DeleteFileRow, Finish
  <2>2. rows' = rows \ {f} /\ UNCHANGED <<used, blobs, after>>
    BY <1>7 DEF DeleteFileRow, past
  <2> HIDE DEF f
  <2>3. /\ Deleting' \subseteq Deleting /\ Deleting \subseteq Deleting' \cup {f} /\ f \in Deleting
        /\ Uploading' = Uploading
    BY <1>0, <1>3, <2>1, FileRequestChange
  <2> QED BY <1>1, <1>2, <2>2, <2>3 DEF SweepInv, FilesKnown, BlobsHaveRows, FilesSwept
<1> QED BY <1>4, <1>5, <1>6, <1>7 DEF FileNext

LEMMA RequestSweep == ASSUME Base, SweepInv, NEW h \in Handlers, CollectionNext(h) \/ LinkNext(h) PROVE SweepInv'
<1>0. HandlersOK
  BY DEF Base, TypeInv
<1>1. UNCHANGED <<rows, blobs, cleanup, after>> /\ collections' \subseteq collections
  BY DEF CollectionNext, ClearDrop, DestroyDrop, ClearCreate, ClearRows, DestroyRow, fileVars, past, ragVars,
         LinkNext, PostCreate, PostAgain, UnlinkLoad, PostSave, PostPublish, UnlinkEmpty, UnlinkRow
<1>2. used \subseteq used' /\ halfway \subseteq halfway'
  BY DEF CollectionNext, ClearDrop, DestroyDrop, ClearCreate, ClearRows, DestroyRow, past,
         LinkNext, PostCreate, PostAgain, UnlinkLoad, PostSave, PostPublish, UnlinkEmpty, UnlinkRow
<1> QED BY <1>0, <1>1, <1>2, NotAboutFiles, SweepKept

LEMMA WorkerSweep == ASSUME SweepInv, WorkerNext PROVE SweepInv'
<1>1. UNCHANGED <<rows, blobs, cleanup, collections, handler, used, after>> /\ halfway \subseteq halfway'
  BY DEF WorkerNext, Receive, GetFileContent, AddChunks, MarkCompleted, MarkError, CallFails, WorkerCrash,
         past, fileVars, ragVars
<1>2. Uploading' = Uploading /\ Deleting' = Deleting
  BY <1>1 DEF Uploading, Deleting
<1> QED BY <1>1, <1>2, SweepKept

LEMMA OtherSweep ==
    ASSUME Base, SweepInv,
           Sweeping \/ (\E c \in Collections : CreateCollection(c)) \/ \E h \in Handlers : Abandon(h)
    PROVE  SweepInv'
<1>0. HandlersOK /\ CountsOK
  BY DEF Base, TypeInv
<1>1. used \subseteq used' /\ halfway \subseteq halfway' /\ after \subseteq after'
  BY DEF Sweeping, SweepFiles, SweepStores, SweepCollectionRows, CreateCollection, Abandon
<1>2. ASSUME NEW h \in Handlers, Abandon(h) PROVE SweepInv'
  <2>1. UNCHANGED <<rows, blobs, cleanup, collections, after, used>> /\ handler' = [handler EXCEPT ![h] = Idle]
    BY <1>2 DEF Abandon, fileVars, ragVars, Finish
  <2>2. handler[h].at \in FileSteps => handler[h].file \in halfway'
    <3>1. handler[h].file # None => handler[h].file \in halfway'
      BY <1>2 DEF Abandon
    <3> QED BY <1>0, <3>1, RetrievalAssumption DEF HandlersOK, WellFormed
  <2>3. UploadingOf(handler[h]) \cup DeletingOf(handler[h]) \subseteq halfway'
    BY <2>2 DEF UploadingOf, DeletingOf, FileSteps
  <2>4. UploadingOf(Idle) = {} /\ DeletingOf(Idle) = {}
    BY Nothing DEF UploadingOf, DeletingOf
  <2>5. /\ Uploading' \subseteq Uploading /\ Uploading \subseteq Uploading' \cup halfway'
        /\ Deleting' \subseteq Deleting /\ Deleting \subseteq Deleting' \cup halfway'
    BY <1>0, <2>1, <2>3, <2>4, FileRequestChange
  <2> QED BY <1>1, <2>1, <2>5 DEF SweepInv, FilesKnown, BlobsHaveRows, FilesSwept, CollectionsSwept
<1>3. ASSUME NEW c \in Collections, CreateCollection(c) PROVE SweepInv'
  <2>1. UNCHANGED <<rows, blobs, cleanup, handler>> /\ collections' = collections \cup {c}
        /\ (cleanup["collections"] = "confirmed" => c \in after')
    BY <1>3 DEF CreateCollection, fileVars, taskVars
  <2>2. Uploading' = Uploading /\ Deleting' = Deleting
    BY <2>1 DEF Uploading, Deleting
  <2> QED BY <1>1, <2>1, <2>2 DEF SweepInv, FilesKnown, BlobsHaveRows, FilesSwept, CollectionsSwept
<1>4. CASE SweepFiles
  <2>1. /\ cleanup["files"] = "none" /\ blobs' = blobs \ rows
        /\ UNCHANGED <<collections, handler, used, after>>
    BY <1>4 DEF SweepFiles, SweptBlobs, ragVars, taskVars
  <2>2. Uploading' = Uploading /\ Deleting' = Deleting
    BY <2>1 DEF Uploading, Deleting
  <2>3. cleanup'["collections"] = cleanup["collections"] /\ cleanup'["files"] \in {"confirmed", "lost"}
        /\ (cleanup'["files"] = "confirmed" => rows' = {}) /\ rows' \subseteq rows
    BY <1>0, <1>4 DEF SweepFiles, Confirm, CountsOK, Services
  <2> QED BY <1>1, <2>1, <2>2, <2>3 DEF SweepInv, FilesKnown, BlobsHaveRows, FilesSwept, CollectionsSwept
<1>5. CASE SweepStores \/ SweepCollectionRows
  <2>1. UNCHANGED <<rows, blobs, handler, used, after>>
    BY <1>5 DEF SweepStores, SweepCollectionRows, fileVars, taskVars
  <2>2. Uploading' = Uploading /\ Deleting' = Deleting
    BY <2>1 DEF Uploading, Deleting
  <2>3. cleanup'["files"] = cleanup["files"]
        /\ (cleanup'["collections"] = "confirmed" => collections' = {})
    BY <1>0, <1>5 DEF SweepStores, SweepCollectionRows, Confirm, CountsOK, Services
  <2> QED BY <1>1, <2>1, <2>2, <2>3 DEF SweepInv, FilesKnown, BlobsHaveRows, FilesSwept, CollectionsSwept
<1> QED BY <1>2, <1>3, <1>4, <1>5 DEF Sweeping

LEMMA SweepStep == ASSUME Base, SweepInv, [RetrievalNext]_retrievalVars PROVE SweepInv'
<1>1. CASE RetrievalNext
  BY <1>1, FileSweep, RequestSweep, WorkerSweep, OtherSweep DEF RetrievalNext, Sweeping
<1>2. CASE UNCHANGED retrievalVars
  <2>1. UNCHANGED <<rows, blobs, cleanup, collections, used, halfway, after, handler>>
    BY <1>2 DEF retrievalVars, fileVars, ragVars, past, taskVars
  <2>2. Uploading' = Uploading /\ Deleting' = Deleting
    BY <2>1 DEF Uploading, Deleting
  <2> QED BY <2>1, <2>2, SweepKept
<1> QED BY <1>1, <1>2

LEMMA InitSweep == RetrievalInit => SweepInv
<1> SUFFICES ASSUME RetrievalInit PROVE SweepInv
  OBVIOUS
<1>1. Uploading = {} /\ Deleting = {}
  BY Nothing DEF RetrievalInit, Uploading, Deleting, UploadingOf, DeletingOf
<1> QED BY <1>1 DEF RetrievalInit, SweepInv, FilesKnown, BlobsHaveRows, FilesSwept, CollectionsSwept

-----------------------------------------------------------------------------
(* A link that says it is completed has its chunks.                        *)

Completed == {l \in Links : links[l].status = "completed"}
Filled == {v.link : v \in vectors}
Good == Filled \cup Queued \cup Posting \cup BeingRemoved \cup wiped \cup halfway

IndexInv == \A l \in Completed : l \in Good \cup {worker.job.link} \/ content[links[l].file] = "blank"

\* What the worker is about to call completed is.
IndexedInv ==
    worker.step = "indexed" /\ worker.job.link \in Existing =>
        worker.job.link \in Good \/ content[worker.job.file] = "blank"

LEMMA IndexEnough == ASSUME IndexInv PROVE CompletedIsIndexed
<1> SUFFICES ASSUME NEW l \in Completed, content[links[l].file] # "blank",
                    l \notin BeingRemoved \cup wiped \cup halfway
    PROVE  l \in Filled \/ InHand(l)
  BY DEF CompletedIsIndexed, Completed, Filled
<1>1. l \in Filled \cup Queued \cup Posting \cup {worker.job.link}
  BY DEF IndexInv, Good
<1>2. CASE l \in Queued
  BY <1>2 DEF Queued, JobMentions, InHand
<1>3. CASE l \in Posting
  BY <1>3 DEF Posting, PostingOf, PostSteps, InHand
<1> QED BY <1>1, <1>2, <1>3 DEF InHand

LEMMA GoodLater ==
    ASSUME Base, Base', NEW l \in Good, l \in Links,
           l \in Filled => l \in Good', l \in Queued \cup Posting => l \in Good',
           l \in Unlinking => l \in Unlinking' \cup halfway',
           links[l].coll \in Clearing => links'[l].coll \in Clearing' \/ l \in halfway',
           Emptied /\ l \in Existing => (Emptied' /\ l \in Existing') \/ l \in halfway',
           wiped \subseteq wiped', halfway \subseteq halfway'
    PROVE  l \in Good'
<1>1. BeingRemoved = RemovalParts /\ (BeingRemoved = RemovalParts)'
  BY Removal DEF Base, TypeInv
<1>2. CASE l \in BeingRemoved
  <2>1. l \in Unlinking \/ links[l].coll \in Clearing \/ (Emptied /\ l \in Existing)
    BY <1>1, <1>2 DEF RemovalParts, Emptied
  <2>2. l \in Unlinking' \/ links'[l].coll \in Clearing' \/ (Emptied' /\ l \in Existing') \/ l \in halfway'
    BY <2>1
  <2>3. l \in RemovalParts' \/ l \in halfway'
    BY <2>2 DEF RemovalParts, Emptied
  <2> QED BY <1>1, <2>3 DEF Good
<1> QED BY <1>2 DEF Good

LEMMA RemovedIsGood ==
    ASSUME Base, Base', NEW l \in Links,
           l \in Unlinking' \/ links'[l].coll \in Clearing' \/ (Emptied' /\ l \in Existing')
    PROVE  l \in Good'
<1>1. (BeingRemoved = RemovalParts)'
  BY Removal DEF Base, TypeInv
<1> QED BY <1>1 DEF RemovalParts, Emptied, Good

\* No link that stays stops being good, and no link that appears is not.
KeepsGood == \A l \in Existing' : (l \in Existing => l \in Good) => l \in Good'
\* No link becomes completed.
NoneCompleted == \A l \in Completed' : l \in Completed /\ links'[l].file = links[l].file

LEMMA IndexKept ==
    ASSUME Base, Base', IndexInv, IndexedInv, UNCHANGED content, worker'.job = worker.job,
           worker'.step = "indexed" => worker.step = "indexed", KeepsGood, NoneCompleted
    PROVE  IndexInv' /\ IndexedInv'
<1>1. Completed' \subseteq Existing'
  BY Nothing DEF Completed, Existing
<1>2. IndexInv'
  BY <1>1 DEF IndexInv, KeepsGood, NoneCompleted
<1>3. IndexedInv'
  BY DEF IndexedInv, KeepsGood
<1> QED BY <1>2, <1>3

\* Chunks, rows and the cleanup stay as they are, and the requests but for what a mishap ends.
LEMMA GoodSame ==
    ASSUME Base, Base', UNCHANGED <<links, vectors, cleanup>>,
           Queued \cup Posting \subseteq Queued' \cup Posting' \cup halfway',
           Unlinking \subseteq Unlinking' \cup halfway',
           \A l \in Links : links[l].coll \in Clearing => links[l].coll \in Clearing' \/ l \in halfway',
           wiped \subseteq wiped', halfway \subseteq halfway'
    PROVE  KeepsGood /\ NoneCompleted
<1>1. Existing' = Existing /\ Filled' = Filled /\ Emptied' = Emptied /\ Existing \subseteq Links
  BY DEF Existing, Filled, Emptied
<1>2. Filled' \cup Queued' \cup Posting' \cup halfway' \subseteq Good'
  BY DEF Good
<1>3. \A l \in Existing : l \in Good => l \in Good'
  BY <1>1, <1>2, GoodLater
<1> QED BY <1>1, <1>3 DEF KeepsGood, NoneCompleted, Completed

LEMMA FileIndex == ASSUME Base, Base', IndexInv, IndexedInv, NEW h \in Handlers, FileNext(h) PROVE IndexInv' /\ IndexedInv'
<1>0. HandlersOK
  BY DEF Base, TypeInv
<1>1. UNCHANGED <<content, links, vectors, jobs, worker, cleanup, wiped, halfway>>
  BY DEF FileNext, UploadStore, DeleteFileBlob, UploadRow, DeleteFileRow, past, ragVars
<1>2. Posting \subseteq Posting' /\ Unlinking \subseteq Unlinking' /\ Clearing \subseteq Clearing'
  <2>1. CASE \E f \in Files : UploadStore(h, f) \/ DeleteFileBlob(h, f)
    BY <1>0, <2>1, StartRequest DEF UploadStore, DeleteFileBlob
  <2>2. CASE UploadRow(h) \/ DeleteFileRow(h)
    <3>1. PostingOf(handler[h]) = {} /\ UnlinkingOf(handler[h]) = {} /\ ClearingOf(handler[h]) = {}
      BY <2>2 DEF UploadRow, DeleteFileRow, PostingOf, UnlinkingOf, ClearingOf, PostSteps, RemovalSteps
    <3> QED BY <1>0, <2>2, <3>1, FinishRequest DEF UploadRow, DeleteFileRow
  <2> QED BY <2>1, <2>2 DEF FileNext
<1>3. Queued' = Queued
  BY <1>1, QueueChange
<1>4. KeepsGood /\ NoneCompleted
  BY <1>1, <1>2, <1>3, GoodSame
<1> QED BY <1>1, <1>4, IndexKept

LEMMA DropIndex ==
    ASSUME Base, Base', IndexInv, IndexedInv, NEW h \in Handlers, NEW c \in Collections,
           ClearDrop(h, c) \/ DestroyDrop(h, c)
    PROVE  IndexInv' /\ IndexedInv'
<1>0. HandlersOK /\ RagOK /\ WorkerOK
  BY DEF Base, TypeInv
<1>1. /\ Start(h, "clear dropped", None, c, None) \/ Start(h, "destroy emptied", None, c, None)
      /\ UNCHANGED <<content, links, jobs, cleanup, wiped>> /\ halfway \subseteq halfway'
      /\ Drop({c}) \/ UNCHANGED <<vectors, worker>>
  BY DEF ClearDrop, DestroyDrop, past, fileVars
<1>2. /\ Posting \subseteq Posting' /\ Unlinking' = Unlinking /\ Clearing' = Clearing \cup {c}
      /\ Existing' = Existing /\ Emptied' = Emptied /\ Queued' = Queued
  <2>1. \A at \in {"clear dropped", "destroy emptied"} : at \in RemovalSteps /\ at # "unlink emptied" /\ at \notin PostSteps
    BY DEF RemovalSteps, PostSteps
  <2>2. \A at : at \in RemovalSteps /\ at # "unlink emptied" /\ at \notin PostSteps /\ Start(h, at, None, c, None) =>
            Posting' = Posting /\ Unlinking' = Unlinking /\ Clearing' = Clearing \cup {c}
    BY <1>0, StartRequest
  <2>3. Posting' = Posting /\ Unlinking' = Unlinking /\ Clearing' = Clearing \cup {c}
    BY <1>1, <2>1, <2>2
  <2>4. Existing' = Existing /\ Emptied' = Emptied /\ Queued' = Queued
    BY <1>1, QueueChange DEF Existing, Emptied
  <2> QED BY <2>3, <2>4
<1>3. \A v \in vectors : v \in vectors' \/ v.coll = c
  BY <1>1 DEF Drop
<1>4. worker'.job = worker.job /\ (worker'.step = "indexed" => worker.step = "indexed")
  BY <1>0, <1>1, DropOK
<1>5. ASSUME NEW l \in Existing, l \in Good PROVE l \in Good'
  <2>1. l \in Links
    BY DEF Existing
  <2>2. CASE l \in Filled /\ l \notin Filled'
    <3>1. PICK v \in vectors : v.link = l /\ v.coll = c
      BY <1>3, <2>2 DEF Filled
    <3>2. links[l].coll = c
      BY <3>1, VectorOfLink
    <3> QED BY <1>1, <1>2, <2>1, <3>2, RemovedIsGood
  <2>3. l \in Filled => l \in Good'
    BY <2>2 DEF Good
  <2>4. l \in Queued \cup Posting => l \in Good'
    BY <1>2 DEF Good
  <2> QED BY <1>1, <1>2, <1>5, <2>1, <2>3, <2>4, GoodLater
<1>6. KeepsGood /\ NoneCompleted
  BY <1>1, <1>2, <1>5 DEF KeepsGood, NoneCompleted, Completed
<1> QED BY <1>1, <1>4, <1>6, IndexKept

\* Links whose rows go with a collection, or a clearing that stops halfway.
LEMMA RowsIndex ==
    ASSUME Base, Base', IndexInv, IndexedInv, NEW h \in Handlers, ClearCreate(h) \/ ClearRows(h) \/ DestroyRow(h)
    PROVE  IndexInv' /\ IndexedInv'
<1>0. HandlersOK /\ RagOK
  BY DEF Base, TypeInv
<1> DEFINE c == handler[h].coll
<1>1. UNCHANGED <<content, vectors, jobs, worker, cleanup, wiped>> /\ halfway \subseteq halfway'
  BY DEF ClearCreate, ClearRows, DestroyRow, past, fileVars
<1>2. PostingOf(handler[h]) = {} /\ UnlinkingOf(handler[h]) = {} /\ ClearingOf(handler[h]) = {c}
  BY DEF ClearCreate, ClearRows, DestroyRow, PostingOf, UnlinkingOf, ClearingOf, PostSteps, RemovalSteps
<1>3. Queued' = Queued /\ Filled' = Filled /\ Emptied' = Emptied
  BY <1>1, QueueChange DEF Filled, Emptied
<1>4. CASE Go(h, "clear emptied") /\ UNCHANGED links
  <2>1. handler[h].at = "clear dropped"
    BY <1>4, <1>0 DEF ClearCreate, ClearRows, DestroyRow, Go, Finish, Idle, HandlersOK
  <2>2. handler[h].at \in RemovalSteps /\ "clear emptied" \in RemovalSteps
    BY <2>1 DEF RemovalSteps
  <2>3. Posting' = Posting /\ Unlinking' = Unlinking /\ Clearing' = Clearing
    BY <1>0, <1>4, <2>2, GoRequest
  <2>4. KeepsGood /\ NoneCompleted
    BY <1>1, <1>3, <1>4, <2>3, GoodSame
  <2> QED BY <1>1, <2>4, IndexKept
<1>5. CASE Finish(h)
  <2>1. Posting \subseteq Posting' /\ Unlinking \subseteq Unlinking' /\ Clearing \subseteq Clearing' \cup {c}
    BY <1>0, <1>2, <1>5, FinishRequest
  <2>2. CASE UNCHANGED links /\ LinksOf(c) \subseteq halfway'
    <3>1. \A l \in Links : links[l].coll \in Clearing => links[l].coll \in Clearing' \/ l \in halfway'
      BY <2>1, <2>2 DEF LinksOf
    <3> HIDE DEF c
    <3>2. KeepsGood /\ NoneCompleted
      BY <1>1, <1>3, <2>1, <2>2, <3>1, GoodSame
    <3> QED BY <1>1, <3>2, IndexKept
  <2>3. CASE links' = Unlinked({c})
    <3>1. \A l \in Existing' : l \in Links /\ l \in Existing /\ links[l].coll # c /\ links'[l] = links[l]
      BY <2>3 DEF Unlinked, Existing
    <3> HIDE DEF c
    <3>2. Filled' \cup Queued' \cup Posting' \subseteq Good'
      BY DEF Good
    <3>3. KeepsGood
      <4> SUFFICES ASSUME NEW l \in Existing', l \in Good PROVE l \in Good'
        BY <3>1 DEF KeepsGood
      <4> QED BY <1>1, <1>3, <2>1, <3>1, <3>2, GoodLater
    <3>4. NoneCompleted
      BY <3>1, Nothing DEF NoneCompleted, Completed, Existing
    <3> QED BY <1>1, <3>3, <3>4, IndexKept
  <2>4. (UNCHANGED links /\ LinksOf(c) \subseteq halfway') \/ links' = Unlinked({c})
    <3>1. ASSUME ClearCreate(h) PROVE UNCHANGED links /\ (LinksOf(c) \subseteq halfway' \/ Go(h, "clear emptied"))
      BY <3>1 DEF ClearCreate
    <3>2. ASSUME NEW at, at # "idle" PROVE ~Go(h, at)
      BY <1>0, <1>5, <3>2 DEF Go, Finish, HandlersOK, HandlerState, Idle
    <3>3. "clear emptied" # "idle"
      OBVIOUS
    <3> QED BY <3>1, <3>2, <3>3 DEF ClearRows, DestroyRow
  <2> QED BY <2>2, <2>3, <2>4
<1> QED BY <1>4, <1>5 DEF ClearCreate, ClearRows, DestroyRow

\* A row that is written by a request, or removed by it; every other row stays.
LEMMA OneRowIndex ==
    ASSUME Base, Base', IndexInv, IndexedInv, NEW l \in Links,
           UNCHANGED <<content, vectors, worker, cleanup>>, wiped \subseteq wiped', halfway \subseteq halfway',
           \A k \in Links : k # l => links'[k] = links[k],
           l \in Existing' => l \in Queued' \cup Posting' \cup halfway',
           l \in Completed' => l \in Completed /\ links'[l].file = links[l].file,
           Queued \subseteq Queued', Posting \subseteq Posting' \cup {l}, Unlinking \subseteq Unlinking' \cup {l},
           Clearing \subseteq Clearing'
    PROVE  IndexInv' /\ IndexedInv'
<1>1. Filled' = Filled /\ Emptied' = Emptied /\ Existing' \subseteq Links /\ Completed' \subseteq Links
  BY DEF Filled, Emptied, Existing, Completed
<1>2. Filled' \cup Queued' \cup Posting' \cup halfway' \subseteq Good'
  BY DEF Good
<1>3. KeepsGood
  <2> SUFFICES ASSUME NEW k \in Existing', k \in Existing => k \in Good PROVE k \in Good'
    BY DEF KeepsGood
  <2>1. CASE k = l
    BY <1>2, <2>1
  <2>2. CASE k # l
    <3>1. links'[k] = links[k] /\ k \in Links /\ k \in Existing
      BY <1>1, <2>2 DEF Existing
    <3> QED BY <1>1, <1>2, <2>2, <3>1, GoodLater
  <2> QED BY <2>1, <2>2
<1>4. NoneCompleted
  BY <1>1 DEF NoneCompleted, Completed
<1> QED BY <1>3, <1>4, IndexKept

LEMMA LinkIndex == ASSUME Base, Base', IndexInv, IndexedInv, NEW h \in Handlers, LinkNext(h) PROVE IndexInv' /\ IndexedInv'
<1>0. HandlersOK /\ RagOK /\ QueueOK
  BY DEF Base, TypeInv
<1>1. UNCHANGED <<content, worker, cleanup>> /\ wiped \subseteq wiped' /\ halfway \subseteq halfway'
  BY DEF LinkNext, PostCreate, PostAgain, UnlinkLoad, PostSave, PostPublish, UnlinkEmpty, UnlinkRow, past, fileVars
<1>2. ASSUME NEW c \in Collections, NEW f \in Files, NEW l \in Links, PostCreate(h, c, f, l)
      PROVE  IndexInv' /\ IndexedInv'
  <2>1. Posting' = Posting \cup {l} /\ Queued' = Queued
    BY <1>0, <1>2, StartRequest, QueueChange DEF PostCreate, PostSteps
  <2>2. Unlinking' = Unlinking /\ Clearing' = Clearing /\ UNCHANGED vectors
    BY <1>0, <1>2, StartsNoRemoval DEF PostCreate, PostSteps
  <2>3. (\A k \in Links : k # l => links'[k] = links[k]) /\ links'[l].status = "pending"
    BY <1>0, <1>2 DEF PostCreate, RagOK
  <2>4. l \notin Completed'
    BY <2>3 DEF Completed
  <2> QED BY <1>1, <2>1, <2>2, <2>3, <2>4, OneRowIndex
<1>3. ASSUME NEW l \in Links, PostAgain(h, l) \/ UnlinkLoad(h, l) PROVE IndexInv' /\ IndexedInv'
  <2>1. Posting \subseteq Posting' /\ UNCHANGED <<links, vectors>> /\ Queued' = Queued
    BY <1>0, <1>3, StartRequest, QueueChange DEF PostAgain, UnlinkLoad, ragVars
  <2>2. Unlinking' = Unlinking /\ Clearing' = Clearing
    BY <1>0, <1>3, StartsNoRemoval DEF PostAgain, UnlinkLoad, PostSteps
  <2>3. KeepsGood /\ NoneCompleted
    BY <1>1, <2>1, <2>2, GoodSame
  <2> QED BY <1>1, <2>3, IndexKept
<1>4. CASE PostSave(h)
  <2>1. /\ handler[h].at \in PostSteps /\ Queued' = Queued /\ UNCHANGED vectors
        /\ PostingOf(handler[h]) = {handler[h].link} /\ UnlinkingOf(handler[h]) = {} /\ ClearingOf(handler[h]) = {}
    BY <1>4, QueueChange DEF PostSave, PostSteps, RemovalSteps, PostingOf, UnlinkingOf, ClearingOf
  <2>2. PostingOf(handler[h]) \subseteq Posting /\ handler[h].link \in Links
    BY <1>0, <2>1, SavedOK DEF Posting
  <2>3. CASE CanSave(h) /\ links' = SavedLink(h, "pending") /\ Go(h, "post saved")
    <3>1. Posting' = Posting /\ Unlinking' = Unlinking /\ Clearing' = Clearing
      BY <1>0, <2>1, <2>3, GoRequest DEF PostSteps
    <3>2. (\A k \in Links : k # handler[h].link => links'[k] = links[k]) /\ links'[handler[h].link].status = "pending"
      BY <1>0, <2>2, <2>3 DEF SavedLink, RagOK
    <3>3. handler[h].link \notin Completed'
      BY <3>2 DEF Completed
    <3> QED BY <1>1, <2>1, <2>2, <3>1, <3>2, <3>3, OneRowIndex
  <2>4. CASE ~CanSave(h) /\ Finish(h) /\ UNCHANGED links
    <3>1. handler[h].link \notin Existing
      BY <2>1, <2>4, SaveFails
    <3>2. Posting \subseteq Posting' \cup {handler[h].link} /\ Unlinking \subseteq Unlinking' /\ Clearing \subseteq Clearing'
      BY <1>0, <2>1, <2>4, FinishRequest
    <3>3. handler[h].link \notin Existing' /\ handler[h].link \notin Completed'
      BY <2>4, <3>1, Nothing DEF Completed, Existing
    <3> QED BY <1>1, <2>1, <2>2, <2>4, <3>2, <3>3, OneRowIndex
  <2> QED BY <1>4, <2>3, <2>4 DEF PostSave
<1>5. CASE PostPublish(h)
  <2>1. /\ handler[h].at \in PostSteps /\ UNCHANGED vectors
        /\ PostingOf(handler[h]) = {handler[h].link} /\ UnlinkingOf(handler[h]) = {} /\ ClearingOf(handler[h]) = {}
    BY <1>5 DEF PostPublish, PostSteps, RemovalSteps, PostingOf, UnlinkingOf, ClearingOf
  <2>2. Posting \subseteq Posting' \cup {handler[h].link} /\ Unlinking \subseteq Unlinking' /\ Clearing \subseteq Clearing'
    BY <1>0, <1>5, <2>1, FinishRequest DEF PostPublish
  <2>3. handler[h].link \in Queued' \cup halfway' /\ Queued \subseteq Queued' /\ handler[h].link \in Links
    <3> DEFINE x == Triple(handler[h])
    <3>1. x \in Job /\ x.link = handler[h].link /\ handler[h].link \in Links
      BY <1>0, <2>1 DEF HandlersOK, WellFormed, LinkSteps, Triple, Job
    <3>2. jobs' = Append(jobs, x) \/ (UNCHANGED jobs /\ handler[h].link \in halfway')
      BY <1>5 DEF PostPublish, Triple
    <3> HIDE DEF x
    <3> QED BY <1>0, <3>1, <3>2, QueueChange DEF QueueOK
  <2>4. UNCHANGED links \/ links' = SavedLink(h, "error")
    BY <1>5 DEF PostPublish
  <2>5. \A k \in Links : k # handler[h].link => links'[k] = links[k]
    BY <1>0, <2>4 DEF SavedLink, RagOK
  <2>6. handler[h].link \in Completed' => UNCHANGED links
    BY <1>0, <2>3, <2>4 DEF SavedLink, RagOK, Completed
  <2>7. handler[h].link \in Completed' =>
            handler[h].link \in Completed /\ links'[handler[h].link].file = links[handler[h].link].file
    BY <2>6 DEF Completed
  <2> QED BY <1>1, <2>1, <2>2, <2>3, <2>5, <2>7, OneRowIndex
<1>6. CASE UnlinkEmpty(h)
  <2>1. /\ handler[h].at = "unlink loaded" /\ UNCHANGED links /\ Queued' = Queued
        /\ PostingOf(handler[h]) = {} /\ UnlinkingOf(handler[h]) = {} /\ ClearingOf(handler[h]) = {}
    BY <1>6, QueueChange DEF UnlinkEmpty, PostSteps, RemovalSteps, PostingOf, UnlinkingOf, ClearingOf
  <2>2. CASE Finish(h) /\ UNCHANGED vectors
    <3>1. Posting \subseteq Posting' /\ Unlinking \subseteq Unlinking' /\ Clearing \subseteq Clearing'
      BY <1>0, <2>1, <2>2, FinishRequest
    <3>2. KeepsGood /\ NoneCompleted
      BY <1>1, <2>1, <2>2, <3>1, GoodSame
    <3> QED BY <1>1, <3>2, IndexKept
  <2>3. CASE Go(h, "unlink emptied") /\ \A v \in vectors : v \in vectors' \/ v.link \in wiped' \cup {handler[h].link}
    <3>1. Posting' = Posting /\ Unlinking' = Unlinking \cup {handler[h].link} /\ Clearing' = Clearing
      BY <1>0, <2>1, <2>3, GoRequest
    <3>2. Existing' = Existing /\ Emptied' = Emptied /\ Existing \subseteq Links
      BY <1>1, <2>1 DEF Existing, Emptied
    <3>3. Filled \subseteq Filled' \cup wiped' \cup {handler[h].link}
      BY <2>3 DEF Filled
    <3>4. \A l \in Existing : l = handler[h].link => l \in Good'
      BY <3>1, <3>2, RemovedIsGood
    <3>5. Filled' \cup Queued' \cup Posting' \cup wiped' \subseteq Good'
      BY DEF Good
    <3>6. \A l \in Existing : l \in Good => l \in Good'
      BY <1>1, <2>1, <3>1, <3>2, <3>3, <3>4, <3>5, GoodLater
    <3>7. KeepsGood /\ NoneCompleted
      BY <2>1, <3>2, <3>6 DEF KeepsGood, NoneCompleted, Completed
    <3> QED BY <1>1, <3>7, IndexKept
  <2>4. (Finish(h) /\ UNCHANGED vectors)
        \/ (Go(h, "unlink emptied") /\ vectors' = Without(handler[h].coll, handler[h].file)
              /\ wiped' = wiped \cup ({v.link : v \in vectors \ Without(handler[h].coll, handler[h].file)}
                                        \ {handler[h].link}))
    BY <1>6 DEF UnlinkEmpty
  <2>5. (Finish(h) /\ UNCHANGED vectors)
        \/ (Go(h, "unlink emptied") /\ \A v \in vectors : v \in vectors' \/ v.link \in wiped' \cup {handler[h].link})
    <3> DEFINE w == Without(handler[h].coll, handler[h].file)
    <3> HIDE DEF w
    <3>1. ASSUME vectors' = w, wiped' = wiped \cup ({v.link : v \in vectors \ w} \ {handler[h].link})
          PROVE  \A v \in vectors : v \in vectors' \/ v.link \in wiped' \cup {handler[h].link}
      BY <3>1
    <3> QED BY <2>4, <3>1 DEF w
  <2> QED BY <2>2, <2>3, <2>5
<1>7. CASE UnlinkRow(h)
  <2>1. /\ handler[h].at \in LinkSteps /\ Queued' = Queued /\ UNCHANGED vectors
        /\ PostingOf(handler[h]) = {} /\ UnlinkingOf(handler[h]) = {handler[h].link} /\ ClearingOf(handler[h]) = {}
    BY <1>7, QueueChange DEF UnlinkRow, LinkSteps, PostSteps, RemovalSteps, PostingOf, UnlinkingOf, ClearingOf
  <2>2. Posting \subseteq Posting' /\ Unlinking \subseteq Unlinking' \cup {handler[h].link} /\ Clearing \subseteq Clearing'
    BY <1>0, <1>7, <2>1, FinishRequest DEF UnlinkRow
  <2>3. handler[h].link \in Links
    BY <2>1, RequestOfLink
  <2>4. (\A k \in Links : k # handler[h].link => links'[k] = links[k]) /\ links'[handler[h].link] = NoLink
    BY <1>0, <1>7, <2>3 DEF UnlinkRow, RagOK
  <2>5. handler[h].link \notin Existing' /\ handler[h].link \notin Completed'
    BY <2>4, Nothing DEF Existing, Completed
  <2> QED BY <1>1, <2>1, <2>2, <2>3, <2>4, <2>5, OneRowIndex
<1> QED BY <1>2, <1>3, <1>4, <1>5, <1>6, <1>7 DEF LinkNext

LEMMA OtherIndex ==
    ASSUME Base, Base', IndexInv, IndexedInv,
           Sweeping \/ (\E c \in Collections : CreateCollection(c)) \/ \E h \in Handlers : Abandon(h)
    PROVE  IndexInv' /\ IndexedInv'
<1>0. HandlersOK /\ RagOK /\ WorkerOK /\ CountsOK
  BY DEF Base, TypeInv
<1>1. UNCHANGED <<content, jobs, wiped>> /\ halfway \subseteq halfway'
  BY DEF Sweeping, SweepFiles, SweepStores, SweepCollectionRows, CreateCollection, Abandon, taskVars, fileVars
<1>2. Queued' = Queued
  BY <1>1, QueueChange
<1>3. Filled' \cup Queued' \cup Posting' \cup halfway' \subseteq Good'
  BY DEF Good
<1>4. ASSUME NEW h \in Handlers, Abandon(h) PROVE IndexInv' /\ IndexedInv'
  <2>1. UNCHANGED <<links, vectors, worker, cleanup>>
    BY <1>4 DEF Abandon, ragVars
  <2>2. handler[h].link # None => handler[h].link \in halfway'
    BY <1>4 DEF Abandon
  <2>3. handler[h].at \in LinkSteps => handler[h].link \in halfway'
    BY <2>2, RequestOfLink
  <2>4. PostingOf(handler[h]) \cup UnlinkingOf(handler[h]) \subseteq halfway'
    BY <2>3 DEF PostingOf, UnlinkingOf, LinkSteps
  <2>5. \A l \in Links : links[l].coll \in ClearingOf(handler[h]) => l \in halfway'
    BY <1>4 DEF Abandon, ClearingOf, RemovalSteps, LinksOf
  <2>6. /\ Posting \subseteq Posting' \cup halfway' /\ Unlinking \subseteq Unlinking' \cup halfway'
        /\ Clearing \subseteq Clearing' \cup ClearingOf(handler[h])
    BY <1>0, <1>4, <2>4, FinishRequest DEF Abandon
  <2>7. \A l \in Links : links[l].coll \in Clearing => links[l].coll \in Clearing' \/ l \in halfway'
    BY <2>5, <2>6
  <2>8. KeepsGood /\ NoneCompleted
    BY <1>1, <1>2, <2>1, <2>6, <2>7, GoodSame
  <2> QED BY <1>1, <2>1, <2>8, IndexKept
<1>5. CASE SweepFiles \/ \E c \in Collections : CreateCollection(c)
  <2>1. UNCHANGED <<links, vectors, handler, worker>> /\ cleanup'["collections"] = cleanup["collections"]
    BY <1>0, <1>5 DEF SweepFiles, Confirm, CreateCollection, ragVars, taskVars, CountsOK, Services
  <2>2. /\ Posting' = Posting /\ Unlinking' = Unlinking /\ Clearing' = Clearing /\ Emptied' = Emptied
        /\ Existing' = Existing /\ Filled' = Filled /\ Existing \subseteq Links
    BY <2>1 DEF Posting, Unlinking, Clearing, Emptied, Existing, Filled
  <2>3. \A l \in Existing : l \in Good => l \in Good'
    BY <1>1, <1>2, <1>3, <2>1, <2>2, GoodLater
  <2>4. KeepsGood /\ NoneCompleted
    BY <2>1, <2>2, <2>3 DEF KeepsGood, NoneCompleted, Completed
  <2> QED BY <1>1, <2>1, <2>4, IndexKept
<1>6. CASE SweepStores
  <2>1. UNCHANGED <<links, handler>>
    BY <1>6 DEF SweepStores
  <2>2. Posting' = Posting /\ Unlinking' = Unlinking /\ Clearing' = Clearing /\ Existing' = Existing /\ Existing \subseteq Links
    BY <2>1 DEF Posting, Unlinking, Clearing, Existing
  <2>3. cleanup["collections"] = "none" /\ (Emptied' \/ UNCHANGED vectors)
    BY <1>0, <1>6 DEF SweepStores, CountsOK, Services, Emptied
  <2>4. worker'.job = worker.job /\ (worker'.step = "indexed" => worker.step = "indexed")
    BY <1>0, <1>6, DropOK DEF SweepStores
  <2>5. CASE Emptied'
    <3>1. \A l \in Existing : l \in Good'
      BY <2>2, <2>5, RemovedIsGood
    <3>2. KeepsGood /\ NoneCompleted
      BY <2>1, <2>2, <3>1 DEF KeepsGood, NoneCompleted, Completed
    <3> QED BY <1>1, <2>4, <3>2, IndexKept
  <2>6. CASE UNCHANGED vectors
    <3>1. ~Emptied /\ Filled' = Filled
      BY <2>3, <2>6 DEF Emptied, Filled
    <3>2. \A l \in Existing : l \in Good => l \in Good'
      BY <1>1, <1>2, <1>3, <2>1, <2>2, <3>1, GoodLater
    <3>3. KeepsGood /\ NoneCompleted
      BY <2>1, <2>2, <3>2 DEF KeepsGood, NoneCompleted, Completed
    <3> QED BY <1>1, <2>4, <3>3, IndexKept
  <2> QED BY <2>3, <2>5, <2>6
<1>7. CASE SweepCollectionRows
  <2>1. UNCHANGED <<vectors, worker>>
    BY <1>7 DEF SweepCollectionRows, taskVars
  <2>2. CASE links' = [l \in Links |-> NoLink]
    <3>1. \A l \in Links : links'[l] = NoLink
      BY <2>2
    <3>2. KeepsGood /\ NoneCompleted
      BY <3>1, Nothing DEF KeepsGood, NoneCompleted, Completed, Existing
    <3> QED BY <1>1, <2>1, <3>2, IndexKept
  <2>3. CASE UNCHANGED links /\ halfway' = halfway \cup {l \in Links : LinkExists(l)}
    <3>1. Existing' = Existing /\ Existing \subseteq halfway'
      BY <2>3 DEF Existing, LinkExists
    <3>2. KeepsGood /\ NoneCompleted
      BY <1>3, <2>3, <3>1 DEF KeepsGood, NoneCompleted, Completed
    <3> QED BY <1>1, <2>1, <3>2, IndexKept
  <2> QED BY <1>7, <2>2, <2>3 DEF SweepCollectionRows
<1> QED BY <1>4, <1>5, <1>6, <1>7 DEF Sweeping

\* The worker adds chunks before it says that a link is completed, and takes none away.
LEMMA WorkerGood ==
    ASSUME Base, Base', WorkerNext
    PROVE  /\ UNCHANGED <<content, wiped>> /\ halfway \subseteq halfway'
           /\ \A l \in Good : l \in Links => l \in Good' \/ l \in Queued \ Queued'
           /\ Existing' = Existing /\ \A l \in Links : links'[l].file = links[l].file
<1>0. RagOK /\ QueueOK /\ WorkerOK
  BY DEF Base, TypeInv
<1>1. UNCHANGED <<content, handler, cleanup, wiped>> /\ halfway \subseteq halfway' /\ vectors \subseteq vectors'
  BY DEF WorkerNext, Receive, GetFileContent, AddChunks, MarkCompleted, MarkError, CallFails, WorkerCrash,
         past, fileVars, ragVars
<1>2. Posting' = Posting /\ Unlinking' = Unlinking /\ Clearing' = Clearing /\ Emptied' = Emptied /\ Filled \subseteq Filled'
  BY <1>1 DEF Posting, Unlinking, Clearing, Emptied, Filled
<1>3. \A l \in Links : /\ links'[l].coll = links[l].coll /\ links'[l].file = links[l].file
                       /\ links[l] = NoLink <=> links'[l] = NoLink
  <2>1. ASSUME NEW l \in Links, NEW status \in {"pending", "ingesting", "completed", "error"},
               UpdateFileLinkStatus(l, status), NEW k \in Links
        PROVE  /\ links'[k].coll = links[k].coll /\ links'[k].file = links[k].file
               /\ links[k] = NoLink <=> links'[k] = NoLink
    BY <1>0, <2>1, StatusOK, Nothing DEF LinkExists
  <2>2. CASE Receive
    <3>1. Head(jobs) \in Job
      BY <1>0, <2>2 DEF Receive, QueueOK
    <3>2. Head(jobs).link \in Links
      BY <3>1 DEF Job
    <3> QED BY <2>1, <2>2, <3>2 DEF Receive
  <2>3. CASE MarkCompleted \/ MarkError
    <3>1. worker.job.link \in Links
      BY <1>0, <2>3 DEF MarkCompleted, MarkError, At, WorkerOK, Job
    <3>2. \E status \in {"completed", "error"} : UpdateFileLinkStatus(worker.job.link, status)
      BY <2>3 DEF MarkCompleted, MarkError, Failed, UpdateFileLinkStatus
    <3> QED BY <2>1, <3>1, <3>2
  <2>4. CASE UNCHANGED links
    BY <2>4
  <2> QED BY <2>2, <2>3, <2>4 DEF WorkerNext, GetFileContent, AddChunks, CallFails, WorkerCrash, ragVars
<1>4. Existing' = Existing
  BY <1>3 DEF Existing
<1>5. Filled' \cup Queued' \cup Posting' \subseteq Good'
  BY DEF Good
<1>6. \A l \in Good : l \in Links /\ l \notin Queued \ Queued' => l \in Good'
  BY <1>1, <1>2, <1>3, <1>4, <1>5, GoodLater
<1> QED BY <1>1, <1>3, <1>4, <1>6

LEMMA WorkerIndex == ASSUME Base, Base', IndexInv, IndexedInv, WorkerNext PROVE IndexInv' /\ IndexedInv'
<1>0. RagOK /\ QueueOK /\ WorkerOK
  BY DEF Base, TypeInv
<1>1. /\ UNCHANGED content /\ halfway' \cup Queued' \cup Filled' \subseteq Good'
      /\ \A l \in Good : l \in Links => l \in Good' \/ l \in Queued \ Queued'
      /\ Existing' = Existing /\ \A l \in Links : links'[l].file = links[l].file
  BY WorkerGood DEF Good
<1>2. worker.step # "idle" => worker.job \in Job /\ worker.job.link \in Links
  BY <1>0 DEF WorkerOK, Job
<1>3. Completed' \subseteq Links /\ Completed \subseteq Links /\ Existing \subseteq Links
  BY DEF Completed, Existing
<1>4. CASE Receive
  <2>1. Head(jobs) \in Job /\ Queued \subseteq Queued' \cup {worker'.job.link} /\ worker'.job = Head(jobs)
        /\ worker'.step # "indexed"
    BY <1>0, <1>4, QueueChange DEF Receive, QueueOK
  <2>2. worker.job.link = None /\ Head(jobs).link \in Links
    BY <1>0, <1>4, <2>1, Nothing DEF Receive, At, WorkerOK, Job
  <2>3. Completed' \subseteq Completed
    BY <1>0, <1>4, <2>2, StatusOK DEF Receive, Completed
  <2>4. None \notin Completed
    BY RetrievalAssumption DEF Completed
  <2>5. IndexInv'
    BY <1>1, <1>3, <2>1, <2>2, <2>3, <2>4 DEF IndexInv
  <2> QED BY <2>1, <2>5 DEF IndexedInv
<1>5. ASSUME Queued \subseteq Queued' PROVE \A l \in Good : l \in Links => l \in Good'
  BY <1>1, <1>5
<1>6. CASE GetFileContent \/ AddChunks \/ (CallFails /\ ~At("failed"))
  <2>1. UNCHANGED <<links, jobs>> /\ worker.step # "idle" /\ \E step : Goes(step)
    BY <1>6 DEF GetFileContent, AddChunks, CallFails, At, ragVars
  <2>2. worker'.job = worker.job /\ Queued' = Queued /\ Completed' = Completed
    BY <1>0, <2>1, QueueChange DEF Goes, WorkerOK, Completed
  <2>3. IndexInv'
    BY <1>1, <1>3, <1>5, <2>2 DEF IndexInv
  <2>4. worker'.step = "indexed" => worker.job.link \in Filled' \/ content[worker.job.file] = "blank"
    <3>1. CASE GetFileContent
      BY <1>0, <3>1 DEF GetFileContent, Goes, WorkerOK, Parsed
    <3>2. CASE AddChunks
      <4>1. CASE At("opened") /\ vectors' = vectors \cup {worker.job}
        BY <4>1 DEF Filled
      <4>2. CASE Goes("failed")
        BY <1>0, <4>2 DEF Goes, WorkerOK
      <4> QED BY <3>2, <4>1, <4>2 DEF AddChunks
    <3>3. CASE CallFails /\ ~At("failed")
      BY <1>0, <3>3 DEF CallFails, Goes, WorkerOK
    <3> QED BY <1>6, <3>1, <3>2, <3>3
  <2> QED BY <1>1, <2>2, <2>3, <2>4 DEF IndexedInv
<1>7. CASE MarkCompleted \/ MarkError
  <2>1. worker.job.link \in Links /\ Queued' = Queued /\ worker'.step = "idle"
    BY <1>2, <1>7, QueueChange DEF MarkCompleted, MarkError, At
  <2>2. \E status \in {"completed", "error"} :
            UpdateFileLinkStatus(worker.job.link, status) /\ (status = "completed" => worker.step = "indexed")
    BY <1>7 DEF MarkCompleted, MarkError, Failed, UpdateFileLinkStatus, At
  <2>3. PICK status \in {"completed", "error"} :
            UpdateFileLinkStatus(worker.job.link, status) /\ (status = "completed" => worker.step = "indexed")
    BY <2>2
  <2>4. \A l \in Links : l # worker.job.link => links'[l] = links[l]
    BY <1>0, <2>1, <2>3, StatusOK
  <2>5. worker.job.link \in Completed' =>
            worker.step = "indexed" /\ worker.job.link \in Existing
              /\ worker.job.file = links[worker.job.link].file
    <3> SUFFICES ASSUME links'[worker.job.link].status = "completed"
                 PROVE  worker.step = "indexed" /\ worker.job.link \in Existing
                          /\ worker.job.file = links[worker.job.link].file
      BY DEF Completed
    <3>1. worker.job.link \in Existing'
      BY <2>1, Nothing DEF Existing
    <3>2. worker.job.link \in Existing /\ LinkExists(worker.job.link)
      BY <1>1, <2>1, <3>1 DEF Existing, LinkExists
    <3>3. status = "completed"
      BY <1>0, <2>1, <2>3, <3>2, StatusOK
    <3> QED BY <2>3, <3>2, <3>3, JobOfLink
  <2>6. worker.job.link \in Completed' => worker.job.link \in Good' \/ content'[links'[worker.job.link].file] = "blank"
    BY <1>1, <1>5, <2>1, <2>5 DEF IndexedInv
  <2>7. \A l \in Completed' : l # worker.job.link => l \in Good' \/ content'[links'[l].file] = "blank"
    BY <1>1, <1>3, <1>5, <2>1, <2>4 DEF IndexInv, Completed
  <2> QED BY <2>1, <2>6, <2>7 DEF IndexInv, IndexedInv
<1>8. CASE CallFails /\ At("failed")
  <2>1. UNCHANGED <<links, jobs>> /\ worker.job.link \in halfway' /\ worker'.step = "idle"
    BY <1>8 DEF CallFails, ragVars
  <2>2. Queued' = Queued /\ Completed' = Completed
    BY <2>1, QueueChange DEF Completed
  <2>3. IndexInv'
    BY <1>1, <1>3, <1>5, <2>1, <2>2 DEF IndexInv
  <2> QED BY <2>1, <2>3 DEF IndexedInv
<1>9. CASE WorkerCrash
  <2>1. UNCHANGED links /\ Queued' = Queued \cup {worker.job.link} /\ worker'.step = "idle"
    BY <1>0, <1>2, <1>9, QueueChange DEF WorkerCrash, At, QueueOK, ragVars
  <2>2. Completed' = Completed
    BY <2>1 DEF Completed
  <2>3. IndexInv'
    BY <1>1, <1>3, <1>5, <2>1, <2>2 DEF IndexInv
  <2> QED BY <2>1, <2>3 DEF IndexedInv
<1> QED BY <1>4, <1>6, <1>7, <1>8, <1>9 DEF WorkerNext

LEMMA IndexStep ==
    ASSUME Base, Base', IndexInv, IndexedInv, [RetrievalNext]_retrievalVars
    PROVE  IndexInv' /\ IndexedInv'
<1>1. ASSUME NEW h \in Handlers, CollectionNext(h) PROVE IndexInv' /\ IndexedInv'
  BY <1>1, DropIndex, RowsIndex DEF CollectionNext
<1>2. CASE RetrievalNext
  BY <1>1, <1>2, FileIndex, LinkIndex, WorkerIndex, OtherIndex DEF RetrievalNext, Sweeping
<1>3. CASE UNCHANGED retrievalVars
  <2>1. UNCHANGED <<content, links, vectors, cleanup, jobs, worker, handler, wiped, halfway>>
    BY <1>3 DEF retrievalVars, fileVars, ragVars, taskVars, past
  <2>2. /\ Posting' = Posting /\ Unlinking' = Unlinking /\ Clearing' = Clearing
        /\ Queued' = Queued
    BY <2>1, QueueChange DEF Posting, Unlinking, Clearing
  <2>3. KeepsGood /\ NoneCompleted
    BY <2>1, <2>2, GoodSame
  <2> QED BY <2>1, <2>3, IndexKept
<1> QED BY <1>2, <1>3

-----------------------------------------------------------------------------
(* Theorems.                                                               *)

\* Types: no step puts a row, a blob, a chunk or a job where there can be none.
THEOREM RetrievalTypeCorrect == RetrievalSpec => []RetrievalTypeOK
<1>1. Base /\ [RetrievalNext]_retrievalVars => Base'
  BY BaseStep
<1>2. Base => RetrievalTypeOK
  BY TypeEnough DEF Base
<1> QED BY InitBase, <1>1, <1>2, PTL DEF RetrievalSpec

\* An ingestion that is announced as pending or under way is queued, in hand or about to be
\* published, unless a mishap came between.
THEOREM IngestionAlwaysInHand == RetrievalSpec => []IngestionInHand
<1>1. RetrievalInit => HandInv
  BY Nothing DEF RetrievalInit, HandInv, Pending
<1>2. Base /\ HandInv /\ [RetrievalNext]_retrievalVars => Base' /\ HandInv'
  BY BaseStep, HandStep
<1>3. Base /\ HandInv => IngestionInHand
  BY HandEnough
<1> QED BY InitBase, <1>1, <1>2, <1>3, PTL DEF RetrievalSpec

\* Chunks that stay in a store without a link were added after the removal of the link had
\* begun, or the store could not be reached: no order of the requests leaves any others.
THEOREM NoStrayAlways == RetrievalSpec => []NoStrayVectors
<1>1. RetrievalInit => StrayInv
  BY DEF RetrievalInit, StrayInv
<1>2. Base /\ StrayInv /\ [RetrievalNext]_retrievalVars => Base' /\ StrayInv'
  BY BaseStep, StrayStep
<1>3. StrayInv => NoStrayVectors
  BY StrayEnough
<1> QED BY InitBase, <1>1, <1>2, <1>3, PTL DEF RetrievalSpec

\* A link that says it is completed has its chunks in the store, but for blank files and
\* the cases CompletedIsIndexed names.
THEOREM CompletedAlwaysIndexed == RetrievalSpec => []CompletedIsIndexed
<1>1. RetrievalInit => IndexInv /\ IndexedInv
  BY Nothing DEF RetrievalInit, IndexInv, IndexedInv, Completed
<1>2. Base /\ IndexInv /\ IndexedInv /\ [RetrievalNext]_retrievalVars => Base' /\ IndexInv' /\ IndexedInv'
  BY BaseStep, IndexStep
<1>3. IndexInv => CompletedIsIndexed
  BY IndexEnough
<1> QED BY InitBase, <1>1, <1>2, <1>3, PTL DEF RetrievalSpec

\* What a service that has confirmed the cleanup of the project still has was made after
\* that, is being made, or is what a mishap has left.
THEOREM ProjectAlwaysSwept == RetrievalSpec => []ProjectSwept
<1>1. Base /\ SweepInv /\ [RetrievalNext]_retrievalVars => Base' /\ SweepInv'
  BY BaseStep, SweepStep
<1>2. SweepInv => ProjectSwept
  BY SweepEnough
<1> QED BY InitBase, InitSweep, <1>1, <1>2, PTL DEF RetrievalSpec
=============================================================================
