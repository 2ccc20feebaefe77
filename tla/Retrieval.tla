------------------------------ MODULE Retrieval ------------------------------
(***************************************************************************)
(* Files (MS10), knowledge collections (MS11) and their ingestion (MS12).  *)
(*                                                                         *)
(* A file is a row of MS10 and a blob in the object storage.  A collection *)
(* is a row of MS11 and a store of vectors in Chroma that only exists once *)
(* something was ingested.  A link puts a file into a collection: its row  *)
(* says how far the ingestion is, and a worker fills the store.  None of   *)
(* the handlers holds a lock, and each of their writes is visible at once. *)
(***************************************************************************)
EXTENDS Naturals, Sequences, FiniteSets

CONSTANTS
    Files,          \* ids of files
    Contents,       \* what files may hold: "text", "blank" (nothing but blanks), "other"
    Collections,    \* ids of collections
    Links,          \* ids of links; an id is never used twice
    Handlers,       \* HTTP requests that can be under way at once
    None,           \* no file, collection or link
    MaxJobs,        \* the bound on ingestions asked for
    MaxMishaps      \* the bound on crashes and calls that fail

ASSUME RetrievalAssumption ==
    /\ None \notin Files \cup Collections \cup Links
    /\ MaxJobs \in Nat /\ MaxMishaps \in Nat

VARIABLES
    content,        \* what each file holds
    rows,           \* MS10: files that have a row
    blobs,          \* MS10: files that have a blob
    collections,    \* MS11: collections that have a row
    links,          \* MS11: rows of links
    stores,         \* Chroma: collections that have a store
    vectors,        \* Chroma: for which links, collections and files chunks are stored
    jobs,           \* the queue of MS12
    worker,         \* MS12: the ingestion in hand
    handler,        \* requests to MS10 and MS11
    cleanup,        \* the project of all of it is deleted: how far MS10 and MS11 are with that
    asked,          \* how many ingestions were asked for
    mishaps,        \* how many mishaps there have been
    used,           \* history: ids used for a file, a collection or a link
    overtaken,      \* history: links indexed when their removal had begun
    wiped,          \* history: links that lost their vectors to the removal of another link
    halfway,        \* history: what a mishap has left half done
    after           \* history: files and collections made after the cleanup of their service

fileVars == <<content, rows, blobs>>
ragVars == <<collections, links, stores, vectors>>
taskVars == <<jobs, worker, handler, asked>>
past == <<used, overtaken, wiped, halfway, after>>
retrievalVars == <<fileVars, ragVars, taskVars, cleanup, mishaps, past>>

Job == [link: Links, coll: Collections, file: Files]
NoJob == [link |-> None, coll |-> None, file |-> None]
Link == [coll: Collections, file: Files, status: {"pending", "ingesting", "completed", "error"}]
NoLink == [coll |-> None, file |-> None, status |-> "absent"]
Idle == [at |-> "idle", file |-> None, coll |-> None, link |-> None]

Services == {"files", "collections"}
HandlerSteps ==
    {"idle", "upload stored", "file emptied",
     "post linked", "post saved", "unlink loaded", "unlink emptied",
     "clear dropped", "clear emptied", "destroy emptied"}
WorkerSteps ==
    {"idle", "ingesting", "opened", "stale", "indexed", "failed"}

RetrievalTypeOK ==
    /\ content \in [Files -> Contents]
    /\ rows \subseteq Files /\ blobs \subseteq Files
    /\ collections \subseteq Collections /\ stores \subseteq Collections
    /\ links \in [Links -> Link \cup {NoLink}]
    /\ vectors \subseteq Job
    /\ jobs \in Seq(Job)
    /\ worker \in [step: WorkerSteps, job: Job \cup {NoJob}]
    /\ handler \in [Handlers -> [at: HandlerSteps, file: Files \cup {None},
                                 coll: Collections \cup {None}, link: Links \cup {None}]]
    /\ cleanup \in [Services -> {"none", "never", "emptied", "confirmed", "lost"}]
    /\ asked \in 0..MaxJobs /\ mishaps \in 0..MaxMishaps

-----------------------------------------------------------------------------
Mishap == mishaps < MaxMishaps /\ mishaps' = mishaps + 1

LinkExists(l) == links[l] # NoLink
LinksOf(c) == {l \in Links : links[l].coll = c}

Go(h, at) == handler' = [handler EXCEPT ![h].at = at]
Finish(h) == handler' = [handler EXCEPT ![h] = Idle]
Start(h, at, f, c, l) ==
    /\ handler[h] = Idle
    /\ handler' = [handler EXCEPT ![h] = [at |-> at, file |-> f, coll |-> c, link |-> l]]

\* The links whose rows a request, or the cleanup, is about to remove: their vectors are gone.
BeingRemoved ==
    {l \in Links :
        \/ \E h \in Handlers :
               \/ handler[h].at = "unlink emptied" /\ handler[h].link = l
               \/ /\ handler[h].at \in {"clear dropped", "clear emptied", "destroy emptied"}
                  /\ handler[h].coll = links[l].coll
        \/ cleanup["collections"] = "emptied" /\ LinkExists(l)}

\* A store that is deleted: whoever has opened it holds a handle to nothing.
Drop(cs) ==
    /\ stores' = stores \ cs
    /\ vectors' = {v \in vectors : v.coll \notin cs}
    /\ worker' = IF worker.step = "opened" /\ worker.job.coll \in cs
                 THEN [worker EXCEPT !.step = "stale"] ELSE worker

-----------------------------------------------------------------------------
(* MS10, files.                                                            *)

\* MS2 authorises as long as the project has a row, and it has one while it is being
\* deleted: what is authorised may also be made after the cleanup.  (Nothing sees the
\* blob before it has a row: it may as well be stored at once.)
UploadStore(h, f) ==
    /\ f \notin used
    /\ Start(h, "upload stored", f, None, None)
    /\ blobs' = blobs \cup {f}
    /\ used' = used \cup {f}
    /\ UNCHANGED <<content, rows, ragVars, jobs, worker, asked, cleanup, mishaps,
                   overtaken, wiped, halfway, after>>

UploadRow(h) ==
    LET f == handler[h].file IN
    /\ handler[h].at = "upload stored"
    /\ rows' = rows \cup {f}
    /\ after' = IF cleanup["files"] = "confirmed" THEN after \cup {f} ELSE after
    /\ Finish(h)
    /\ UNCHANGED <<content, blobs, ragVars, jobs, worker, asked, cleanup, mishaps,
                   used, overtaken, wiped, halfway>>

\* MS11 is not told: the links to the file, and their vectors, stay.
DeleteFileBlob(h, f) ==
    /\ f \in rows
    /\ Start(h, "file emptied", f, None, None)
    /\ blobs' = blobs \ {f}
    /\ UNCHANGED <<content, rows, ragVars, jobs, worker, asked, cleanup, mishaps, past>>

DeleteFileRow(h) ==
    /\ handler[h].at = "file emptied"
    /\ rows' = rows \ {handler[h].file}
    /\ Finish(h)
    /\ UNCHANGED <<content, blobs, ragVars, jobs, worker, asked, cleanup, mishaps, past>>

\* Mutant for ProjectSwept: the cleanup forgets the storage.
MutSweptBlobs == blobs
SweptBlobs == blobs \ rows

\* The confirmation is published once the rows are gone; when the broker cannot be reached,
\* however often it is tried, nobody hears of the cleanup.
Confirm(s) ==
    \/ cleanup' = [cleanup EXCEPT ![s] = "confirmed"] /\ UNCHANGED mishaps
    \/ Mishap /\ cleanup' = [cleanup EXCEPT ![s] = "lost"]

\* When the storage fails the rows are rolled back, the blobs are not.
SweepFiles ==
    /\ cleanup["files"] = "none"
    /\ blobs' = SweptBlobs
    /\ \/ rows' = {} /\ Confirm("files") /\ UNCHANGED halfway
       \/ /\ Mishap
          /\ cleanup' = [cleanup EXCEPT !["files"] = "lost"]
          /\ halfway' = halfway \cup rows
          /\ UNCHANGED rows
    /\ UNCHANGED <<content, ragVars, taskVars, used, overtaken, wiped, after>>

\* Mutant for CompletedIsIndexed: a file that cannot be read counts as one without text.
MutParsed(f) == IF f \in rows \cap blobs THEN content[f] ELSE "blank"

\* What MS12 gets for a file.
Parsed(f) == IF f \in rows \cap blobs THEN content[f] ELSE "other"

-----------------------------------------------------------------------------
(* MS11, collections and links.                                            *)

CreateCollection(c) ==
    /\ c \notin used
    /\ collections' = collections \cup {c}
    /\ after' = IF cleanup["collections"] = "confirmed" THEN after \cup {c} ELSE after
    /\ used' = used \cup {c}
    /\ UNCHANGED <<fileVars, links, stores, vectors, taskVars, cleanup, mishaps,
                   overtaken, wiped, halfway>>

\* The link of a file to a collection is looked up or created; nobody asks MS10 for the file.
PostCreate(h, c, f, l) ==
    /\ asked < MaxJobs
    /\ c \in collections
    /\ l \notin used
    /\ ~\E k \in LinksOf(c) : links[k].file = f
    /\ links' = [links EXCEPT ![l] = [coll |-> c, file |-> f, status |-> "pending"]]
    /\ Start(h, "post linked", f, c, l)
    /\ asked' = asked + 1
    /\ used' = used \cup {l}
    /\ UNCHANGED <<fileVars, collections, stores, vectors, jobs, worker, cleanup, mishaps,
                   overtaken, wiped, halfway, after>>

PostAgain(h, l) ==
    /\ asked < MaxJobs
    /\ LinkExists(l)
    /\ links[l].status # "completed"
    /\ Start(h, "post linked", links[l].file, links[l].coll, l)
    /\ asked' = asked + 1
    /\ UNCHANGED <<fileVars, ragVars, jobs, worker, cleanup, mishaps, past>>

\* Saving a link that is gone inserts it again, unless its collection is gone too or the
\* file has another link by now.
CanSave(h) ==
    /\ handler[h].coll \in collections
    /\ \A k \in LinksOf(handler[h].coll) : links[k].file = handler[h].file => k = handler[h].link

SavedLink(h, status) ==
    [links EXCEPT ![handler[h].link] =
        [coll |-> handler[h].coll, file |-> handler[h].file, status |-> status]]

PostSave(h) ==
    /\ handler[h].at = "post linked"
    /\ \/ CanSave(h) /\ links' = SavedLink(h, "pending") /\ Go(h, "post saved")
       \/ ~CanSave(h) /\ Finish(h) /\ UNCHANGED links
    /\ UNCHANGED <<fileVars, collections, stores, vectors, jobs, worker, asked, cleanup,
                   mishaps, past>>

\* When the publication fails the link is saved as an error.
PostPublish(h) ==
    /\ handler[h].at = "post saved"
    /\ \/ /\ jobs' = Append(jobs, [link |-> handler[h].link, coll |-> handler[h].coll,
                                   file |-> handler[h].file])
          /\ UNCHANGED <<links, mishaps, halfway>>
       \/ /\ Mishap
          /\ links' = IF CanSave(h) THEN SavedLink(h, "error") ELSE links
          /\ halfway' = halfway \cup {handler[h].link}
          /\ UNCHANGED jobs
    /\ Finish(h)
    /\ UNCHANGED <<fileVars, collections, stores, vectors, worker, asked, cleanup,
                   used, overtaken, wiped, after>>

UnlinkLoad(h, l) ==
    /\ LinkExists(l)
    /\ Start(h, "unlink loaded", links[l].file, links[l].coll, l)
    /\ UNCHANGED <<fileVars, ragVars, jobs, worker, asked, cleanup, mishaps, past>>

\* Mutant for NoStrayVectors: the filter names a key that no chunk has.
MutWithout(c, f) == vectors
Without(c, f) == {v \in vectors : ~(v.coll = c /\ v.file = f)}

\* The chunks are found by file, whatever link they came from.  Without a store the
\* request fails, and the link stays.
UnlinkEmpty(h) ==
    LET c == handler[h].coll
        removed == {v.link : v \in vectors \ Without(c, handler[h].file)}
    IN  /\ handler[h].at = "unlink loaded"
        /\ IF c \in stores
           THEN /\ vectors' = Without(c, handler[h].file)
                /\ wiped' = wiped \cup (removed \ {handler[h].link})
                /\ Go(h, "unlink emptied")
           ELSE Finish(h) /\ UNCHANGED <<vectors, wiped>>
        /\ UNCHANGED <<fileVars, collections, links, stores, jobs, worker, asked, cleanup,
                       mishaps, used, overtaken, halfway, after>>

UnlinkRow(h) ==
    /\ handler[h].at = "unlink emptied"
    /\ links' = [links EXCEPT ![handler[h].link] = NoLink]
    /\ Finish(h)
    /\ UNCHANGED <<fileVars, collections, stores, vectors, jobs, worker, asked, cleanup,
                   mishaps, past>>

\* The store is deleted (which fails when there is none) and created again (which fails
\* when somebody else was faster), and then the links go.
ClearDrop(h, c) ==
    /\ c \in collections \cap stores
    /\ Start(h, "clear dropped", None, c, None)
    /\ Drop({c})
    /\ UNCHANGED <<fileVars, collections, links, jobs, asked, cleanup, mishaps, past>>

ClearCreate(h) ==
    LET c == handler[h].coll IN
    /\ handler[h].at = "clear dropped"
    /\ IF c \in stores
       THEN Finish(h) /\ halfway' = halfway \cup LinksOf(c)
       ELSE Go(h, "clear emptied") /\ UNCHANGED halfway
    /\ stores' = stores \cup {c}
    /\ UNCHANGED <<fileVars, collections, links, vectors, jobs, worker, asked, cleanup,
                   mishaps, used, overtaken, wiped, after>>

Unlinked(cs) == [l \in Links |-> IF links[l].coll \in cs THEN NoLink ELSE links[l]]

ClearRows(h) ==
    /\ handler[h].at = "clear emptied"
    /\ links' = Unlinked({handler[h].coll})
    /\ Finish(h)
    /\ UNCHANGED <<fileVars, collections, stores, vectors, jobs, worker, asked, cleanup,
                   mishaps, past>>

\* A store that cannot be deleted is logged and left.
DestroyDrop(h, c) ==
    /\ c \in collections
    /\ Start(h, "destroy emptied", None, c, None)
    /\ \/ Drop({c}) /\ UNCHANGED <<mishaps, halfway>>
       \/ Mishap /\ halfway' = halfway \cup {c} /\ UNCHANGED <<stores, vectors, worker>>
    /\ UNCHANGED <<fileVars, collections, links, jobs, asked, cleanup,
                   used, overtaken, wiped, after>>

DestroyRow(h) ==
    LET c == handler[h].coll IN
    /\ handler[h].at = "destroy emptied"
    /\ collections' = collections \ {c}
    /\ links' = Unlinked({c})
    /\ Finish(h)
    /\ UNCHANGED <<fileVars, stores, vectors, jobs, worker, asked, cleanup, mishaps, past>>

\* A store that cannot be deleted is logged and left, here too; without a connection to
\* Chroma the cleanup ends.
SweepStores ==
    /\ cleanup["collections"] = "none"
    /\ \/ /\ cleanup' = [cleanup EXCEPT !["collections"] = "emptied"]
          /\ \/ Drop(collections) /\ UNCHANGED <<mishaps, halfway>>
             \/ \E c \in collections :
                    Mishap /\ Drop(collections \ {c}) /\ halfway' = halfway \cup {c}
       \/ /\ Mishap
          /\ cleanup' = [cleanup EXCEPT !["collections"] = "lost"]
          /\ UNCHANGED <<stores, vectors, worker, halfway>>
    /\ UNCHANGED <<fileVars, collections, links, jobs, handler, asked,
                   used, overtaken, wiped, after>>

SweepCollectionRows ==
    /\ cleanup["collections"] = "emptied"
    /\ \/ /\ collections' = {}
          /\ links' = [l \in Links |-> NoLink]
          /\ Confirm("collections")
          /\ UNCHANGED halfway
       \/ /\ Mishap
          /\ cleanup' = [cleanup EXCEPT !["collections"] = "lost"]
          /\ halfway' = halfway \cup {l \in Links : LinkExists(l)}
          /\ UNCHANGED <<collections, links>>
    /\ UNCHANGED <<fileVars, stores, vectors, taskVars, used, overtaken, wiped, after>>

\* A request that raises or whose process dies.
Abandon(h) ==
    LET r == handler[h] IN
    /\ Mishap
    /\ r # Idle
    /\ halfway' = halfway \cup ({r.file, r.link} \ {None})
            \cup (IF r.at \in {"clear dropped", "clear emptied", "destroy emptied"}
                  THEN LinksOf(r.coll) ELSE {})
    /\ Finish(h)
    /\ UNCHANGED <<fileVars, ragVars, jobs, worker, asked, cleanup, used, overtaken, wiped, after>>

-----------------------------------------------------------------------------
(* MS12, the ingestion worker: one message at a time.                      *)

At(step) == worker.step = step
Goes(step) == worker' = [worker EXCEPT !.step = step]

\* Mutant for RetrievalTypeOK: the update puts a row where there is none.
MutUpdateFileLinkStatus(l, status) == links' = [links EXCEPT ![l].status = status]

\* MS11 answers NOT_FOUND for a link that has no row, and the client raises.
UpdateFileLinkStatus(l, status) ==
    links' = IF LinkExists(l) THEN [links EXCEPT ![l].status = status] ELSE links

\* A message is taken and its link marked.
Receive ==
    LET job == Head(jobs) IN
    /\ At("idle")
    /\ jobs # <<>>
    /\ jobs' = Tail(jobs)
    /\ UpdateFileLinkStatus(job.link, "ingesting")
    /\ worker' = [step |-> IF LinkExists(job.link) THEN "ingesting" ELSE "failed", job |-> job]
    /\ UNCHANGED <<fileVars, collections, stores, vectors, handler, asked, cleanup,
                   mishaps, past>>

\* The file is read: for text the store is opened, or created, a file without any needs no
\* index, anything else is an error.
GetFileContent ==
    LET type == Parsed(worker.job.file) IN
    /\ At("ingesting")
    /\ stores' = IF type = "text" THEN stores \cup {worker.job.coll} ELSE stores
    /\ Goes(CASE type = "text" -> "opened" [] type = "blank" -> "indexed" [] OTHER -> "failed")
    /\ UNCHANGED <<fileVars, collections, links, vectors, jobs, handler, asked, cleanup,
                   mishaps, past>>

\* The embeddings are computed between the opening of the store and the addition.
AddChunks ==
    LET l == worker.job.link IN
    /\ \/ /\ At("opened")
          /\ vectors' = vectors \cup {worker.job}
          /\ overtaken' = IF ~LinkExists(l) \/ l \in BeingRemoved THEN overtaken \cup {l} ELSE overtaken
          /\ Goes("indexed")
       \/ At("stale") /\ Goes("failed") /\ UNCHANGED <<vectors, overtaken>>
    /\ UNCHANGED <<fileVars, collections, links, stores, jobs, handler, asked, cleanup,
                   mishaps, used, wiped, halfway, after>>

MarkCompleted ==
    /\ At("indexed")
    /\ UpdateFileLinkStatus(worker.job.link, "completed")
    /\ worker' = [step |-> "idle", job |-> NoJob]
    /\ UNCHANGED <<fileVars, collections, stores, vectors, jobs, handler, asked, cleanup,
                   mishaps, past>>

\* Mutant for IngestionInHand: the error is only logged.
MutFailed == links
Failed == [links EXCEPT ![worker.job.link].status = "error"]

MarkError ==
    /\ At("failed")
    /\ links' = IF LinkExists(worker.job.link) THEN Failed ELSE links
    /\ worker' = [step |-> "idle", job |-> NoJob]
    /\ UNCHANGED <<fileVars, collections, stores, vectors, jobs, handler, asked, cleanup,
                   mishaps, past>>

\* A call that fails makes the ingestion an error, or, when it was to say so, leaves the
\* link as it is; a message that was not acknowledged is delivered again.
CallFails ==
    /\ Mishap
    /\ ~At("idle")
    /\ IF At("failed")
       THEN worker' = [step |-> "idle", job |-> NoJob] /\ halfway' = halfway \cup {worker.job.link}
       ELSE Goes("failed") /\ UNCHANGED halfway
    /\ UNCHANGED <<fileVars, ragVars, jobs, handler, asked, cleanup, used, overtaken, wiped, after>>

WorkerCrash ==
    /\ Mishap
    /\ ~At("idle")
    /\ worker' = [step |-> "idle", job |-> NoJob]
    /\ jobs' = <<worker.job>> \o jobs
    /\ UNCHANGED <<fileVars, ragVars, handler, asked, cleanup, past>>

-----------------------------------------------------------------------------
\* The deletion of the project reaches one of the two services before the other, and
\* nothing in either depends on what the other has done: one of them is asked.
RetrievalInit ==
    /\ content \in [Files -> Contents]
    /\ rows = {} /\ blobs = {}
    /\ collections = {}
    /\ links = [l \in Links |-> NoLink]
    /\ stores = {} /\ vectors = {}
    /\ jobs = <<>>
    /\ worker = [step |-> "idle", job |-> NoJob]
    /\ handler = [h \in Handlers |-> Idle]
    /\ \E one \in Services : cleanup = [s \in Services |-> IF s = one THEN "none" ELSE "never"]
    /\ asked = 0 /\ mishaps = 0
    /\ used = {} /\ overtaken = {} /\ wiped = {} /\ halfway = {} /\ after = {}

FileNext(h) ==
    \/ \E f \in Files : UploadStore(h, f) \/ DeleteFileBlob(h, f)
    \/ UploadRow(h) \/ DeleteFileRow(h)

CollectionNext(h) ==
    \/ \E c \in Collections : ClearDrop(h, c) \/ DestroyDrop(h, c)
    \/ ClearCreate(h) \/ ClearRows(h) \/ DestroyRow(h)

LinkNext(h) ==
    \/ \E c \in Collections, f \in Files, l \in Links : PostCreate(h, c, f, l)
    \/ \E l \in Links : PostAgain(h, l) \/ UnlinkLoad(h, l)
    \/ PostSave(h) \/ PostPublish(h) \/ UnlinkEmpty(h) \/ UnlinkRow(h)

WorkerNext ==
    \/ Receive \/ GetFileContent \/ AddChunks
    \/ MarkCompleted \/ MarkError \/ CallFails \/ WorkerCrash

RetrievalNext ==
    \/ \E h \in Handlers : FileNext(h) \/ CollectionNext(h) \/ LinkNext(h) \/ Abandon(h)
    \/ \E c \in Collections : CreateCollection(c)
    \/ WorkerNext
    \/ SweepFiles \/ SweepStores \/ SweepCollectionRows

RetrievalSpec == RetrievalInit /\ [][RetrievalNext]_retrievalVars

-----------------------------------------------------------------------------
(* Properties.                                                             *)

\* Somebody will still give the link's ingestion an end.
InHand(l) ==
    \/ \E i \in 1..Len(jobs) : jobs[i].link = l
    \/ worker.job.link = l
    \/ \E h \in Handlers : handler[h].link = l /\ handler[h].at \in {"post linked", "post saved"}

\* Chunks stay in a store without a link only when they were added after the removal of
\* the link had begun, or when the store could not be reached.
NoStrayVectors ==
    \A v \in vectors : LinkExists(v.link) \/ v.link \in overtaken \/ v.coll \in halfway

\* A link that says it is completed has its chunks in the store (a blank file has none),
\* unless it is being removed, is about to be ingested again, a removal stopped halfway,
\* or the removal of an earlier link to the same file took the chunks away.
CompletedIsIndexed ==
    \A l \in Links : links[l].status = "completed" =>
        \/ \E v \in vectors : v.link = l
        \/ content[links[l].file] = "blank"
        \/ InHand(l) \/ l \in BeingRemoved \cup wiped \cup halfway

\* An ingestion that is announced as pending or under way is: a job for it is queued, in
\* hand or about to be published, unless a mishap came between.
IngestionInHand ==
    \A l \in Links : links[l].status \in {"pending", "ingesting"} => InHand(l) \/ l \in halfway

\* When a service has confirmed the cleanup of the project nothing of it is left there,
\* except what was made after that, is still being made, or a mishap has left.
ProjectSwept ==
    /\ cleanup["files"] = "confirmed" =>
        rows \cup blobs \subseteq after \cup halfway \cup {handler[h].file : h \in Handlers}
    /\ cleanup["collections"] = "confirmed" => collections \subseteq after
=============================================================================
