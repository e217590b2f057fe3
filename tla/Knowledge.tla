----------------------------- MODULE Knowledge -----------------------------
(***************************************************************************)
(* One article of a knowledge base: its versions and status in PostgreSQL, *)
(* the chunk rows of each version next to them, and the points of the same *)
(* chunks in Qdrant, which shares no transaction with PostgreSQL.          *)
(*                                                                         *)
(* A job is one request of the API: create (whose index_article runs on as *)
(* a background task), reupload, reindex or delete.  Jobs overlap: none of *)
(* them waits for an index_article under way.  A reader is one call of     *)
(* retrieve_chunks.  One action per transaction, per Qdrant call and per   *)
(* provider call.                                                          *)
(*                                                                         *)
(* A version is identified by its position in versions, so that a later    *)
(* insert has a larger identifier; version_number is a column of its own.  *)
(* A chunk, its row and its point are the pair of version and chunk_index  *)
(* from which _chunk_id and _qdrant_point_id derive their keys.            *)
(***************************************************************************)
EXTENDS Naturals, Sequences, FiniteSets

CONSTANTS
    Jobs,          \* requests that change the article
    Readers,       \* concurrent retrievals
    Texts,         \* texts an article may have that yield chunks
    Blank,         \* a text that yields none
    Sizes,         \* how many chunks a text is cut into, by chunk_size of the base
    TopK,          \* hits a search returns at most
    Faults,        \* whether stores and provider may fail and processes crash
    NULL

ASSUME KnowledgeAssumption ==
    /\ Sizes \subseteq Nat \ {0} /\ Sizes # {}
    /\ TopK \in Nat \ {0}
    /\ Faults \in BOOLEAN
    /\ Blank \notin Texts
    /\ NULL \notin Jobs /\ NULL \notin Nat /\ NULL # "delete"

VARIABLES
    status,    \* articles.status; "NONE" before the insert, "DELETED" after
    versions,  \* article_versions, in the order they were inserted
    current,   \* articles.current_version_id, or NULL
    lock,      \* the job that holds the FOR UPDATE lock of the row, or NULL
    chunks,    \* the chunks table
    points,    \* the Qdrant collection
    job,       \* the local state of each job
    reader,    \* the local state of each retrieval
    overlap    \* ghost: an index run met a mint, a delete or another run

vars == <<status, versions, current, lock, chunks, points, job, reader,
          overlap>>

AllTexts == Texts \cup {Blank}
Origins == {"create", "reupload", "forced", "changed"}

Version == [num : Nat, text : AllTexts, by : Origins]

(* Where a job is: one that is "lost" ended before it wrote the status it  *)
(* owed, by a crash, an error that nothing catches, or a failed write.     *)
JobType ==
    [pc   : {"idle", "append", "compare", "mint", "meta", "load", "mark", "embed",
             "clear", "upsert", "rows", "finish", "fail", "purge", "erase",
             "done", "lost"},
     by   : Origins \cup {"delete", NULL},
     ver  : Nat,                    \* the version it indexes or purges
     num  : Nat,                    \* the version_number, or count, it read
     text : AllTexts \cup {NULL},
     cnt  : Nat,                    \* chunks the text is cut into
     left : SUBSET Nat]             \* versions whose purge failed
NewJob == [pc |-> "idle", by |-> NULL, ver |-> 0, num |-> 0, text |-> NULL,
           cnt |-> 0, left |-> {}]

ReaderType ==
    [pc   : {"idle", "hydrate", "resolve", "done"},
     hits : SUBSET (Nat \X Nat),
     asof : Nat \cup {NULL},        \* ghost: current when it searched
     gone : BOOLEAN,                \* ghost: the article was deleted under it
     res  : SUBSET (Nat \X Nat)]
NewReader == [pc |-> "idle", hits |-> {}, asof |-> NULL, gone |-> FALSE, res |-> {}]

Init ==
    /\ status = "NONE"
    /\ versions = <<>>
    /\ current = NULL
    /\ lock = NULL
    /\ chunks = {}
    /\ points = {}
    /\ job = [j \in Jobs |-> NewJob]
    /\ reader = [r \in Readers |-> NewReader]
    /\ overlap = FALSE

Alive == status \notin {"NONE", "DELETED"}
Goto(j, l) == job' = [job EXCEPT ![j].pc = l]
Failing(j, l) == Faults /\ Goto(j, l)

(* A request ends; of its local state only what the properties need is     *)
(* kept: that it was a delete, and what it could not purge.                *)
End(j, l) == job' = [job EXCEPT ![j] =
                        [NewJob EXCEPT !.pc = l, !.left = job[j].left,
                                       !.by = IF job[j].by = "delete" THEN "delete" ELSE NULL]]

(* A write of the row, or of a row that references it, waits for the lock. *)
Unlocked == lock = NULL

OfVersion(S, v) == {c \in S : c[1] = v}
Cut(v, n) == {<<v, i>> : i \in 1..n}

(* Jobs between the read of the current version and the last status write, *)
(* and jobs that are deleting the article.                                 *)
Indexing == {j \in Jobs : job[j].pc \in
    {"mark", "embed", "clear", "upsert", "rows", "finish", "fail"}}
Deleting == {j \in Jobs : job[j].pc \in {"purge", "erase"}}

(* A job that still has to write INDEXED or FAILED.                        *)
Owing == Indexing \cup {j \in Jobs : job[j].pc \in {"meta", "load"}}

-----------------------------------------------------------------------------
(* ArticleRepository.create, then the background task is scheduled.        *)
Create(j, t) ==
    /\ job[j].pc = "idle"
    /\ status = "NONE"
    /\ status' = "DRAFT"
    /\ versions' = <<[num |-> 1, text |-> t, by |-> "create"]>>
    /\ current' = 1
    /\ job' = [job EXCEPT ![j].pc = "load", ![j].by = "create"]
    /\ UNCHANGED <<lock, chunks, points, reader, overlap>>

(* The version with the highest number.                                    *)
LatestVersion ==
    CHOOSE v \in DOMAIN versions :
        \A w \in DOMAIN versions : versions[w].num <= versions[v].num

(* uq_article_versions_article_version.                                    *)
NumberTaken(n) == \E v \in DOMAIN versions : versions[v].num = n

(* A new version becomes the current one, and the article is INDEXING.     *)
Mint(n, t, by) ==
    /\ versions' = Append(versions, [num |-> n, text |-> t, by |-> by])
    /\ current' = Len(versions) + 1
    /\ status' = "INDEXING"
    /\ overlap' = (overlap \/ Indexing # {})

(* reupload_article: the row is locked, then the latest version is read.   *)
(* Equal content ends the request.                                         *)
ReuploadLock(j, t) ==
    /\ job[j].pc = "idle" /\ Alive /\ Unlocked
    /\ \/ /\ versions[LatestVersion].text = t
          /\ End(j, "done")
          /\ UNCHANGED lock
       \/ /\ versions[LatestVersion].text # t
          /\ lock' = j
          /\ job' = [job EXCEPT ![j].pc = "append", ![j].by = "reupload",
                                ![j].text = t,
                                ![j].num = versions[LatestVersion].num]
    /\ UNCHANGED <<status, versions, current, chunks, points, reader, overlap>>

(* append_version and the commit that releases the row; a new title or     *)
(* source_uri is for later.                                                *)
ReuploadAppend(j) ==
    /\ job[j].pc = "append"
    /\ lock' = NULL
    /\ \/ /\ ~NumberTaken(job[j].num + 1)
          /\ Mint(job[j].num + 1, job[j].text, "reupload")
          /\ \E next \in {"meta", "load"} : Goto(j, next)
       \/ /\ NumberTaken(job[j].num + 1) \/ Faults
          /\ End(j, "done")
          /\ UNCHANGED <<status, versions, current, overlap>>
    /\ UNCHANGED <<chunks, points, reader>>

(* Title and source_uri, in a transaction of their own: its error ends the *)
(* request before it has indexed anything.                                 *)
UpdateMetadata(j) ==
    /\ job[j].pc = "meta" /\ Unlocked
    /\ \/ Goto(j, "load")
       \/ Faults /\ End(j, "lost")
    /\ UNCHANGED <<status, versions, current, lock, chunks, points, reader,
                   overlap>>

(* reindex_article reads the current version, without a lock.              *)
ReindexRead(j, force) ==
    /\ job[j].pc = "idle" /\ Alive
    /\ job' = [job EXCEPT ![j].pc = "compare",
                          ![j].by = IF force THEN "forced" ELSE "changed",
                          ![j].num = versions[current].num,
                          ![j].text = versions[current].text]
    /\ UNCHANGED <<status, versions, current, lock, chunks, points, reader,
                   overlap>>

(* In a second transaction it reads the latest version: the same hash ends *)
(* the request, unless it is forced.                                       *)
ReindexCompare(j) ==
    /\ job[j].pc = "compare"
    /\ IF job[j].by = "changed" /\ Alive /\ versions[LatestVersion].text = job[j].text
       THEN End(j, "done")
       ELSE Goto(j, "mint")
    /\ UNCHANGED <<status, versions, current, lock, chunks, points, reader,
                   overlap>>

(* In a third it inserts the next version.  The foreign key, the unique    *)
(* constraint or the database may refuse it, and the request fails.        *)
ReindexMint(j) ==
    /\ job[j].pc = "mint" /\ Unlocked
    /\ \/ /\ Alive /\ ~NumberTaken(job[j].num + 1)
          /\ Mint(job[j].num + 1, job[j].text, job[j].by)
          /\ Goto(j, "load")
       \/ /\ ~Alive \/ NumberTaken(job[j].num + 1) \/ Faults
          /\ End(j, "done")
          /\ UNCHANGED <<status, versions, current, overlap>>
    /\ UNCHANGED <<lock, chunks, points, reader>>

-----------------------------------------------------------------------------
(* index_article makes sure of the collection and reads the article, its   *)
(* knowledge base and the version that is current now, which need not be   *)
(* the one its caller minted.  Into how many chunks its text is cut        *)
(* depends on the chunk_size of the base, which update_kb may have changed *)
(* since the last run.  An error of any of this is in no try; what calls   *)
(* index_article writes no status for it (reindex_article only answers so).*)
Load(j) ==
    /\ job[j].pc = "load"
    /\ \/ /\ Faults
          /\ End(j, "lost")
          /\ UNCHANGED overlap
       \/ /\ ~Alive
          /\ End(j, "done")
          /\ UNCHANGED overlap
       \/ /\ Alive
          /\ \E n \in IF versions[current].text = Blank THEN {0} ELSE Sizes :
                job' = [job EXCEPT ![j].pc = "mark", ![j].ver = current, ![j].cnt = n,
                                   ![j].by = NULL, ![j].num = 0, ![j].text = NULL]
          /\ overlap' = (overlap \/ Indexing # {} \/ Deleting # {})
    /\ UNCHANGED <<status, versions, current, lock, chunks, points, reader>>

(* _set_status: an unconditional write of a row that may be gone.          *)
SetStatus(j, s, next) ==
    /\ Unlocked
    /\ \/ /\ Alive /\ status' = s
          /\ IF next = "done" THEN End(j, next) ELSE Goto(j, next)
       \/ /\ ~Alive /\ End(j, "done") /\ UNCHANGED status
       \/ Faults /\ End(j, "lost") /\ UNCHANGED status

Mark(j) ==
    /\ job[j].pc = "mark"
    /\ SetStatus(j, "INDEXING", IF job[j].cnt = 0 THEN "clear" ELSE "embed")
    /\ UNCHANGED <<versions, current, lock, chunks, points, reader, overlap>>

Embed(j) ==
    /\ job[j].pc = "embed"
    /\ Goto(j, "clear") \/ Failing(j, "fail")
    /\ UNCHANGED <<status, versions, current, lock, chunks, points, reader,
                   overlap>>

(* delete_points_by_article_version swallows its errors.                   *)
Clear(j) ==
    /\ job[j].pc = "clear"
    /\ \/ points' = points \ OfVersion(points, job[j].ver)
       \/ Faults /\ UNCHANGED points
    /\ Goto(j, IF job[j].cnt = 0 THEN "rows" ELSE "upsert")
    /\ UNCHANGED <<status, versions, current, lock, chunks, reader, overlap>>

(* upsert_chunks.  An error may come after the points were stored.         *)
Upsert(j) ==
    /\ job[j].pc = "upsert"
    /\ \/ /\ points' = points \cup Cut(job[j].ver, job[j].cnt)
          /\ Goto(j, "rows") \/ Failing(j, "fail")
       \/ UNCHANGED points /\ Failing(j, "fail")
    /\ UNCHANGED <<status, versions, current, lock, chunks, reader, overlap>>

(* One transaction replaces the chunk rows of this version; those of       *)
(* earlier versions stay.  Rows need their article (foreign key); a run    *)
(* that writes the same rows at the same time makes the insert fail.       *)
Rows_ErrorIgnored(j) ==
    /\ job[j].pc = "rows" /\ Unlocked /\ Alive
    /\ chunks' \in {chunks, (chunks \ OfVersion(chunks, job[j].ver))
                                \cup Cut(job[j].ver, job[j].cnt)}
    /\ Goto(j, "finish")
    /\ UNCHANGED <<status, versions, current, lock, points, reader, overlap>>
Rows(j) ==
    /\ job[j].pc = "rows" /\ Unlocked
    /\ \/ /\ Alive \/ job[j].cnt = 0
          /\ chunks' = (chunks \ OfVersion(chunks, job[j].ver))
                           \cup Cut(job[j].ver, job[j].cnt)
          /\ Goto(j, "finish")
       \/ /\ \/ ~Alive /\ job[j].cnt # 0
             \/ \E k \in Jobs \ {j} : job[k].pc = "rows" /\ job[k].ver = job[j].ver
             \/ Faults
          /\ Goto(j, "fail")
          /\ UNCHANGED chunks
    /\ UNCHANGED <<status, versions, current, lock, points, reader, overlap>>

Finish(j) ==
    /\ job[j].pc = "finish"
    /\ SetStatus(j, "INDEXED", "done")
    /\ UNCHANGED <<versions, current, lock, chunks, points, reader, overlap>>

(* _fail_and_return.                                                       *)
Fail_Silent(j) ==
    /\ job[j].pc = "fail"
    /\ End(j, "done")
    /\ UNCHANGED <<status, versions, current, lock, chunks, points, reader,
                   overlap>>
Fail(j) ==
    /\ job[j].pc = "fail"
    /\ SetStatus(j, "FAILED", "done")
    /\ UNCHANGED <<versions, current, lock, chunks, points, reader, overlap>>

-----------------------------------------------------------------------------
(* delete_article, and delete_kb for the articles of the base: the         *)
(* versions are listed, the points of each are deleted as far as possible, *)
(* and the row is deleted with its versions and chunks, also when the list *)
(* could not be read.                                                      *)
Delete_CurrentOnly(j) ==
    /\ job[j].pc = "idle" /\ Alive
    /\ job' = [job EXCEPT ![j].pc = "purge", ![j].by = "delete",
                          ![j].ver = current, ![j].num = current]
    /\ overlap' = (overlap \/ Indexing # {})
    /\ UNCHANGED <<status, versions, current, lock, chunks, points, reader>>
Delete(j) ==
    /\ job[j].pc = "idle" /\ Alive
    /\ \/ job' = [job EXCEPT ![j].pc = "purge", ![j].by = "delete",
                             ![j].ver = 1, ![j].num = Len(versions)]
       \/ /\ Faults
          /\ job' = [job EXCEPT ![j].pc = "erase", ![j].by = "delete",
                                ![j].left = @ \cup DOMAIN versions]
    /\ overlap' = (overlap \/ Indexing # {})
    /\ UNCHANGED <<status, versions, current, lock, chunks, points, reader>>

Purge(j) ==
    /\ job[j].pc = "purge"
    /\ LET v == job[j].ver
           next == IF v < job[j].num THEN "purge" ELSE "erase"
       IN  \/ /\ points' = points \ OfVersion(points, v)
              /\ job' = [job EXCEPT ![j].pc = next, ![j].ver = v + 1]
           \/ /\ Faults
              /\ job' = [job EXCEPT ![j].pc = next, ![j].ver = v + 1,
                                    ![j].left = @ \cup {v}]
              /\ UNCHANGED points
    /\ UNCHANGED <<status, versions, current, lock, chunks, reader, overlap>>

Erase(j) ==
    /\ job[j].pc = "erase" /\ Unlocked
    /\ status' = "DELETED"
    /\ versions' = <<>>
    /\ current' = NULL
    /\ chunks' = {}
    /\ End(j, "done")
    /\ UNCHANGED <<lock, points, reader, overlap>>

(* The process of a job dies: its open transaction is rolled back, its     *)
(* background task is not resumed.                                         *)
Crash(j) ==
    /\ Faults
    /\ job[j].pc \notin {"idle", "done", "lost"}
    /\ End(j, IF j \in Owing THEN "lost" ELSE "done")
    /\ lock' = IF lock = j THEN NULL ELSE lock
    /\ UNCHANGED <<status, versions, current, chunks, points, reader, overlap>>

-----------------------------------------------------------------------------
(* retrieve_chunks: the vector search knows neither versions nor articles. *)
(* Ranking is left open, and so is an error, which yields no hits.         *)
Search(r) ==
    /\ reader[r].pc \in {"idle", "done"}
    /\ \E H \in SUBSET points :
          /\ Cardinality(H) <= TopK
          /\ reader' = [reader EXCEPT ![r] =
                [pc |-> IF H = {} THEN "done" ELSE "hydrate", hits |-> H,
                 asof |-> current, gone |-> FALSE, res |-> {}]]
    /\ UNCHANGED <<status, versions, current, lock, chunks, points, job, overlap>>

(* list_by_point_ids: hits without a row are dropped as orphans.           *)
Hydrate(r) ==
    /\ reader[r].pc = "hydrate"
    /\ reader' = [reader EXCEPT ![r].pc = "resolve", ![r].hits = @ \cap chunks]
    /\ UNCHANGED <<status, versions, current, lock, chunks, points, job, overlap>>

(* list_current_versions_by_ids, and the filter by current version.  An    *)
(* article that is gone by now has no entry, and nothing of it is dropped. *)
Kept_All(c) == TRUE
Kept(c) == current = NULL \/ c[1] = current

Resolve(r) ==
    /\ reader[r].pc = "resolve"
    /\ reader' = [reader EXCEPT ![r].pc = "done", ![r].hits = {}, ![r].gone = ~Alive,
                                ![r].res = {c \in reader[r].hits : Kept(c)}]
    /\ UNCHANGED <<status, versions, current, lock, chunks, points, job, overlap>>

-----------------------------------------------------------------------------
Step(j) ==
    \/ ReuploadAppend(j) \/ UpdateMetadata(j) \/ ReindexCompare(j)
    \/ ReindexMint(j) \/ Load(j) \/ Mark(j) \/ Embed(j) \/ Clear(j) \/ Upsert(j) \/ Rows(j)
    \/ Finish(j) \/ Fail(j) \/ Purge(j) \/ Erase(j)

Next ==
    \/ \E j \in Jobs :
          \/ \E t \in AllTexts : Create(j, t) \/ ReuploadLock(j, t)
          \/ \E force \in BOOLEAN : ReindexRead(j, force)
          \/ Delete(j) \/ Step(j) \/ Crash(j)
    \/ \E r \in Readers : Search(r) \/ Hydrate(r) \/ Resolve(r)

Spec == Init /\ [][Next]_vars

-----------------------------------------------------------------------------
(* Type correctness.                                                       *)
TypeOK ==
    /\ status \in {"NONE", "DRAFT", "INDEXING", "INDEXED", "FAILED", "DELETED"}
    /\ versions \in Seq(Version)
    /\ current \in Nat \cup {NULL}
    /\ lock \in Jobs \cup {NULL}
    /\ chunks \subseteq Nat \X Nat
    /\ points \subseteq Nat \X Nat
    /\ job \in [Jobs -> JobType]
    /\ reader \in [Readers -> ReaderType]
    /\ overlap \in BOOLEAN

(* Whatever overlaps, the version numbers of an article are 1, 2, 3, ... in *)
(* the order of the inserts, and the article points at the last of them:   *)
(* the locked reupload and the unlocked reindex never reuse a number and   *)
(* never take the article back to an older version.                        *)
NumberedInOrder ==
    /\ \A v \in DOMAIN versions : versions[v].num = v
    /\ Alive => current = Len(versions)

(* reupload_article: between the read of the latest version and the insert *)
(* of the next nobody takes its number, so that a reupload never fails on  *)
(* the unique constraint, also against an unlocked reindex.                *)
ReuploadNumberFree ==
    \A j \in Jobs : job[j].pc = "append" => Alive /\ ~NumberTaken(job[j].num + 1)

(* reindex_article: without force no version is ever minted, since the     *)
(* current version is the latest, and if another request came in between   *)
(* the two reads, its version has the number.                              *)
UnforcedMintsNothing ==
    \A v \in DOMAIN versions : versions[v].by # "changed"

(* index_article: unless a run met a mint, a delete or another run, an     *)
(* article that is INDEXED can be found: the current version has its rows  *)
(* and each row has its point, whatever failed or crashed before.          *)
IndexedMeansFound ==
    /\ status = "INDEXED" /\ ~overlap
    /\ \A j \in Jobs : job[j].by # "delete"
    => /\ OfVersion(chunks, current) \subseteq points
       /\ OfVersion(chunks, current) = {} <=> versions[current].text = Blank

(* index_article writes vectors first: as long as runs do not overlap, a   *)
(* chunk row is created only when its point exists.                        *)
RowsAfterVectors == [][~overlap => chunks' \ chunks \subseteq points]_vars

(* delete_article: once the article is gone, points remain only of the     *)
(* versions whose purge failed, unless a run overlapped the delete.        *)
OrphansExplained ==
    status = "DELETED" /\ ~overlap
        => \A c \in points : \E j \in Jobs : c[1] \in job[j].left

(* retrieve_chunks never answers from a version that was superseded before *)
(* its search, although older versions keep their rows and their points;   *)
(* only a delete of the article during the retrieval voids this.           *)
FreshAnswers ==
    \A r \in Readers :
        reader[r].pc = "done" /\ ~reader[r].gone
            => \A c \in reader[r].res : c[1] >= reader[r].asof

(* A search that starts after the article was deleted finds nothing of it, *)
(* whatever points a late index run has left behind.                       *)
NoGhostAnswers ==
    \A r \in Readers : reader[r].asof = NULL => reader[r].res = {}

(* While an article is INDEXING a job has its status to write, or one was  *)
(* lost that had: it crashed, could not write the status, or an error left *)
(* index_article before its try, or the update of a reupload's title       *)
(* (service.py:707) before index_article was called.  No early return, no  *)
(* other error and no overlap of requests leaves an article so.            *)
IndexingHasRun ==
    status = "INDEXING" => \E j \in Jobs : j \in Owing \/ job[j].pc = "lost"
=============================================================================
