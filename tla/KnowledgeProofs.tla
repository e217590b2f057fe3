-------------------------- MODULE KnowledgeProofs --------------------------
(***************************************************************************)
(* Versions, retrieval and write order of an article for any number of     *)
(* requests, retrievals, texts and chunks.                                 *)
(***************************************************************************)
EXTENDS Knowledge, TLAPS

(* What a request that is going to insert a version knows about the        *)
(* article.  Under the lock it knows the last number; without it, the text *)
(* of a number that exists, and an unforced reindex that goes on has seen  *)
(* that this number is not the last.                                       *)
JobOK(x, j) ==
    /\ status = "NONE" => x.pc = "idle"
    /\ x.pc = "append" =>
          /\ lock = j /\ Alive
          /\ x.num = Len(versions) /\ x.text \in AllTexts
    /\ x.pc \in {"compare", "mint"} =>
          /\ x.by \in {"forced", "changed"} /\ x.text \in AllTexts
          /\ Alive => x.num \in 1..Len(versions)
    /\ x.pc = "compare" /\ Alive => versions[x.num].text = x.text
    /\ x.pc = "mint" /\ x.by = "changed" /\ Alive => x.num < Len(versions)

JobInv == \A j \in Jobs : JobOK(job[j], j)

RowInv ==
    /\ Alive => Len(versions) > 0
    /\ ~Alive => current = NULL /\ versions = <<>>

IInv == TypeOK /\ NumberedInOrder /\ UnforcedMintsNothing /\ JobInv /\ RowInv

LEMMA NewJobType == NewJob \in JobType
BY DEF NewJob, JobType

LEMMA InitIInv == Init => IInv
<1> SUFFICES ASSUME Init PROVE IInv
  OBVIOUS
<1> USE DEF Init
<1>1. NewReader \in ReaderType
  BY DEF NewReader, ReaderType
<1>2. TypeOK
  <2>1. job \in [Jobs -> JobType] /\ reader \in [Readers -> ReaderType]
    BY <1>1, NewJobType
  <2>2. versions \in Seq(Version) /\ chunks \subseteq Nat \X Nat
        /\ points \subseteq Nat \X Nat
    OBVIOUS
  <2> QED
    BY <2>1, <2>2 DEF TypeOK
<1>3. ~Alive
  BY DEF Alive
<1>4. NumberedInOrder /\ UnforcedMintsNothing /\ RowInv
  BY <1>3 DEF NumberedInOrder, UnforcedMintsNothing, RowInv
<1>5. JobInv
  BY <1>3 DEF JobInv, JobOK, NewJob
<1> QED
  BY <1>2, <1>4, <1>5 DEF IInv

(* With numbers in order the latest version is the last one.               *)
LEMMA LatestIsLast ==
    ASSUME IInv, Alive
    PROVE  LatestVersion = Len(versions) /\ current = Len(versions)
           /\ Len(versions) \in DOMAIN versions /\ Len(versions) \in Nat
           /\ versions[Len(versions)] \in Version
<1> USE DEF IInv, TypeOK, NumberedInOrder, RowInv
<1>1. Len(versions) \in Nat /\ DOMAIN versions = 1..Len(versions) /\ Len(versions) > 0
  OBVIOUS
<1>2. \A v \in DOMAIN versions : v <= Len(versions)
  BY <1>1
<1>3. \A v \in DOMAIN versions :
        (\A u \in DOMAIN versions : versions[u].num <= versions[v].num)
            <=> v = Len(versions)
  BY <1>1, <1>2
<1> QED
  BY <1>1, <1>3 DEF LatestVersion

(* The number after the last is free, every smaller one is taken.          *)
LEMMA TakenNumbers ==
    ASSUME IInv, NEW n \in Nat, n >= 1
    PROVE  NumberTaken(n) <=> n <= Len(versions)
BY DEF IInv, TypeOK, NumberedInOrder, NumberTaken

(* The other jobs, when j changes the article.  Whoever holds the lock     *)
(* finds the versions as they were, and a deleted article stays deleted.   *)
LEMMA OtherJobs ==
    ASSUME IInv, NEW j \in Jobs,
           status' # "NONE",
           ~Alive => ~Alive',
           lock # NULL /\ lock # j => lock' = lock /\ versions' = versions /\ Alive' = Alive,
           \/ versions' = versions
           \/ versions' = <<>> /\ ~Alive'
           \/ \E e \in Version : versions' = Append(versions, e)
    PROVE  \A k \in Jobs \ {j} : JobOK(job[k], k)'  \/ job'[k] # job[k]
<1> SUFFICES ASSUME NEW k \in Jobs \ {j}, job'[k] = job[k] PROVE JobOK(job[k], k)'
  OBVIOUS
<1> USE KnowledgeAssumption DEF IInv, TypeOK
<1>1. JobOK(job[k], k) /\ job[k] \in JobType
  BY DEF JobInv
<1>2. job[k].num \in Nat /\ Len(versions) \in Nat
  BY <1>1 DEF JobType
<1>3. CASE versions' = versions
  BY <1>1, <1>2, <1>3 DEF JobOK
<1>4. CASE versions' = <<>> /\ ~Alive'
  BY <1>1, <1>2, <1>4 DEF JobOK
<1>5. ASSUME NEW e \in Version, versions' = Append(versions, e)
      PROVE  JobOK(job[k], k)'
  <2>1. Len(versions') = Len(versions) + 1
        /\ \A i \in 1..Len(versions) : versions'[i] = versions[i]
    BY <1>5
  <2>2. job[k].pc # "append"
    BY <1>1, <1>2, <2>1 DEF JobOK
  <2> QED
    BY <1>1, <1>2, <2>1, <2>2 DEF JobOK
<1> QED
  BY <1>3, <1>4, <1>5

(* A step of j that leaves the versions alone and after which j is not     *)
(* about to insert one.                                                    *)
LEMMA QuietStep ==
    ASSUME IInv, NEW j \in Jobs, NEW x \in JobType,
           job[j].pc # "idle" \/ Alive,
           job' = [job EXCEPT ![j] = x],
           x.pc \notin {"idle", "append", "compare", "mint"},
           \/ status' = status
           \/ Alive /\ status' \in {"INDEXING", "INDEXED", "FAILED"},
           UNCHANGED <<versions, current, reader>>,
           lock' = lock \/ (lock' = NULL /\ (lock = j \/ lock = NULL)),
           chunks' \subseteq Nat \X Nat, points' \subseteq Nat \X Nat,
           overlap' \in BOOLEAN
    PROVE  IInv'
<1> USE KnowledgeAssumption
<1>1. Alive' = Alive /\ status' # "NONE" /\ status # "NONE"
  BY DEF Alive, IInv, JobInv, JobOK
<1>2. TypeOK'
  BY DEF IInv, TypeOK, Alive
<1>3. NumberedInOrder' /\ UnforcedMintsNothing' /\ RowInv'
  BY <1>1 DEF IInv, NumberedInOrder, UnforcedMintsNothing, RowInv
<1>4. \A k \in Jobs \ {j} : JobOK(job[k], k)' \/ job'[k] # job[k]
  BY <1>1, OtherJobs
<1>5. ASSUME NEW k \in Jobs PROVE JobOK(job[k], k)'
  <2>1. CASE k # j
    <3>1. job'[k] = job[k]
      BY <2>1 DEF IInv, TypeOK
    <3> QED
      BY <1>4, <2>1, <3>1
  <2>2. CASE k = j
    <3>1. job'[k] = x
      BY <2>2 DEF IInv, TypeOK
    <3> QED
      BY <1>1, <3>1 DEF JobOK
  <2> QED
    BY <2>1, <2>2
<1> QED
  BY <1>2, <1>3, <1>5 DEF IInv, JobInv

LEMMA Ended ==
    ASSUME IInv, NEW j \in Jobs, NEW l \in {"done", "lost"}, End(j, l)
    PROVE  \E x \in JobType : job' = [job EXCEPT ![j] = x] /\ x.pc = l
<1>1. job[j] \in JobType
  BY DEF IInv, TypeOK
<1>2. PICK b \in {"delete", NULL} : b = IF job[j].by = "delete" THEN "delete" ELSE NULL
  OBVIOUS
<1>3. PICK x : x = [NewJob EXCEPT !.pc = l, !.left = job[j].left, !.by = b]
  OBVIOUS
<1>4. x \in JobType /\ x.pc = l
  BY <1>1, <1>3, NewJobType DEF JobType, NewJob
<1>5. job' = [job EXCEPT ![j] = x]
  BY <1>2, <1>3 DEF End
<1> QED
  BY <1>4, <1>5

Quiet == {"meta", "load", "mark", "embed", "clear", "upsert", "rows", "finish", "fail",
          "purge", "erase"}

LEMMA Went ==
    ASSUME IInv, NEW j \in Jobs, NEW l \in Quiet \cup {"mint"}, Goto(j, l)
    PROVE  /\ [job[j] EXCEPT !.pc = l] \in JobType
           /\ job' = [job EXCEPT ![j] = [job[j] EXCEPT !.pc = l]]
           /\ [job[j] EXCEPT !.pc = l].pc = l
<1>1. job[j] \in JobType
  BY DEF IInv, TypeOK
<1>2. [job[j] EXCEPT !.pc = l] \in JobType /\ [job[j] EXCEPT !.pc = l].pc = l
  BY <1>1 DEF JobType, Quiet
<1> QED
  BY <1>2 DEF Goto, IInv, TypeOK

(* Both kinds of quiet moves.                                              *)
LEMMA QuietMove ==
    ASSUME IInv, NEW j \in Jobs,
           (\E l \in Quiet : Goto(j, l)) \/ (\E l \in {"done", "lost"} : End(j, l))
    PROVE  \E x \in JobType :
               /\ job' = [job EXCEPT ![j] = x]
               /\ x.pc \notin {"idle", "append", "compare", "mint"}
<1>1. CASE \E l \in Quiet : Goto(j, l)
  <2>1. PICK l \in Quiet : Goto(j, l)
    BY <1>1
  <2> DEFINE x == [job[j] EXCEPT !.pc = l]
  <2>2. x \in JobType /\ job' = [job EXCEPT ![j] = x] /\ x.pc = l
    BY <2>1, Went
  <2> HIDE DEF x
  <2> QED
    BY <2>2 DEF Quiet
<1>2. CASE \E l \in {"done", "lost"} : End(j, l)
  BY <1>2, Ended
<1> QED
  BY <1>1, <1>2

LEMMA StoreTypes ==
    ASSUME IInv, NEW j \in Jobs
    PROVE  /\ Cut(job[j].ver, job[j].cnt) \subseteq Nat \X Nat
           /\ \A S, v : S \subseteq Nat \X Nat => S \ OfVersion(S, v) \subseteq Nat \X Nat
<1>1. job[j].ver \in Nat /\ job[j].cnt \in Nat
  BY DEF IInv, TypeOK, JobType
<1> QED
  BY <1>1 DEF Cut, OfVersion

(* Status writes.                                                          *)
LEMMA SetStatusIInv ==
    ASSUME IInv, NEW j \in Jobs, job[j].pc # "idle",
           NEW s \in {"INDEXING", "INDEXED", "FAILED"},
           NEW l \in Quiet \cup {"done"},
           SetStatus(j, s, l),
           UNCHANGED <<versions, current, lock, chunks, points, reader, overlap>>
    PROVE  IInv'
<1>1. (\E m \in Quiet : Goto(j, m)) \/ (\E m \in {"done", "lost"} : End(j, m))
  BY DEF SetStatus
<1>2. status' = status \/ (Alive /\ status' = s)
  BY DEF SetStatus
<1> QED
  BY <1>1, <1>2, QuietMove, QuietStep DEF IInv, TypeOK

LEMMA StatusStepsIInv ==
    ASSUME IInv, NEW j \in Jobs, Mark(j) \/ Finish(j) \/ Fail(j)
    PROVE  IInv'
<1>1. CASE Mark(j)
  <2>1. (IF job[j].cnt = 0 THEN "clear" ELSE "embed") \in Quiet
    BY DEF Quiet
  <2> QED
    BY <1>1, <2>1, SetStatusIInv DEF Mark
<1>2. CASE Finish(j)
  BY <1>2, SetStatusIInv DEF Finish
<1>3. CASE Fail(j)
  BY <1>3, SetStatusIInv DEF Fail
<1> QED
  BY <1>1, <1>2, <1>3

(* The calls of an index run to the provider, to Qdrant and to the chunks  *)
(* table.                                                                  *)
LEMMA StoreStepsIInv ==
    ASSUME IInv, NEW j \in Jobs, Embed(j) \/ Clear(j) \/ Upsert(j) \/ Rows(j)
    PROVE  IInv'
<1>1. (\E l \in Quiet : Goto(j, l)) \/ (\E l \in {"done", "lost"} : End(j, l))
  BY DEF Embed, Clear, Upsert, Rows, Failing, Quiet
<1>2. UNCHANGED <<status, versions, current, lock, reader, overlap>> /\ job[j].pc # "idle"
  BY DEF Embed, Clear, Upsert, Rows
<1>3. chunks' \subseteq Nat \X Nat /\ points' \subseteq Nat \X Nat
  <2>1. chunks \subseteq Nat \X Nat /\ points \subseteq Nat \X Nat
    BY DEF IInv, TypeOK
  <2>2. CASE Embed(j)
    BY <2>1, <2>2 DEF Embed
  <2>3. CASE Clear(j)
    BY <2>1, <2>3, StoreTypes DEF Clear
  <2>4. CASE Upsert(j)
    BY <2>1, <2>4, StoreTypes DEF Upsert
  <2>5. CASE Rows(j)
    BY <2>1, <2>5, StoreTypes DEF Rows
  <2> QED
    BY <2>2, <2>3, <2>4, <2>5
<1>4. overlap' \in BOOLEAN
  BY <1>2 DEF IInv, TypeOK
<1> QED
  BY <1>1, <1>2, <1>3, <1>4, QuietMove, QuietStep

(* index_article reads the current version.                                *)
LEMMA LoadIInv ==
    ASSUME IInv, NEW j \in Jobs, Load(j)
    PROVE  IInv'
<1>1. UNCHANGED <<status, versions, current, lock, chunks, points, reader>>
      /\ job[j].pc # "idle"
  BY DEF Load
<1>2. chunks' \subseteq Nat \X Nat /\ points' \subseteq Nat \X Nat /\ overlap' \in BOOLEAN
  BY <1>1 DEF Load, IInv, TypeOK
<1>3. CASE \E l \in {"done", "lost"} : End(j, l)
  BY <1>1, <1>2, <1>3, QuietMove, QuietStep
<1>4. CASE Alive /\ ~\E l \in {"done", "lost"} : End(j, l)
  <2>1. PICK n \in IF versions[current].text = Blank THEN {0} ELSE Sizes :
            job' = [job EXCEPT ![j].pc = "mark", ![j].ver = current, ![j].cnt = n,
                               ![j].by = NULL, ![j].num = 0, ![j].text = NULL]
    BY <1>4 DEF Load
  <2>2. n \in Nat /\ current \in Nat
    BY <1>4, LatestIsLast, KnowledgeAssumption
  <2> DEFINE x == [job[j] EXCEPT !.pc = "mark", !.ver = current, !.cnt = n,
                                 !.by = NULL, !.num = 0, !.text = NULL]
  <2>3. job[j] \in JobType
    BY DEF IInv, TypeOK
  <2>4. x \in JobType /\ x.pc = "mark"
    BY <2>2, <2>3 DEF JobType
  <2>5. job' = [job EXCEPT ![j] = x]
    BY <2>1 DEF IInv, TypeOK
  <2> HIDE DEF x
  <2> QED
    BY <1>1, <1>2, <2>4, <2>5, QuietStep
<1> QED
  BY <1>3, <1>4 DEF Load

(* Title and source_uri of a reupload.                                     *)
LEMMA UpdateMetadataIInv ==
    ASSUME IInv, NEW j \in Jobs, UpdateMetadata(j)
    PROVE  IInv'
<1>1. /\ UNCHANGED <<status, versions, current, lock, chunks, points, reader, overlap>>
      /\ job[j].pc # "idle"
  BY DEF UpdateMetadata
<1>2. (\E l \in Quiet : Goto(j, l)) \/ (\E l \in {"done", "lost"} : End(j, l))
  BY DEF UpdateMetadata, Quiet
<1> QED
  BY <1>1, <1>2, QuietMove, QuietStep DEF IInv, TypeOK

(* A delete begins with the list of the versions, or without one.          *)
LEMMA DeleteBegins ==
    ASSUME IInv, NEW j \in Jobs, Delete(j)
    PROVE  \E x \in JobType :
               /\ job' = [job EXCEPT ![j] = x]
               /\ x.by = "delete"
               /\ job[j].left \subseteq x.left
               /\ \/ x.pc = "purge" /\ x.ver = 1 /\ x.num = Len(versions)
                  \/ x.pc = "erase" /\ DOMAIN versions \subseteq x.left
<1>1. job[j] \in JobType /\ Len(versions) \in Nat /\ DOMAIN versions \subseteq Nat
  BY DEF IInv, TypeOK
<1>2. CASE job' = [job EXCEPT ![j].pc = "purge", ![j].by = "delete",
                              ![j].ver = 1, ![j].num = Len(versions)]
  <2>1. PICK x : x = [job[j] EXCEPT !.pc = "purge", !.by = "delete", !.ver = 1,
                                    !.num = Len(versions)]
    OBVIOUS
  <2>2. job' = [job EXCEPT ![j] = x]
    BY <1>2, <2>1 DEF IInv, TypeOK
  <2>3. x \in JobType /\ x.pc = "purge" /\ x.by = "delete" /\ x.ver = 1
        /\ x.num = Len(versions) /\ x.left = job[j].left
    BY <1>1, <2>1 DEF JobType
  <2> QED
    BY <2>2, <2>3
<1>3. CASE job' = [job EXCEPT ![j].pc = "erase", ![j].by = "delete",
                              ![j].left = @ \cup DOMAIN versions]
  <2>1. PICK x : x = [job[j] EXCEPT !.pc = "erase", !.by = "delete",
                                    !.left = job[j].left \cup DOMAIN versions]
    OBVIOUS
  <2>2. job' = [job EXCEPT ![j] = x]
    BY <1>3, <2>1 DEF IInv, TypeOK
  <2>3. job[j].left \cup DOMAIN versions \in SUBSET Nat
    BY <1>1 DEF JobType
  <2>4. x \in JobType /\ x.pc = "erase" /\ x.by = "delete"
        /\ x.left = job[j].left \cup DOMAIN versions
    BY <1>1, <2>1, <2>3 DEF JobType
  <2> QED
    BY <2>2, <2>4
<1> QED
  BY <1>2, <1>3 DEF Delete

(* Deleting the points, version by version, and crashing.                  *)
LEMMA DeleteIInv ==
    ASSUME IInv, NEW j \in Jobs, Delete(j)
    PROVE  IInv'
<1>1. PICK x \in JobType : job' = [job EXCEPT ![j] = x] /\ x.pc \in {"purge", "erase"}
  BY DeleteBegins
<1>4. Alive /\ UNCHANGED <<status, versions, current, lock, chunks, points, reader>>
  BY DEF Delete
<1>5. chunks' \subseteq Nat \X Nat /\ points' \subseteq Nat \X Nat /\ overlap' \in BOOLEAN
  BY <1>4 DEF Delete, IInv, TypeOK
<1> QED
  BY <1>1, <1>4, <1>5, QuietStep

LEMMA PurgeIInv ==
    ASSUME IInv, NEW j \in Jobs, Purge(j)
    PROVE  IInv'
<1> DEFINE l == IF job[j].ver < job[j].num THEN "purge" ELSE "erase"
<1>1. job[j] \in JobType /\ job[j].ver \in Nat
  BY DEF IInv, TypeOK, JobType
<1>2. l \in {"purge", "erase"}
  OBVIOUS
<1>3. UNCHANGED <<status, versions, current, lock, chunks, reader, overlap>>
      /\ job[j].pc # "idle"
  BY DEF Purge
<1>4. chunks' \subseteq Nat \X Nat /\ points' \subseteq Nat \X Nat /\ overlap' \in BOOLEAN
  BY <1>3, StoreTypes DEF Purge, IInv, TypeOK
<1> HIDE DEF l
<1>5. PICK v \in Nat, r \in JobType : v = job[j].ver /\ r = job[j]
  BY <1>1
<1>6. PICK x : /\ \/ x = [r EXCEPT !.pc = l, !.ver = v + 1]
                  \/ x = [r EXCEPT !.pc = l, !.ver = v + 1, !.left = @ \cup {v}]
               /\ job' = [job EXCEPT ![j] = x]
  <2>1. \/ job' = [job EXCEPT ![j].pc = l, ![j].ver = v + 1]
        \/ job' = [job EXCEPT ![j].pc = l, ![j].ver = v + 1, ![j].left = @ \cup {v}]
    BY <1>5 DEF Purge, l
  <2> QED
    BY <1>5, <2>1 DEF IInv, TypeOK
<1>7. x \in JobType /\ x.pc = l
  <2>1. r.left \cup {v} \in SUBSET Nat /\ v + 1 \in Nat
    BY DEF JobType
  <2> QED
    BY <1>2, <1>6, <2>1 DEF JobType
<1> QED
  BY <1>2, <1>3, <1>4, <1>6, <1>7, QuietStep

LEMMA CrashIInv ==
    ASSUME IInv, NEW j \in Jobs, Crash(j)
    PROVE  IInv'
<1>1. (\E l \in {"done", "lost"} : End(j, l)) /\ job[j].pc # "idle"
      /\ UNCHANGED <<status, versions, current, chunks, points, reader, overlap>>
      /\ lock' = IF lock = j THEN NULL ELSE lock
  BY DEF Crash
<1> QED
  BY <1>1, QuietMove, QuietStep DEF IInv, TypeOK

(* The row is deleted: nobody holds its lock.                              *)
LEMMA EraseIInv ==
    ASSUME IInv, NEW j \in Jobs, Erase(j)
    PROVE  IInv'
<1> USE KnowledgeAssumption
<1>1. PICK x \in JobType : job' = [job EXCEPT ![j] = x] /\ x.pc = "done"
  BY Ended DEF Erase
<1>2. status' = "DELETED" /\ ~Alive' /\ lock = NULL /\ lock' = NULL /\ versions' = <<>>
      /\ current' = NULL /\ chunks' = {} /\ UNCHANGED <<points, reader, overlap>>
  BY DEF Erase, Alive, Unlocked
<1>3. TypeOK'
  <2>1. versions' \in Seq(Version) /\ chunks' \subseteq Nat \X Nat
    BY <1>2
  <2> QED
    BY <1>1, <1>2, <2>1 DEF IInv, TypeOK
<1>4. NumberedInOrder' /\ UnforcedMintsNothing' /\ RowInv'
  BY <1>2 DEF NumberedInOrder, UnforcedMintsNothing, RowInv
<1>5. \A k \in Jobs \ {j} : JobOK(job[k], k)' \/ job'[k] # job[k]
  BY <1>2, OtherJobs
<1>6. JobInv'
  <2> SUFFICES ASSUME NEW k \in Jobs PROVE JobOK(job[k], k)'
    BY DEF JobInv
  <2>1. job'[k] = IF k = j THEN x ELSE job[k]
    BY <1>1 DEF IInv, TypeOK
  <2>2. CASE k = j
    BY <1>1, <1>2, <2>1, <2>2 DEF JobOK
  <2> QED
    BY <1>5, <2>1, <2>2
<1> QED
  BY <1>3, <1>4, <1>6 DEF IInv

(* A request that starts and reads: the article does not change.           *)
LEMMA ReadingStep ==
    ASSUME IInv, NEW j \in Jobs, NEW x \in JobType, Alive,
           job' = [job EXCEPT ![j] = x],
           UNCHANGED <<status, versions, current, chunks, points, reader, overlap>>,
           lock' = lock \/ (lock = NULL /\ lock' = j),
           JobOK(x, j)'
    PROVE  IInv'
<1> USE KnowledgeAssumption
<1>1. Alive' = Alive /\ status' # "NONE"
  BY DEF Alive
<1>2. TypeOK'
  BY DEF IInv, TypeOK
<1>3. NumberedInOrder' /\ UnforcedMintsNothing' /\ RowInv'
  BY <1>1 DEF IInv, NumberedInOrder, UnforcedMintsNothing, RowInv
<1>4. \A k \in Jobs \ {j} : JobOK(job[k], k)' \/ job'[k] # job[k]
  BY <1>1, OtherJobs
<1>5. JobInv'
  <2> SUFFICES ASSUME NEW k \in Jobs PROVE JobOK(job[k], k)'
    BY DEF JobInv
  <2>1. job'[k] = IF k = j THEN x ELSE job[k]
    BY DEF IInv, TypeOK
  <2>2. CASE k = j
    BY <2>1, <2>2 DEF JobOK
  <2> QED
    BY <1>4, <2>1, <2>2
<1> QED
  BY <1>2, <1>3, <1>5 DEF IInv

LEMMA ReuploadLockIInv ==
    ASSUME IInv, NEW j \in Jobs, NEW t \in AllTexts, ReuploadLock(j, t)
    PROVE  IInv'
<1>1. Alive /\ lock = NULL
      /\ UNCHANGED <<status, versions, current, chunks, points, reader, overlap>>
  BY DEF ReuploadLock, Unlocked
<1>2. CASE versions[LatestVersion].text = t
  <2>1. End(j, "done") /\ lock' = lock
    BY <1>2 DEF ReuploadLock
  <2> QED
    BY <1>1, <2>1, QuietMove, QuietStep DEF IInv, TypeOK
<1>3. CASE versions[LatestVersion].text # t
  <2>1. PICK n \in Nat : n = versions[LatestVersion].num /\ n = Len(versions)
    BY <1>1, LatestIsLast DEF IInv, NumberedInOrder
  <2>2. job[j] \in JobType
    BY DEF IInv, TypeOK
  <2>3. PICK x : x = [job[j] EXCEPT !.pc = "append", !.by = "reupload", !.text = t,
                                    !.num = n]
    OBVIOUS
  <2>4. job' = [job EXCEPT ![j] = x] /\ lock' = j
    BY <1>3, <2>1, <2>3 DEF ReuploadLock, IInv, TypeOK
  <2>5. x \in JobType /\ x.pc = "append" /\ x.num = n /\ x.text = t
    BY <2>2, <2>3 DEF JobType, Origins
  <2>6. JobOK(x, j)'
    BY <1>1, <2>1, <2>4, <2>5 DEF JobOK, Alive
  <2> QED
    BY <1>1, <2>4, <2>5, <2>6, ReadingStep
<1> QED
  BY <1>2, <1>3

LEMMA ReindexReadIInv ==
    ASSUME IInv, NEW j \in Jobs, NEW force \in BOOLEAN, ReindexRead(j, force)
    PROVE  IInv'
<1>1. Alive
      /\ UNCHANGED <<status, versions, current, lock, chunks, points, reader, overlap>>
  BY DEF ReindexRead
<1>2. PICK n \in Nat, t \in AllTexts :
        /\ n = versions[current].num /\ t = versions[current].text
        /\ n = Len(versions) /\ n \in 1..Len(versions) /\ versions[n].text = t
  BY <1>1, LatestIsLast DEF IInv, NumberedInOrder, RowInv, Version
<1>3. PICK b \in {"forced", "changed"} : b = IF force THEN "forced" ELSE "changed"
  OBVIOUS
<1>4. PICK x : x = [job[j] EXCEPT !.pc = "compare", !.by = b, !.num = n, !.text = t]
  OBVIOUS
<1>5. job' = [job EXCEPT ![j] = x]
  BY <1>2, <1>3, <1>4 DEF ReindexRead, IInv, TypeOK
<1>6. x \in JobType /\ x.pc = "compare" /\ x.by = b /\ x.num = n /\ x.text = t
  <2>1. job[j] \in JobType
    BY DEF IInv, TypeOK
  <2> QED
    BY <1>4, <2>1 DEF JobType, Origins
<1>7. JobOK(x, j)'
  BY <1>1, <1>2, <1>6 DEF JobOK, Alive
<1> QED
  BY <1>1, <1>5, <1>6, <1>7, ReadingStep

LEMMA ReindexCompareIInv ==
    ASSUME IInv, NEW j \in Jobs, ReindexCompare(j)
    PROVE  IInv'
<1>1. job[j].pc = "compare" /\ JobOK(job[j], j) /\ job[j] \in JobType
      /\ UNCHANGED <<status, versions, current, lock, chunks, points, reader, overlap>>
  BY DEF ReindexCompare, IInv, JobInv, TypeOK
<1>2. CASE End(j, "done")
  BY <1>1, <1>2, QuietMove, QuietStep DEF IInv, TypeOK
<1>3. CASE /\ Goto(j, "mint")
           /\ ~(job[j].by = "changed" /\ Alive
                /\ versions[LatestVersion].text = job[j].text)
  <2>1. PICK x \in JobType :
            /\ job' = [job EXCEPT ![j] = x] /\ x.pc = "mint"
            /\ x.by = job[j].by /\ x.num = job[j].num /\ x.text = job[j].text
    <3> DEFINE y == [job[j] EXCEPT !.pc = "mint"]
    <3>1. y \in JobType /\ job' = [job EXCEPT ![j] = y] /\ y.pc = "mint"
      BY <1>3, Went
    <3>2. y.by = job[j].by /\ y.num = job[j].num /\ y.text = job[j].text
      BY <1>1 DEF JobType
    <3> HIDE DEF y
    <3> QED
      BY <3>1, <3>2
  <2>2. x.num \in Nat
    BY DEF JobType
  <2>3. job[j].by = "changed" /\ Alive => job[j].num < Len(versions)
    BY <1>1, <1>3, <2>2, LatestIsLast DEF JobOK
  <2>4. JobOK(x, j)'
    BY <1>1, <2>1, <2>2, <2>3 DEF JobOK, Alive
  <2>5. CASE Alive
    BY <1>1, <2>1, <2>4, <2>5, ReadingStep
  <2>6. CASE ~Alive
    <3>1. status # "NONE" /\ Alive' = Alive
      BY <1>1 DEF JobOK, Alive
    <3>2. \A k \in Jobs \ {j} : JobOK(job[k], k)' \/ job'[k] # job[k]
      BY <1>1, <3>1, OtherJobs
    <3>3. JobInv'
      <4> SUFFICES ASSUME NEW k \in Jobs PROVE JobOK(job[k], k)'
        BY DEF JobInv
      <4>1. job'[k] = IF k = j THEN x ELSE job[k]
        BY <2>1 DEF IInv, TypeOK
      <4>2. CASE k = j
        BY <2>4, <4>1, <4>2 DEF JobOK
      <4> QED
        BY <3>2, <4>1, <4>2
    <3>4. TypeOK' /\ NumberedInOrder' /\ UnforcedMintsNothing' /\ RowInv'
      BY <1>1, <2>1, <3>1
         DEF IInv, TypeOK, NumberedInOrder, UnforcedMintsNothing, RowInv
    <3> QED
      BY <3>3, <3>4 DEF IInv
  <2> QED
    BY <2>5, <2>6
<1> QED
  BY <1>2, <1>3 DEF ReindexCompare

(* The insert of a version.  Its number is the next one, since no other    *)
(* that follows an existing number is free; an unforced reindex has none.  *)
LEMMA MintIInv ==
    ASSUME IInv, NEW j \in Jobs, Alive, lock = NULL \/ lock = j,
           NEW t \in AllTexts, NEW by \in Origins \ {"changed"},
           NEW next \in {"meta", "load"},
           Mint(Len(versions) + 1, t, by), Goto(j, next),
           lock' = NULL, UNCHANGED <<chunks, points, reader>>
    PROVE  IInv'
<1> USE KnowledgeAssumption
<1> DEFINE e == [num |-> Len(versions) + 1, text |-> t, by |-> by]
           x == [job[j] EXCEPT !.pc = next]
<1>1. versions \in Seq(Version) /\ Len(versions) \in Nat
  BY DEF IInv, TypeOK
<1>2. e \in Version /\ e.num = Len(versions) + 1 /\ e.by # "changed"
  BY <1>1 DEF Version
<1>3. versions' = Append(versions, e) /\ current' = Len(versions) + 1
      /\ status' = "INDEXING" /\ Alive' /\ overlap' \in BOOLEAN
  BY DEF Mint, Alive, IInv, TypeOK
<1> HIDE DEF e
<1>4. /\ versions' \in Seq(Version) /\ Len(versions') = Len(versions) + 1
      /\ DOMAIN versions = 1..Len(versions) /\ DOMAIN versions' = 1..(Len(versions) + 1)
      /\ \A i \in 1..Len(versions) : versions'[i] = versions[i]
      /\ versions'[Len(versions) + 1] = e
  BY <1>1, <1>2, <1>3
<1>5. x \in JobType /\ job' = [job EXCEPT ![j] = x] /\ x.pc \in {"meta", "load"}
  BY Went DEF Quiet
<1> HIDE DEF x
<1>6. TypeOK'
  BY <1>1, <1>3, <1>4, <1>5 DEF IInv, TypeOK
<1>7. NumberedInOrder'
  BY <1>1, <1>2, <1>3, <1>4 DEF IInv, NumberedInOrder
<1>8. UnforcedMintsNothing' /\ RowInv'
  BY <1>1, <1>2, <1>3, <1>4 DEF IInv, UnforcedMintsNothing, RowInv
<1>9. \A k \in Jobs \ {j} : JobOK(job[k], k)' \/ job'[k] # job[k]
  BY <1>2, <1>3, OtherJobs
<1>10. JobInv'
  <2> SUFFICES ASSUME NEW k \in Jobs PROVE JobOK(job[k], k)'
    BY DEF JobInv
  <2>1. job'[k] = IF k = j THEN x ELSE job[k]
    BY <1>5 DEF IInv, TypeOK
  <2>2. CASE k = j
    BY <1>3, <1>5, <2>1, <2>2 DEF JobOK
  <2> QED
    BY <1>9, <2>1, <2>2
<1> QED
  BY <1>6, <1>7, <1>8, <1>10 DEF IInv

LEMMA ReuploadAppendIInv ==
    ASSUME IInv, NEW j \in Jobs, ReuploadAppend(j)
    PROVE  IInv'
<1>1. job[j].pc = "append" /\ JobOK(job[j], j) /\ job[j] \in JobType
  BY DEF ReuploadAppend, IInv, JobInv, TypeOK
<1>2. lock = j /\ Alive /\ job[j].num = Len(versions) /\ job[j].text \in AllTexts
      /\ lock' = NULL /\ UNCHANGED <<chunks, points, reader>>
  BY <1>1 DEF JobOK, ReuploadAppend
<1>3. CASE /\ Mint(job[j].num + 1, job[j].text, "reupload")
           /\ \E next \in {"meta", "load"} : Goto(j, next)
  <2>1. PICK t \in AllTexts : t = job[j].text
    BY <1>2
  <2>2. Mint(Len(versions) + 1, t, "reupload")
    BY <1>2, <1>3, <2>1
  <2> QED
    BY <1>2, <1>3, <2>2, MintIInv DEF Origins
<1>4. CASE End(j, "done") /\ UNCHANGED <<status, versions, current, overlap>>
  BY <1>1, <1>2, <1>4, QuietMove, QuietStep DEF IInv, TypeOK
<1> QED
  BY <1>3, <1>4 DEF ReuploadAppend

LEMMA ReindexMintIInv ==
    ASSUME IInv, NEW j \in Jobs, ReindexMint(j)
    PROVE  IInv'
<1>1. job[j].pc = "mint" /\ JobOK(job[j], j) /\ job[j] \in JobType /\ lock = NULL
      /\ UNCHANGED <<lock, chunks, points, reader>>
  BY DEF ReindexMint, IInv, JobInv, TypeOK, Unlocked
<1>2. CASE /\ Alive /\ ~NumberTaken(job[j].num + 1)
           /\ Mint(job[j].num + 1, job[j].text, job[j].by) /\ Goto(j, "load")
  <2>1. job[j].num \in 1..Len(versions) /\ Len(versions) \in Nat /\ job[j].num \in Nat
    BY <1>1, <1>2 DEF JobOK, JobType, IInv, TypeOK
  <2>2. job[j].num = Len(versions)
    BY <1>2, <2>1, TakenNumbers
  <2>3. PICK t \in AllTexts, b \in Origins \ {"changed"} :
            t = job[j].text /\ b = job[j].by
    BY <1>1, <1>2, <2>1, <2>2 DEF JobOK, Origins
  <2>4. Mint(Len(versions) + 1, t, b)
    BY <1>2, <2>2, <2>3
  <2> QED
    BY <1>1, <1>2, <2>4, MintIInv
<1>3. CASE End(j, "done") /\ UNCHANGED <<status, versions, current, overlap>>
  BY <1>1, <1>3, QuietMove, QuietStep DEF IInv, TypeOK
<1> QED
  BY <1>2, <1>3 DEF ReindexMint

LEMMA CreateIInv ==
    ASSUME IInv, NEW j \in Jobs, NEW t \in AllTexts, Create(j, t)
    PROVE  IInv'
<1>1. PICK e : e = [num |-> 1, text |-> t, by |-> "create"]
  OBVIOUS
<1>2. e \in Version /\ e.num = 1 /\ e.by = "create"
  BY <1>1 DEF Version, Origins
<1>3. /\ status = "NONE" /\ status' = "DRAFT" /\ Alive' /\ versions' = <<e>> /\ current' = 1
      /\ UNCHANGED <<lock, chunks, points, reader, overlap>>
  BY <1>1 DEF Create, Alive
<1>4. versions' \in Seq(Version) /\ Len(versions') = 1 /\ DOMAIN versions' = 1..1
      /\ versions'[1] = e
  BY <1>2, <1>3
<1>5. PICK x : x = [job[j] EXCEPT !.pc = "load", !.by = "create"]
  OBVIOUS
<1>6. job' = [job EXCEPT ![j] = x] /\ job[j] \in JobType
  BY <1>5 DEF Create, IInv, TypeOK
<1>7. x \in JobType /\ x.pc = "load"
  BY <1>5, <1>6 DEF JobType, Origins
<1>8. TypeOK'
  BY <1>3, <1>4, <1>6, <1>7 DEF IInv, TypeOK
<1>9. NumberedInOrder' /\ UnforcedMintsNothing' /\ RowInv'
  BY <1>2, <1>3, <1>4 DEF NumberedInOrder, UnforcedMintsNothing, RowInv
<1>10. JobInv'
  <2> SUFFICES ASSUME NEW k \in Jobs PROVE JobOK(job[k], k)'
    BY DEF JobInv
  <2>1. job'[k] = x \/ job'[k] = job[k]
    BY <1>6 DEF IInv, TypeOK
  <2>2. job[k].pc = "idle"
    BY <1>3 DEF IInv, JobInv, JobOK
  <2> QED
    BY <1>3, <1>7, <2>1, <2>2 DEF JobOK
<1> QED
  BY <1>8, <1>9, <1>10 DEF IInv

(* A retrieval changes only its own state.                                 *)
LEMMA ReaderStepType ==
    ASSUME IInv, NEW r \in Readers, Search(r) \/ Hydrate(r) \/ Resolve(r)
    PROVE  reader' \in [Readers -> ReaderType]
<1>1. reader \in [Readers -> ReaderType] /\ reader[r] \in ReaderType
      /\ points \subseteq Nat \X Nat /\ current \in Nat \cup {NULL}
  BY DEF IInv, TypeOK
<1>2. CASE Search(r)
  <2>1. PICK H \in SUBSET points :
            reader' = [reader EXCEPT ![r] =
                [pc |-> IF H = {} THEN "done" ELSE "hydrate", hits |-> H,
                 asof |-> current, gone |-> FALSE, res |-> {}]]
    BY <1>2 DEF Search
  <2>2. [pc |-> IF H = {} THEN "done" ELSE "hydrate", hits |-> H,
         asof |-> current, gone |-> FALSE, res |-> {}] \in ReaderType
    BY <1>1 DEF ReaderType
  <2> QED
    BY <1>1, <2>1, <2>2
<1>3. CASE Hydrate(r)
  <2>1. [reader[r] EXCEPT !.pc = "resolve", !.hits = @ \cap chunks] \in ReaderType
    <3>1. reader[r].hits \cap chunks \in SUBSET (Nat \X Nat)
      BY <1>1 DEF ReaderType
    <3> QED
      BY <1>1, <3>1 DEF ReaderType
  <2> QED
    BY <1>1, <1>3, <2>1 DEF Hydrate
<1>4. CASE Resolve(r)
  <2> DEFINE K == {c \in reader[r].hits : Kept(c)}
             g == ~Alive
  <2>1. K \in SUBSET (Nat \X Nat) /\ g \in BOOLEAN
    BY <1>1 DEF ReaderType
  <2>2. reader' = [reader EXCEPT ![r] = [reader[r] EXCEPT !.pc = "done", !.hits = {},
                                                          !.gone = g, !.res = K]]
    BY <1>1, <1>4 DEF Resolve
  <2> HIDE DEF K, g
  <2>3. [reader[r] EXCEPT !.pc = "done", !.hits = {}, !.gone = g, !.res = K] \in ReaderType
    BY <1>1, <2>1 DEF ReaderType
  <2> QED
    BY <1>1, <2>2, <2>3
<1> QED
  BY <1>2, <1>3, <1>4

LEMMA ReadersIInv ==
    ASSUME IInv, NEW r \in Readers, Search(r) \/ Hydrate(r) \/ Resolve(r)
    PROVE  IInv'
<1>1. UNCHANGED <<status, versions, current, lock, chunks, points, job, overlap>>
  BY DEF Search, Hydrate, Resolve
<1>2. TypeOK'
  BY <1>1, ReaderStepType DEF IInv, TypeOK
<1>3. Alive' = Alive
  BY <1>1 DEF Alive
<1> QED
  BY <1>1, <1>2, <1>3
     DEF IInv, NumberedInOrder, UnforcedMintsNothing, RowInv, JobInv, JobOK

LEMMA NextIInv == IInv /\ [Next]_vars => IInv'
<1> SUFFICES ASSUME IInv, [Next]_vars PROVE IInv'
  OBVIOUS
<1>1. ASSUME NEW j \in Jobs, NEW t \in AllTexts, Create(j, t) \/ ReuploadLock(j, t)
      PROVE  IInv'
  BY <1>1, CreateIInv, ReuploadLockIInv
<1>2. ASSUME NEW j \in Jobs, NEW force \in BOOLEAN, ReindexRead(j, force) PROVE IInv'
  BY <1>2, ReindexReadIInv
<1>3. ASSUME NEW j \in Jobs, Delete(j) \/ Step(j) \/ Crash(j) PROVE IInv'
  BY <1>3, DeleteIInv, CrashIInv, ReuploadAppendIInv, ReindexCompareIInv,
     UpdateMetadataIInv, ReindexMintIInv, LoadIInv, StatusStepsIInv, StoreStepsIInv, PurgeIInv, EraseIInv
     DEF Step
<1>4. ASSUME NEW r \in Readers, Search(r) \/ Hydrate(r) \/ Resolve(r) PROVE IInv'
  BY <1>4, ReadersIInv
<1>5. CASE UNCHANGED vars
  BY <1>5 DEF vars, IInv, TypeOK, NumberedInOrder, UnforcedMintsNothing, RowInv,
              JobInv, JobOK, Alive
<1> QED
  BY <1>1, <1>2, <1>3, <1>4, <1>5 DEF Next

LEMMA Invariance == Spec => []IInv
<1>1. Init => IInv
  BY InitIInv
<1>2. IInv /\ [Next]_vars => IInv'
  BY NextIInv
<1> QED
  BY <1>1, <1>2, PTL DEF Spec

(* The tables and the local state of every request and retrieval keep      *)
(* their types: no chunk, version or status outside of what the schema     *)
(* and the code know is ever stored.                                       *)
THEOREM KnowledgeTypeCorrect == Spec => []TypeOK
<1>1. IInv => TypeOK
  BY DEF IInv
<1> QED
  BY <1>1, Invariance, PTL

(* Whatever requests overlap, versions are numbered 1, 2, 3, ... and the   *)
(* article points at the last of them.                                     *)
THEOREM VersionsInOrder == Spec => []NumberedInOrder
<1>1. IInv => NumberedInOrder
  BY DEF IInv
<1> QED
  BY <1>1, Invariance, PTL

(* A reindex without force never mints a version.                          *)
THEOREM UnforcedReindexIsIdle == Spec => []UnforcedMintsNothing
<1>1. IInv => UnforcedMintsNothing
  BY DEF IInv
<1> QED
  BY <1>1, Invariance, PTL

(* A reupload never fails on the unique constraint.                        *)
THEOREM ReuploadIsSafe == Spec => []ReuploadNumberFree
<1>1. IInv => ReuploadNumberFree
  <2> SUFFICES ASSUME IInv, NEW j \in Jobs, job[j].pc = "append"
               PROVE  Alive /\ ~NumberTaken(job[j].num + 1)
    BY DEF ReuploadNumberFree
  <2>1. JobOK(job[j], j) /\ Len(versions) \in Nat
    BY DEF IInv, JobInv, TypeOK
  <2>2. Alive /\ job[j].num = Len(versions)
    BY <2>1 DEF JobOK
  <2> QED
    BY <2>1, <2>2, TakenNumbers
<1> QED
  BY <1>1, Invariance, PTL

-----------------------------------------------------------------------------
(* What a retrieval may rely on.  An article that is not there has no rows, *)
(* so that a search without a current version will find nothing; the       *)
(* current version only grows while the article is there.                  *)
ReadOK(y) ==
    /\ y.asof = NULL =>
          /\ y.res = {}
          /\ y.pc \in {"hydrate", "resolve"} => status = "DELETED"
          /\ y.pc = "resolve" => y.hits = {}
    /\ y.asof # NULL => status # "NONE" /\ (Alive => y.asof <= current)
    /\ y.pc = "done" /\ ~y.gone => \A c \in y.res : c[1] >= y.asof

RowsNeedArticle ==
    /\ ~Alive => chunks = {}
    /\ status = "NONE" => points = {}

ReadInv == RowsNeedArticle /\ \A r \in Readers : ReadOK(reader[r])

(* Status, current version and rows under a step of a job.                 *)
Onward ==
    /\ status' = "NONE" => status = "NONE" /\ points' = points
    /\ status = "DELETED" => status' = "DELETED"
    /\ Alive /\ Alive' => current <= current'
    /\ ~Alive' => chunks' = {}
    /\ reader' = reader

LEMMA OnwardReadInv ==
    ASSUME IInv, IInv', ReadInv, Onward
    PROVE  ReadInv'
<1>1. RowsNeedArticle'
  BY DEF Onward, ReadInv, RowsNeedArticle
<1>2. ASSUME NEW r \in Readers PROVE ReadOK(reader[r])'
  <2>1. reader'[r] = reader[r] /\ ReadOK(reader[r]) /\ reader[r] \in ReaderType
    BY DEF Onward, ReadInv, IInv, TypeOK
  <2>2. reader[r].asof \in Nat \cup {NULL}
    BY <2>1 DEF ReaderType
  <2>3. Alive => current \in Nat
    BY LatestIsLast
  <2>4. Alive' => current' \in Nat
    BY DEF IInv, TypeOK, NumberedInOrder
  <2>5. status # "NONE" /\ Alive' => Alive
    BY DEF Onward, Alive
  <2> QED
    BY <2>1, <2>2, <2>3, <2>4, <2>5 DEF Onward, ReadOK
<1> QED
  BY <1>1, <1>2 DEF ReadInv

(* Steps that leave the article, or change only its status.                *)
LEMMA StillOnward ==
    ASSUME IInv, ReadInv, UNCHANGED <<current, reader>>,
           \/ status' = status
           \/ Alive /\ status' \in {"INDEXING", "INDEXED", "FAILED"},
           status # "NONE",
           ~Alive => chunks' = {}
    PROVE  Onward
<1>1. Alive' = Alive /\ status' # "NONE" /\ (status = "DELETED" => status' = "DELETED")
  BY DEF Alive
<1>2. Alive => current \in Nat
  BY LatestIsLast
<1> QED
  BY <1>1, <1>2 DEF Onward

LEMMA StepOnward ==
    ASSUME IInv, ReadInv, NEW j \in Jobs, Step(j)
    PROVE  Onward
<1>0. status # "NONE" /\ (~Alive => chunks = {})
  BY DEF IInv, JobInv, JobOK, ReadInv, RowsNeedArticle, Step, ReuploadAppend,
         UpdateMetadata, ReindexCompare, ReindexMint, Load, Mark, Embed, Clear, Upsert, Rows,
         Finish, Fail, Purge, Erase
<1>1. CASE ReuploadAppend(j) \/ ReindexMint(j)
  <2>1. UNCHANGED <<chunks, points, reader>>
    BY <1>1 DEF ReuploadAppend, ReindexMint
  <2>2. CASE UNCHANGED <<status, current>>
    BY <1>0, <2>1, <2>2, StillOnward
  <2>3. CASE status' = "INDEXING" /\ current' = Len(versions) + 1 /\ Alive
    <3>1. Alive' /\ current \in Nat /\ current <= current'
      BY <2>3, LatestIsLast DEF Alive
    <3> QED
      BY <2>1, <2>3, <3>1 DEF Onward, Alive
  <2>4. job[j].pc = "append" => Alive
    BY DEF IInv, JobInv, JobOK
  <2> QED
    BY <1>1, <2>2, <2>3, <2>4 DEF ReuploadAppend, ReindexMint, Mint
<1>2. CASE Erase(j)
  BY <1>2 DEF Erase, Onward, Alive
<1>3. CASE \/ UpdateMetadata(j) \/ ReindexCompare(j) \/ Load(j) \/ Embed(j) \/ Clear(j)
           \/ Upsert(j) \/ Purge(j)
  <2>1. UNCHANGED <<status, current, reader, chunks>>
    BY <1>3 DEF UpdateMetadata, ReindexCompare, Load, Embed, Clear, Upsert, Purge
  <2> QED
    BY <1>0, <2>1, StillOnward
<1>4. CASE Mark(j) \/ Finish(j) \/ Fail(j)
  <2>1. UNCHANGED <<current, reader, chunks>>
    BY <1>4 DEF Mark, Finish, Fail
  <2>2. status' = status \/ (Alive /\ status' \in {"INDEXING", "INDEXED", "FAILED"})
    BY <1>4 DEF Mark, Finish, Fail, SetStatus
  <2> QED
    BY <1>0, <2>1, <2>2, StillOnward
<1>5. CASE Rows(j)
  <2>1. UNCHANGED <<status, current, reader>>
    BY <1>5 DEF Rows
  <2>2. ~Alive => chunks' = {}
    <3>1. CASE job[j].cnt = 0
      <4>1. Cut(job[j].ver, job[j].cnt) = {}
        BY <3>1 DEF Cut
      <4> QED
        BY <1>0, <1>5, <4>1 DEF Rows
    <3>2. CASE job[j].cnt # 0
      BY <1>0, <1>5, <3>2 DEF Rows
    <3> QED
      BY <3>1, <3>2
  <2> QED
    BY <1>0, <2>1, <2>2, StillOnward
<1> QED
  BY <1>1, <1>2, <1>3, <1>4, <1>5 DEF Step

LEMMA StartOnward ==
    ASSUME IInv, ReadInv, NEW j \in Jobs,
           \/ \E t \in AllTexts : Create(j, t) \/ ReuploadLock(j, t)
           \/ \E force \in BOOLEAN : ReindexRead(j, force)
           \/ Delete(j) \/ Crash(j)
    PROVE  Onward
<1>0. ~Alive => chunks = {}
  BY DEF ReadInv, RowsNeedArticle
<1>1. CASE \E t \in AllTexts : Create(j, t)
  BY <1>1 DEF Create, Onward, Alive
<1>2. CASE \/ \E t \in AllTexts : ReuploadLock(j, t)
           \/ \E force \in BOOLEAN : ReindexRead(j, force)
           \/ Delete(j)
  <2>1. UNCHANGED <<status, current, reader, chunks>> /\ status # "NONE"
    BY <1>2 DEF ReuploadLock, ReindexRead, Delete, Alive
  <2> QED
    BY <1>0, <2>1, StillOnward
<1>3. CASE Crash(j)
  <2>1. UNCHANGED <<status, current, reader, chunks>> /\ status # "NONE"
    BY <1>3 DEF Crash, IInv, JobInv, JobOK
  <2> QED
    BY <1>0, <2>1, StillOnward
<1> QED
  BY <1>1, <1>2, <1>3

(* The three steps of a retrieval.                                         *)
LEMMA OneReader ==
    ASSUME IInv, ReadInv, NEW r \in Readers, NEW y,
           reader' = [reader EXCEPT ![r] = y],
           UNCHANGED <<status, current, chunks, points>>,
           ReadOK(y)
    PROVE  ReadInv'
<1>1. Alive' = Alive
  BY DEF Alive
<1>2. RowsNeedArticle'
  BY <1>1 DEF ReadInv, RowsNeedArticle
<1>3. ASSUME NEW q \in Readers PROVE ReadOK(reader[q])'
  <2>1. reader'[q] = IF q = r THEN y ELSE reader[q]
    BY DEF IInv, TypeOK
  <2>2. ReadOK(reader[q])
    BY DEF ReadInv
  <2>3. ReadOK(reader'[q])
    BY <2>1, <2>2
  <2> QED
    BY <1>1, <2>3 DEF ReadOK
<1> QED
  BY <1>2, <1>3 DEF ReadInv

LEMMA SearchReadInv ==
    ASSUME IInv, ReadInv, NEW r \in Readers, Search(r)
    PROVE  ReadInv'
<1>1. PICK H \in SUBSET points :
        reader' = [reader EXCEPT ![r] =
            [pc |-> IF H = {} THEN "done" ELSE "hydrate", hits |-> H,
             asof |-> current, gone |-> FALSE, res |-> {}]]
  BY DEF Search
<1>2. PICK y : y = [pc |-> IF H = {} THEN "done" ELSE "hydrate", hits |-> H,
                    asof |-> current, gone |-> FALSE, res |-> {}]
  OBVIOUS
<1>3. UNCHANGED <<status, current, chunks, points>>
  BY DEF Search
<1>4. y.asof = current /\ y.res = {} /\ y.hits = H
      /\ y.pc = (IF H = {} THEN "done" ELSE "hydrate")
  BY <1>2
<1>5. status = "NONE" => H = {}
  BY DEF ReadInv, RowsNeedArticle
<1>6. /\ Alive => current \in Nat
      /\ ~Alive => current = NULL
      /\ ~Alive => status \in {"NONE", "DELETED"}
  BY LatestIsLast DEF IInv, RowInv, Alive
<1>7. ReadOK(y)
  BY <1>4, <1>5, <1>6, KnowledgeAssumption DEF ReadOK, Alive
<1> QED
  BY <1>1, <1>2, <1>3, <1>7, OneReader

LEMMA HydrateReadInv ==
    ASSUME IInv, ReadInv, NEW r \in Readers, Hydrate(r)
    PROVE  ReadInv'
<1>1. reader[r] \in ReaderType /\ ReadOK(reader[r]) /\ reader[r].pc = "hydrate"
  BY DEF Hydrate, IInv, TypeOK, ReadInv
<1>2. PICK y : y = [reader[r] EXCEPT !.pc = "resolve", !.hits = @ \cap chunks]
  OBVIOUS
<1>3. reader' = [reader EXCEPT ![r] = y] /\ UNCHANGED <<status, current, chunks, points>>
  BY <1>2 DEF Hydrate, IInv, TypeOK
<1>4. y.pc = "resolve" /\ y.hits = reader[r].hits \cap chunks
      /\ y.asof = reader[r].asof /\ y.res = reader[r].res
  BY <1>1, <1>2 DEF ReaderType
<1>5. status = "DELETED" => chunks = {}
  BY DEF ReadInv, RowsNeedArticle, Alive
<1>6. ReadOK(y)
  BY <1>1, <1>4, <1>5 DEF ReadOK
<1> QED
  BY <1>3, <1>6, OneReader

LEMMA ResolveReadInv ==
    ASSUME IInv, ReadInv, NEW r \in Readers, Resolve(r)
    PROVE  ReadInv'
<1>1. reader[r] \in ReaderType /\ ReadOK(reader[r]) /\ reader[r].pc = "resolve"
  BY DEF Resolve, IInv, TypeOK, ReadInv
<1>2. PICK K, g : K = {c \in reader[r].hits : Kept(c)} /\ g = ~Alive
  OBVIOUS
<1>3. PICK y : y = [reader[r] EXCEPT !.pc = "done", !.hits = {}, !.gone = g, !.res = K]
  OBVIOUS
<1>4. reader' = [reader EXCEPT ![r] = y] /\ UNCHANGED <<status, current, chunks, points>>
  BY <1>2, <1>3 DEF Resolve, IInv, TypeOK
<1>5. y.pc = "done" /\ y.gone = g /\ y.asof = reader[r].asof /\ y.res = K
  BY <1>1, <1>3 DEF ReaderType
<1>6. reader[r].asof = NULL => K = {}
  BY <1>1, <1>2 DEF ReadOK
<1>7. ASSUME ~g, NEW c \in K, reader[r].asof # NULL PROVE c[1] >= reader[r].asof
  <2>1. Alive
    BY <1>2, <1>7
  <2>2. current \in Nat
    BY <2>1, LatestIsLast
  <2>3. c[1] = current
    BY <1>2, <2>2, KnowledgeAssumption DEF Kept
  <2>4. reader[r].asof \in Nat /\ reader[r].asof <= current
    BY <1>1, <1>7, <2>1 DEF ReadOK, ReaderType
  <2> QED
    BY <2>2, <2>3, <2>4
<1>8. ReadOK(y)
  BY <1>1, <1>5, <1>6, <1>7 DEF ReadOK
<1> QED
  BY <1>4, <1>8, OneReader

LEMMA ReadInvariance == Spec => []ReadInv
<1>1. Init => ReadInv
  BY DEF Init, ReadInv, RowsNeedArticle, ReadOK, NewReader, Alive
<1>2. IInv /\ IInv' /\ ReadInv /\ [Next]_vars => ReadInv'
  <2> SUFFICES ASSUME IInv, IInv', ReadInv, [Next]_vars PROVE ReadInv'
    OBVIOUS
  <2>1. CASE \E j \in Jobs :
                \/ \E t \in AllTexts : Create(j, t) \/ ReuploadLock(j, t)
                \/ \E force \in BOOLEAN : ReindexRead(j, force)
                \/ Delete(j) \/ Crash(j)
    BY <2>1, StartOnward, OnwardReadInv
  <2>2. CASE \E j \in Jobs : Step(j)
    BY <2>2, StepOnward, OnwardReadInv
  <2>3. CASE \E r \in Readers : Search(r) \/ Hydrate(r) \/ Resolve(r)
    BY <2>3, SearchReadInv, HydrateReadInv, ResolveReadInv
  <2>4. CASE UNCHANGED vars
    BY <2>4 DEF vars, ReadInv, RowsNeedArticle, ReadOK, Alive
  <2> QED
    BY <2>1, <2>2, <2>3, <2>4 DEF Next
<1> QED
  BY <1>1, <1>2, Invariance, PTL DEF Spec

(* No retrieval answers from a version that was superseded before its      *)
(* search, unless the article is deleted meanwhile.                        *)
THEOREM AnswersAreFresh == Spec => []FreshAnswers
<1>1. ReadInv => FreshAnswers
  BY DEF ReadInv, ReadOK, FreshAnswers
<1> QED
  BY <1>1, ReadInvariance, PTL

(* No retrieval that starts after the delete answers from the article.     *)
THEOREM DeletedIsUnseen == Spec => []NoGhostAnswers
<1>1. ReadInv => NoGhostAnswers
  BY DEF ReadInv, ReadOK, NoGhostAnswers
<1> QED
  BY <1>1, ReadInvariance, PTL

-----------------------------------------------------------------------------
(* As long as no index run overlaps another or a delete, nobody takes away *)
(* the points between the upsert and the insert of the rows.               *)
RunsAlone ==
    ~overlap =>
        /\ \A j, k \in Indexing : j = k
        /\ Indexing # {} => Deleting = {}
        /\ \A j \in Jobs :
              job[j].pc = "rows" => Cut(job[j].ver, job[j].cnt) \subseteq points

IndexPCs == {"mark", "embed", "clear", "upsert", "rows", "finish", "fail"}
DeletePCs == {"purge", "erase"}

(* How a move of one job changes the two sets.                             *)
LEMMA Membership ==
    ASSUME IInv, NEW j \in Jobs, NEW x, job' = [job EXCEPT ![j] = x]
    PROVE  /\ \A k \in Jobs : job'[k] = IF k = j THEN x ELSE job[k]
           /\ \A k \in Jobs \ {j} : k \in Indexing' <=> k \in Indexing
           /\ \A k \in Jobs \ {j} : k \in Deleting' <=> k \in Deleting
           /\ j \in Indexing' <=> x.pc \in IndexPCs
           /\ j \in Deleting' <=> x.pc \in DeletePCs
           /\ Indexing' \subseteq Jobs /\ Deleting' \subseteq Jobs
           /\ \A k \in Jobs : job[k].pc = "rows" => k \in Indexing
<1>1. \A k \in Jobs : job'[k] = IF k = j THEN x ELSE job[k]
  BY DEF IInv, TypeOK
<1> QED
  BY <1>1 DEF Indexing, Deleting, IndexPCs, DeletePCs

(* A job that is elsewhere after its step.                                 *)
LEMMA LeavesAlone ==
    ASSUME IInv, RunsAlone, NEW j \in Jobs, NEW x, job' = [job EXCEPT ![j] = x],
           x.pc \notin IndexPCs \cup DeletePCs,
           points' = points, overlap => overlap'
    PROVE  RunsAlone'
<1>1. Indexing' \subseteq Indexing /\ Deleting' \subseteq Deleting
  BY Membership DEF Indexing, Deleting
<1>2. \A k \in Jobs : job'[k].pc = "rows" => job'[k] = job[k]
  BY Membership DEF IndexPCs
<1> QED
  BY <1>1, <1>2 DEF RunsAlone

(* A job that goes on with its index run.                                  *)
LEMMA StaysAlone ==
    ASSUME IInv, RunsAlone, NEW j \in Jobs, NEW x, job' = [job EXCEPT ![j] = x],
           j \in Indexing, x.pc \in IndexPCs, overlap' = overlap,
           x.pc = "rows" => Cut(x.ver, x.cnt) \subseteq points'
    PROVE  RunsAlone'
<1> SUFFICES ASSUME ~overlap
             PROVE  /\ \A k, l \in Indexing' : k = l
                    /\ Indexing' # {} => Deleting' = {}
                    /\ \A k \in Jobs : job'[k].pc = "rows" =>
                          Cut(job'[k].ver, job'[k].cnt) \subseteq points'
  BY DEF RunsAlone
<1>1. Indexing = {j} /\ Deleting = {}
  BY DEF RunsAlone, Indexing
<1>0. \A k \in Jobs : job'[k] = IF k = j THEN x ELSE job[k]
  BY DEF IInv, TypeOK
<1>2. Indexing' = {j} /\ Deleting' = {}
  <2>1. \A k \in Jobs : k \in Indexing' <=> k = j
    BY <1>0, <1>1 DEF Indexing, IndexPCs
  <2>2. \A k \in Jobs : k \notin Deleting'
    BY <1>0, <1>1 DEF Deleting, IndexPCs
  <2> QED
    BY <2>1, <2>2 DEF Indexing, Deleting
<1>3. ASSUME NEW k \in Jobs, job'[k].pc = "rows"
      PROVE  Cut(job'[k].ver, job'[k].cnt) \subseteq points'
  <2>1. k \in Indexing'
    BY <1>3 DEF Indexing
  <2>2. job'[k] = x
    BY <1>0, <1>2, <2>1
  <2> QED
    BY <1>3, <2>2
<1> QED
  BY <1>2, <1>3

LEMMA GoesOn ==
    ASSUME IInv, RunsAlone, NEW j \in Jobs, j \in Indexing,
           NEW l \in IndexPCs, Goto(j, l), overlap' = overlap,
           l = "rows" => Cut(job[j].ver, job[j].cnt) \subseteq points'
    PROVE  RunsAlone'
<1>1. PICK x : x = [job[j] EXCEPT !.pc = l]
  OBVIOUS
<1>2. job' = [job EXCEPT ![j] = x] /\ job[j] \in JobType
  BY <1>1 DEF Goto, IInv, TypeOK
<1>3. x.pc = l /\ x.ver = job[j].ver /\ x.cnt = job[j].cnt
  BY <1>1, <1>2 DEF JobType
<1> QED
  BY <1>2, <1>3, StaysAlone

LEMMA EndsAlone ==
    ASSUME IInv, RunsAlone, NEW j \in Jobs, NEW l \in {"done", "lost"}, End(j, l),
           points' = points, overlap => overlap'
    PROVE  RunsAlone'
<1>1. PICK x \in JobType : job' = [job EXCEPT ![j] = x] /\ x.pc = l
  BY Ended
<1>2. x.pc \notin IndexPCs \cup DeletePCs
  BY <1>1 DEF IndexPCs, DeletePCs
<1> QED
  BY <1>1, <1>2, LeavesAlone

LEMMA IndexStepsAlone ==
    ASSUME IInv, RunsAlone, NEW j \in Jobs,
           \/ Mark(j) \/ Embed(j) \/ Clear(j) \/ Upsert(j) \/ Rows(j)
           \/ Finish(j) \/ Fail(j)
    PROVE  RunsAlone'
<1> USE DEF IndexPCs
<1>0. j \in Indexing /\ overlap' = overlap
  BY DEF Indexing, Mark, Embed, Clear, Upsert, Rows, Finish, Fail
<1>1. CASE \E l \in {"done", "lost"} : End(j, l) /\ points' = points
  BY <1>0, <1>1, EndsAlone
<1>2. CASE Mark(j) \/ Finish(j) \/ Fail(j)
  <2>1. points' = points
    BY <1>2 DEF Mark, Finish, Fail
  <2>2. \/ \E l \in {"done", "lost"} : End(j, l)
        \/ \E l \in {"clear", "embed"} : Goto(j, l)
    BY <1>2 DEF Mark, Finish, Fail, SetStatus
  <2> QED
    BY <1>0, <1>1, <2>1, <2>2, GoesOn
<1>3. CASE Embed(j)
  BY <1>0, <1>3, GoesOn DEF Embed, Failing
<1>4. CASE Clear(j)
  <2>1. Cut(job[j].ver, 0) = {}
    BY DEF Cut
  <2> QED
    BY <1>0, <1>4, <2>1, GoesOn DEF Clear
<1>5. CASE Upsert(j)
  BY <1>0, <1>5, GoesOn DEF Upsert, Failing
<1>6. CASE Rows(j)
  BY <1>0, <1>6, GoesOn DEF Rows
<1> QED
  BY <1>2, <1>3, <1>4, <1>5, <1>6

(* A delete goes on while no run is under way.                             *)
LEMMA DeletesAlone ==
    ASSUME IInv, NEW j \in Jobs, NEW x, job' = [job EXCEPT ![j] = x],
           x.pc \in DeletePCs, ~overlap' => Indexing = {}
    PROVE  RunsAlone'
<1> SUFFICES ASSUME Indexing = {}
             PROVE  Indexing' = {} /\ \A k \in Jobs : job'[k].pc # "rows"
  BY DEF RunsAlone
<1>1. \A k \in Jobs : job'[k] = IF k = j THEN x ELSE job[k]
  BY DEF IInv, TypeOK
<1>2. \A k \in Jobs : job'[k].pc \notin IndexPCs
  BY <1>1 DEF Indexing, IndexPCs, DeletePCs
<1> QED
  BY <1>2 DEF Indexing, IndexPCs

LEMMA DeleteAlone ==
    ASSUME IInv, NEW j \in Jobs, Delete(j)
    PROVE  RunsAlone'
<1>1. PICK x : job' = [job EXCEPT ![j] = x] /\ x.pc \in DeletePCs
  BY DeleteBegins DEF DeletePCs
<1>2. ~overlap' => Indexing = {}
  BY DEF Delete
<1> QED
  BY <1>1, <1>2, DeletesAlone

LEMMA PurgeAlone ==
    ASSUME IInv, RunsAlone, NEW j \in Jobs, Purge(j)
    PROVE  RunsAlone'
<1>0. PICK r \in JobType, v \in Nat : r = job[j] /\ v = job[j].ver
  BY DEF IInv, TypeOK, JobType
<1>1. PICK l \in DeletePCs : l = IF job[j].ver < job[j].num THEN "purge" ELSE "erase"
  BY DEF DeletePCs
<1>2. PICK x : /\ \/ x = [r EXCEPT !.pc = l, !.ver = v + 1]
                  \/ x = [r EXCEPT !.pc = l, !.ver = v + 1, !.left = @ \cup {v}]
               /\ job' = [job EXCEPT ![j] = x]
  <2>1. \/ job' = [job EXCEPT ![j].pc = l, ![j].ver = v + 1]
        \/ job' = [job EXCEPT ![j].pc = l, ![j].ver = v + 1, ![j].left = @ \cup {v}]
    BY <1>0, <1>1 DEF Purge
  <2> QED
    BY <1>0, <2>1 DEF IInv, TypeOK
<1>3. x.pc = l
  BY <1>0, <1>2 DEF JobType
<1>4. ~overlap' => Indexing = {}
  BY DEF Purge, RunsAlone, Deleting
<1> QED
  BY <1>2, <1>3, <1>4, DeletesAlone

(* The run that begins finds no other and no delete.                       *)
LEMMA LoadAlone ==
    ASSUME IInv, RunsAlone, NEW j \in Jobs, Load(j)
    PROVE  RunsAlone'
<1>1. CASE (\E l \in {"done", "lost"} : End(j, l)) /\ overlap' = overlap
  BY <1>1, EndsAlone DEF Load
<1>2. CASE /\ Alive
           /\ overlap' = (overlap \/ Indexing # {} \/ Deleting # {})
           /\ \E n \in IF versions[current].text = Blank THEN {0} ELSE Sizes :
                job' = [job EXCEPT ![j].pc = "mark", ![j].ver = current, ![j].cnt = n,
                                   ![j].by = NULL, ![j].num = 0, ![j].text = NULL]
  <2>1. PICK n : job' = [job EXCEPT ![j].pc = "mark", ![j].ver = current, ![j].cnt = n,
                                    ![j].by = NULL, ![j].num = 0, ![j].text = NULL]
    BY <1>2
  <2>2. PICK x : x = [job[j] EXCEPT !.pc = "mark", !.ver = current, !.cnt = n,
                                    !.by = NULL, !.num = 0, !.text = NULL]
    OBVIOUS
  <2>3. job[j] \in JobType /\ job' = [job EXCEPT ![j] = x]
    BY <2>1, <2>2 DEF IInv, TypeOK
  <2>4. x.pc = "mark"
    BY <2>2, <2>3 DEF JobType
  <2> SUFFICES ASSUME Indexing = {}, Deleting = {}
               PROVE  RunsAlone'
    BY <1>2 DEF RunsAlone
  <2>5. \A k \in Jobs : job'[k] = IF k = j THEN x ELSE job[k]
    BY <2>3 DEF IInv, TypeOK
  <2>6. \A k \in Jobs : job'[k].pc # "rows" /\ (k \in Indexing' <=> k = j)
    BY <2>4, <2>5 DEF Indexing
  <2>7. \A k \in Jobs : k \notin Deleting'
    BY <2>4, <2>5 DEF Deleting
  <2>8. \A k, l \in Indexing' : k = l
    BY <2>6 DEF Indexing
  <2>9. Deleting' = {}
    BY <2>7 DEF Deleting
  <2> QED
    BY <2>6, <2>8, <2>9 DEF RunsAlone
<1> QED
  BY <1>1, <1>2 DEF Load

(* The requests before their index run, and after the end.                 *)
LEMMA RequestsAlone ==
    ASSUME IInv, RunsAlone, NEW j \in Jobs,
           \/ \E t \in AllTexts : Create(j, t) \/ ReuploadLock(j, t)
           \/ \E force \in BOOLEAN : ReindexRead(j, force)
           \/ ReuploadAppend(j) \/ UpdateMetadata(j) \/ ReindexCompare(j)
           \/ ReindexMint(j) \/ Erase(j) \/ Crash(j)
    PROVE  RunsAlone'
<1>0. /\ points' = points
      /\ overlap' = overlap \/ overlap' = (overlap \/ Indexing # {})
  <2>1. CASE \E t \in AllTexts : Create(j, t) \/ ReuploadLock(j, t)
    BY <2>1 DEF Create, ReuploadLock
  <2>2. CASE \E force \in BOOLEAN : ReindexRead(j, force)
    BY <2>2 DEF ReindexRead
  <2>3. CASE ReuploadAppend(j) \/ ReindexMint(j)
    BY <2>3 DEF ReuploadAppend, ReindexMint, Mint
  <2>4. CASE UpdateMetadata(j) \/ ReindexCompare(j) \/ Erase(j) \/ Crash(j)
    BY <2>4 DEF UpdateMetadata, ReindexCompare, Erase, Crash
  <2> QED
    BY <2>1, <2>2, <2>3, <2>4
<1>1. points' = points /\ (overlap => overlap')
  <2>1. CASE overlap' = overlap
    BY <1>0, <2>1, Zenon
  <2>2. CASE overlap' = (overlap \/ Indexing # {})
    <3> SUFFICES ASSUME overlap PROVE overlap'
      BY <1>0
    <3>1. overlap \/ Indexing # {}
      OBVIOUS
    <3> QED
      BY <2>2, <3>1
  <2> QED
    BY <1>0, <2>1, <2>2
<1>2. job[j] \in JobType
  BY DEF IInv, TypeOK
<1>3. CASE \E l \in {"done", "lost"} : End(j, l)
  BY <1>1, <1>3, EndsAlone
<1>4. CASE \E x : /\ job' = [job EXCEPT ![j] = x]
                  /\ x.pc \in {"meta", "load", "mint", "append", "compare"}
  <2>1. PICK x : /\ job' = [job EXCEPT ![j] = x]
                 /\ x.pc \in {"meta", "load", "mint", "append", "compare"}
    BY <1>4
  <2>2. x.pc \notin IndexPCs \cup DeletePCs
    BY <2>1 DEF IndexPCs, DeletePCs
  <2> QED
    BY <1>1, <2>1, <2>2, LeavesAlone
<1>5. CASE \E l \in {"meta", "load", "mint"} : Goto(j, l)
  <2>1. PICK l \in {"meta", "load", "mint"} : Goto(j, l)
    BY <1>5
  <2>2. PICK x : x = [job[j] EXCEPT !.pc = l]
    OBVIOUS
  <2>3. job' = [job EXCEPT ![j] = x]
    BY <2>1, <2>2 DEF Goto, IInv, TypeOK
  <2>4. x.pc = l
    BY <1>2, <2>2 DEF JobType
  <2> QED
    BY <1>4, <2>3, <2>4
<1>6. CASE \E t \in AllTexts : Create(j, t)
  <2>1. PICK x : x = [job[j] EXCEPT !.pc = "load", !.by = "create"]
    OBVIOUS
  <2>2. job' = [job EXCEPT ![j] = x]
    BY <1>6, <2>1 DEF Create, IInv, TypeOK
  <2>3. x.pc = "load"
    BY <1>2, <2>1 DEF JobType
  <2> QED
    BY <1>4, <2>2, <2>3
<1>7. CASE \E t, n : job' = [job EXCEPT ![j].pc = "append", ![j].by = "reupload",
                                        ![j].text = t, ![j].num = n]
  <2>1. PICK t, n : job' = [job EXCEPT ![j].pc = "append", ![j].by = "reupload",
                                       ![j].text = t, ![j].num = n]
    BY <1>7
  <2>2. PICK x : x = [job[j] EXCEPT !.pc = "append", !.by = "reupload",
                                    !.text = t, !.num = n]
    OBVIOUS
  <2>3. job' = [job EXCEPT ![j] = x]
    BY <2>1, <2>2 DEF IInv, TypeOK
  <2>4. x.pc = "append"
    BY <1>2, <2>2 DEF JobType
  <2> QED
    BY <1>4, <2>3, <2>4
<1>8. CASE \E b, n, t : job' = [job EXCEPT ![j].pc = "compare", ![j].by = b,
                                           ![j].num = n, ![j].text = t]
  <2>1. PICK b, n, t : job' = [job EXCEPT ![j].pc = "compare", ![j].by = b,
                                          ![j].num = n, ![j].text = t]
    BY <1>8
  <2>2. PICK x : x = [job[j] EXCEPT !.pc = "compare", !.by = b, !.num = n, !.text = t]
    OBVIOUS
  <2>3. job' = [job EXCEPT ![j] = x]
    BY <2>1, <2>2 DEF IInv, TypeOK
  <2>4. x.pc = "compare"
    BY <1>2, <2>2 DEF JobType
  <2> QED
    BY <1>4, <2>3, <2>4
<1>9. CASE \E t \in AllTexts : ReuploadLock(j, t)
  BY <1>3, <1>7, <1>9 DEF ReuploadLock
<1>10. CASE \E force \in BOOLEAN : ReindexRead(j, force)
  <2>1. PICK force \in BOOLEAN : ReindexRead(j, force)
    BY <1>10
  <2>2. PICK b : b = IF force THEN "forced" ELSE "changed"
    OBVIOUS
  <2>3. job' = [job EXCEPT ![j].pc = "compare", ![j].by = b,
                           ![j].num = versions[current].num,
                           ![j].text = versions[current].text]
    BY <2>1, <2>2 DEF ReindexRead
  <2> QED
    BY <1>8, <2>3
<1>11. CASE ReuploadAppend(j) \/ UpdateMetadata(j) \/ ReindexCompare(j)
  BY <1>3, <1>5, <1>11 DEF ReuploadAppend, UpdateMetadata, ReindexCompare
<1>12. CASE ReindexMint(j) \/ Erase(j) \/ Crash(j)
  BY <1>3, <1>5, <1>12 DEF ReindexMint, Erase, Crash
<1> QED
  BY <1>6, <1>9, <1>10, <1>11, <1>12

LEMMA NextRunsAlone == IInv /\ RunsAlone /\ [Next]_vars => RunsAlone'
<1> SUFFICES ASSUME IInv, RunsAlone, [Next]_vars PROVE RunsAlone'
  OBVIOUS
<1>1. CASE UNCHANGED <<job, points, overlap>>
  BY <1>1 DEF RunsAlone, Indexing, Deleting
<1>2. CASE UNCHANGED vars \/ \E r \in Readers : Search(r) \/ Hydrate(r) \/ Resolve(r)
  BY <1>1, <1>2 DEF vars, Search, Hydrate, Resolve
<1>3. ASSUME NEW j \in Jobs,
             \/ \E t \in AllTexts : Create(j, t) \/ ReuploadLock(j, t)
             \/ \E force \in BOOLEAN : ReindexRead(j, force)
             \/ Delete(j) \/ Step(j) \/ Crash(j)
      PROVE  RunsAlone'
  BY <1>3, RequestsAlone, DeleteAlone, PurgeAlone, LoadAlone, IndexStepsAlone DEF Step
<1> QED
  BY <1>2, <1>3 DEF Next

(* Only Rows adds rows, and all of them belong to the run's own version.   *)
LEMMA NewRows ==
    ASSUME Next
    PROVE  chunks' \subseteq chunks \/ \E j \in Jobs :
               job[j].pc = "rows" /\ chunks' \ chunks \subseteq Cut(job[j].ver, job[j].cnt)
<1>1. ASSUME NEW j \in Jobs, Rows(j)
      PROVE  job[j].pc = "rows" /\ chunks' \ chunks \subseteq Cut(job[j].ver, job[j].cnt)
  BY <1>1 DEF Rows
<1>2. ASSUME NEW r \in Readers, Search(r) \/ Hydrate(r) \/ Resolve(r)
      PROVE  chunks' = chunks
  BY <1>2 DEF Search, Hydrate, Resolve
<1>3. ASSUME NEW j \in Jobs,
             \/ \E t \in AllTexts : Create(j, t) \/ ReuploadLock(j, t)
             \/ \E force \in BOOLEAN : ReindexRead(j, force)
             \/ ReuploadAppend(j) \/ UpdateMetadata(j) \/ ReindexCompare(j)
             \/ ReindexMint(j) \/ Delete(j) \/ Purge(j) \/ Erase(j) \/ Crash(j)
      PROVE  chunks' \subseteq chunks
  BY <1>3 DEF Create, ReuploadLock, ReindexRead, ReuploadAppend, UpdateMetadata,
              ReindexCompare, ReindexMint, Delete, Purge, Erase, Crash
<1>4. ASSUME NEW j \in Jobs,
             Load(j) \/ Mark(j) \/ Embed(j) \/ Clear(j) \/ Upsert(j) \/ Finish(j) \/ Fail(j)
      PROVE  chunks' = chunks
  BY <1>4 DEF Load, Mark, Embed, Clear, Upsert, Finish, Fail
<1> QED
  BY <1>1, <1>2, <1>3, <1>4 DEF Next, Step

(* index_article writes vectors before rows: while runs do not overlap, no *)
(* chunk row is inserted whose point is not in Qdrant.                     *)
THEOREM VectorsFirst == Spec => RowsAfterVectors
<1>1. Init => RunsAlone
  BY DEF Init, RunsAlone, Indexing, NewJob
<1>2. Spec => []IInv
  BY Invariance
<1>3. Spec => []RunsAlone
  BY <1>1, <1>2, NextRunsAlone, PTL DEF Spec
<1>4. RunsAlone /\ [Next]_vars => [~overlap => chunks' \ chunks \subseteq points]_vars
  <2>1. RunsAlone /\ Next /\ ~overlap => chunks' \ chunks \subseteq points
    BY NewRows DEF RunsAlone
  <2> QED
    BY <2>1
<1> QED
  BY <1>3, <1>4, PTL DEF Spec, RowsAfterVectors

-----------------------------------------------------------------------------
(* An article that is INDEXING.  Owed holds of a job that has still to     *)
(* write the status, or that was lost before it could.                     *)

Owed(x) == x.pc \in {"meta", "load", "lost", "mark", "embed", "clear", "upsert", "rows",
                     "finish", "fail"}

LEMMA HasRunMeans ==
    IndexingHasRun <=> (status = "INDEXING" => \E j \in Jobs : Owed(job[j]))
BY DEF IndexingHasRun, Owing, Indexing, Owed

(* A job's step keeps the invariant if it leaves INDEXING, or the job owes *)
(* the status afterwards, or neither its status nor the article's counted. *)
LEMMA OwedStep ==
    ASSUME IndexingHasRun, NEW j \in Jobs, \A k \in Jobs \ {j} : job'[k] = job[k],
           \/ status' # "INDEXING"
           \/ Owed(job'[j])
           \/ status' = status /\ ~Owed(job[j])
    PROVE  IndexingHasRun'
<1>1. \A k \in Jobs \ {j} : Owed(job[k]) => Owed(job'[k])
  BY DEF Owed
<1>2. IndexingHasRun' <=> (status' = "INDEXING" => \E k \in Jobs : Owed(job'[k]))
  BY HasRunMeans DEF IndexingHasRun, Owing, Indexing, Owed
<1> QED
  BY <1>1, <1>2, HasRunMeans

(* Where the two ways to move a job lead.                                  *)
LEMMA Moves ==
    ASSUME TypeOK, NEW j \in Jobs, NEW l, Goto(j, l) \/ End(j, l)
    PROVE  job'[j].pc = l /\ \A k \in Jobs \ {j} : job'[k] = job[k]
<1>1. job \in [Jobs -> JobType]
  BY DEF TypeOK
<1>2. CASE Goto(j, l)
  BY <1>1, <1>2 DEF Goto, JobType
<1>3. CASE End(j, l)
  <2>1. [NewJob EXCEPT !.pc = l, !.left = job[j].left,
                       !.by = IF job[j].by = "delete" THEN "delete" ELSE NULL].pc = l
    BY DEF NewJob
  <2> QED
    BY <1>1, <1>3, <2>1 DEF End
<1> QED
  BY <1>2, <1>3

LEMMA SetStatusOwed ==
    ASSUME TypeOK, IndexingHasRun, NEW j \in Jobs, NEW s, NEW next,
           SetStatus(j, s, next),
           next = "done" => s # "INDEXING",
           next # "done" => next \in {"embed", "clear"}
    PROVE  IndexingHasRun'
<1>1. CASE Alive /\ status' = s /\ (Goto(j, next) \/ End(j, next))
  BY <1>1, Moves, OwedStep DEF Owed
<1>2. CASE ~Alive /\ End(j, "done") /\ UNCHANGED status
  BY <1>2, Moves, OwedStep DEF Alive
<1>3. CASE End(j, "lost") /\ UNCHANGED status
  BY <1>3, Moves, OwedStep DEF Owed
<1> QED
  BY <1>1, <1>2, <1>3 DEF SetStatus

LEMMA IndexRunOwed ==
    ASSUME TypeOK, IndexingHasRun, NEW j \in Jobs,
           \/ Load(j) \/ Mark(j) \/ Embed(j) \/ Clear(j) \/ Upsert(j) \/ Rows(j)
           \/ Finish(j) \/ Fail(j)
    PROVE  IndexingHasRun'
<1>1. CASE Load(j)
  <2>1. CASE ~Alive /\ End(j, "done")
    <3>1. UNCHANGED <<status, versions, current, lock, chunks, points, reader>>
      BY <1>1 DEF Load
    <3>2. \A k \in Jobs \ {j} : job'[k] = job[k]
      BY <2>1, Moves
    <3> QED
      BY <2>1, <3>1, <3>2, OwedStep DEF Alive
  <2>2. ASSUME NEW n, job' = [job EXCEPT ![j].pc = "mark", ![j].ver = current, ![j].cnt = n,
                                         ![j].by = NULL, ![j].num = 0, ![j].text = NULL]
        PROVE  IndexingHasRun'
    <3>1. job'[j].pc = "mark" /\ \A k \in Jobs \ {j} : job'[k] = job[k]
      BY <2>2 DEF TypeOK, JobType
    <3> QED
      BY <3>1, OwedStep DEF Owed
  <2>3. CASE End(j, "lost")
    <3>1. status' = status
      BY <1>1 DEF Load
    <3> QED
      BY <2>3, <3>1, Moves, OwedStep DEF Owed
  <2>4. CASE Alive /\ ~End(j, "lost")
    <3>1. PICK n \in IF versions[current].text = Blank THEN {0} ELSE Sizes :
              job' = [job EXCEPT ![j].pc = "mark", ![j].ver = current, ![j].cnt = n,
                                 ![j].by = NULL, ![j].num = 0, ![j].text = NULL]
      BY <1>1, <2>4 DEF Load
    <3> QED
      BY <3>1, <2>2
  <2> QED
    BY <1>1, <2>1, <2>3, <2>4 DEF Load
<1>2. CASE Mark(j)
  <2>1. SetStatus(j, "INDEXING", IF job[j].cnt = 0 THEN "clear" ELSE "embed")
    BY <1>2 DEF Mark
  <2> QED
    BY <2>1, SetStatusOwed
<1>3. CASE Finish(j) \/ Fail(j)
  BY <1>3, SetStatusOwed DEF Finish, Fail
<1>4. CASE Embed(j) \/ Clear(j) \/ Upsert(j) \/ Rows(j)
  <2>1. \E l \in {"clear", "fail", "rows", "upsert", "finish"} : Goto(j, l)
    BY <1>4 DEF Embed, Clear, Upsert, Rows, Failing
  <2> QED
    BY <2>1, Moves, OwedStep DEF Owed
<1> QED
  BY <1>1, <1>2, <1>3, <1>4

(* The requests before they index, and those that delete, owe no status;   *)
(* one that mints owes it from then on.                                    *)
LEMMA RequestOwed ==
    ASSUME TypeOK, IndexingHasRun, NEW j \in Jobs,
           \/ \E t \in AllTexts : Create(j, t) \/ ReuploadLock(j, t)
           \/ \E force \in BOOLEAN : ReindexRead(j, force)
           \/ ReuploadAppend(j) \/ UpdateMetadata(j) \/ ReindexCompare(j)
           \/ ReindexMint(j) \/ Delete(j) \/ Purge(j) \/ Erase(j) \/ Crash(j)
    PROVE  IndexingHasRun'
<1>1. CASE \E t \in AllTexts : Create(j, t)
  <2>1. status' # "INDEXING" /\ \A k \in Jobs \ {j} : job'[k] = job[k]
    BY <1>1 DEF Create, TypeOK
  <2> QED
    BY <2>1, OwedStep
<1>2. ASSUME NEW t \in AllTexts, ReuploadLock(j, t) PROVE IndexingHasRun'
  <2>1. /\ job[j].pc = "idle"
        /\ UNCHANGED <<status, versions, current, chunks, points, reader, overlap>>
    BY <1>2 DEF ReuploadLock
  <2>2. \A k \in Jobs \ {j} : job'[k] = job[k]
    <3>1. CASE versions[LatestVersion].text = t
      <4>1. End(j, "done")
        BY <1>2, <3>1 DEF ReuploadLock
      <4> QED
        BY <4>1, Moves
    <3>2. CASE versions[LatestVersion].text # t
      <4>1. job' = [job EXCEPT ![j].pc = "append", ![j].by = "reupload", ![j].text = t,
                               ![j].num = versions[LatestVersion].num]
        BY <1>2, <3>2 DEF ReuploadLock
      <4> QED
        BY <4>1 DEF TypeOK
    <3> QED
      BY <3>1, <3>2
  <2> QED
    BY <2>1, <2>2, OwedStep DEF Owed
<1>3. ASSUME NEW force \in BOOLEAN, ReindexRead(j, force) \/ Delete(j)
      PROVE  IndexingHasRun'
  <2>1. job[j].pc = "idle" /\ UNCHANGED <<status, versions, current, chunks, points, reader>>
    BY <1>3 DEF ReindexRead, Delete
  <2>2. \A k \in Jobs \ {j} : job'[k] = job[k]
    BY <1>3 DEF ReindexRead, Delete, TypeOK
  <2> QED
    BY <2>1, <2>2, OwedStep DEF Owed
<1>4. CASE ReindexCompare(j)
  <2>1. status' = status /\ ~Owed(job[j])
    BY <1>4 DEF ReindexCompare, Owed
  <2>2. \A k \in Jobs \ {j} : job'[k] = job[k]
    BY <1>4, Moves DEF ReindexCompare
  <2> QED
    BY <2>1, <2>2, OwedStep
<1>5. CASE ReuploadAppend(j) \/ ReindexMint(j)
  <2>1. \/ \E l \in {"meta", "load"} : Goto(j, l)
        \/ End(j, "done") /\ status' = status /\ ~Owed(job[j])
    BY <1>5 DEF ReuploadAppend, ReindexMint, Owed
  <2> QED
    BY <2>1, Moves, OwedStep DEF Owed
<1>6. CASE Purge(j)
  <2>1. status' = status /\ ~Owed(job[j])
    BY <1>6 DEF Purge, Owed
  <2>2. \A k \in Jobs \ {j} : job'[k] = job[k]
    BY <1>6 DEF Purge, TypeOK
  <2> QED
    BY <2>1, <2>2, OwedStep
<1>7. CASE Erase(j)
  BY <1>7, Moves, OwedStep DEF Erase
<1>8. CASE Crash(j)
  <2>1. status' = status /\ job[j].pc # "lost"
    BY <1>8 DEF Crash
  <2>2. End(j, "lost") \/ (End(j, "done") /\ j \notin Owing)
    BY <1>8 DEF Crash
  <2>3. j \notin Owing => ~Owed(job[j])
    BY <2>1 DEF Owing, Indexing, Owed
  <2> QED
    BY <2>1, <2>2, <2>3, Moves, OwedStep DEF Owed
<1>9. CASE UpdateMetadata(j)
  <2>1. Goto(j, "load") \/ End(j, "lost")
    BY <1>9 DEF UpdateMetadata
  <2> QED
    BY <2>1, Moves, OwedStep DEF Owed
<1> QED
  BY <1>1, <1>2, <1>3, <1>4, <1>5, <1>6, <1>7, <1>8, <1>9

(* An article is INDEXING only while a job has its status to write, or one *)
(* was lost that had: by a crash, by a failed status write, by an error of *)
(* what index_article reads before its try, or by an error of the title    *)
(* update between the commit of a reupload and its index_article.  These   *)
(* four are all: no early return, no error of the provider, of Qdrant or   *)
(* of the chunk rows and no overlap of requests forgets the status.        *)
THEOREM NeverForgotten == Spec => []IndexingHasRun
<1>1. Init => IndexingHasRun
  BY DEF Init, IndexingHasRun
<1>2. IInv /\ IndexingHasRun /\ [Next]_vars => IndexingHasRun'
  <2> SUFFICES ASSUME TypeOK, IndexingHasRun, [Next]_vars PROVE IndexingHasRun'
    BY DEF IInv
  <2>1. ASSUME NEW r \in Readers, Search(r) \/ Hydrate(r) \/ Resolve(r)
        PROVE  IndexingHasRun'
    BY <2>1 DEF Search, Hydrate, Resolve, IndexingHasRun, Owing, Indexing
  <2>2. CASE UNCHANGED vars
    BY <2>2 DEF vars, IndexingHasRun, Owing, Indexing
  <2> QED
    BY <2>1, <2>2, IndexRunOwed, RequestOwed DEF Next, Step
<1> QED
  BY <1>1, <1>2, Invariance, PTL DEF Spec
-----------------------------------------------------------------------------
(* What the two stores hold as long as runs do not overlap.  A run indexes *)
(* the current version, and once it has marked it the article is not       *)
(* INDEXED before it has written the rows of exactly its points.           *)
RunOK(x) ==
    /\ Alive /\ x.ver = current
    /\ x.cnt = 0 <=> versions[current].text = Blank
    /\ status = "INDEXED" => x.pc = "mark"
    /\ x.pc = "finish" => /\ OfVersion(chunks, x.ver) = Cut(x.ver, x.cnt)
                          /\ Cut(x.ver, x.cnt) \subseteq points

(* A purge of this version failed.                                         *)
Spared(v) == \E j \in Jobs : v \in job[j].left

(* A delete that purges knows every version that has points, and has dealt *)
(* with those before the one it is at; one that erases, with all of them.  *)
DeleteOK(x) ==
    \A c \in points :
        /\ x.pc = "purge" => c[1] <= x.num
        /\ c[1] < x.ver \/ x.pc = "erase" => Spared(c[1])

(* A request that ever deleted is recognised by its kind.                  *)
Marked ==
    \A j \in Jobs :
        /\ job[j].pc \in DeletePCs => job[j].by = "delete"
        /\ job[j].by = "delete" => job[j].pc \in DeletePCs \cup {"done", "lost"}

Alongside ==
    ~overlap =>
        /\ \A j \in Jobs : job[j].pc \in IndexPCs => RunOK(job[j])
        /\ \A j \in Jobs : job[j].pc \in DeletePCs => DeleteOK(job[j])
        /\ status # "DELETED" => \A c \in points : c[1] \in 1..Len(versions)

StoreInv == Marked /\ Alongside /\ IndexedMeansFound /\ OrphansExplained

LEMMA InitStoreInv == Init => StoreInv
<1> SUFFICES ASSUME Init PROVE StoreInv
  OBVIOUS
<1> USE KnowledgeAssumption DEF Init
<1>1. \A j \in Jobs : job[j].pc = "idle" /\ job[j].by = NULL
  BY DEF NewJob
<1>2. Marked
  BY <1>1 DEF Marked, DeletePCs
<1>3. Alongside
  BY <1>1 DEF Alongside, IndexPCs, DeletePCs
<1>4. IndexedMeansFound /\ OrphansExplained
  BY DEF IndexedMeansFound, OrphansExplained
<1> QED
  BY <1>2, <1>3, <1>4 DEF StoreInv

(* What a job keeps when it goes on, and when it ends.                     *)
LEMMA GoesTo ==
    ASSUME IInv, NEW j \in Jobs, NEW l, Goto(j, l)
    PROVE  \E x : /\ job' = [job EXCEPT ![j] = x]
                  /\ x.pc = l
                  /\ x.by = job[j].by /\ x.left = job[j].left
                  /\ x.ver = job[j].ver /\ x.num = job[j].num /\ x.cnt = job[j].cnt
<1>1. PICK x : x = [job[j] EXCEPT !.pc = l]
  OBVIOUS
<1>2. job' = [job EXCEPT ![j] = x] /\ job[j] \in JobType
  BY <1>1 DEF Goto, IInv, TypeOK
<1>3. /\ x.pc = l /\ x.by = job[j].by /\ x.left = job[j].left
      /\ x.ver = job[j].ver /\ x.num = job[j].num /\ x.cnt = job[j].cnt
  BY <1>1, <1>2 DEF JobType
<1> QED
  BY <1>2, <1>3

LEMMA EndsAt ==
    ASSUME IInv, NEW j \in Jobs, NEW l, End(j, l)
    PROVE  \E x : /\ job' = [job EXCEPT ![j] = x]
                  /\ x.pc = l
                  /\ x.by = "delete" <=> job[j].by = "delete"
                  /\ x.left = job[j].left
<1>1. PICK b : b = IF job[j].by = "delete" THEN "delete" ELSE NULL
  OBVIOUS
<1>2. PICK x : x = [NewJob EXCEPT !.pc = l, !.left = job[j].left, !.by = b]
  OBVIOUS
<1>3. job' = [job EXCEPT ![j] = x]
  BY <1>1, <1>2 DEF End
<1>4. x.pc = l /\ x.by = b /\ x.left = job[j].left
  BY <1>2 DEF NewJob
<1> QED
  BY <1>1, <1>3, <1>4, KnowledgeAssumption

(* The kind of a delete, and what it could not purge, are never lost.      *)
Keeps(j, x) ==
    /\ job' = [job EXCEPT ![j] = x]
    /\ job[j].left \subseteq x.left
    /\ x.pc \in DeletePCs => x.by = "delete"
    /\ x.by = "delete" => x.pc \in DeletePCs \cup {"done", "lost"}
    /\ job[j].by = "delete" => x.by = "delete"
    /\ overlap => overlap'

LEMMA Kepts ==
    ASSUME IInv, StoreInv, NEW j \in Jobs, NEW x, Keeps(j, x)
    PROVE  /\ \A k \in Jobs : job'[k] = IF k = j THEN x ELSE job[k]
           /\ \A v : Spared(v) => Spared(v)'
           /\ (\A k \in Jobs : job'[k].by # "delete") => \A k \in Jobs : job[k].by # "delete"
           /\ Marked'
<1>1. \A k \in Jobs : job'[k] = IF k = j THEN x ELSE job[k]
  BY DEF Keeps, IInv, TypeOK
<1>2. \A v : Spared(v) => Spared(v)'
  BY <1>1 DEF Keeps, Spared
<1>3. (\A k \in Jobs : job'[k].by # "delete") => \A k \in Jobs : job[k].by # "delete"
  BY <1>1 DEF Keeps
<1>4. Marked'
  BY <1>1 DEF Keeps, StoreInv, Marked
<1> QED
  BY <1>1, <1>2, <1>3, <1>4

(* A step that changes neither the article nor the stores.                 *)
LEMMA LocalStep ==
    ASSUME IInv, StoreInv, NEW j \in Jobs, NEW x, Keeps(j, x),
           UNCHANGED <<status, versions, current, chunks, points>>,
           ~overlap' => /\ x.pc \in IndexPCs => RunOK(x)
                        /\ x.pc \in DeletePCs =>
                              \A c \in points :
                                 /\ x.pc = "purge" => c[1] <= x.num
                                 /\ c[1] < x.ver \/ x.pc = "erase" => Spared(c[1]) \/ c[1] \in x.left
    PROVE  StoreInv'
<1> USE Kepts
<1>0. overlap => overlap'
  BY DEF Keeps
<1>1. \A v : v \in x.left => Spared(v)'
  BY DEF Spared
<1>4. ASSUME ~overlap'
      PROVE  /\ \A k \in Jobs : job'[k].pc \in IndexPCs => RunOK(job[k])'
             /\ \A k \in Jobs : job'[k].pc \in DeletePCs => DeleteOK(job[k])'
             /\ status' # "DELETED" => \A c \in points' : c[1] \in 1..Len(versions')
  <2>1. Alongside /\ ~overlap
    BY <1>0, <1>4 DEF StoreInv
  <2>2. ASSUME NEW k \in Jobs, job'[k].pc \in IndexPCs PROVE RunOK(job[k])'
    <3>1. CASE k # j
      <4>1. job'[k] = job[k] /\ RunOK(job[k])
        BY <2>1, <2>2, <3>1 DEF Alongside
      <4> QED
        BY <4>1 DEF RunOK, Alive
    <3>2. CASE k = j
      <4>1. job'[k] = x /\ RunOK(x)
        BY <1>4, <2>2, <3>2
      <4> QED
        BY <4>1 DEF RunOK, Alive
    <3> QED
      BY <3>1, <3>2
  <2>3. ASSUME NEW k \in Jobs, job'[k].pc \in DeletePCs PROVE DeleteOK(job[k])'
    <3>1. CASE k # j
      <4>1. job'[k] = job[k] /\ DeleteOK(job[k])
        BY <2>1, <2>3, <3>1 DEF Alongside
      <4> QED
        BY <4>1 DEF DeleteOK
    <3>2. CASE k = j
      <4>1. job'[k] = x
        BY <3>2
      <4> QED
        BY <1>1, <1>4, <2>3, <4>1 DEF DeleteOK
    <3> QED
      BY <3>1, <3>2
  <2> QED
    BY <2>1, <2>2, <2>3 DEF Alongside
<1>5. IndexedMeansFound' /\ OrphansExplained'
  BY <1>0 DEF StoreInv, IndexedMeansFound, OrphansExplained, OfVersion, Spared
<1> QED
  BY <1>4, <1>5 DEF StoreInv, Alongside

(* A step of an index run: it is alone, so that only its own claims and    *)
(* what the article shows have to be looked at.                            *)
LEMMA RunStep ==
    ASSUME IInv, RunsAlone, StoreInv, NEW j \in Jobs, NEW x, Keeps(j, x),
           job[j].pc \in IndexPCs, x.pc \notin DeletePCs,
           UNCHANGED <<versions, current, overlap>>, Alive => Alive',
           points' \subseteq points \cup Cut(job[j].ver, job[j].cnt),
           ~overlap /\ RunOK(job[j]) =>
              /\ x.pc \in IndexPCs => RunOK(x)'
              /\ status' = "INDEXED" =>
                    /\ OfVersion(chunks', current) \subseteq points'
                    /\ OfVersion(chunks', current) = {} <=> versions[current].text = Blank
    PROVE  StoreInv'
<1> SUFFICES ASSUME ~overlap PROVE StoreInv'
  BY Kepts DEF StoreInv, Alongside, IndexedMeansFound, OrphansExplained
<1> USE Kepts
<1>1. RunOK(job[j]) /\ Alongside /\ Alive /\ Alive'
  BY DEF StoreInv, Alongside, RunOK
<1>2. \A k \in Jobs \ {j} : job[k].pc \notin IndexPCs \cup DeletePCs
  <2>1. j \in Indexing
    BY DEF Indexing, IndexPCs
  <2> QED
    BY <2>1 DEF RunsAlone, Indexing, Deleting, IndexPCs, DeletePCs
<1>3. ASSUME NEW k \in Jobs, job'[k].pc \in IndexPCs PROVE RunOK(job[k])'
  <2>1. k = j /\ job'[k] = x
    BY <1>2, <1>3
  <2>2. RunOK(x)'
    BY <1>1, <1>3, <2>1
  <2> QED
    BY <2>1, <2>2 DEF RunOK
<1>4. \A k \in Jobs : job'[k].pc \notin DeletePCs
  BY <1>2
<1>5. ASSUME NEW c \in points' PROVE c[1] \in 1..Len(versions')
  <2>1. c \in points \/ c[1] = current
    BY <1>1 DEF Cut, RunOK
  <2>2. status # "DELETED" /\ current \in 1..Len(versions)
    BY <1>1, LatestIsLast DEF Alive, IInv, TypeOK
  <2> QED
    BY <1>1, <2>1, <2>2 DEF Alongside
<1>6. Alongside'
  BY <1>3, <1>4, <1>5 DEF Alongside
<1>7. OrphansExplained' /\ IndexedMeansFound'
  BY <1>1 DEF OrphansExplained, IndexedMeansFound, Alive, OfVersion
<1> QED
  BY <1>6, <1>7 DEF StoreInv

(* A new version has no points yet, and no run is under way.               *)
LEMMA NewVersionStep ==
    ASSUME IInv, StoreInv, NEW j \in Jobs, NEW x, Keeps(j, x),
           x.pc \in {"meta", "load"}, ~overlap' => Indexing = {},
           status # "DELETED", status' \in {"DRAFT", "INDEXING"},
           Len(versions') >= Len(versions), Len(versions') \in Nat, points' = points
    PROVE  StoreInv'
<1> USE Kepts
<1>1. IndexedMeansFound' /\ OrphansExplained'
  BY DEF IndexedMeansFound, OrphansExplained
<1> SUFFICES ASSUME ~overlap' PROVE Alongside'
  BY <1>1 DEF StoreInv, Alongside
<1>2. Alongside /\ ~overlap /\ Indexing = {}
  BY DEF StoreInv, Keeps
<1>3. \A k \in Jobs : job'[k].pc \notin IndexPCs
  BY <1>2 DEF Indexing, IndexPCs
<1>4. ASSUME NEW k \in Jobs, job'[k].pc \in DeletePCs PROVE DeleteOK(job[k])'
  <2>1. job'[k] = job[k] /\ DeleteOK(job[k])
    BY <1>2, <1>4 DEF DeletePCs, Alongside
  <2> QED
    BY <2>1 DEF DeleteOK
<1>5. \A c \in points' : c[1] \in 1..Len(versions')
  <2>1. Len(versions) \in Nat /\ \A c \in points : c[1] \in 1..Len(versions)
    BY <1>2 DEF Alongside, IInv, TypeOK
  <2> QED
    BY <2>1
<1> QED
  BY <1>3, <1>4, <1>5 DEF Alongside

(* A delete goes on: each version before the one it is at is gone from     *)
(* Qdrant, or its purge failed.                                            *)
LEMMA PurgeStep ==
    ASSUME IInv, RunsAlone, StoreInv, NEW j \in Jobs, NEW x, Keeps(j, x),
           job[j].pc = "purge", x.pc \in DeletePCs,
           UNCHANGED <<status, versions, current, chunks, overlap>>,
           points' \subseteq points, x.num = job[j].num,
           DeleteOK(job[j]) =>
              \A c \in points' : c[1] < x.ver \/ x.pc = "erase" => Spared(c[1]) \/ c[1] \in x.left
    PROVE  StoreInv'
<1> USE Kepts
<1>1. IndexedMeansFound' /\ OrphansExplained'
  <2>1. job'[j].by = "delete"
    <3>1. job'[j] = x
      OBVIOUS
    <3> QED
      BY <3>1 DEF Keeps
  <2>2. OrphansExplained => OrphansExplained'
    BY DEF OrphansExplained, Spared
  <2> QED
    BY <2>1, <2>2 DEF IndexedMeansFound, StoreInv
<1> SUFFICES ASSUME ~overlap PROVE Alongside'
  BY <1>1 DEF StoreInv, Alongside
<1>2. Alongside /\ DeleteOK(job[j])
  BY DEF StoreInv, Alongside, DeletePCs
<1>3. \A k \in Jobs : job[k].pc \notin IndexPCs
  BY DEF RunsAlone, Indexing, Deleting, IndexPCs, DeletePCs
<1>4. \A k \in Jobs : job'[k].pc \notin IndexPCs
  BY <1>3 DEF IndexPCs, DeletePCs
<1>5. ASSUME NEW k \in Jobs, job'[k].pc \in DeletePCs PROVE DeleteOK(job[k])'
  <2>1. CASE k # j
    <3>1. job'[k] = job[k] /\ DeleteOK(job[k])
      BY <1>2, <1>5, <2>1 DEF Alongside
    <3> QED
      BY <3>1 DEF DeleteOK
  <2>2. CASE k = j
    <3>1. job'[k] = x /\ \A v : v \in x.left => Spared(v)'
      BY <2>2 DEF Spared
    <3> QED
      BY <1>2, <3>1 DEF DeleteOK
  <2> QED
    BY <2>1, <2>2
<1> QED
  BY <1>2, <1>4, <1>5 DEF Alongside

(* At the end of a delete every point that remains is explained.           *)
LEMMA EraseStep ==
    ASSUME IInv, RunsAlone, StoreInv, NEW j \in Jobs, Erase(j)
    PROVE  StoreInv'
<1>1. PICK x : /\ job' = [job EXCEPT ![j] = x]
               /\ x.pc = "done" /\ x.left = job[j].left
               /\ x.by = "delete" <=> job[j].by = "delete"
  BY EndsAt DEF Erase
<1>2. /\ job[j].pc = "erase" /\ job[j].by = "delete"
      /\ status' = "DELETED" /\ points' = points /\ overlap' = overlap
  BY DEF Erase, StoreInv, Marked, DeletePCs
<1>3. Keeps(j, x)
  BY <1>1, <1>2 DEF Keeps, DeletePCs
<1> USE Kepts
<1>4. IndexedMeansFound'
  BY <1>2 DEF IndexedMeansFound
<1> SUFFICES ASSUME ~overlap PROVE Alongside' /\ OrphansExplained'
  BY <1>2, <1>3, <1>4 DEF StoreInv, Alongside, OrphansExplained
<1>5. Alongside /\ DeleteOK(job[j])
  BY <1>2 DEF StoreInv, Alongside, DeletePCs
<1>6. \A c \in points : Spared(c[1])
  BY <1>2, <1>5 DEF DeleteOK
<1>7. OrphansExplained'
  BY <1>2, <1>3, <1>6 DEF OrphansExplained, Spared
<1>8. \A k \in Jobs : job[k].pc \notin IndexPCs
  BY <1>2 DEF RunsAlone, Indexing, Deleting, IndexPCs, DeletePCs
<1>9. \A k \in Jobs : job'[k].pc \notin IndexPCs
  BY <1>1, <1>3, <1>8 DEF IndexPCs
<1>10. ASSUME NEW k \in Jobs, job'[k].pc \in DeletePCs PROVE DeleteOK(job[k])'
  <2>1. job'[k] = job[k] /\ DeleteOK(job[k])
    BY <1>1, <1>3, <1>5, <1>10 DEF DeletePCs, Alongside
  <2> QED
    BY <1>2, <1>3, <2>1 DEF DeleteOK
<1> QED
  BY <1>2, <1>7, <1>9, <1>10 DEF Alongside

(* A job that ends, or a request before its index run, with the article    *)
(* and the stores as they were.                                            *)
LEMMA EndStep ==
    ASSUME IInv, StoreInv, NEW j \in Jobs, NEW l \in {"done", "lost"}, End(j, l),
           UNCHANGED <<status, versions, current, chunks, points>>, overlap => overlap'
    PROVE  StoreInv'
<1>1. PICK x : /\ job' = [job EXCEPT ![j] = x]
               /\ x.pc = l /\ x.left = job[j].left
               /\ x.by = "delete" <=> job[j].by = "delete"
  BY EndsAt
<1>2. Keeps(j, x) /\ x.pc \notin IndexPCs \cup DeletePCs
  BY <1>1 DEF Keeps, IndexPCs, DeletePCs
<1> QED
  BY <1>2, LocalStep

LEMMA RequestStep ==
    ASSUME IInv, StoreInv, NEW j \in Jobs, NEW x, job' = [job EXCEPT ![j] = x],
           x.pc \in {"append", "compare", "mint"}, x.by # "delete", x.left = job[j].left,
           job[j].pc \in {"idle", "compare"},
           UNCHANGED <<status, versions, current, chunks, points, overlap>>
    PROVE  StoreInv'
<1>1. job[j].by # "delete"
  BY DEF StoreInv, Marked, DeletePCs
<1>2. Keeps(j, x) /\ x.pc \notin IndexPCs \cup DeletePCs
  BY <1>1 DEF Keeps, IndexPCs, DeletePCs
<1> QED
  BY <1>2, LocalStep

LEMMA RequestStores ==
    ASSUME IInv, StoreInv, NEW j \in Jobs,
           \/ \E t \in AllTexts : ReuploadLock(j, t)
           \/ \E force \in BOOLEAN : ReindexRead(j, force)
           \/ ReindexCompare(j)
    PROVE  StoreInv'
<1>0. /\ UNCHANGED <<status, versions, current, chunks, points, overlap>>
      /\ job[j] \in JobType
  BY DEF ReuploadLock, ReindexRead, ReindexCompare, IInv, TypeOK
<1>1. CASE End(j, "done")
  BY <1>0, <1>1, EndStep
<1>2. ASSUME NEW t, ReuploadLock(j, t), ~End(j, "done") PROVE StoreInv'
  <2>1. PICK n : job' = [job EXCEPT ![j].pc = "append", ![j].by = "reupload",
                                    ![j].text = t, ![j].num = n]
    BY <1>2 DEF ReuploadLock
  <2>2. PICK x : x = [job[j] EXCEPT !.pc = "append", !.by = "reupload",
                                    !.text = t, !.num = n]
    OBVIOUS
  <2>3. job' = [job EXCEPT ![j] = x] /\ job[j].pc = "idle"
    BY <1>2, <2>1, <2>2 DEF ReuploadLock, IInv, TypeOK
  <2>4. x.pc = "append" /\ x.by = "reupload" /\ x.left = job[j].left
    BY <1>0, <2>2 DEF JobType
  <2> QED
    BY <1>0, <2>3, <2>4, RequestStep
<1>3. ASSUME NEW force \in BOOLEAN, ReindexRead(j, force) PROVE StoreInv'
  <2>1. PICK b : b = IF force THEN "forced" ELSE "changed"
    OBVIOUS
  <2>2. PICK x : x = [job[j] EXCEPT !.pc = "compare", !.by = b,
                                    !.num = versions[current].num,
                                    !.text = versions[current].text]
    OBVIOUS
  <2>3. job' = [job EXCEPT ![j] = x] /\ job[j].pc = "idle"
    BY <1>3, <2>1, <2>2 DEF ReindexRead, IInv, TypeOK
  <2>4. x.pc = "compare" /\ x.by # "delete" /\ x.left = job[j].left
    BY <1>0, <2>1, <2>2 DEF JobType
  <2> QED
    BY <1>0, <2>3, <2>4, RequestStep
<1>4. CASE ReindexCompare(j) /\ ~End(j, "done")
  <2>1. Goto(j, "mint") /\ job[j].pc = "compare" /\ job[j].by # "delete"
    BY <1>4 DEF ReindexCompare, StoreInv, Marked, DeletePCs
  <2>2. PICK x : job' = [job EXCEPT ![j] = x] /\ x.pc = "mint" /\ x.by = job[j].by
                 /\ x.left = job[j].left
    BY <2>1, GoesTo
  <2> QED
    BY <1>0, <2>1, <2>2, RequestStep
<1> QED
  BY <1>1, <1>2, <1>3, <1>4

(* The inserts of a version.                                               *)
LEMMA InsertStores ==
    ASSUME IInv, StoreInv, NEW j \in Jobs,
           \/ \E t \in AllTexts : Create(j, t)
           \/ ReuploadAppend(j) \/ ReindexMint(j)
    PROVE  StoreInv'
<1>0. job[j] \in JobType /\ versions \in Seq(Version) /\ Len(versions) \in Nat
  BY DEF IInv, TypeOK
<1>1. ASSUME NEW t \in AllTexts, Create(j, t) PROVE StoreInv'
  <2>1. PICK x : x = [job[j] EXCEPT !.pc = "load", !.by = "create"]
    OBVIOUS
  <2>2. job' = [job EXCEPT ![j] = x]
    BY <1>1, <2>1 DEF Create, IInv, TypeOK
  <2>3. x.pc = "load" /\ x.by = "create" /\ x.left = job[j].left
    BY <1>0, <2>1 DEF JobType
  <2>4. /\ status = "NONE" /\ status' = "DRAFT" /\ points' = points /\ overlap' = overlap
        /\ job[j].pc = "idle" /\ Len(versions') = 1
    BY <1>1 DEF Create
  <2>5. Keeps(j, x)
    BY <2>2, <2>3, <2>4 DEF Keeps, StoreInv, Marked, DeletePCs
  <2>6. Indexing = {} /\ versions = <<>>
    BY <2>4 DEF Alive, Indexing, IInv, JobInv, JobOK, RowInv
  <2>7. Len(versions) = 0
    BY <2>6
  <2> QED
    BY <2>3, <2>4, <2>5, <2>6, <2>7, NewVersionStep
<1>2. CASE ReuploadAppend(j) \/ ReindexMint(j)
  <2>1. points' = points /\ chunks' = chunks /\ job[j].pc \in {"append", "mint"}
    BY <1>2 DEF ReuploadAppend, ReindexMint
  <2>2. CASE End(j, "done") /\ UNCHANGED <<status, versions, current, overlap>>
    BY <2>1, <2>2, EndStep
  <2>3. ASSUME NEW n, NEW t, NEW by, NEW l \in {"meta", "load"},
               Mint(n, t, by), Goto(j, l), Alive
        PROVE  StoreInv'
    <3>1. PICK x : /\ job' = [job EXCEPT ![j] = x] /\ x.pc = l
                   /\ x.by = job[j].by /\ x.left = job[j].left
      BY <2>3, GoesTo
    <3>2. /\ status' = "INDEXING" /\ overlap' = (overlap \/ Indexing # {})
          /\ status # "DELETED"
      BY <2>3 DEF Mint, Alive
    <3>3. Len(versions') = Len(versions) + 1
      BY <1>0, <2>3 DEF Mint
    <3>4. Keeps(j, x)
      BY <2>1, <3>1, <3>2 DEF Keeps, StoreInv, Marked, DeletePCs
    <3>5. ~overlap' => Indexing = {}
      BY <3>2
    <3> QED
      BY <1>0, <2>1, <3>1, <3>2, <3>3, <3>4, <3>5, NewVersionStep
  <2>4. CASE ReuploadAppend(j)
    <3>1. Alive
      BY <2>4 DEF ReuploadAppend, IInv, JobInv, JobOK
    <3> QED
      BY <2>2, <2>3, <2>4, <3>1 DEF ReuploadAppend
  <2>5. CASE ReindexMint(j)
    BY <2>2, <2>3, <2>5 DEF ReindexMint
  <2> QED
    BY <1>2, <2>4, <2>5
<1> QED
  BY <1>1, <1>2

(* A run begins with the version that is current.                          *)
LEMMA LoadStores ==
    ASSUME IInv, StoreInv, NEW j \in Jobs, Load(j)
    PROVE  StoreInv'
<1>0. /\ UNCHANGED <<status, versions, current, chunks, points>>
      /\ job[j] \in JobType /\ job[j].pc = "load"
  BY DEF Load, IInv, TypeOK
<1>1. CASE \E l \in {"done", "lost"} : End(j, l)
  <2>1. overlap => overlap'
    BY DEF Load
  <2> QED
    BY <1>0, <1>1, <2>1, EndStep
<1>2. CASE Alive /\ ~\E l \in {"done", "lost"} : End(j, l)
  <2>1. PICK n \in IF versions[current].text = Blank THEN {0} ELSE Sizes :
            job' = [job EXCEPT ![j].pc = "mark", ![j].ver = current, ![j].cnt = n,
                               ![j].by = NULL, ![j].num = 0, ![j].text = NULL]
    BY <1>2 DEF Load
  <2>2. PICK x : x = [job[j] EXCEPT !.pc = "mark", !.ver = current, !.cnt = n,
                                    !.by = NULL, !.num = 0, !.text = NULL]
    OBVIOUS
  <2>3. job' = [job EXCEPT ![j] = x]
    BY <2>1, <2>2 DEF IInv, TypeOK
  <2>4. x.pc = "mark" /\ x.ver = current /\ x.cnt = n /\ x.by = NULL /\ x.left = job[j].left
    BY <1>0, <2>2 DEF JobType
  <2>5. RunOK(x)
    BY <1>2, <2>1, <2>4, KnowledgeAssumption DEF RunOK
  <2>6. overlap => overlap'
    BY <1>2 DEF Load
  <2>7. Keeps(j, x) /\ x.pc \notin DeletePCs
    BY <1>0, <2>3, <2>4, <2>6, KnowledgeAssumption DEF Keeps, StoreInv, Marked, DeletePCs
  <2> QED
    BY <1>0, <2>5, <2>7, LocalStep
<1> QED
  BY <1>1, <1>2 DEF Load

(* A request goes on to index_article, or is lost before it.               *)
LEMMA UpdateMetadataStores ==
    ASSUME IInv, StoreInv, NEW j \in Jobs, UpdateMetadata(j)
    PROVE  StoreInv'
<1>1. /\ UNCHANGED <<status, versions, current, chunks, points, overlap>>
      /\ job[j].pc = "meta"
  BY DEF UpdateMetadata
<1>2. CASE End(j, "lost")
  BY <1>1, <1>2, EndStep
<1>3. CASE Goto(j, "load")
  <2>1. PICK x : /\ job' = [job EXCEPT ![j] = x] /\ x.pc = "load"
                 /\ x.by = job[j].by /\ x.left = job[j].left
    BY <1>3, GoesTo
  <2>2. Keeps(j, x) /\ x.pc \notin IndexPCs \cup DeletePCs
    BY <1>1, <2>1 DEF Keeps, StoreInv, Marked, IndexPCs, DeletePCs
  <2> QED
    BY <1>1, <2>2, LocalStep
<1> QED
  BY <1>2, <1>3 DEF UpdateMetadata

(* A delete begins with every version that has points in its list, or, if  *)
(* it could not read the list, owns up to all of them.                     *)
LEMMA DeleteStores ==
    ASSUME IInv, StoreInv, NEW j \in Jobs, Delete(j)
    PROVE  StoreInv'
<1>0. /\ UNCHANGED <<status, versions, current, chunks, points>>
      /\ job[j] \in JobType /\ Alive /\ Len(versions) \in Nat
      /\ overlap => overlap'
  BY DEF Delete, IInv, TypeOK
<1>1. PICK x : /\ job' = [job EXCEPT ![j] = x]
               /\ x.by = "delete"
               /\ job[j].left \subseteq x.left
               /\ \/ x.pc = "purge" /\ x.ver = 1 /\ x.num = Len(versions)
                  \/ x.pc = "erase" /\ DOMAIN versions \subseteq x.left
  BY DeleteBegins
<1>4. Keeps(j, x) /\ x.pc \notin IndexPCs
  BY <1>0, <1>1 DEF Keeps, DeletePCs, IndexPCs
<1>5. ~overlap' => \A c \in points : c[1] \in 1..Len(versions)
  BY <1>0 DEF StoreInv, Alongside, Alive
<1>6. DOMAIN versions = 1..Len(versions)
  BY DEF IInv, TypeOK
<1>7. ASSUME ~overlap', NEW c \in points
      PROVE  /\ x.pc = "purge" => c[1] <= x.num
             /\ c[1] < x.ver \/ x.pc = "erase" => c[1] \in x.left
  BY <1>0, <1>1, <1>5, <1>6, <1>7
<1> QED
  BY <1>0, <1>4, <1>7, LocalStep

LEMMA PurgeStores ==
    ASSUME IInv, RunsAlone, StoreInv, NEW j \in Jobs, Purge(j)
    PROVE  StoreInv'
<1>0. PICK r \in JobType, v \in Nat : r = job[j] /\ v = job[j].ver
  BY DEF IInv, TypeOK, JobType
<1>1. PICK l \in DeletePCs : l = IF job[j].ver < job[j].num THEN "purge" ELSE "erase"
  BY DEF DeletePCs
<1>2. PICK x : /\ \/ x = [r EXCEPT !.pc = l, !.ver = v + 1]
                     /\ points' = points \ OfVersion(points, v)
                  \/ x = [r EXCEPT !.pc = l, !.ver = v + 1, !.left = @ \cup {v}]
                     /\ points' = points
               /\ job' = [job EXCEPT ![j] = x]
  <2>1. \/ /\ job' = [job EXCEPT ![j].pc = l, ![j].ver = v + 1]
           /\ points' = points \ OfVersion(points, v)
        \/ /\ job' = [job EXCEPT ![j].pc = l, ![j].ver = v + 1, ![j].left = @ \cup {v}]
           /\ points' = points
    BY <1>0, <1>1 DEF Purge
  <2> QED
    BY <1>0, <2>1 DEF IInv, TypeOK
<1>3. /\ x.pc = l /\ x.ver = v + 1 /\ x.num = r.num /\ x.by = r.by
      /\ r.left \subseteq x.left
      /\ v \in x.left \/ points' = points \ OfVersion(points, v)
  <2>1. CASE x = [r EXCEPT !.pc = l, !.ver = v + 1]
             /\ points' = points \ OfVersion(points, v)
    BY <2>1 DEF JobType
  <2>2. CASE x = [r EXCEPT !.pc = l, !.ver = v + 1, !.left = @ \cup {v}]
    <3>1. x.left = r.left \cup {v}
      BY <2>2 DEF JobType
    <3> QED
      BY <2>2, <3>1 DEF JobType
  <2> QED
    BY <1>2, <2>1, <2>2
<1>4. /\ UNCHANGED <<status, versions, current, chunks, overlap>>
      /\ job[j].pc = "purge" /\ job[j].pc \in DeletePCs /\ job[j].by = "delete"
  BY DEF Purge, StoreInv, Marked, DeletePCs
<1>5. Keeps(j, x)
  BY <1>0, <1>2, <1>3, <1>4 DEF Keeps
<1>6. points' \subseteq points
  BY <1>2
<1>7. ASSUME DeleteOK(job[j]), NEW c \in points', c[1] < x.ver \/ x.pc = "erase"
      PROVE  Spared(c[1]) \/ c[1] \in x.left
  <2>1. c[1] \in Nat /\ r.num \in Nat
    BY <1>0, <1>6 DEF IInv, TypeOK, JobType
  <2>2. c[1] <= v
    BY <1>0, <1>1, <1>3, <1>4, <1>6, <1>7, <2>1 DEF DeleteOK
  <2>3. CASE c[1] = v
    BY <1>3, <1>7, <2>3 DEF OfVersion
  <2>4. CASE c[1] < v
    BY <1>0, <1>6, <1>7, <2>4 DEF DeleteOK
  <2> QED
    BY <1>0, <2>1, <2>2, <2>3, <2>4
<1> QED
  BY <1>0, <1>3, <1>4, <1>5, <1>6, <1>7, PurgeStep

(* The steps of an index run.                                              *)
LEMMA RunGoes ==
    ASSUME IInv, RunsAlone, StoreInv, NEW j \in Jobs, job[j].pc \in IndexPCs,
           NEW l \in IndexPCs \ {"mark"}, Goto(j, l),
           UNCHANGED <<versions, current, overlap>>, Alive => Alive',
           status' = "INDEXING" \/ (status' = status /\ job[j].pc # "mark"),
           points' \subseteq points \cup Cut(job[j].ver, job[j].cnt),
           ~overlap /\ l = "finish" =>
               /\ OfVersion(chunks', job[j].ver) = Cut(job[j].ver, job[j].cnt)
               /\ Cut(job[j].ver, job[j].cnt) \subseteq points'
    PROVE  StoreInv'
<1>1. PICK x : /\ job' = [job EXCEPT ![j] = x]
               /\ x.pc = l
               /\ x.by = job[j].by /\ x.left = job[j].left
               /\ x.ver = job[j].ver /\ x.num = job[j].num /\ x.cnt = job[j].cnt
  BY GoesTo
<1>2. Keeps(j, x) /\ x.pc \notin DeletePCs
  BY <1>1 DEF Keeps, StoreInv, Marked, IndexPCs, DeletePCs
<1>3. ASSUME ~overlap, RunOK(job[j]) PROVE RunOK(x)' /\ status' # "INDEXED"
  <2>1. status' # "INDEXED" /\ Alive'
    BY <1>3 DEF RunOK
  <2>2. x.pc = "finish" => /\ OfVersion(chunks', x.ver) = Cut(x.ver, x.cnt)
                           /\ Cut(x.ver, x.cnt) \subseteq points'
    BY <1>1, <1>3
  <2> QED
    BY <1>1, <1>3, <2>1, <2>2 DEF RunOK, OfVersion, Cut
<1> QED
  BY <1>2, <1>3, RunStep

(* The last status write: the rows are exactly the points of the current   *)
(* version, and there are some unless its text is blank.                   *)
LEMMA RunEnds ==
    ASSUME IInv, RunsAlone, StoreInv, NEW j \in Jobs, job[j].pc \in IndexPCs,
           End(j, "done"), UNCHANGED <<versions, current, chunks, points, overlap>>, Alive',
           status' = "FAILED" \/ (status' = "INDEXED" /\ job[j].pc = "finish")
    PROVE  StoreInv'
<1>1. PICK x : /\ job' = [job EXCEPT ![j] = x]
               /\ x.pc = "done" /\ x.left = job[j].left
               /\ x.by = "delete" <=> job[j].by = "delete"
  BY EndsAt
<1>2. Keeps(j, x) /\ x.pc \notin IndexPCs \cup DeletePCs
  BY <1>1 DEF Keeps, IndexPCs, DeletePCs
<1>3. job[j].cnt \in Nat
  BY DEF IInv, TypeOK, JobType
<1>4. Cut(current, job[j].cnt) = {} <=> job[j].cnt = 0
  <2>1. job[j].cnt # 0 => <<current, 1>> \in Cut(current, job[j].cnt)
    BY <1>3 DEF Cut
  <2>2. Cut(current, 0) = {}
    BY DEF Cut
  <2> QED
    BY <2>1, <2>2
<1>5. ASSUME ~overlap, RunOK(job[j]), status' = "INDEXED"
      PROVE  /\ OfVersion(chunks', current) \subseteq points'
             /\ OfVersion(chunks', current) = {} <=> versions[current].text = Blank
  <2>1. OfVersion(chunks, current) = Cut(current, job[j].cnt)
        /\ Cut(current, job[j].cnt) \subseteq points
    BY <1>5 DEF RunOK
  <2> QED
    BY <1>4, <1>5, <2>1 DEF RunOK
<1> QED
  BY <1>2, <1>5, RunStep

LEMMA RunStores ==
    ASSUME IInv, RunsAlone, StoreInv, NEW j \in Jobs,
           \/ Mark(j) \/ Embed(j) \/ Clear(j) \/ Upsert(j) \/ Rows(j)
           \/ Finish(j) \/ Fail(j)
    PROVE  StoreInv'
<1>0. /\ job[j].pc \in IndexPCs /\ UNCHANGED <<versions, current, overlap>>
  BY DEF IndexPCs, Mark, Embed, Clear, Upsert, Rows, Finish, Fail
<1>1. CASE \E l \in {"done", "lost"} :
               End(j, l) /\ UNCHANGED <<status, versions, current, chunks, points>>
  BY <1>0, <1>1, EndStep
<1>2. CASE Mark(j)
  <2>1. PICK l \in {"clear", "embed"} : SetStatus(j, "INDEXING", l) /\ l # "done"
    BY <1>2 DEF Mark
  <2>2. CASE Alive /\ status' = "INDEXING" /\ Goto(j, l)
    <3>1. Alive' /\ l \in IndexPCs \ {"mark"} /\ l # "finish" /\ points' = points
      BY <1>2, <2>2 DEF Alive, Mark, IndexPCs
    <3> QED
      BY <1>0, <2>2, <3>1, RunGoes
  <2> QED
    BY <1>1, <1>2, <2>1, <2>2 DEF Mark, SetStatus
<1>3. CASE Finish(j) \/ Fail(j)
  <2>1. UNCHANGED <<chunks, points>>
    BY <1>3 DEF Finish, Fail
  <2>2. CASE Alive /\ End(j, "done")
             /\ (status' = "FAILED" \/ (status' = "INDEXED" /\ job[j].pc = "finish"))
    <3>1. Alive'
      BY <2>2 DEF Alive
    <3> QED
      BY <1>0, <2>1, <2>2, <3>1, RunEnds
  <2> QED
    BY <1>1, <1>3, <2>2 DEF Finish, Fail, SetStatus
<1>4. CASE Embed(j) \/ Clear(j) \/ Upsert(j)
  <2>1. PICK l \in {"clear", "fail", "rows", "upsert"} : Goto(j, l)
    BY <1>4 DEF Embed, Clear, Upsert, Failing
  <2>2. /\ status' = status /\ job[j].pc # "mark"
        /\ points' \subseteq points \cup Cut(job[j].ver, job[j].cnt)
    BY <1>4 DEF Embed, Clear, Upsert
  <2>3. Alive => Alive'
    BY <2>2 DEF Alive
  <2> QED
    BY <1>0, <2>1, <2>2, <2>3, RunGoes DEF IndexPCs
<1>5. CASE Rows(j)
  <2>1. PICK l \in {"finish", "fail"} : Goto(j, l)
           /\ (l = "finish" => chunks' = (chunks \ OfVersion(chunks, job[j].ver))
                                            \cup Cut(job[j].ver, job[j].cnt))
    BY <1>5 DEF Rows
  <2>2. status' = status /\ job[j].pc = "rows" /\ points' = points
    BY <1>5 DEF Rows
  <2>3. Alive => Alive'
    BY <2>2 DEF Alive
  <2>4. ~overlap => Cut(job[j].ver, job[j].cnt) \subseteq points'
    BY <2>2 DEF RunsAlone
  <2>5. l = "finish" => OfVersion(chunks', job[j].ver) = Cut(job[j].ver, job[j].cnt)
    BY <2>1 DEF OfVersion, Cut
  <2> QED
    BY <1>0, <2>1, <2>2, <2>3, <2>4, <2>5, RunGoes DEF IndexPCs
<1> QED
  BY <1>2, <1>3, <1>4, <1>5

LEMMA NextStoreInv == IInv /\ RunsAlone /\ StoreInv /\ [Next]_vars => StoreInv'
<1> SUFFICES ASSUME IInv, RunsAlone, StoreInv, [Next]_vars PROVE StoreInv'
  OBVIOUS
<1>1. CASE UNCHANGED <<status, versions, current, chunks, points, job, overlap>>
  BY <1>1 DEF StoreInv, Marked, Alongside, RunOK, DeleteOK, Spared, Alive,
              IndexedMeansFound, OrphansExplained, OfVersion, Cut
<1>2. CASE UNCHANGED vars \/ \E r \in Readers : Search(r) \/ Hydrate(r) \/ Resolve(r)
  BY <1>1, <1>2 DEF vars, Search, Hydrate, Resolve
<1>3. ASSUME NEW j \in Jobs, Crash(j) PROVE StoreInv'
  BY <1>3, EndStep DEF Crash
<1> QED
  BY <1>2, <1>3, RequestStores, InsertStores, UpdateMetadataStores, LoadStores, DeleteStores, PurgeStores,
     EraseStep, RunStores DEF Next, Step

LEMMA StoreInvariance == Spec => []StoreInv
<1>1. Init => RunsAlone
  BY DEF Init, RunsAlone, Indexing, NewJob
<1> QED
  BY <1>1, InitStoreInv, Invariance, NextRunsAlone, NextStoreInv, PTL DEF Spec

(* Unless index_article met a mint, a delete or another run, an article    *)
(* that is INDEXED has for its current version exactly the rows it needs,  *)
(* each with its point, whatever failed or crashed before.                 *)
THEOREM IndexedIsComplete == Spec => []IndexedMeansFound
<1>1. StoreInv => IndexedMeansFound
  BY DEF StoreInv
<1> QED
  BY <1>1, StoreInvariance, PTL

(* After delete_article the points that remain in Qdrant are those of the  *)
(* versions whose purge failed, unless a run overlapped the delete.        *)
THEOREM OnlyFailedPurgesRemain == Spec => []OrphansExplained
<1>1. StoreInv => OrphansExplained
  BY DEF StoreInv
<1> QED
  BY <1>1, StoreInvariance, PTL
=============================================================================
