-------------------------- MODULE DocumentsProofs --------------------------
(***************************************************************************)
(* Documents on their way in and out, for all documents, uploads, searches *)
(* and knowledge bases: no phrase is lost at a chunk boundary, whatever is *)
(* listed or found is stored in full, and the best hits of several         *)
(* knowledge bases are the best of all their points.                       *)
(***************************************************************************)
EXTENDS Documents, FiniteSetTheorems, TLAPS

(* The phrases of section s that end before word n are in the chunks C.    *)
Covered(C, s, n) ==
    \A v, w \in 0..(doc[s] - 1) : v <= w /\ w - v <= overlap /\ w < n =>
        \E c \in C : Holds(c, s, v, w)

ChunkType ==
    /\ doc \in Docs /\ size \in Int /\ overlap \in Int
    /\ section \in 1..Len(doc) /\ i \in Nat
    /\ cut \in {"parse", "chunk", "done", "refused"}

(* The sections behind the loop are covered as a whole, the one under it   *)
(* as far as the overlap reaches into the next window.                     *)
LoopInv ==
    /\ cut = "parse" => section = 1 /\ i = 0
    /\ cut \in {"parse", "refused"} => chunks = {}
    /\ cut \in {"chunk", "done"} => validate_config
    /\ cut = "done" => section = Len(doc)
    /\ \A s \in DOMAIN doc : Cut(s) => Covered(chunks, s, doc[s])
    /\ cut = "chunk" /\ i > 0 => Covered(chunks, section, i + overlap)
    /\ \A c \in chunks : c.to - c.from <= size

ChunkInv == ChunkType /\ LoopInv

(* What the assumption says of the document at hand.                       *)
LEMMA DocFacts ==
    ASSUME doc \in Docs
    PROVE  /\ Len(doc) \in Nat /\ Len(doc) > 0 /\ DOMAIN doc = 1..Len(doc)
           /\ doc[Len(doc)] # Unknown
           /\ \A s \in 1..Len(doc) : doc[s] \in Int /\ (doc[s] = Unknown \/ doc[s] \in Nat)
BY ChunkingAssumption DEF Unknown

LEMMA InitChunkInv == ChunkInit => ChunkInv
<1> SUFFICES ASSUME ChunkInit PROVE ChunkInv
  OBVIOUS
<1>1. ChunkType
  BY DocFacts, ChunkingAssumption DEF ChunkInit, ChunkType
<1>2. LoopInv
  BY DEF ChunkInit, LoopInv, Cut
<1> QED
  BY <1>1, <1>2 DEF ChunkInv

(* Chunks are only added, so what is covered stays covered.                *)
LEMMA CoveredGrows ==
    ASSUME NEW C, NEW D, C \subseteq D, NEW s, NEW n, Covered(C, s, n)
    PROVE  Covered(D, s, n)
BY DEF Covered

(* The loop leaves a section that is covered: the invariant holds in the   *)
(* next one.                                                               *)
LEMMA NextSectionInv ==
    ASSUME ChunkInv, cut = "chunk", NextSection, UNCHANGED <<doc, size, overlap>>,
           chunks \subseteq chunks',
           doc[section] # Unknown => Covered(chunks', section, doc[section]),
           \A c \in chunks' : c.to - c.from <= size
    PROVE  ChunkInv'
<1> USE DEF ChunkInv
<1>1. doc \in Docs
  BY DEF ChunkType
<1>2. ChunkType'
  <2>1. Len(doc) \in Nat /\ section \in 1..Len(doc)
    BY <1>1, DocFacts DEF ChunkType
  <2>2. section' \in 1..Len(doc)
    BY <2>1 DEF NextSection
  <2> QED
    BY <2>2 DEF ChunkType, NextSection
<1>3. cut' \in {"chunk", "done"} /\ i' = 0 /\ validate_config'
      /\ (cut' = "done" => section' = Len(doc'))
  BY DEF LoopInv, NextSection, validate_config
<1>4. ASSUME NEW s \in DOMAIN doc', Cut(s)'
      PROVE  Covered(chunks, s, doc[s])'
  <2>1. s \in 1..Len(doc) /\ doc[s] # Unknown
    BY <1>1, <1>4, DocFacts DEF Cut
  <2>2. s <= section
    <3>1. section \in Int /\ Len(doc) \in Int /\ s \in Int
      BY <1>1, <2>1, DocFacts DEF ChunkType
    <3>2. CASE section = Len(doc)
      BY <2>1, <3>1, <3>2
    <3>3. CASE section # Len(doc)
      <4>1. s < section + 1
        BY <1>4, <3>3 DEF Cut, NextSection
      <4> QED
        BY <3>1, <4>1
    <3> QED
      BY <3>2, <3>3
  <2>3. Covered(chunks', s, doc[s])
    <3>1. CASE s < section
      <4>1. Cut(s)
        BY <3>1, <2>1 DEF Cut
      <4> QED
        BY <4>1, <2>1, <1>1, DocFacts, CoveredGrows DEF LoopInv
    <3>2. CASE s = section
      BY <3>2, <2>1
    <3> QED
      BY <2>1, <2>2, <3>1, <3>2 DEF ChunkType
  <2> QED
    BY <2>3 DEF Covered, Holds
<1> QED
  BY <1>2, <1>3, <1>4 DEF LoopInv

LEMMA ParseInv == ASSUME ChunkInv, ParseDocument PROVE ChunkInv'
<1> USE DEF ChunkInv
<1>1. ChunkType'
  BY DEF ChunkType, ParseDocument
<1>2. chunks' = {} /\ section' = 1 /\ i' = 0 /\ cut' # "parse" /\ cut' # "done"
      /\ (cut' = "chunk" => validate_config')
  BY DEF ParseDocument, LoopInv, validate_config
<1>3. \A s \in DOMAIN doc' : ~Cut(s)'
  BY <1>2, DocFacts DEF Cut, ParseDocument, ChunkType
<1> QED
  BY <1>1, <1>2, <1>3 DEF LoopInv

LEMMA WholeBlockInv == ASSUME ChunkInv, WholeBlock PROVE ChunkInv'
<1> DEFINE c == [section |-> section, from |-> 0, to |-> doc[section]]
<1> USE DEF ChunkInv
<1>1. cut = "chunk" /\ NextSection /\ UNCHANGED <<doc, size, overlap>>
      /\ doc[section] <= size /\ chunks \subseteq chunks'
  BY DEF WholeBlock
<1>2. doc[section] \in Int /\ (doc[section] = Unknown \/ doc[section] \in Nat)
  BY DocFacts DEF ChunkType
<1>3. ASSUME doc[section] # Unknown
      PROVE  Covered(chunks', section, doc[section])
  <2>1. c \in chunks'
    BY <1>3 DEF WholeBlock
  <2>2. \A v, w \in 0..(doc[section] - 1) : Holds(c, section, v, w)
    BY <1>2, <1>3 DEF Holds
  <2> QED
    BY <2>1, <2>2 DEF Covered
<1>4. \A d \in chunks' : d.to - d.from <= size
  <2>1. c.to - c.from <= size
    BY <1>1, <1>2
  <2> QED
    BY <2>1 DEF WholeBlock, LoopInv
<1> QED
  BY <1>1, <1>3, <1>4, NextSectionInv

(* A window from i covers what the windows before it left over: a phrase   *)
(* that does not end within the overlap begins in the window.              *)
LEMMA WindowCovers ==
    ASSUME ChunkInv, cut = "chunk", NEW D, chunks \subseteq D,
           NEW to \in Int, to <= doc[section],
           [section |-> section, from |-> i, to |-> to] \in D
    PROVE  Covered(D, section, to)
<1> DEFINE c == [section |-> section, from |-> i, to |-> to]
<1> USE DEF ChunkInv
<1> SUFFICES ASSUME NEW v \in 0..(doc[section] - 1), NEW w \in 0..(doc[section] - 1),
                    v <= w, w - v <= overlap, w < to
             PROVE  \E d \in D : Holds(d, section, v, w)
  BY DEF Covered
<1>1. doc[section] \in Int /\ overlap \in Int /\ i \in Nat
  BY DocFacts DEF ChunkType
<1>2. CASE i > 0 /\ w < i + overlap
  BY <1>2 DEF LoopInv, Covered
<1>3. CASE ~(i > 0 /\ w < i + overlap)
  <2>1. i <= v
    BY <1>1, <1>3
  <2>2. Holds(c, section, v, w)
    BY <2>1 DEF Holds
  <2> QED
    BY <2>2
<1> QED
  BY <1>2, <1>3

LEMMA WindowInv == ASSUME ChunkInv, Window PROVE ChunkInv'
<1> DEFINE to == IF i + size < doc[section] THEN i + size ELSE doc[section]
           c == [section |-> section, from |-> i, to |-> to]
<1> USE DEF ChunkInv
<1>1. /\ cut = "chunk" /\ i < doc[section] /\ UNCHANGED <<doc, size, overlap>>
      /\ chunks' = chunks \cup {c}
      /\ IF to - i < size THEN NextSection
         ELSE i' = i + (size - overlap) /\ UNCHANGED <<section, cut>>
  BY DEF Window
<1>2. /\ doc[section] \in Int /\ size \in Int /\ overlap \in Int /\ i \in Nat
      /\ to \in Int /\ to <= doc[section] /\ to - i <= size
      /\ size > 0 /\ overlap >= 0 /\ overlap < size
  BY <1>1, DocFacts DEF ChunkType, LoopInv, validate_config
<1>3. Covered(chunks', section, to)
  <2> HIDE DEF to
  <2> QED
    BY <1>1, <1>2, WindowCovers
<1>4. \A d \in chunks' : d.to - d.from <= size
  <2>1. c.to - c.from <= size
    BY <1>2
  <2> HIDE DEF c
  <2> QED
    BY <1>1, <2>1 DEF LoopInv
<1>5. CASE to - i < size
  <2>1. to = doc[section]
    BY <1>2, <1>5
  <2> QED
    BY <1>1, <1>3, <1>4, <1>5, <2>1, NextSectionInv
<1>6. CASE ~(to - i < size)
  <2>1. to = i + size /\ i' = i + (size - overlap) /\ UNCHANGED <<section, cut>>
    BY <1>1, <1>2, <1>6
  <2>2. i' \in Nat /\ i' + overlap' = to
    BY <1>1, <1>2, <2>1
  <2>3. ChunkType'
    BY <1>1, <2>1, <2>2 DEF ChunkType
  <2>4. Covered(chunks, section, i + overlap)'
    <3> HIDE DEF to
    <3> QED
      BY <1>1, <1>3, <2>1, <2>2 DEF Covered, Holds
  <2>5. \A s \in DOMAIN doc' : Cut(s)' => Covered(chunks, s, doc[s])'
    <3> SUFFICES ASSUME NEW s \in DOMAIN doc', Cut(s)'
                 PROVE  Covered(chunks, s, doc[s])'
      OBVIOUS
    <3>1. Cut(s)
      BY <1>1, <2>1 DEF Cut
    <3>2. Covered(chunks', s, doc[s])
      <4> HIDE DEF c
      <4> QED
        BY <1>1, <3>1, CoveredGrows DEF LoopInv
    <3> QED
      BY <1>1, <3>2 DEF Covered, Holds
  <2> QED
    BY <1>1, <1>4, <2>1, <2>3, <2>4, <2>5 DEF LoopInv, validate_config
<1> QED
  BY <1>5, <1>6

LEMMA EndOfSectionInv == ASSUME ChunkInv, EndOfSection PROVE ChunkInv'
<1> USE DEF ChunkInv
<1>1. cut = "chunk" /\ NextSection /\ UNCHANGED <<doc, size, overlap, chunks>>
      /\ i >= doc[section]
  BY DEF EndOfSection
<1>2. doc[section] \in Int /\ i \in Nat /\ overlap \in Int /\ overlap >= 0
  BY <1>1, DocFacts DEF ChunkType, LoopInv, validate_config
<1>3. Covered(chunks', section, doc[section])
  BY <1>1, <1>2 DEF LoopInv, Covered
<1> QED
  BY <1>1, <1>3, NextSectionInv DEF LoopInv

LEMMA ChunkInvariance == ChunkInit /\ [][ChunkNext]_chunkVars => []ChunkInv
<1>1. ChunkInv /\ [ChunkNext]_chunkVars => ChunkInv'
  <2> SUFFICES ASSUME ChunkInv, [ChunkNext]_chunkVars PROVE ChunkInv'
    OBVIOUS
  <2>1. CASE UNCHANGED chunkVars
    BY <2>1 DEF chunkVars, ChunkInv, ChunkType, LoopInv, validate_config, Cut,
                Covered, Holds
  <2> QED
    BY <2>1, ParseInv, WholeBlockInv, WindowInv, EndOfSectionInv DEF ChunkNext
<1> QED
  BY <1>1, InitChunkInv, PTL

(* chunk_document keeps every phrase of overlap + 1 words together in some *)
(* chunk and no chunk exceeds the size, for all documents, sizes and       *)
(* overlaps _validate_config lets through.                                 *)
THEOREM NoPhraseLost == Spec => []PhrasesKept
<1>1. ChunkInv => PhrasesKept
  <2> SUFFICES ASSUME ChunkInv PROVE PhrasesKept
    OBVIOUS
  <2>1. ASSUME NEW s \in DOMAIN doc, Cut(s),
               NEW v \in 0..(doc[s] - 1), NEW w \in 0..(doc[s] - 1),
               v <= w, w - v <= overlap
        PROVE  \E c \in chunks : Holds(c, s, v, w)
    <3>1. doc[s] \in Int
      BY DocFacts DEF ChunkInv, ChunkType
    <3>2. w < doc[s]
      BY <3>1
    <3> QED
      BY <2>1, <3>2 DEF ChunkInv, LoopInv, Covered
  <2> QED
    BY <2>1 DEF PhrasesKept, ChunkInv, LoopInv
<1>2. Init => ChunkInit
  BY DEF Init
<1>3. [Next]_vars => [ChunkNext]_chunkVars
  BY DEF Next, vars
<1> QED
  BY <1>1, <1>2, <1>3, ChunkInvariance, PTL DEF Spec

-----------------------------------------------------------------------------
(* Lists of points.                                                        *)

LEMMA ArticlePoints == Articles \subseteq Point /\ IsFiniteSet(Articles)
BY DocumentsAssumption DEF Point

(* The elements of a list without repetitions.                             *)
LEMMA InjectiveList ==
    ASSUME NEW S, NEW n \in Nat, NEW list \in [1..n -> S],
           \A a, b \in 1..n : a < b => list[a] # list[b]
    PROVE  /\ list \in Seq(S) /\ Len(list) = n /\ DOMAIN list = 1..n
           /\ ToSet(list) \subseteq S
           /\ IsFiniteSet(ToSet(list)) /\ Cardinality(ToSet(list)) = n
<1>1. list \in Seq(S) /\ Len(list) = n /\ DOMAIN list = 1..n
  OBVIOUS
<1>2. ToSet(list) = {list[a] : a \in 1..n}
  BY <1>1 DEF ToSet
<1>3. ToSet(list) \subseteq S
  BY <1>2
<1>4. list \in Bijection(1..n, ToSet(list))
  <2>1. list \in [1..n -> ToSet(list)]
    BY <1>2
  <2>2. \A a, b \in 1..n : list[a] = list[b] => a = b
    OBVIOUS
  <2>3. \A t \in ToSet(list) : \E a \in 1..n : list[a] = t
    BY <1>2
  <2> QED
    BY <2>1, <2>2, <2>3 DEF Bijection, Injection, Surjection, IsInjective
<1>5. IsFiniteSet(1..n) /\ Cardinality(1..n) = n
  BY FS_Interval
<1> QED
  BY <1>1, <1>3, <1>4, <1>5, FS_Bijection DEF ExistsBijection

(* What Qdrant returns: as many points as asked for, or all there are.     *)
LEMMA ListedFacts ==
    ASSUME NEW k \in Nat, NEW S, IsFiniteSet(S), NEW list \in Listed(k, S)
    PROVE  /\ list \in Seq(S) /\ ToSet(list) \subseteq S
           /\ Len(list) = IF k < Cardinality(S) THEN k ELSE Cardinality(S)
           /\ IsFiniteSet(ToSet(list)) /\ Cardinality(ToSet(list)) = Len(list)
           /\ Len(list) # k => ToSet(list) = S
           /\ DOMAIN list = 1..Len(list)
<1> DEFINE count == IF k < Cardinality(S) THEN k ELSE Cardinality(S)
<1>1. Cardinality(S) \in Nat /\ count \in Nat
  BY FS_CardinalityType
<1>2. list \in [1..count -> S] /\ \A a, b \in 1..count : a < b => list[a] # list[b]
  BY DEF Listed
<1> HIDE DEF count
<1>3. /\ list \in Seq(S) /\ Len(list) = count /\ DOMAIN list = 1..count
      /\ ToSet(list) \subseteq S
      /\ IsFiniteSet(ToSet(list)) /\ Cardinality(ToSet(list)) = count
  BY <1>1, <1>2, InjectiveList
<1>4. ASSUME count # k PROVE ToSet(list) = S
  BY <1>1, <1>3, <1>4, FS_Subset DEF count
<1> QED
  BY <1>3, <1>4 DEF count

(* The nearest of them: none of the others is nearer.                      *)
LEMMA NearestFacts ==
    ASSUME NEW k \in Nat, NEW S, IsFiniteSet(S), NEW list \in Nearest(k, S)
    PROVE  /\ list \in Listed(k, S) /\ list \in Seq(S) /\ ToSet(list) \subseteq S
           /\ Len(list) = IF k < Cardinality(S) THEN k ELSE Cardinality(S)
           /\ IsFiniteSet(ToSet(list)) /\ Cardinality(ToSet(list)) = Len(list)
           /\ Len(list) # k => ToSet(list) = S
           /\ DOMAIN list = 1..Len(list)
           /\ \A m, n \in DOMAIN list : m < n => list[m].score >= list[n].score
           /\ \A p \in S \ ToSet(list) : \A n \in DOMAIN list : list[n].score >= p.score
<1>1. list \in Listed(k, S)
  BY DEF Nearest
<1>2. /\ \A m, n \in DOMAIN list : m < n => list[m].score >= list[n].score
      /\ \A p \in S \ ToSet(list) : \A n \in DOMAIN list : list[n].score >= p.score
  BY DEF Nearest
<1> QED
  BY <1>1, <1>2, ListedFacts

-----------------------------------------------------------------------------
(* Type correctness.                                                       *)

LEMMA InitType == Init => TypeOK
BY DocumentsAssumption DEF Init, TypeOK, UploadState, SearchState

LEMMA NewPoints ==
    ASSUME TypeOK, NEW u \in Uploads, up[u].tenant # NULL, up[u].slug # NULL,
           NEW kind \in {"text", "image"}, NEW pages \in SUBSET Pages
    PROVE  PointsOf(u, kind, pages) \subseteq Point
<1> SUFFICES ASSUME NEW g \in pages
             PROVE  [kind |-> kind, tenant |-> up[u].tenant, slug |-> up[u].slug, src |-> u,
                     page |-> g, score |-> Score[u, g]] \in Point
  BY DEF PointsOf
<1>1. up[u].tenant \in Tenants /\ up[u].slug \in Slugs
  BY DEF TypeOK, UploadState
<1>2. Score[u, g] \in Nat
  BY DocumentsAssumption
<1> QED
  BY <1>1, <1>2 DEF Point

(* An upload that has begun has its tenant and its slug.                   *)
Begun == \A u \in Uploads : up[u].pc # "idle" => up[u].tenant # NULL /\ up[u].slug # NULL

(* The next state of an upload.                                            *)
LEMMA UploadMoves ==
    ASSUME TypeOK, Begun, NEW u \in Uploads, Upload(u) \/ UploadStep(u)
    PROVE  \E x \in UploadState :
              /\ up' = [up EXCEPT ![u] = x]
              /\ x.pc # "idle" /\ x.tenant # NULL /\ x.slug # NULL
              /\ Upload(u) \/ (up[u].pc # "idle" /\ x.tenant = up[u].tenant /\ x.slug = up[u].slug)
              /\ Extract(u) \/ (x.texts = up[u].texts /\ x.images = up[u].images)
              /\ (Upload(u) => x.pc = "put") /\ (Extract(u) => x.pc = "encode")
<1>0. up \in [Uploads -> UploadState] /\ up[u] \in UploadState
  BY DEF TypeOK
<1>1. CASE Upload(u)
  <2>1. PICK t \in Tenants, g \in Slugs :
            up' = [up EXCEPT ![u].pc = "put", ![u].tenant = t, ![u].slug = g]
    BY <1>1 DEF Upload
  <2>2. PICK x : x = [up[u] EXCEPT !.pc = "put", !.tenant = t, !.slug = g]
    OBVIOUS
  <2>3. up' = [up EXCEPT ![u] = x]
    BY <1>0, <2>1, <2>2
  <2>4. x \in UploadState /\ x.pc = "put" /\ x.tenant = t /\ x.slug = g
        /\ x.texts = up[u].texts /\ x.images = up[u].images
    BY <1>0, <2>2 DEF UploadState
  <2> QED
    BY <1>1, <2>3, <2>4, DocumentsAssumption DEF Upload, Extract
<1>2. CASE Extract(u)
  <2>1. PICK ts, is \in SUBSET Pages :
            up' = [up EXCEPT ![u].pc = "encode", ![u].texts = ts, ![u].images = is]
    BY <1>2 DEF Extract
  <2>2. PICK x : x = [up[u] EXCEPT !.pc = "encode", !.texts = ts, !.images = is]
    OBVIOUS
  <2>3. up' = [up EXCEPT ![u] = x]
    BY <1>0, <2>1, <2>2
  <2>4. x \in UploadState /\ x.pc = "encode" /\ x.tenant = up[u].tenant
        /\ x.slug = up[u].slug
    BY <1>0, <2>2 DEF UploadState
  <2> QED
    BY <1>2, <2>3, <2>4 DEF Begun, Extract, Upload
<1>3. ASSUME NEW pc \in {"extract", "text", "image", "row", "done", "failed"}, Go(u, pc),
             up[u].pc # "idle"
      PROVE  \E x \in UploadState :
                /\ up' = [up EXCEPT ![u] = x]
                /\ x.pc # "idle" /\ x.tenant # NULL /\ x.slug # NULL
                /\ x.tenant = up[u].tenant /\ x.slug = up[u].slug
                /\ x.texts = up[u].texts /\ x.images = up[u].images
  <2>1. PICK x : x = [up[u] EXCEPT !.pc = pc]
    OBVIOUS
  <2>2. up' = [up EXCEPT ![u] = x]
    BY <1>0, <1>3, <2>1 DEF Go
  <2>3. x \in UploadState /\ x.pc = pc /\ x.tenant = up[u].tenant /\ x.slug = up[u].slug
        /\ x.texts = up[u].texts /\ x.images = up[u].images
    BY <1>0, <2>1 DEF UploadState
  <2> QED
    BY <1>3, <2>2, <2>3 DEF Begun
<1>4. CASE Put(u) \/ Encode(u) \/ UpsertText(u) \/ UpsertImages(u) \/ InsertRow(u)
  <2>1. up[u].pc # "idle" /\ up[u].pc # "extract"
    BY <1>4 DEF Put, Encode, UpsertText, UpsertImages, InsertRow
  <2>2. \E pc \in {"extract", "text", "image", "row", "done", "failed"} : Go(u, pc)
    BY <1>4 DEF Put, Encode, UpsertText, UpsertImages, InsertRow
  <2> QED
    BY <1>3, <2>1, <2>2 DEF Upload, Extract
<1> QED
  BY <1>1, <1>2, <1>4 DEF UploadStep

LEMMA UploadType ==
    ASSUME TypeOK, Begun, NEW u \in Uploads, Upload(u) \/ UploadStep(u)
    PROVE  TypeOK' /\ Begun'
<1>1. up' \in [Uploads -> UploadState] /\ Begun'
  <2>1. PICK x \in UploadState : up' = [up EXCEPT ![u] = x] /\ x.tenant # NULL /\ x.slug # NULL
    BY UploadMoves
  <2> QED
    BY <2>1 DEF TypeOK, Begun
<1>2. search' = search
  BY DEF Upload, UploadStep, Put, Extract, Encode, UpsertText, UpsertImages, InsertRow,
         stores
<1>3. faults' \in Nat
  <2>1. CASE Upload(u) \/ Extract(u)
    BY <2>1 DEF Upload, Extract, TypeOK
  <2>4. CASE Put(u) \/ Encode(u)
    BY <2>4 DEF Put, Encode, Fault, TypeOK
  <2>2. CASE UpsertText(u) \/ UpsertImages(u) \/ InsertRow(u)
    BY <2>2 DEF UpsertText, UpsertImages, InsertRow, Fault, TypeOK
  <2> QED
    BY <2>1, <2>2, <2>4 DEF UploadStep
<1>4. objects' \subseteq Uploads
  BY DEF Upload, UploadStep, Put, Extract, Encode, UpsertText, UpsertImages, InsertRow,
         stores, TypeOK
<1>5. texts' \subseteq Point
  <2>1. CASE UpsertText(u)
    <3>1. PointsOf(u, "text", up[u].texts) \subseteq Point
      BY <2>1, NewPoints DEF UpsertText, Begun, TypeOK, UploadState
    <3> QED
      BY <2>1, <3>1 DEF UpsertText, TypeOK
  <2> QED
    BY <2>1 DEF Upload, UploadStep, Put, Extract, Encode, UpsertImages, InsertRow,
                stores, TypeOK
<1>6. images' \subseteq Point
  <2>1. CASE UpsertImages(u)
    <3>1. PointsOf(u, "image", up[u].images) \subseteq Point
      BY <2>1, NewPoints DEF UpsertImages, Begun, TypeOK, UploadState
    <3> QED
      BY <2>1, <3>1 DEF UpsertImages, TypeOK
  <2> QED
    BY <2>1 DEF Upload, UploadStep, Put, Extract, Encode, UpsertText, InsertRow,
                stores, TypeOK
<1>7. rows' \subseteq [src : Uploads, texts : Nat, images : Nat]
  <2>1. CASE InsertRow(u)
    <3>1. Cardinality(up[u].texts) \in Nat /\ Cardinality(up[u].images) \in Nat
      BY DocumentsAssumption, FS_Subset, FS_CardinalityType DEF TypeOK, UploadState
    <3> QED
      BY <2>1, <3>1 DEF InsertRow, TypeOK
  <2> QED
    BY <2>1 DEF Upload, UploadStep, Put, Extract, Encode, UpsertText, UpsertImages,
                stores, TypeOK
<1> QED
  BY <1>1, <1>2, <1>3, <1>4, <1>5, <1>6, <1>7 DEF TypeOK

(* The next state of a search.                                             *)
LEMMA ListedPoints ==
    ASSUME NEW k \in Nat, NEW S \in SUBSET Point, NEW list \in Listed(k, S), IsFiniteSet(S)
    PROVE  list \in Seq(Point)
BY ListedFacts

(* A list of fused hits holds nothing that neither search has found.       *)
LEMMA FuseFacts ==
    ASSUME NEW text \in Seq(Point), NEW image \in Seq(Point), NEW all \in rrf_fuse(text, image)
    PROVE  LET shown == SubSeq(all, 1, IF MaxShown < Len(all) THEN MaxShown ELSE Len(all))
           IN  /\ shown \in Seq(Point)
               /\ ToSet(shown) \subseteq ToSet(text) \cup ToSet(image)
<1> DEFINE hits == ToSet(text) \cup ToSet(image)
           upTo == IF MaxShown < Len(all) THEN MaxShown ELSE Len(all)
<1>1. hits \subseteq Point /\ IsFiniteSet(hits)
  <2>1. ASSUME NEW list \in Seq(Point) PROVE ToSet(list) \subseteq Point /\ IsFiniteSet(ToSet(list))
    <3>1. ToSet(list) = {list[a] : a \in 1..Len(list)} /\ Len(list) \in Nat
      BY <2>1 DEF ToSet
    <3>2. ToSet(list) \subseteq Point
      BY <2>1, <3>1
    <3>3. list \in Surjection(1..Len(list), ToSet(list))
      BY <2>1, <3>1 DEF Surjection
    <3> QED
      BY <3>1, <3>2, <3>3, FS_Interval, FS_Surjection
  <2> QED
    BY <2>1, FS_Union
<1>2. Cardinality(hits) \in Nat
  BY <1>1, FS_CardinalityType
<1>3. all \in [1..Cardinality(hits) -> hits]
  BY DEF rrf_fuse
<1> HIDE DEF hits
<1>4. all \in Seq(hits) /\ Len(all) = Cardinality(hits) /\ Len(all) \in Nat
  BY <1>2, <1>3
<1>5. upTo \in 0..Len(all)
  BY <1>4, DocumentsAssumption
<1> HIDE DEF upTo
<1>6. SubSeq(all, 1, upTo) \in Seq(hits)
  BY <1>4, <1>5
<1>7. ToSet(SubSeq(all, 1, upTo)) \subseteq hits /\ SubSeq(all, 1, upTo) \in Seq(Point)
  BY <1>1, <1>6 DEF ToSet
<1> QED
  BY <1>7 DEF hits, upTo

-----------------------------------------------------------------------------
(* The stores.  A point is stored only after its file, and an upload's     *)
(* points are all there from the moment it goes on after their upsert.     *)

Texts(u) == {p \in texts : p.src = u}
Images(u) == {p \in images : p.src = u}

UploadOK(u) ==
    LET x == up[u] IN
    /\ x.pc \in {"extract", "encode", "text", "image", "row", "done"} => u \in objects
    /\ x.pc \in {"idle", "put", "extract", "encode", "text"} => Texts(u) = {}
    /\ x.pc \in {"idle", "put", "extract", "encode", "text", "image"} => Images(u) = {}
    /\ x.pc \in {"image", "row", "done"} => Texts(u) = PointsOf(u, "text", x.texts)
    /\ x.pc \in {"row", "done"} => Images(u) = PointsOf(u, "image", x.images)

StoresInv ==
    /\ \A u \in Uploads : UploadOK(u)
    /\ IsFiniteSet(texts) /\ IsFiniteSet(images)
    /\ \A p \in texts \cup images : p.src \in objects
    /\ \A r \in rows : /\ r.src \in Uploads /\ up[r.src].pc = "done"
                       /\ r.texts = Cardinality(up[r.src].texts)
                       /\ r.images = Cardinality(up[r.src].images)

(* One point for each page.                                                *)
LEMMA PointsOfPages ==
    ASSUME NEW u, NEW kind, NEW pages \in SUBSET Pages
    PROVE  /\ IsFiniteSet(PointsOf(u, kind, pages))
           /\ Cardinality(PointsOf(u, kind, pages)) = Cardinality(pages)
           /\ \A p \in PointsOf(u, kind, pages) : p.src = u
<1> DEFINE point(g) == [kind |-> kind, tenant |-> up[u].tenant, slug |-> up[u].slug, src |-> u,
                        page |-> g, score |-> Score[u, g]]
<1>1. PICK f : f = [g \in pages |-> point(g)]
  OBVIOUS
<1>2. PointsOf(u, kind, pages) = {point(g) : g \in pages}
  BY DEF PointsOf
<1>3. \A g, h \in pages : point(g) = point(h) => g = h
  OBVIOUS
<1>4. \A g \in pages : point(g).src = u
  OBVIOUS
<1> HIDE DEF point
<1>5. f \in Bijection(pages, PointsOf(u, kind, pages))
  BY <1>1, <1>2, <1>3 DEF Bijection, Injection, Surjection, IsInjective
<1>6. IsFiniteSet(pages)
  BY DocumentsAssumption, FS_Subset
<1> QED
  BY <1>2, <1>4, <1>5, <1>6, FS_Bijection DEF ExistsBijection

LEMMA InitStores == Init => StoresInv
BY FS_EmptySet DEF Init, StoresInv, UploadOK, Texts, Images

(* The steps of the other uploads.                                         *)
LEMMA OthersOK ==
    ASSUME NEW u \in Uploads, NEW v \in Uploads \ {u}, UploadOK(v), up'[v] = up[v],
           objects \subseteq objects', Texts(v)' = Texts(v), Images(v)' = Images(v)
    PROVE  UploadOK(v)'
BY DEF UploadOK, PointsOf

LEMMA UploadStores ==
    ASSUME TypeOK, Begun, StoresInv, NEW u \in Uploads, Upload(u) \/ UploadStep(u)
    PROVE  StoresInv' /\ objects \subseteq objects'
<1>1. PICK x \in UploadState :
          /\ up' = [up EXCEPT ![u] = x]
          /\ Upload(u) \/ (x.tenant = up[u].tenant /\ x.slug = up[u].slug)
          /\ Extract(u) \/ (x.texts = up[u].texts /\ x.images = up[u].images)
          /\ (Upload(u) => x.pc = "put") /\ (Extract(u) => x.pc = "encode")
  BY UploadMoves
<1>2. up'[u] = x /\ \A v \in Uploads \ {u} : up'[v] = up[v]
  BY <1>1 DEF TypeOK
<1>3. up[u] \in UploadState
  BY DEF TypeOK
<1> DEFINE newT == PointsOf(u, "text", up[u].texts)
           newI == PointsOf(u, "image", up[u].images)
<1>4. /\ IsFiniteSet(newT) /\ \A p \in newT : p.src = u
      /\ IsFiniteSet(newI) /\ \A p \in newI : p.src = u
  BY <1>3, PointsOfPages DEF UploadState
<1>5. objects \subseteq objects'
  BY DEF Upload, UploadStep, Put, Extract, Encode, UpsertText, UpsertImages, InsertRow, stores
<1> HIDE DEF newT, newI
<1>6. /\ texts' \in {texts, texts \cup newT}
      /\ texts' = texts \/ up[u].pc = "text"
      /\ images' \in {images, images \cup newI}
      /\ images' = images \/ up[u].pc = "image"
  BY DEF Upload, UploadStep, Put, Extract, Encode, UpsertText, UpsertImages, InsertRow, stores,
         newT, newI
<1>7. \A v \in Uploads \ {u} : UploadOK(v)'
  <2> SUFFICES ASSUME NEW v \in Uploads \ {u} PROVE UploadOK(v)'
    OBVIOUS
  <2>1. Texts(v)' = Texts(v) /\ Images(v)' = Images(v)
    BY <1>4, <1>6 DEF Texts, Images
  <2> QED
    BY <1>2, <1>5, <2>1, OthersOK DEF StoresInv
<1>8. IsFiniteSet(texts') /\ IsFiniteSet(images')
  <2>1. IsFiniteSet(texts \cup newT) /\ IsFiniteSet(images \cup newI)
    BY <1>4, FS_Union DEF StoresInv
  <2> QED
    BY <1>6, <2>1 DEF StoresInv
<1>9. \A p \in texts' \cup images' : p.src \in objects'
  <2>1. up[u].pc \in {"text", "image"} => u \in objects
    BY DEF StoresInv, UploadOK
  <2> QED
    BY <1>4, <1>5, <1>6, <2>1 DEF StoresInv
<1>10. UploadOK(u)'
  <2>1. CASE Upload(u)
    <3>0. up[u].pc = "idle" /\ UNCHANGED stores
      BY <2>1 DEF Upload
    <3>1. x.pc = "put"
      BY <1>1, <2>1
    <3> QED
      BY <1>2, <3>0, <3>1 DEF StoresInv, UploadOK, Texts, Images, stores
  <2>2. CASE Put(u)
    <3>1. /\ up[u].pc = "put" /\ UNCHANGED <<texts, images>>
          /\ x.pc = "failed" \/ (x.pc = "extract" /\ objects' = objects \cup {u})
      BY <1>2, <1>3, <2>2 DEF Put, Go, TypeOK, UploadState
    <3> QED
      BY <1>2, <3>1 DEF StoresInv, UploadOK, Texts, Images
  <2>3. CASE Extract(u)
    <3>0. up[u].pc = "extract" /\ UNCHANGED stores
      BY <2>3 DEF Extract
    <3>1. x.pc = "encode"
      BY <1>1, <2>3
    <3> QED
      BY <1>2, <3>0, <3>1 DEF StoresInv, UploadOK, Texts, Images, stores
  <2>4. CASE Encode(u)
    <3>0. UNCHANGED stores
      BY <2>4 DEF Encode
    <3>1. up[u].pc = "encode" /\ x.pc \in {"text", "failed"} /\ UNCHANGED stores
      BY <1>2, <1>3, <2>4 DEF Encode, Go, TypeOK, UploadState
    <3> QED
      BY <1>2, <3>0, <3>1 DEF StoresInv, UploadOK, Texts, Images, stores
  <2>5. CASE UpsertText(u)
    <3>1. /\ up[u].pc = "text" /\ UNCHANGED <<objects, images>>
          /\ x.pc = "failed" \/ (x.pc = "image" /\ texts' = texts \cup newT)
      BY <1>2, <1>3, <2>5 DEF UpsertText, Go, TypeOK, UploadState, newT
    <3>2. x.tenant = up[u].tenant /\ x.slug = up[u].slug /\ x.texts = up[u].texts
      BY <1>1, <3>1 DEF Upload, Extract
    <3>3. x.pc = "image" => Texts(u)' = newT
      BY <1>4, <3>1 DEF StoresInv, UploadOK, Texts
    <3>4. PointsOf(u, "text", x.texts)' = newT
      BY <1>2, <3>2 DEF PointsOf, newT
    <3> QED
      BY <1>2, <3>1, <3>3, <3>4 DEF StoresInv, UploadOK, Images
  <2>6. CASE UpsertImages(u)
    <3>1. /\ up[u].pc = "image" /\ UNCHANGED <<objects, texts>>
          /\ x.pc = "failed" \/ (x.pc = "row" /\ images' = images \cup newI)
      BY <1>2, <1>3, <2>6 DEF UpsertImages, Go, TypeOK, UploadState, newI
    <3>2. x.tenant = up[u].tenant /\ x.slug = up[u].slug /\ x.texts = up[u].texts
          /\ x.images = up[u].images
      BY <1>1, <3>1 DEF Upload, Extract
    <3>3. x.pc = "row" => Images(u)' = newI
      BY <1>4, <3>1 DEF StoresInv, UploadOK, Images
    <3>4. PointsOf(u, "image", x.images)' = newI
      BY <1>2, <3>2 DEF PointsOf, newI
    <3>5. PointsOf(u, "text", x.texts)' = PointsOf(u, "text", up[u].texts)
      BY <1>2, <3>2 DEF PointsOf
    <3> QED
      BY <1>2, <3>1, <3>3, <3>4, <3>5 DEF StoresInv, UploadOK, Texts
  <2>7. CASE InsertRow(u)
    <3>1. /\ up[u].pc = "row" /\ UNCHANGED <<objects, texts, images>>
          /\ x.pc \in {"done", "failed"}
      BY <1>2, <1>3, <2>7 DEF InsertRow, Go, TypeOK, UploadState
    <3>2. x.tenant = up[u].tenant /\ x.slug = up[u].slug /\ x.texts = up[u].texts
          /\ x.images = up[u].images
      BY <1>1, <3>1 DEF Upload, Extract
    <3>3. PointsOf(u, "image", x.images)' = PointsOf(u, "image", up[u].images)
      BY <1>2, <3>2 DEF PointsOf
    <3>4. PointsOf(u, "text", x.texts)' = PointsOf(u, "text", up[u].texts)
      BY <1>2, <3>2 DEF PointsOf
    <3> QED
      BY <1>2, <3>1, <3>3, <3>4 DEF StoresInv, UploadOK, Texts, Images
  <2> QED
    BY <2>1, <2>2, <2>3, <2>4, <2>5, <2>6, <2>7 DEF UploadStep
<1>11. \A r \in rows' : /\ r.src \in Uploads /\ up'[r.src].pc = "done"
                        /\ r.texts = Cardinality(up'[r.src].texts)
                        /\ r.images = Cardinality(up'[r.src].images)
  <2>1. up[u].pc # "done"
    BY DEF Upload, UploadStep, Put, Extract, Encode, UpsertText, UpsertImages, InsertRow
  <2>2. \A r \in rows : r.src # u
    BY <2>1 DEF StoresInv
  <2>3. \A r \in rows : up'[r.src] = up[r.src]
    BY <1>2, <2>2 DEF StoresInv
  <2>4. rows' = rows \/ /\ rows' = rows \cup {[src |-> u, texts |-> Cardinality(up[u].texts),
                                              images |-> Cardinality(up[u].images)]}
                        /\ InsertRow(u) /\ Go(u, "done")
    BY DEF Upload, UploadStep, Put, Extract, Encode, UpsertText, UpsertImages, InsertRow, stores
  <2>5. CASE rows' = rows
    BY <2>3, <2>5 DEF StoresInv
  <2>6. CASE InsertRow(u) /\ Go(u, "done")
    <3>1. x.pc = "done"
      BY <1>2, <1>3, <2>6 DEF Go, TypeOK, UploadState
    <3>2. x.texts = up[u].texts /\ x.images = up[u].images
      BY <1>1, <2>6 DEF InsertRow, Extract
    <3> QED
      BY <1>2, <2>3, <2>4, <3>1, <3>2 DEF StoresInv
  <2> QED
    BY <2>4, <2>5, <2>6
<1> QED
  BY <1>5, <1>7, <1>8, <1>9, <1>10, <1>11 DEF StoresInv

-----------------------------------------------------------------------------
(* The searches.                                                           *)

BestOf(x) == {p \in Articles : <<p.tenant, p.slug>> \in x.asked /\ p.score >= Threshold}

(* A point that is not among the hits has given way to top_k hits none of  *)
(* which is worse.                                                         *)
PassedOver(x, p) ==
    \E H \in SUBSET x.hits : Cardinality(H) = TopK /\ \A q \in H : q.score >= p.score
Gathered(x) == x.hits \subseteq BestOf(x) /\ \A p \in BestOf(x) \ x.hits : PassedOver(x, p)

MergedOK(x) ==
    LET r == x.result IN
    /\ ToSet(r) \subseteq BestOf(x)
    /\ Len(r) = (IF TopK < Cardinality(BestOf(x)) THEN TopK ELSE Cardinality(BestOf(x)))
    /\ \A p \in BestOf(x) \ ToSet(r) : \A n \in DOMAIN r : r[n].score >= p.score
    /\ \A m, n \in DOMAIN r : m < n => r[m].score >= r[n].score

Untouched(x) ==
    /\ x.todo = {} /\ x.asked = {} /\ x.hits = {}
    /\ x.text = <<>> /\ x.image = <<>> /\ x.result = <<>>

(* Only the tenant's own points, and only ones whose file is stored.       *)
OwnPoint(x, p) == p.tenant = x.tenant /\ (p.kind # "article" => p.src \in objects)
Own(x) ==
    /\ \A z \in x.todo \cup x.asked : z[1] = x.tenant
    /\ \A p \in ToSet(x.text) \cup ToSet(x.image) \cup ToSet(x.result) : OwnPoint(x, p)

SearchOK(x) ==
    /\ x.pc = "idle" => Untouched(x)
    /\ Own(x) /\ Gathered(x)
    /\ x.pc = "merged" => MergedOK(x)

SearchInv == \A s \in Searches : SearchOK(search[s])

LEMMA NoPoints == ToSet(<<>>) = {}
BY DEF ToSet

LEMMA UntouchedIsOwn ==
    ASSUME NEW x, Untouched(x)
    PROVE  Own(x) /\ Gathered(x)
BY NoPoints DEF Untouched, Own, Gathered, BestOf

LEMMA InitSearch == Init => SearchInv
<1> SUFFICES ASSUME Init, NEW s \in Searches PROVE SearchOK(search[s])
  BY DEF SearchInv
<1>1. search[s].pc = "idle" /\ Untouched(search[s])
  BY DEF Init, Untouched
<1> QED
  BY <1>1, UntouchedIsOwn DEF SearchOK

(* One more knowledge base has answered.                                   *)
LEMMA AskGathers ==
    ASSUME NEW x \in SearchState, Gathered(x), NEW z \in Kbs,
           NEW list \in Nearest(TopK, {p \in Articles : <<p.tenant, p.slug>> = z}),
           NEW y, y.asked = x.asked \cup {z},
           y.hits = x.hits \cup {p \in ToSet(list) : p.score >= Threshold}
    PROVE  Gathered(y) /\ y.hits \in SUBSET Articles
<1> DEFINE S == {p \in Articles : <<p.tenant, p.slug>> = z}
<1>0. /\ TopK \in Nat /\ Threshold \in Nat /\ IsFiniteSet(S)
      /\ \A p \in Articles : p.score \in Nat
  BY DocumentsAssumption, FS_Subset
<1>a. list \in Nearest(TopK, S)
  OBVIOUS
<1> HIDE DEF S
<1>1. /\ ToSet(list) \subseteq S
      /\ IsFiniteSet(ToSet(list)) /\ Cardinality(ToSet(list)) = Len(list)
      /\ Len(list) # TopK => ToSet(list) = S
      /\ \A p \in S \ ToSet(list) : \A n \in DOMAIN list : list[n].score >= p.score
  BY <1>0, <1>a, NearestFacts
<1>b. ToSet(list) = {list[n] : n \in DOMAIN list}
  BY DEF ToSet
<1> USE DEF S
<1>2. y.hits \subseteq BestOf(y) /\ y.hits \in SUBSET Articles
  BY <1>1 DEF Gathered, BestOf, SearchState
<1>3. ASSUME NEW p \in BestOf(y) \ y.hits PROVE PassedOver(y, p)
  <2>1. CASE p \in BestOf(x)
    <3>1. PICK H \in SUBSET x.hits : Cardinality(H) = TopK /\ \A q \in H : q.score >= p.score
      BY <1>3, <2>1 DEF Gathered, PassedOver
    <3> QED
      BY <3>1 DEF PassedOver
  <2>2. CASE p \notin BestOf(x)
    <3>1. p \in S /\ p \notin ToSet(list) /\ p.score \in Nat /\ p.score >= Threshold
      BY <1>0, <1>3, <2>2 DEF BestOf
    <3>2. Cardinality(ToSet(list)) = TopK
      BY <1>1, <3>1
    <3>3. \A q \in ToSet(list) : q.score >= p.score /\ q \in Articles
      BY <1>1, <1>b, <3>1
    <3>4. \A q \in ToSet(list) : q.score >= Threshold
      BY <1>0, <3>1, <3>3
    <3>5. ToSet(list) \in SUBSET y.hits
      BY <3>4
    <3> QED
      BY <3>2, <3>3, <3>5 DEF PassedOver
  <2> QED
    BY <2>1, <2>2
<1> QED
  BY <1>2, <1>3 DEF Gathered

(* The best top_k of the hits are the best top_k of everything that was    *)
(* asked, although each knowledge base returned top_k only.                *)
LEMMA MergeIsBest ==
    ASSUME NEW x \in SearchState, Gathered(x), NEW r \in Nearest(TopK, x.hits),
           NEW y, y.asked = x.asked, y.hits = x.hits, y.result = r
    PROVE  MergedOK(y) /\ Gathered(y) /\ r \in Seq(Point) /\ ToSet(r) \subseteq x.hits
<1>0. /\ TopK \in Nat /\ TopK > 0 /\ \A p \in Articles : p.score \in Nat
      /\ x.hits \subseteq Articles /\ IsFiniteSet(x.hits) /\ BestOf(y) = BestOf(x)
      /\ IsFiniteSet(BestOf(x)) /\ BestOf(x) \subseteq Articles
  BY DocumentsAssumption, FS_Subset DEF SearchState, BestOf
<1>a. ToSet(r) = {r[n] : n \in DOMAIN r}
  BY DEF ToSet
<1>1. /\ r \in Seq(x.hits) /\ ToSet(r) \subseteq x.hits
      /\ Len(r) = IF TopK < Cardinality(x.hits) THEN TopK ELSE Cardinality(x.hits)
      /\ IsFiniteSet(ToSet(r)) /\ Cardinality(ToSet(r)) = Len(r)
      /\ \A m, n \in DOMAIN r : m < n => r[m].score >= r[n].score
      /\ \A p \in x.hits \ ToSet(r) : \A n \in DOMAIN r : r[n].score >= p.score
  BY <1>0, NearestFacts
<1>2. Cardinality(x.hits) \in Nat /\ Cardinality(BestOf(x)) \in Nat
  BY <1>0, FS_CardinalityType
<1>3. Len(r) = IF TopK < Cardinality(BestOf(x)) THEN TopK ELSE Cardinality(BestOf(x))
  <2>1. CASE x.hits = BestOf(x)
    BY <1>1, <2>1
  <2>2. CASE x.hits # BestOf(x)
    <3>1. PICK p \in BestOf(x) \ x.hits : PassedOver(x, p)
      BY <2>2 DEF Gathered
    <3>2. PICK H \in SUBSET x.hits : Cardinality(H) = TopK
      BY <3>1 DEF PassedOver
    <3>3. TopK <= Cardinality(x.hits)
      BY <1>0, <3>2, FS_Subset
    <3>4. Cardinality(x.hits) <= Cardinality(BestOf(x))
      BY <1>0, FS_Subset DEF Gathered
    <3> QED
      BY <1>0, <1>1, <1>2, <3>3, <3>4
  <2> QED
    BY <2>1, <2>2
<1>4. ASSUME NEW p \in BestOf(x) \ ToSet(r), NEW n \in DOMAIN r PROVE r[n].score >= p.score
  <2>1. CASE p \in x.hits
    BY <1>1, <1>4, <2>1
  <2>2. CASE p \notin x.hits
    <3>1. PICK H \in SUBSET x.hits : Cardinality(H) = TopK /\ \A q \in H : q.score >= p.score
      BY <1>4, <2>2 DEF Gathered, PassedOver
    <3>2. r[n] \in ToSet(r) /\ r[n].score \in Nat /\ p.score \in Nat
      BY <1>0, <1>1, <1>a, <1>4
    <3> SUFFICES ASSUME ~(r[n].score >= p.score) PROVE FALSE
      OBVIOUS
    <3>3. \A q \in H : q.score > r[n].score /\ q.score \in Nat
      BY <1>0, <3>1, <3>2
    <3>4. H \subseteq ToSet(r) \ {r[n]}
      <4> SUFFICES ASSUME NEW q \in H PROVE q \in ToSet(r) /\ q # r[n]
        OBVIOUS
      <4>1. q \in x.hits /\ q.score \in Nat /\ ~(r[n].score >= q.score)
        BY <3>1, <3>2, <3>3
      <4>2. q \in ToSet(r)
        BY <1>1, <1>4, <4>1
      <4>3. r[n].score >= r[n].score
        BY <3>2
      <4> QED
        BY <4>1, <4>2, <4>3
    <3>5. IsFiniteSet(ToSet(r) \ {r[n]}) /\ Cardinality(ToSet(r) \ {r[n]}) = Len(r) - 1
      BY <1>1, <3>2, FS_RemoveElement
    <3>6. TopK <= Len(r) - 1
      BY <3>1, <3>4, <3>5, FS_Subset
    <3> QED
      BY <1>0, <1>1, <1>2, <3>6
  <2> QED
    BY <2>1, <2>2
<1>5. MergedOK(y)
  BY <1>0, <1>1, <1>3, <1>4 DEF MergedOK, Gathered
<1>6. Gathered(y)
  BY <1>0 DEF Gathered, PassedOver
<1>7. r \in Seq(Point)
  BY <1>0, <1>1, ArticlePoints
<1> QED
  BY <1>1, <1>5, <1>6, <1>7


(* A search begins, with knowledge bases to ask or without.                *)
LEMMA Begins ==
    ASSUME NEW o \in SearchState, Untouched(o), NEW pc \in {"ask", "text", "fused"},
           NEW t \in Tenants, NEW g \in Slugs \cup {NULL}, NEW kbs \in SUBSET Kbs,
           \A z \in kbs : z[1] = t
    PROVE  LET x == [o EXCEPT !.pc = pc, !.tenant = t, !.slug = g, !.todo = kbs]
           IN  x \in SearchState /\ SearchOK(x)
<1> DEFINE x == [o EXCEPT !.pc = pc, !.tenant = t, !.slug = g, !.todo = kbs]
<1>1. x \in SearchState
  BY DEF SearchState
<1>2. /\ x.pc = pc /\ x.tenant = t /\ x.todo = kbs /\ x.asked = {} /\ x.hits = {}
      /\ x.text = <<>> /\ x.image = <<>> /\ x.result = <<>>
  BY DEF SearchState, Untouched
<1> HIDE DEF x
<1>3. Own(x) /\ Gathered(x)
  BY <1>2, NoPoints DEF Own, Gathered, BestOf
<1>4. SearchOK(x)
  BY <1>2, <1>3 DEF SearchOK
<1> QED
  BY <1>1, <1>4 DEF x

LEMMA SearchBegins ==
    ASSUME TypeOK, SearchInv, NEW s \in Searches,
           SearchInternal(s) \/ BuildContext(s) \/ SearchMultimodal(s)
    PROVE  \E x \in SearchState : search' = [search EXCEPT ![s] = x] /\ SearchOK(x)
<1>0. search \in [Searches -> SearchState] /\ search[s] \in SearchState
  BY DEF TypeOK
<1>1. search[s].pc = "idle" /\ Untouched(search[s])
  BY DEF SearchInternal, BuildContext, SearchMultimodal, SearchInv, SearchOK
<1>2. ASSUME NEW t \in Tenants, NEW kbs \in SUBSET Kbs, \A z \in kbs : z[1] = t, Asks(s, t, kbs)
      PROVE  \E x \in SearchState : search' = [search EXCEPT ![s] = x] /\ SearchOK(x)
  <2>1. PICK x : x = [search[s] EXCEPT !.pc = "ask", !.tenant = t, !.slug = search[s].slug,
                                       !.todo = kbs]
    OBVIOUS
  <2>2. search' = [search EXCEPT ![s] = x]
    BY <1>0, <1>2, <2>1 DEF Asks, SearchState
  <2>3. search[s].slug \in Slugs \cup {NULL}
    BY <1>0 DEF SearchState
  <2>4. x \in SearchState /\ SearchOK(x)
    BY <1>0, <1>1, <1>2, <2>1, <2>3, Begins
  <2> QED
    BY <2>2, <2>4
<1>3. CASE SearchInternal(s)
  <2>1. PICK t \in Tenants, g \in Slugs \cup {NULL} :
            \/ Asks(s, t, IF <<t, g>> \in Kbs THEN {<<t, g>>} ELSE {x \in Kbs : x[1] = t})
            \/ Asks(s, t, {x \in Kbs : x[1] = t})
    BY <1>3 DEF SearchInternal
  <2>2. PICK kbs \in SUBSET Kbs : (\A z \in kbs : z[1] = t) /\ Asks(s, t, kbs)
    <3>1. CASE <<t, g>> \in Kbs /\ Asks(s, t, {<<t, g>>})
      <4>1. {<<t, g>>} \in SUBSET Kbs /\ \A z \in {<<t, g>>} : z[1] = t
        BY <3>1
      <4> QED
        BY <3>1, <4>1
    <3>2. CASE Asks(s, t, {x \in Kbs : x[1] = t})
      BY <3>2
    <3> QED
      BY <2>1, <3>1, <3>2
  <2> QED
    BY <1>2, <2>2
<1>4. CASE BuildContext(s)
  <2>1. PICK t \in Tenants, kbs \in {{}} \cup {{x} : x \in Kbs} :
            (\A x \in kbs : x[1] = t) /\ Asks(s, t, kbs)
    BY <1>4 DEF BuildContext
  <2>2. kbs \in SUBSET Kbs
    BY <2>1
  <2> QED
    BY <1>2, <2>1, <2>2
<1>5. CASE SearchMultimodal(s)
  <2>1. PICK t \in Tenants, g \in Slugs \cup {NULL}, pc \in {"text", "fused"} :
            search' = [search EXCEPT ![s].pc = pc, ![s].tenant = t, ![s].slug = g]
    BY <1>5 DEF SearchMultimodal
  <2>2. PICK x : x = [search[s] EXCEPT !.pc = pc, !.tenant = t, !.slug = g, !.todo = {}]
    OBVIOUS
  <2>3. search[s].todo = {}
    BY <1>1 DEF Untouched
  <2>4. search' = [search EXCEPT ![s] = x]
    BY <1>0, <2>1, <2>2, <2>3 DEF SearchState
  <2>5. x \in SearchState /\ SearchOK(x)
    BY <1>0, <1>1, <2>2, Begins
  <2> QED
    BY <2>4, <2>5
<1> QED
  BY <1>3, <1>4, <1>5


(* A search over several knowledge bases: what one of them answers, and    *)
(* the merge.                                                              *)
LEMMA Asked ==
    ASSUME TypeOK, SearchInv, NEW s \in Searches, AskKb(s)
    PROVE  \E x \in SearchState : search' = [search EXCEPT ![s] = x] /\ SearchOK(x)
<1> DEFINE o == search[s]
<1>0. /\ search \in [Searches -> SearchState] /\ o \in SearchState
      /\ o.pc = "ask" /\ SearchOK(o)
  BY DEF TypeOK, AskKb, SearchInv
<1>1. PICK z \in o.todo :
         \/ \E list \in Nearest(TopK, {p \in Articles : <<p.tenant, p.slug>> = z}) :
               search' = [search EXCEPT ![s].todo = @ \ {z}, ![s].asked = @ \cup {z},
                   ![s].hits = @ \cup {p \in ToSet(list) : p.score >= Threshold}]
         \/ search' = [search EXCEPT ![s].todo = @ \ {z}]
  BY DEF AskKb
<1>2. z \in Kbs /\ z[1] = o.tenant
  BY <1>0 DEF SearchState, SearchOK, Own
<1>3. CASE search' = [search EXCEPT ![s].todo = @ \ {z}]
  <2>1. PICK x : x = [o EXCEPT !.todo = @ \ {z}]
    OBVIOUS
  <2>2. search' = [search EXCEPT ![s] = x]
    BY <1>0, <1>3, <2>1
  <2>3. /\ x \in SearchState /\ x.pc = "ask" /\ x.todo = o.todo \ {z} /\ x.tenant = o.tenant
        /\ x.asked = o.asked /\ x.hits = o.hits
        /\ x.text = o.text /\ x.image = o.image /\ x.result = o.result
    BY <1>0, <2>1 DEF SearchState
  <2>4. SearchOK(x)
    BY <1>0, <2>3 DEF SearchOK, Own, OwnPoint, Gathered, PassedOver, BestOf
  <2> QED
    BY <2>2, <2>3, <2>4
<1>4. ASSUME NEW list \in Nearest(TopK, {p \in Articles : <<p.tenant, p.slug>> = z}),
             search' = [search EXCEPT ![s].todo = @ \ {z}, ![s].asked = @ \cup {z},
                   ![s].hits = @ \cup {p \in ToSet(list) : p.score >= Threshold}]
      PROVE  \E x \in SearchState : search' = [search EXCEPT ![s] = x] /\ SearchOK(x)
  <2>1. PICK more : more = {p \in ToSet(list) : p.score >= Threshold}
    OBVIOUS
  <2>2. PICK x : x = [o EXCEPT !.todo = @ \ {z}, !.asked = @ \cup {z}, !.hits = @ \cup more]
    OBVIOUS
  <2>3. search' = [search EXCEPT ![s] = x]
    BY <1>0, <1>4, <2>1, <2>2 DEF SearchState
  <2>4. /\ x.pc = "ask" /\ x.todo = o.todo \ {z} /\ x.tenant = o.tenant
        /\ x.asked = o.asked \cup {z} /\ x.hits = o.hits \cup more
        /\ x.text = o.text /\ x.image = o.image /\ x.result = o.result
    BY <1>0, <2>2 DEF SearchState
  <2>5. Gathered(x) /\ x.hits \in SUBSET Articles
    BY <1>0, <1>2, <2>1, <2>4, AskGathers DEF SearchOK
  <2>6. x \in SearchState
    BY <1>0, <1>2, <2>2, <2>4, <2>5 DEF SearchState
  <2>7. Own(x)
    BY <1>0, <1>2, <2>4 DEF SearchOK, Own, OwnPoint
  <2>8. SearchOK(x)
    BY <2>4, <2>5, <2>7 DEF SearchOK
  <2> QED
    BY <2>3, <2>6, <2>8
<1> QED
  BY <1>1, <1>3, <1>4

LEMMA Merged ==
    ASSUME TypeOK, SearchInv, NEW s \in Searches, Merge(s)
    PROVE  \E x \in SearchState : search' = [search EXCEPT ![s] = x] /\ SearchOK(x)
<1> DEFINE o == search[s]
<1>0. /\ search \in [Searches -> SearchState] /\ o \in SearchState
      /\ o.pc = "ask" /\ SearchOK(o)
  BY DEF TypeOK, Merge, SearchInv
<1>1. PICK r \in Nearest(TopK, o.hits) :
         search' = [search EXCEPT ![s].pc = "merged", ![s].result = r]
  BY DEF Merge
<1>2. PICK x : x = [o EXCEPT !.pc = "merged", !.result = r]
  OBVIOUS
<1>3. search' = [search EXCEPT ![s] = x]
  BY <1>0, <1>1, <1>2
<1>4. /\ x.pc = "merged" /\ x.todo = o.todo /\ x.tenant = o.tenant
      /\ x.asked = o.asked /\ x.hits = o.hits
      /\ x.text = o.text /\ x.image = o.image /\ x.result = r
  BY <1>0, <1>2 DEF SearchState
<1>5. MergedOK(x) /\ Gathered(x) /\ r \in Seq(Point) /\ ToSet(r) \subseteq o.hits
  BY <1>0, <1>1, <1>4, MergeIsBest DEF SearchOK
<1>6. x \in SearchState
  BY <1>0, <1>2, <1>5 DEF SearchState
<1>7. \A p \in ToSet(r) : OwnPoint(x, p)
  <2>1. \A p \in o.hits : <<p.tenant, p.slug>> \in o.asked /\ p \in Articles
    BY <1>0 DEF SearchOK, Gathered, BestOf
  <2>2. \A p \in Articles : p.kind = "article"
    BY DocumentsAssumption
  <2>3. ASSUME NEW p \in o.hits PROVE p.tenant = o.tenant
    <3>1. \A z \in o.asked : z[1] = o.tenant
      BY <1>0 DEF SearchOK, Own
    <3>2. <<p.tenant, p.slug>>[1] = o.tenant
      BY <2>1, <3>1
    <3> QED
      BY <3>2
  <2> QED
    BY <1>4, <1>5, <2>1, <2>2, <2>3 DEF OwnPoint
<1>8. Own(x)
  BY <1>0, <1>4, <1>7 DEF SearchOK, Own, OwnPoint
<1>9. SearchOK(x)
  BY <1>4, <1>5, <1>8 DEF SearchOK
<1> QED
  BY <1>3, <1>6, <1>9

(* A search over text and screenshots: a list has been found, or none, and *)
(* the lists are fused.                                                    *)
LEMMA ListFound ==
    ASSUME NEW o \in SearchState, SearchOK(o), NEW x \in SearchState, x.pc # "merged", x.pc # "idle",
           x.todo = o.todo, x.tenant = o.tenant, x.asked = o.asked, x.hits = o.hits,
           \A p \in ToSet(x.text) \cup ToSet(x.image) \cup ToSet(x.result) :
              OwnPoint(x, p) \/ p \in ToSet(o.text) \cup ToSet(o.image) \cup ToSet(o.result)
    PROVE  SearchOK(x)
<1>1. Own(x)
  BY DEF SearchOK, Own, OwnPoint
<1>2. Gathered(x)
  BY DEF SearchOK, Gathered, PassedOver, BestOf
<1> QED
  BY <1>1, <1>2 DEF SearchOK

LEMMA TextFound ==
    ASSUME TypeOK, StoresInv, SearchInv, NEW s \in Searches, SearchText(s)
    PROVE  \E x \in SearchState : search' = [search EXCEPT ![s] = x] /\ SearchOK(x)
<1> DEFINE o == search[s]
           S == TextCandidates(o.tenant, o.slug)
<1>0. /\ search \in [Searches -> SearchState] /\ o \in SearchState /\ SearchOK(o)
  BY DEF TypeOK, SearchInv
<1>1. S \in SUBSET Point /\ IsFiniteSet(S)
  <2>1. IsFiniteSet(Articles \cup texts) /\ Articles \cup texts \subseteq Point
    BY ArticlePoints, FS_Union DEF StoresInv, TypeOK
  <2> QED
    BY <2>1, FS_Subset DEF TextCandidates
<1>2. \A p \in S : p.tenant = o.tenant /\ (p.kind # "article" => p.src \in objects)
  BY DocumentsAssumption DEF TextCandidates, StoresInv
<1>3. PICK list : /\ search' = [search EXCEPT ![s].pc = "image", ![s].text = list]
                  /\ list \in Nearest(2 * TopK, S) \/ list = o.text
  <2>1. CASE search' = [search EXCEPT ![s].pc = "image"]
    BY <1>0, <2>1 DEF SearchState
  <2> QED
    BY <2>1 DEF SearchText
<1> HIDE DEF S
<1>4. list \in Seq(Point) /\ (list = o.text \/ ToSet(list) \subseteq S)
  <2>1. 2 * TopK \in Nat
    BY DocumentsAssumption
  <2>2. CASE list \in Nearest(2 * TopK, S)
    BY <1>1, <2>1, <2>2, NearestFacts, ListedPoints
  <2>3. CASE list = o.text
    BY <1>0, <2>3 DEF SearchState
  <2> QED
    BY <1>3, <2>2, <2>3
<1>5. PICK x : x = [o EXCEPT !.pc = "image", !.text = list]
  OBVIOUS
<1>6. search' = [search EXCEPT ![s] = x]
  BY <1>0, <1>3, <1>5
<1>7. /\ x \in SearchState /\ x.pc = "image" /\ x.todo = o.todo /\ x.tenant = o.tenant
      /\ x.asked = o.asked /\ x.hits = o.hits
      /\ x.text = list /\ x.image = o.image /\ x.result = o.result
  BY <1>0, <1>4, <1>5 DEF SearchState
<1>8. SearchOK(x)
  <2>1. \A p \in ToSet(list) : OwnPoint(x, p) \/ p \in ToSet(o.text)
    BY <1>2, <1>4, <1>7 DEF OwnPoint
  <2> QED
    BY <1>0, <1>7, <2>1, ListFound
<1> QED
  BY <1>6, <1>7, <1>8

LEMMA ImagesFound ==
    ASSUME TypeOK, StoresInv, SearchInv, NEW s \in Searches, SearchImages(s)
    PROVE  \E x \in SearchState : search' = [search EXCEPT ![s] = x] /\ SearchOK(x)
<1> DEFINE o == search[s]
           S == {p \in images : p.tenant = o.tenant /\ p.slug = o.slug}
<1>0. /\ search \in [Searches -> SearchState] /\ o \in SearchState /\ SearchOK(o)
  BY DEF TypeOK, SearchInv
<1>1. S \in SUBSET Point /\ IsFiniteSet(S)
  BY FS_Subset DEF StoresInv, TypeOK
<1>2. \A p \in S : p.tenant = o.tenant /\ p.src \in objects
  BY DEF StoresInv
<1>3. PICK list : /\ search' = [search EXCEPT ![s].pc = "fuse", ![s].image = list]
                  /\ list \in Listed(2 * TopK, S) \/ list = <<>>
  BY DEF SearchImages
<1> HIDE DEF S
<1>4. list \in Seq(Point) /\ ToSet(list) \subseteq S
  <2>1. 2 * TopK \in Nat
    BY DocumentsAssumption
  <2>2. CASE list \in Listed(2 * TopK, S)
    BY <1>1, <2>1, <2>2, ListedFacts, ListedPoints
  <2>3. CASE list = <<>>
    BY <2>3, NoPoints
  <2> QED
    BY <1>3, <2>2, <2>3
<1>5. PICK x : x = [o EXCEPT !.pc = "fuse", !.image = list]
  OBVIOUS
<1>6. search' = [search EXCEPT ![s] = x]
  BY <1>0, <1>3, <1>5
<1>7. /\ x \in SearchState /\ x.pc = "fuse" /\ x.todo = o.todo /\ x.tenant = o.tenant
      /\ x.asked = o.asked /\ x.hits = o.hits
      /\ x.text = o.text /\ x.image = list /\ x.result = o.result
  BY <1>0, <1>4, <1>5 DEF SearchState
<1>8. SearchOK(x)
  <2>1. \A p \in ToSet(list) : OwnPoint(x, p) \/ p \in ToSet(o.image)
    BY <1>2, <1>4, <1>7 DEF OwnPoint
  <2> QED
    BY <1>0, <1>7, <2>1, ListFound
<1> QED
  BY <1>6, <1>7, <1>8

LEMMA Fused ==
    ASSUME TypeOK, SearchInv, NEW s \in Searches, Fuse(s)
    PROVE  \E x \in SearchState : search' = [search EXCEPT ![s] = x] /\ SearchOK(x)
<1> DEFINE o == search[s]
<1>0. /\ search \in [Searches -> SearchState] /\ o \in SearchState /\ SearchOK(o)
      /\ o.text \in Seq(Point) /\ o.image \in Seq(Point)
  BY DEF TypeOK, SearchInv, SearchState
<1>1. PICK all \in rrf_fuse(o.text, o.image) :
         search' = [search EXCEPT ![s].pc = "fused", ![s].result =
                       SubSeq(all, 1, IF MaxShown < Len(all) THEN MaxShown ELSE Len(all))]
  BY DEF Fuse
<1>2. PICK shown : shown = SubSeq(all, 1, IF MaxShown < Len(all) THEN MaxShown ELSE Len(all))
  OBVIOUS
<1>3. shown \in Seq(Point) /\ ToSet(shown) \subseteq ToSet(o.text) \cup ToSet(o.image)
  BY <1>0, <1>2, FuseFacts
<1>5. PICK x : x = [o EXCEPT !.pc = "fused", !.result = shown]
  OBVIOUS
<1>6. search' = [search EXCEPT ![s] = x]
  BY <1>0, <1>1, <1>2, <1>5
<1>7. /\ x \in SearchState /\ x.pc = "fused" /\ x.todo = o.todo /\ x.tenant = o.tenant
      /\ x.asked = o.asked /\ x.hits = o.hits
      /\ x.text = o.text /\ x.image = o.image /\ x.result = shown
  BY <1>0, <1>3, <1>5 DEF SearchState
<1>8. SearchOK(x)
  BY <1>0, <1>3, <1>7, ListFound
<1> QED
  BY <1>6, <1>7, <1>8


-----------------------------------------------------------------------------
(* Together.                                                               *)

(* The uploads and the stores that wait while a search takes a step.       *)
LEMMA StoresWait ==
    ASSUME Begun, StoresInv, UNCHANGED <<stores, up>>
    PROVE  Begun' /\ StoresInv'
<1>1. UNCHANGED <<objects, texts, images, rows>> /\ up' = up
  BY DEF stores
<1>2. \A u \in Uploads : Texts(u)' = Texts(u) /\ Images(u)' = Images(u)
  BY <1>1 DEF Texts, Images
<1>3. \A u \in Uploads : UploadOK(u)'
  <2> SUFFICES ASSUME NEW u \in Uploads PROVE UploadOK(u)'
    OBVIOUS
  <2>1. /\ PointsOf(u, "text", up[u].texts)' = PointsOf(u, "text", up[u].texts)
        /\ PointsOf(u, "image", up[u].images)' = PointsOf(u, "image", up[u].images)
    BY <1>1 DEF PointsOf
  <2> QED
    BY <1>1, <1>2, <2>1 DEF StoresInv, UploadOK
<1> QED
  BY <1>1, <1>3 DEF Begun, StoresInv

LEMMA SearchMoves ==
    ASSUME TypeOK, Begun, StoresInv, SearchInv, NEW s \in Searches,
           \/ SearchInternal(s) \/ BuildContext(s) \/ SearchMultimodal(s) \/ SearchStep(s)
    PROVE  TypeOK' /\ Begun' /\ StoresInv' /\ SearchInv'
<1>1. UNCHANGED <<stores, up>>
  BY DEF SearchInternal, BuildContext, SearchMultimodal, SearchStep, AskKb, Merge, SearchText,
         SearchImages, Fuse
<1>2. faults' \in Nat
  <2>1. faults' = faults \/ Fault
    <3>1. SearchInternal(s) => faults' = faults \/ Fault
      BY DEF SearchInternal
    <3>2. BuildContext(s) => faults' = faults
      BY DEF BuildContext
    <3>3. SearchMultimodal(s) => faults' = faults \/ Fault
      BY DEF SearchMultimodal
    <3>4. SearchStep(s) => faults' = faults \/ Fault
      BY DEF SearchStep, AskKb, Merge, SearchText, SearchImages, Fuse
    <3> QED
      BY <3>1, <3>2, <3>3, <3>4
  <2> QED
    BY <2>1 DEF Fault, TypeOK
<1>3. PICK x \in SearchState : search' = [search EXCEPT ![s] = x] /\ SearchOK(x)
  BY SearchBegins, Asked, Merged, TextFound, ImagesFound, Fused DEF SearchStep
<1>4. /\ search' \in [Searches -> SearchState]
      /\ search'[s] = x /\ \A v \in Searches \ {s} : search'[v] = search[v]
  BY <1>3 DEF TypeOK
<1>5. TypeOK'
  BY <1>1, <1>2, <1>4 DEF TypeOK, stores
<1>6. Begun' /\ StoresInv'
  BY <1>1, StoresWait
<1>7. SearchInv'
  <2> SUFFICES ASSUME NEW v \in Searches PROVE SearchOK(search[v])'
    BY DEF SearchInv
  <2>1. SearchOK(search'[v])
    BY <1>3, <1>4 DEF SearchInv
  <2>2. objects' = objects
    BY <1>1 DEF stores
  <2> QED
    BY <2>1, <2>2 DEF SearchOK, Own, OwnPoint, Gathered, PassedOver, BestOf, MergedOK, Untouched
<1> QED
  BY <1>5, <1>6, <1>7

(* The searches that wait while an upload takes a step.                    *)
LEMMA SearchesWait ==
    ASSUME SearchInv, search' = search, objects \subseteq objects'
    PROVE  SearchInv'
<1> SUFFICES ASSUME NEW s \in Searches PROVE SearchOK(search[s])'
  BY DEF SearchInv
<1>1. SearchOK(search[s])
  BY DEF SearchInv
<1>2. Own(search[s])'
  BY <1>1 DEF SearchOK, Own, OwnPoint
<1> QED
  BY <1>1, <1>2 DEF SearchOK, Gathered, PassedOver, BestOf, MergedOK, Untouched

IInv == TypeOK /\ Begun /\ StoresInv /\ SearchInv

LEMMA Invariance == Spec => []IInv
<1>1. Init => IInv
  BY InitType, InitStores, InitSearch DEF Init, Begun, IInv
<1>2. IInv /\ [Next]_vars => IInv'
  <2> SUFFICES ASSUME IInv, [Next]_vars PROVE IInv'
    OBVIOUS
  <2> USE DEF IInv
  <2>1. ASSUME NEW u \in Uploads, Upload(u) \/ UploadStep(u) PROVE IInv'
    <3>1. search' = search
      BY <2>1 DEF Upload, UploadStep, Put, Extract, Encode, UpsertText, UpsertImages, InsertRow,
                  stores
    <3> QED
      BY <2>1, <3>1, UploadType, UploadStores, SearchesWait
  <2>2. ASSUME NEW s \in Searches,
               SearchInternal(s) \/ BuildContext(s) \/ SearchMultimodal(s) \/ SearchStep(s)
        PROVE  IInv'
    BY <2>2, SearchMoves
  <2>3. CASE UNCHANGED docVars
    <3>1. UNCHANGED <<stores, up, search, faults>> /\ objects' = objects
      BY <2>3 DEF docVars, stores
    <3>2. TypeOK'
      BY <3>1 DEF stores, TypeOK
    <3> QED
      BY <3>1, <3>2, StoresWait, SearchesWait
  <2> QED
    BY <2>1, <2>2, <2>3 DEF Next, DocNext, vars
<1> QED
  BY <1>1, <1>2, PTL DEF Spec

-----------------------------------------------------------------------------
(* How the lists of a search share what is shown.                          *)

Distinct(list) == \A m, n \in DOMAIN list : m # n => list[m] # list[n]

First(list, k) == {list[n] : n \in 1..k}

LEMMA Prefix ==
    ASSUME NEW list \in Seq(Point), Distinct(list), NEW k \in 0..Len(list)
    PROVE  /\ Len(SubSeq(list, 1, k)) = k
           /\ ToSet(SubSeq(list, 1, k)) = First(list, k)
           /\ IsFiniteSet(First(list, k)) /\ Cardinality(First(list, k)) = k
<1>1. Len(list) \in Nat /\ k \in Nat /\ DOMAIN list = 1..Len(list) /\ 1..k \subseteq 1..Len(list)
  OBVIOUS
<1>2. PICK l : l = SubSeq(list, 1, k)
  OBVIOUS
<1>3. l \in Seq(Point) /\ Len(l) = k /\ \A n \in 1..k : l[n] = list[n]
  BY <1>1, <1>2
<1>4. l \in [1..k -> Point] /\ \A a, b \in 1..k : a < b => l[a] # l[b]
  BY <1>1, <1>3 DEF Distinct
<1>5. IsFiniteSet(ToSet(l)) /\ Cardinality(ToSet(l)) = k
  BY <1>1, <1>4, InjectiveList
<1>6. ToSet(l) = First(list, k)
  BY <1>3 DEF ToSet, First
<1> QED
  BY <1>2, <1>3, <1>5, <1>6

(* What the model has read when it stops early.                            *)
LEMMA PrefixOfPrefix ==
    ASSUME NEW list \in Seq(Point), NEW k \in 0..Len(list), NEW n \in 0..k
    PROVE  SubSeq(SubSeq(list, 1, k), 1, n) = SubSeq(list, 1, n)
<1>1. Len(list) \in Nat /\ k \in Nat /\ n \in Nat /\ n <= k /\ k <= Len(list)
  OBVIOUS
<1>2. PICK l : l = SubSeq(list, 1, k)
  OBVIOUS
<1>3. l \in Seq(Point) /\ Len(l) = k /\ \A m \in 1..k : l[m] = list[m]
  BY <1>1, <1>2
<1>4. PICK a, b : a = SubSeq(l, 1, n) /\ b = SubSeq(list, 1, n)
  OBVIOUS
<1>5. ASSUME NEW c \in Seq(Point), n <= Len(c), NEW d, d = SubSeq(c, 1, n)
      PROVE  d \in [1..n -> Point] /\ \A m \in 1..n : d[m] = c[m]
  <2>1. d \in Seq(Point) /\ Len(d) = n /\ \A m \in 1..n : d[m] = c[m]
    BY <1>1, <1>5
  <2> QED
    BY <2>1
<1>6. /\ a \in [1..n -> Point] /\ \A m \in 1..n : a[m] = l[m]
      /\ b \in [1..n -> Point] /\ \A m \in 1..n : b[m] = list[m]
  <2>1. n <= Len(l) /\ n <= Len(list)
    BY <1>1, <1>3
  <2> QED
    BY <1>3, <1>4, <1>5, <2>1
<1>7. \A m \in 1..n : a[m] = b[m]
  BY <1>1, <1>3, <1>6
<1>8. a = b
  BY <1>6, <1>7
<1> QED
  BY <1>2, <1>4, <1>8

LEMMA AllOf ==
    ASSUME NEW list \in Seq(Point), Distinct(list)
    PROVE  /\ ToSet(list) = First(list, Len(list)) /\ DOMAIN list = 1..Len(list)
           /\ Len(list) \in Nat /\ ToSet(list) \subseteq Point
           /\ IsFiniteSet(ToSet(list)) /\ Cardinality(ToSet(list)) = Len(list)
<1>1. Len(list) \in Nat /\ DOMAIN list = 1..Len(list) /\ Len(list) \in 0..Len(list)
  OBVIOUS
<1>2. ToSet(list) = First(list, Len(list)) /\ ToSet(list) \subseteq Point
  BY <1>1 DEF ToSet, First
<1>3. IsFiniteSet(ToSet(list)) /\ Cardinality(ToSet(list)) = Len(list)
  BY <1>1, <1>2, Prefix
<1> QED
  BY <1>1, <1>2, <1>3

(* At least n of a list are shown, or all there are.                       *)
Shares(list, shown, n) ==
    Cardinality(ToSet(shown) \cap ToSet(list)) >= IF Len(list) < n THEN Len(list) ELSE n

(* Of a list A that is fused with a list B, and of whose hits none is      *)
(* behind the hits of B of a rank above its own (by more than d), the      *)
(* first q are shown, or as many others of it.                             *)
LEMMA Share ==
    ASSUME NEW A \in Seq(Point), NEW B \in Seq(Point), Distinct(A), Distinct(B),
           ToSet(A) \cap ToSet(B) = {},
           NEW all \in Seq(Point), Distinct(all), ToSet(all) = ToSet(A) \cup ToSet(B),
           NEW d \in {0, 1}, NEW q \in Nat, NEW M \in Nat, 2 * q + d <= M + 1,
           \A m, n \in DOMAIN all, a \in DOMAIN A, b \in DOMAIN B :
               m < n /\ all[m] = B[b] /\ all[n] = A[a] => b < a + d,
           NEW shown, shown = SubSeq(all, 1, IF M < Len(all) THEN M ELSE Len(all))
    PROVE  Shares(A, shown, q)
<1> DEFINE K == IF M < Len(all) THEN M ELSE Len(all)
           c == IF Len(A) < q THEN Len(A) ELSE q
           Shown == ToSet(shown) \cap ToSet(A)
<1>1. /\ ToSet(A) = First(A, Len(A)) /\ DOMAIN A = 1..Len(A) /\ Len(A) \in Nat
      /\ ToSet(B) = First(B, Len(B)) /\ DOMAIN B = 1..Len(B) /\ Len(B) \in Nat
      /\ ToSet(all) = First(all, Len(all)) /\ DOMAIN all = 1..Len(all)
      /\ Len(all) \in Nat
  BY AllOf
<1>0. Len(A) \in Nat /\ Len(B) \in Nat /\ Len(all) \in Nat
  BY <1>1
<1>2. K \in 0..Len(all) /\ c \in 0..Len(A) /\ c <= q
  BY <1>0
<1>a. shown = SubSeq(all, 1, K)
  OBVIOUS
<1> HIDE DEF K, c
<1>3. /\ ToSet(shown) = First(all, K)
      /\ IsFiniteSet(ToSet(shown)) /\ Cardinality(ToSet(shown)) = K
  BY <1>2, <1>a, Prefix
<1>4. IsFiniteSet(Shown) /\ Cardinality(Shown) \in Nat
  BY <1>3, FS_Subset, FS_CardinalityType
<1>5. ASSUME \A a \in 1..c : A[a] \in ToSet(shown)
      PROVE  Cardinality(Shown) >= c
  <2>1. First(A, c) \subseteq Shown
    BY <1>1, <1>2, <1>5 DEF First
  <2>2. Cardinality(First(A, c)) = c
    BY <1>2, Prefix
  <2>3. c <= Cardinality(Shown)
    BY <1>4, <2>1, <2>2, FS_Subset
  <2> HIDE DEF Shown
  <2> QED
    BY <1>0, <1>2, <1>4, <2>3
<1>6. ASSUME NEW a \in 1..c, A[a] \notin ToSet(shown)
      PROVE  Cardinality(Shown) >= c
  <2>1. PICK n \in 1..Len(all) : all[n] = A[a]
    <3>1. A[a] \in First(all, Len(all))
      <4>1. a \in 1..Len(A)
        BY <1>1, <1>2
      <4>2. A[a] \in First(A, Len(A))
        BY <4>1 DEF First
      <4> QED
        BY <1>1, <4>2
    <3> QED
      BY <3>1 DEF First
  <2>2. n > K
    <3>1. A[a] \notin First(all, K)
      BY <1>3, <1>6
    <3>2. n \notin 1..K
      BY <2>1, <3>1 DEF First
    <3> QED
      BY <1>1, <1>2, <3>2
  <2>3. K = M
    BY <1>0, <2>1, <2>2 DEF K
  <2> DEFINE e == IF Len(B) < a + d - 1 THEN Len(B) ELSE a + d - 1
  <2>4. e \in 0..Len(B) /\ e <= q + d - 1
    BY <1>0, <1>2
  <2>5. IsFiniteSet(First(B, e)) /\ Cardinality(First(B, e)) = e
    BY <2>4, Prefix
  <2>6. ToSet(shown) \subseteq Shown \cup First(B, e)
    <3> HIDE DEF e
    <3> SUFFICES ASSUME NEW p \in ToSet(shown), p \notin ToSet(A)
                 PROVE  p \in First(B, e)
      OBVIOUS
    <3>0. PICK m \in 1..K : p = all[m]
      BY <1>3 DEF First
    <3>1. m \in 1..Len(all) /\ m < n
      BY <1>1, <1>2, <2>1, <2>2
    <3>2. all[m] \in First(B, Len(B))
      BY <1>1, <3>0, <3>1 DEF First
    <3>3. PICK b \in 1..Len(B) : all[m] = B[b]
      BY <3>2 DEF First
    <3>4. a \in 1..Len(A)
      BY <1>1, <1>2
    <3>5. b < a + d
      BY <1>1, <2>1, <3>1, <3>3, <3>4
    <3>6. b \in 1..e
      BY <1>0, <3>3, <3>4, <3>5 DEF e
    <3> QED
      BY <3>0, <3>3, <3>6 DEF First
  <2> HIDE DEF e
  <2>7. K <= Cardinality(Shown) + e
    <3> DEFINE F == First(B, e)
    <3>1. /\ IsFiniteSet(Shown \cup F)
          /\ Cardinality(Shown \cup F) = Cardinality(Shown) + Cardinality(F)
                                         - Cardinality(Shown \cap F)
      <4> HIDE DEF Shown
      <4> QED
        BY <1>4, <2>5, FS_Union
    <3>2. Cardinality(Shown \cap F) \in Nat
      BY <1>4, FS_Intersection, FS_CardinalityType
    <3>3. K <= Cardinality(Shown \cup F)
      BY <1>3, <2>6, <3>1, FS_Subset
    <3> HIDE DEF Shown, F
    <3>4. Cardinality(F) = e /\ e \in Nat /\ K \in Nat
      BY <1>0, <1>2, <2>4, <2>5 DEF F
    <3> QED
      BY <1>4, <3>1, <3>2, <3>3, <3>4
  <2> HIDE DEF Shown
  <2> QED
    BY <1>0, <1>2, <1>4, <2>3, <2>4, <2>7
<1> QED
  BY <1>5, <1>6 DEF c, Shares


(* What a list adds to the weight of a hit.                                *)
LEMMA RrfIs ==
    ASSUME NEW list \in Seq(Point), Distinct(list), NEW p
    PROVE  /\ p \notin ToSet(list) => Rrf(p, list) = <<0, 1>>
           /\ \A n \in DOMAIN list : list[n] = p => Rrf(p, list) = <<1, RRF_K + n>>
<1>1. DOMAIN list = 1..Len(list)
  OBVIOUS
<1>2. ASSUME p \notin ToSet(list) PROVE Rrf(p, list) = <<0, 1>>
  BY <1>1, <1>2 DEF Rrf, Contains, ToSet
<1>3. ASSUME NEW n \in DOMAIN list, list[n] = p PROVE Rrf(p, list) = <<1, RRF_K + n>>
  <2>1. Contains(list, p)
    BY <1>1, <1>3 DEF Contains
  <2>2. (CHOOSE r \in DOMAIN list : list[r] = p) = n
    BY <1>3 DEF Distinct
  <2> QED
    BY <2>1, <2>2 DEF Rrf
<1> QED
  BY <1>2, <1>3

(* A hit of one list only weighs what its rank there adds.                 *)
LEMMA WeightIs ==
    ASSUME NEW text \in Seq(Point), NEW image \in Seq(Point), Distinct(text), Distinct(image),
           ToSet(text) \cap ToSet(image) = {}
    PROVE  /\ \A n \in DOMAIN text :
                 Plus(Rrf(text[n], text), Rrf(text[n], image)) = <<1, RRF_K + n>>
           /\ \A n \in DOMAIN image :
                 Plus(Rrf(image[n], text), Rrf(image[n], image)) = <<1, RRF_K + n>>
<1>1. RRF_K \in Nat
  BY DocumentsAssumption
<1>2. ASSUME NEW n \in DOMAIN text
      PROVE  Plus(Rrf(text[n], text), Rrf(text[n], image)) = <<1, RRF_K + n>>
  <2>1. n \in Nat
    OBVIOUS
  <2>2. Rrf(text[n], text) = <<1, RRF_K + n>>
    BY RrfIs
  <2>3. text[n] \notin ToSet(image)
    BY DEF ToSet
  <2>4. Rrf(text[n], image) = <<0, 1>>
    BY <2>3, RrfIs
  <2> QED
    BY <1>1, <2>1, <2>2, <2>4 DEF Plus
<1>3. ASSUME NEW n \in DOMAIN image
      PROVE  Plus(Rrf(image[n], text), Rrf(image[n], image)) = <<1, RRF_K + n>>
  <2>1. n \in Nat
    OBVIOUS
  <2>2. Rrf(image[n], image) = <<1, RRF_K + n>>
    BY RrfIs
  <2>3. image[n] \notin ToSet(text)
    BY DEF ToSet
  <2>4. Rrf(image[n], text) = <<0, 1>>
    BY <2>3, RrfIs
  <2> QED
    BY <1>1, <2>1, <2>2, <2>4 DEF Plus
<1> QED
  BY <1>2, <1>3

(* The order in which the hits were entered: the text's first.             *)
Entered(p, text, image) == CHOOSE r \in DOMAIN (text \o image) : (text \o image)[r] = p

LEMMA EnteredIs ==
    ASSUME NEW text \in Seq(Point), NEW image \in Seq(Point), Distinct(text), Distinct(image),
           ToSet(text) \cap ToSet(image) = {}
    PROVE  /\ \A n \in DOMAIN text : Entered(text[n], text, image) = n
           /\ \A n \in DOMAIN image : Entered(image[n], text, image) = Len(text) + n
<1>1. PICK l : l = text \o image
  OBVIOUS
<1>2. /\ DOMAIN text = 1..Len(text) /\ DOMAIN image = 1..Len(image)
      /\ Len(text) \in Nat /\ Len(image) \in Nat
  OBVIOUS
<1>3. /\ DOMAIN l = 1..(Len(text) + Len(image))
      /\ \A n \in 1..Len(text) : l[n] = text[n]
      /\ \A n \in 1..Len(image) : l[Len(text) + n] = image[n]
  BY <1>1, <1>2
<1>4. \A r \in DOMAIN l : r \in 1..Len(text) \/ \E n \in 1..Len(image) : r = Len(text) + n
  <2> SUFFICES ASSUME NEW r \in DOMAIN l, r \notin 1..Len(text)
               PROVE  \E n \in 1..Len(image) : r = Len(text) + n
    OBVIOUS
  <2>1. r - Len(text) \in 1..Len(image) /\ r = Len(text) + (r - Len(text))
    BY <1>2, <1>3
  <2> QED
    BY <2>1
<1>5. \A m \in 1..Len(text), n \in 1..Len(image) : text[m] # image[n]
  BY <1>2 DEF ToSet
<1>6. ASSUME NEW r \in DOMAIN l, NEW q \in DOMAIN l, l[r] = l[q]
      PROVE  r = q
  <2>1. CASE r \in 1..Len(text) /\ q \in 1..Len(text)
    BY <1>2, <1>3, <1>6, <2>1 DEF Distinct
  <2>2. CASE r \in 1..Len(text) /\ q \notin 1..Len(text)
    BY <1>3, <1>4, <1>5, <1>6, <2>2
  <2>3. CASE r \notin 1..Len(text) /\ q \in 1..Len(text)
    BY <1>3, <1>4, <1>5, <1>6, <2>3
  <2>4. CASE r \notin 1..Len(text) /\ q \notin 1..Len(text)
    <3>1. PICK m \in 1..Len(image) : r = Len(text) + m
      BY <1>4, <2>4
    <3>2. PICK n \in 1..Len(image) : q = Len(text) + n
      BY <1>4, <2>4
    <3>3. image[m] = image[n]
      BY <1>3, <1>6, <3>1, <3>2
    <3> QED
      BY <1>2, <3>1, <3>2, <3>3 DEF Distinct
  <2> QED
    BY <2>1, <2>2, <2>3, <2>4
<1>7. \A r \in DOMAIN l : Entered(l[r], text, image) = r
  BY <1>1, <1>6 DEF Entered
<1>8. ASSUME NEW n \in DOMAIN text PROVE Entered(text[n], text, image) = n
  <2>1. n \in DOMAIN l /\ l[n] = text[n]
    BY <1>2, <1>3
  <2> QED
    BY <1>7, <2>1
<1>9. ASSUME NEW n \in DOMAIN image PROVE Entered(image[n], text, image) = Len(text) + n
  <2>1. Len(text) + n \in DOMAIN l /\ l[Len(text) + n] = image[n]
    BY <1>2, <1>3
  <2> QED
    BY <1>7, <2>1
<1> QED
  BY <1>8, <1>9

(* _rrf_fuse: every hit once, and one list's hits give way only to hits of *)
(* the other list of no greater rank; at the same rank the text's is ahead. *)
LEMMA FuseOrder ==
    ASSUME NEW text \in Seq(Point), NEW image \in Seq(Point), Distinct(text), Distinct(image),
           ToSet(text) \cap ToSet(image) = {}, NEW all \in rrf_fuse(text, image)
    PROVE  /\ all \in Seq(Point) /\ Distinct(all)
           /\ ToSet(all) = ToSet(text) \cup ToSet(image) /\ Len(all) = Len(text) + Len(image)
           /\ \A m, n \in DOMAIN all, a \in DOMAIN text, b \in DOMAIN image :
                 /\ m < n /\ all[m] = image[b] /\ all[n] = text[a] => b < a
                 /\ m < n /\ all[m] = text[a] /\ all[n] = image[b] => a < b + 1
<1> DEFINE hits == ToSet(text) \cup ToSet(image)
           W(p) == Plus(Rrf(p, text), Rrf(p, image))
           E(p) == Entered(p, text, image)
<1>1. /\ all \in [1..Cardinality(hits) -> hits]
      /\ \A m, n \in DOMAIN all : m < n =>
            \/ Exceeds(W(all[m]), W(all[n]))
            \/ ~Exceeds(W(all[n]), W(all[m])) /\ E(all[m]) < E(all[n])
  BY DEF rrf_fuse, Entered
<1>2. /\ \A n \in DOMAIN text : W(text[n]) = <<1, RRF_K + n>> /\ E(text[n]) = n
      /\ \A n \in DOMAIN image : W(image[n]) = <<1, RRF_K + n>> /\ E(image[n]) = Len(text) + n
  BY WeightIs, EnteredIs
<1> HIDE DEF W, E
<1>3. /\ RRF_K \in Nat /\ Len(text) \in Nat /\ Len(image) \in Nat
      /\ DOMAIN text = 1..Len(text) /\ DOMAIN image = 1..Len(image)
  BY DocumentsAssumption
<1>4. /\ ToSet(text) \subseteq Point /\ ToSet(image) \subseteq Point
      /\ IsFiniteSet(ToSet(text)) /\ Cardinality(ToSet(text)) = Len(text)
      /\ IsFiniteSet(ToSet(image)) /\ Cardinality(ToSet(image)) = Len(image)
  BY AllOf
<1>5. IsFiniteSet(hits) /\ Cardinality(hits) = Len(text) + Len(image)
  <2>1. /\ IsFiniteSet(hits)
        /\ Cardinality(hits) = Len(text) + Len(image) - Cardinality({})
    BY <1>4, FS_Union
  <2> QED
    BY <1>3, <2>1, FS_EmptySet
<1>6. ASSUME NEW a, NEW b, Exceeds(<<1, a>>, <<1, b>>), a \in Nat, b \in Nat
      PROVE  a < b
  BY <1>6 DEF Exceeds
<1>7. ASSUME NEW a, NEW b, ~Exceeds(<<1, a>>, <<1, b>>), a \in Nat, b \in Nat
      PROVE  b <= a
  BY <1>7 DEF Exceeds
<1>8. ASSUME NEW p \in hits
      PROVE  ~Exceeds(W(p), W(p)) /\ ~(E(p) < E(p))
  <2>1. PICK n \in Nat : W(p) = <<1, RRF_K + n>> /\ E(p) \in Nat
    <3>1. CASE p \in ToSet(text)
      <4>1. PICK n \in DOMAIN text : p = text[n]
        BY <3>1 DEF ToSet
      <4>2. n \in Nat
        BY <1>3
      <4> QED
        BY <1>2, <4>1, <4>2
    <3>2. CASE p \in ToSet(image)
      <4>1. PICK n \in DOMAIN image : p = image[n]
        BY <3>2 DEF ToSet
      <4>2. n \in Nat /\ Len(text) + n \in Nat
        BY <1>3
      <4> QED
        BY <1>2, <4>1, <4>2
    <3> QED
      BY <3>1, <3>2
  <2>2. RRF_K + n \in Nat
    BY <1>3
  <2>3. ~Exceeds(W(p), W(p))
    BY <2>1, <2>2, <1>6
  <2> QED
    BY <2>1, <2>3
<1>9. \A m, n \in 1..Cardinality(hits) : m < n => all[m] # all[n]
  BY <1>1, <1>8
<1>10. /\ all \in Seq(hits) /\ Len(all) = Cardinality(hits) /\ DOMAIN all = 1..Cardinality(hits)
       /\ ToSet(all) \subseteq hits
       /\ IsFiniteSet(ToSet(all)) /\ Cardinality(ToSet(all)) = Cardinality(hits)
  <2>1. Cardinality(hits) \in Nat
    BY <1>3, <1>5
  <2> HIDE DEF hits
  <2> QED
    BY <1>1, <1>9, <2>1, InjectiveList
<1>11. ToSet(all) = hits
  BY <1>5, <1>10, FS_Subset
<1>12. Distinct(all) /\ all \in Seq(Point) /\ Len(all) = Len(text) + Len(image)
  <2>1. Distinct(all)
    <3> SUFFICES ASSUME NEW m \in DOMAIN all, NEW n \in DOMAIN all, m # n
                 PROVE  all[m] # all[n]
      BY DEF Distinct
    <3>1. m \in Int /\ n \in Int /\ (m < n \/ n < m)
      BY <1>3, <1>5, <1>10
    <3> QED
      BY <1>9, <1>10, <3>1
  <2>2. hits \subseteq Point
    BY <1>4
  <2> HIDE DEF hits
  <2> QED
    BY <1>5, <1>10, <2>1, <2>2
<1>13. ASSUME NEW m \in DOMAIN all, NEW n \in DOMAIN all, m < n,
              NEW a \in DOMAIN text, NEW b \in DOMAIN image
       PROVE  /\ all[m] = image[b] /\ all[n] = text[a] => b < a
              /\ all[m] = text[a] /\ all[n] = image[b] => a < b + 1
  <2>1. /\ a \in Nat /\ b \in Nat /\ a <= Len(text) /\ b >= 1
        /\ RRF_K + a \in Nat /\ RRF_K + b \in Nat
    BY <1>3
  <2>2. /\ W(text[a]) = <<1, RRF_K + a>> /\ E(text[a]) = a
        /\ W(image[b]) = <<1, RRF_K + b>> /\ E(image[b]) = Len(text) + b
    BY <1>2
  <2>3. \/ Exceeds(W(all[m]), W(all[n]))
        \/ ~Exceeds(W(all[n]), W(all[m])) /\ E(all[m]) < E(all[n])
    BY <1>1, <1>13
  <2>4. ASSUME all[m] = image[b], all[n] = text[a] PROVE b < a
    <3>1. ~(E(all[m]) < E(all[n]))
      BY <1>3, <2>1, <2>2, <2>4
    <3>2. Exceeds(<<1, RRF_K + b>>, <<1, RRF_K + a>>)
      BY <2>2, <2>3, <2>4, <3>1
    <3>3. RRF_K + b < RRF_K + a
      BY <1>6, <2>1, <3>2
    <3> QED
      BY <1>3, <2>1, <3>3
  <2>5. ASSUME all[m] = text[a], all[n] = image[b] PROVE a < b + 1
    <3>1. \/ Exceeds(<<1, RRF_K + a>>, <<1, RRF_K + b>>)
          \/ ~Exceeds(<<1, RRF_K + b>>, <<1, RRF_K + a>>)
      BY <2>2, <2>3, <2>5
    <3>2. RRF_K + a <= RRF_K + b
      BY <1>6, <1>7, <2>1, <3>1
    <3> QED
      BY <1>3, <2>1, <3>2
  <2> QED
    BY <2>4, <2>5
<1> QED
  BY <1>11, <1>12, <1>13


(* What a search shows of the two lists.                                   *)
FairOK(text, image, shown) ==
    /\ \A n \in 1..Len(shown) : /\ Shares(text, SubSeq(shown, 1, n), (n + 1) \div 2)
                               /\ Shares(image, SubSeq(shown, 1, n), n \div 2)
    /\ Len(shown) = (IF MaxShown < Len(text) + Len(image)
                     THEN MaxShown ELSE Len(text) + Len(image))

Apart(text, image) ==
    /\ Distinct(text) /\ Distinct(image)
    /\ \A p \in ToSet(text) : p.kind # "image"
    /\ \A p \in ToSet(image) : p.kind = "image"

FairInv ==
    /\ \A p \in texts : p.kind = "text"
    /\ \A p \in images : p.kind = "image"
    /\ \A s \in Searches :
          LET x == search[s] IN
          Apart(x.text, x.image) /\ (x.pc = "fused" => FairOK(x.text, x.image, x.result))

LEMMA FuseIsFair ==
    ASSUME NEW text \in Seq(Point), NEW image \in Seq(Point), Apart(text, image),
           NEW all \in rrf_fuse(text, image),
           NEW shown, shown = SubSeq(all, 1, IF MaxShown < Len(all) THEN MaxShown ELSE Len(all))
    PROVE  FairOK(text, image, shown)
<1>1. ToSet(text) \cap ToSet(image) = {}
  BY DEF Apart
<1>2. /\ all \in Seq(Point) /\ Distinct(all)
      /\ ToSet(all) = ToSet(text) \cup ToSet(image) /\ Len(all) = Len(text) + Len(image)
      /\ \A m, n \in DOMAIN all, a \in DOMAIN text, b \in DOMAIN image :
            /\ m < n /\ all[m] = image[b] /\ all[n] = text[a] => b < a
            /\ m < n /\ all[m] = text[a] /\ all[n] = image[b] => a < b + 1
  BY <1>1, FuseOrder DEF Apart
<1>3. MaxShown \in Nat /\ Distinct(text) /\ Distinct(image)
  BY DocumentsAssumption DEF Apart
<1> DEFINE Ahead(A, B, d) ==
        \A m, n \in DOMAIN all, a \in DOMAIN A, b \in DOMAIN B :
            m < n /\ all[m] = B[b] /\ all[n] = A[a] => b < a + d
<1>a. Ahead(text, image, 0) /\ Ahead(image, text, 1)
  <2> SUFFICES ASSUME NEW a \in DOMAIN text PROVE a + 0 = a
    BY <1>2
  <2> QED
    OBVIOUS
<1>b. /\ Len(all) \in Nat /\ Len(shown) \in 0..Len(all)
      /\ Len(shown) = IF MaxShown < Len(all) THEN MaxShown ELSE Len(all)
      /\ shown = SubSeq(all, 1, Len(shown))
  <2>1. Len(all) \in Nat
    BY <1>2
  <2>2. (IF MaxShown < Len(all) THEN MaxShown ELSE Len(all)) \in 0..Len(all)
    BY <1>3, <2>1
  <2> QED
    BY <1>2, <2>1, <2>2, Prefix
<1>4. ASSUME NEW n \in 1..Len(shown)
      PROVE  /\ n \in Nat
             /\ SubSeq(shown, 1, n) = SubSeq(all, 1, IF n < Len(all) THEN n ELSE Len(all))
  <2>1. PICK k : k = Len(shown)
    OBVIOUS
  <2>2. k \in 0..Len(all) /\ shown = SubSeq(all, 1, k) /\ n \in 1..k /\ Len(all) \in Nat
    BY <1>b, <2>1
  <2> HIDE <1>b, <2>1
  <2>3. n \in Nat /\ n \in 0..k /\ (IF n < Len(all) THEN n ELSE Len(all)) = n
    BY <2>2
  <2>4. SubSeq(SubSeq(all, 1, k), 1, n) = SubSeq(all, 1, n)
    BY <1>2, <2>2, <2>3, PrefixOfPrefix
  <2> QED
    BY <2>2, <2>3, <2>4
<1>5. ASSUME NEW A \in Seq(Point), NEW B \in Seq(Point), Distinct(A), Distinct(B),
             ToSet(A) \cap ToSet(B) = {}, ToSet(all) = ToSet(A) \cup ToSet(B),
             NEW d \in {0, 1}, NEW q \in Nat, NEW n \in 1..Len(shown),
             2 * q + d <= n + 1, Ahead(A, B, d)
      PROVE  Shares(A, SubSeq(shown, 1, n), q)
  <2>1. all \in Seq(Point) /\ Distinct(all)
    BY <1>2
  <2>2. PICK part : part = SubSeq(shown, 1, n)
    OBVIOUS
  <2>3. n \in Nat /\ part = SubSeq(all, 1, IF n < Len(all) THEN n ELSE Len(all))
    BY <1>4, <2>2
  <2>4. Shares(A, part, q)
    BY <1>5, <2>1, <2>3, Share
  <2> QED
    BY <2>2, <2>4
<1> HIDE DEF Ahead
<1>6. ASSUME NEW n \in 1..Len(shown)
      PROVE  /\ Shares(text, SubSeq(shown, 1, n), (n + 1) \div 2)
             /\ Shares(image, SubSeq(shown, 1, n), n \div 2)
  <2>1. PICK half, rest : half = (n + 1) \div 2 /\ rest = n \div 2
    OBVIOUS
  <2>2. half \in Nat /\ rest \in Nat /\ 2 * half + 0 <= n + 1 /\ 2 * rest + 1 <= n + 1
    BY <1>4, <2>1
  <2>3. Shares(text, SubSeq(shown, 1, n), half)
    BY <1>1, <1>2, <1>3, <1>5, <1>a, <2>2
  <2>4. ToSet(image) \cap ToSet(text) = {} /\ ToSet(all) = ToSet(image) \cup ToSet(text)
    BY <1>1, <1>2
  <2>5. Shares(image, SubSeq(shown, 1, n), rest)
    BY <1>3, <1>5, <1>a, <2>2, <2>4
  <2> QED
    BY <2>1, <2>3, <2>5
<1> QED
  BY <1>2, <1>6, <1>b DEF FairOK

(* What Qdrant returns holds no point twice.                               *)
LEMMA ListedDistinct ==
    ASSUME NEW k \in Nat, NEW S, IsFiniteSet(S), NEW list \in Listed(k, S)
    PROVE  Distinct(list) /\ ToSet(list) \subseteq S
<1> DEFINE count == IF k < Cardinality(S) THEN k ELSE Cardinality(S)
<1>1. count \in Nat
  BY FS_CardinalityType
<1>2. list \in [1..count -> S] /\ \A m, n \in 1..count : m < n => list[m] # list[n]
  BY DEF Listed
<1> HIDE DEF count
<1>3. ASSUME NEW m \in DOMAIN list, NEW n \in DOMAIN list, m # n
      PROVE  list[m] # list[n]
  <2>1. m \in 1..count /\ n \in 1..count /\ (m < n \/ n < m)
    BY <1>1, <1>2, <1>3
  <2> QED
    BY <1>2, <2>1
<1> QED
  BY <1>2, <1>3 DEF Distinct, ToSet

LEMMA OneSearchIsFair ==
    ASSUME FairInv, UNCHANGED <<texts, images>>, NEW s \in Searches,
           \A v \in Searches \ {s} : search'[v] = search[v],
           Apart(search'[s].text, search'[s].image),
           search'[s].pc = "fused" =>
               FairOK(search'[s].text, search'[s].image, search'[s].result)
    PROVE  FairInv'
<1> SUFFICES ASSUME NEW v \in Searches
             PROVE  LET x == search'[v] IN
                    /\ Apart(x.text, x.image)
                    /\ x.pc = "fused" => FairOK(x.text, x.image, x.result)
  BY DEF FairInv, Apart, Distinct, FairOK, Shares
<1>1. CASE v = s
  BY <1>1
<1>2. CASE v # s
  BY <1>2 DEF FairInv
<1> QED
  BY <1>1, <1>2

LEMMA NothingIsFair == FairOK(<<>>, <<>>, <<>>)
<1>1. Len(<<>>) = 0 /\ 1..Len(<<>>) = {} /\ MaxShown \in Nat
  BY DocumentsAssumption
<1>2. Len(<<>>) = IF MaxShown < Len(<<>>) + Len(<<>>) THEN MaxShown ELSE Len(<<>>) + Len(<<>>)
  BY <1>1
<1> QED
  BY <1>1, <1>2 DEF FairOK

LEMMA SearchIsFair ==
    ASSUME IInv, FairInv, NEW s \in Searches,
           SearchInternal(s) \/ BuildContext(s) \/ SearchMultimodal(s) \/ SearchStep(s)
    PROVE  FairInv'
<1> DEFINE o == search[s]
           x == search'[s]
<1>1. search \in [Searches -> SearchState] /\ o \in SearchState
  BY DEF IInv, TypeOK
<1>2. Apart(o.text, o.image)
  BY DEF FairInv
<1>3. UNCHANGED <<texts, images>>
  BY DEF SearchInternal, BuildContext, SearchMultimodal, SearchStep, AskKb, Merge, SearchText,
         SearchImages, Fuse, stores
<1>4. \A v \in Searches \ {s} : search'[v] = search[v]
  BY <1>1 DEF SearchInternal, BuildContext, Asks, SearchMultimodal, SearchStep, AskKb, Merge,
              SearchText, SearchImages, Fuse
<1>5. CASE SearchInternal(s) \/ BuildContext(s) \/ AskKb(s) \/ Merge(s)
  <2>1. x.text = o.text /\ x.image = o.image /\ x.pc # "fused"
    <3>1. ASSUME NEW t, NEW kbs, Asks(s, t, kbs)
          PROVE  x.text = o.text /\ x.image = o.image /\ x.pc # "fused"
      BY <1>1, <3>1 DEF Asks, SearchState
    <3>2. CASE SearchInternal(s)
      BY <3>1, <3>2 DEF SearchInternal
    <3>3. CASE BuildContext(s)
      BY <3>1, <3>3 DEF BuildContext
    <3>4. CASE AskKb(s)
      <4>1. o.pc = "ask"
        BY <3>4 DEF AskKb
      <4>2. PICK z :
               \/ \E list :
                     search' = [search EXCEPT ![s].todo = @ \ {z}, ![s].asked = @ \cup {z},
                         ![s].hits = @ \cup {p \in ToSet(list) : p.score >= Threshold}]
               \/ search' = [search EXCEPT ![s].todo = @ \ {z}]
        BY <3>4 DEF AskKb
      <4>3. CASE search' = [search EXCEPT ![s].todo = @ \ {z}]
        BY <1>1, <4>1, <4>3 DEF SearchState
      <4>4. ASSUME NEW more,
                   search' = [search EXCEPT ![s].todo = @ \ {z}, ![s].asked = @ \cup {z},
                                            ![s].hits = @ \cup more]
            PROVE  x.text = o.text /\ x.image = o.image /\ x.pc = "ask"
        BY <1>1, <4>1, <4>4 DEF SearchState
      <4> QED
        BY <4>2, <4>3, <4>4
    <3>5. CASE Merge(s)
      <4>1. PICK list : search' = [search EXCEPT ![s].pc = "merged", ![s].result = list]
        BY <3>5 DEF Merge
      <4> QED
        BY <1>1, <4>1 DEF SearchState
    <3> QED
      BY <1>5, <3>2, <3>3, <3>4, <3>5
  <2> QED
    BY <1>2, <1>3, <1>4, <2>1, OneSearchIsFair
<1>6. CASE SearchMultimodal(s)
  <2>1. o.pc = "idle" /\ Untouched(o)
    BY <1>6 DEF SearchMultimodal, IInv, SearchInv, SearchOK
  <2>2. x.text = <<>> /\ x.image = <<>> /\ x.result = <<>>
    <3>1. PICK pc, t, g :
             search' = [search EXCEPT ![s].pc = pc, ![s].tenant = t, ![s].slug = g]
      BY <1>6 DEF SearchMultimodal
    <3>2. x.text = o.text /\ x.image = o.image /\ x.result = o.result
      BY <1>1, <3>1 DEF SearchState
    <3> QED
      BY <2>1, <3>2 DEF Untouched
  <2>3. Apart(x.text, x.image)
    BY <1>2, <2>1, <2>2 DEF Untouched
  <2> QED
    BY <1>3, <1>4, <2>2, <2>3, NothingIsFair, OneSearchIsFair
<1>7. CASE SearchText(s)
  <2>1. x.image = o.image /\ x.pc = "image"
    BY <1>1, <1>7 DEF SearchText, SearchState
  <2>2. Distinct(x.text) /\ \A p \in ToSet(x.text) : p.kind # "image"
    <3>1. CASE x.text = o.text
      BY <1>2, <3>1 DEF Apart
    <3>2. ASSUME x.text \in Nearest(2 * TopK, TextCandidates(o.tenant, o.slug))
          PROVE  Distinct(x.text) /\ \A p \in ToSet(x.text) : p.kind # "image"
      <4>1. IsFiniteSet(Articles \cup texts)
        BY ArticlePoints, FS_Union DEF IInv, StoresInv
      <4>2. /\ IsFiniteSet(TextCandidates(o.tenant, o.slug)) /\ 2 * TopK \in Nat
            /\ \A p \in TextCandidates(o.tenant, o.slug) : p.kind # "image"
        BY <4>1, FS_Subset, DocumentsAssumption DEF TextCandidates, FairInv
      <4> QED
        BY <3>2, <4>2, NearestFacts, ListedDistinct
    <3> QED
      BY <1>1, <1>7, <3>1, <3>2 DEF SearchText, SearchState
  <2>3. Apart(x.text, x.image)
    BY <1>2, <2>1, <2>2 DEF Apart
  <2> QED
    BY <1>3, <1>4, <2>1, <2>3, OneSearchIsFair
<1>8. CASE SearchImages(s)
  <2> DEFINE S == {p \in images : p.tenant = o.tenant /\ p.slug = o.slug}
  <2>1. x.text = o.text /\ x.pc = "fuse"
    <3>1. PICK list : search' = [search EXCEPT ![s].pc = "fuse", ![s].image = list]
      BY <1>8 DEF SearchImages
    <3> QED
      BY <1>1, <3>1 DEF SearchState
  <2>2. Distinct(x.image) /\ \A p \in ToSet(x.image) : p.kind = "image"
    <3>1. CASE x.image = <<>>
      BY <3>1, NoPoints DEF Distinct
    <3>2. ASSUME x.image \in Listed(2 * TopK, S)
          PROVE  Distinct(x.image) /\ \A p \in ToSet(x.image) : p.kind = "image"
      <4>1. IsFiniteSet(S) /\ 2 * TopK \in Nat /\ \A p \in S : p.kind = "image"
        BY FS_Subset, DocumentsAssumption DEF IInv, StoresInv, FairInv
      <4> HIDE DEF S
      <4> QED
        BY <3>2, <4>1, ListedDistinct
    <3> QED
      BY <1>1, <1>8, <3>1, <3>2 DEF SearchImages, SearchState
  <2>3. Apart(x.text, x.image)
    BY <1>2, <2>1, <2>2 DEF Apart
  <2> QED
    BY <1>3, <1>4, <2>1, <2>3, OneSearchIsFair
<1>9. CASE Fuse(s)
  <2>1. PICK all \in rrf_fuse(o.text, o.image) :
           search' = [search EXCEPT ![s].pc = "fused", ![s].result =
                         SubSeq(all, 1, IF MaxShown < Len(all) THEN MaxShown ELSE Len(all))]
    BY <1>9 DEF Fuse
  <2>2. /\ x.text = o.text /\ x.image = o.image
        /\ x.result = SubSeq(all, 1, IF MaxShown < Len(all) THEN MaxShown ELSE Len(all))
    BY <1>1, <2>1 DEF SearchState
  <2>3. o.text \in Seq(Point) /\ o.image \in Seq(Point)
    BY <1>1 DEF SearchState
  <2>4. FairOK(o.text, o.image, x.result)
    BY <1>2, <2>2, <2>3, FuseIsFair
  <2> QED
    BY <1>2, <1>3, <1>4, <2>2, <2>4, OneSearchIsFair
<1> QED
  BY <1>5, <1>6, <1>7, <1>8, <1>9 DEF SearchStep

LEMMA SearchesStayFair ==
    ASSUME FairInv, search' = search,
           \A p \in texts' : p.kind = "text", \A p \in images' : p.kind = "image"
    PROVE  FairInv'
<1> SUFFICES ASSUME NEW s \in Searches
             PROVE  LET x == search'[s] IN
                    /\ Apart(x.text, x.image)
                    /\ x.pc = "fused" => FairOK(x.text, x.image, x.result)
  BY DEF FairInv, Apart, Distinct, FairOK, Shares
<1> QED
  BY DEF FairInv

LEMMA UploadIsFair ==
    ASSUME IInv, FairInv, NEW u \in Uploads, Upload(u) \/ UploadStep(u)
    PROVE  FairInv'
<1>1. search' = search
  BY DEF Upload, UploadStep, Put, Extract, Encode, UpsertText, UpsertImages, InsertRow, stores
<1>2. /\ texts' \in {texts, texts \cup PointsOf(u, "text", up[u].texts)}
      /\ images' \in {images, images \cup PointsOf(u, "image", up[u].images)}
  BY DEF Upload, UploadStep, Put, Extract, Encode, UpsertText, UpsertImages, InsertRow, stores
<1>3. (\A p \in texts' : p.kind = "text") /\ (\A p \in images' : p.kind = "image")
  <2>1. /\ \A p \in PointsOf(u, "text", up[u].texts) : p.kind = "text"
        /\ \A p \in PointsOf(u, "image", up[u].images) : p.kind = "image"
    <3>1. ASSUME NEW kind, NEW pages, NEW p \in PointsOf(u, kind, pages)
          PROVE  p.kind = kind
      <4>1. PICK g : p = [kind |-> kind, tenant |-> up[u].tenant, slug |-> up[u].slug,
                          src |-> u, page |-> g, score |-> Score[u, g]]
        BY DEF PointsOf
      <4> QED
        BY <4>1
    <3> QED
      BY <3>1
  <2> QED
    BY <1>2, <2>1 DEF FairInv
<1> QED
  BY <1>1, <1>3, SearchesStayFair

LEMMA FairInvariance == Spec => []FairInv
<1>1. Init => FairInv
  <2> SUFFICES ASSUME Init, NEW s \in Searches
               PROVE  LET x == search[s] IN
                      /\ Apart(x.text, x.image)
                      /\ x.pc = "fused" => FairOK(x.text, x.image, x.result)
    BY DEF Init, FairInv
  <2>1. search[s].pc = "idle" /\ search[s].text = <<>> /\ search[s].image = <<>>
    BY DEF Init
  <2> QED
    BY <2>1, NoPoints DEF Apart, Distinct
<1>2. IInv /\ FairInv /\ [Next]_vars => FairInv'
  <2> SUFFICES ASSUME IInv, FairInv, [Next]_vars PROVE FairInv'
    OBVIOUS
  <2>1. CASE UNCHANGED docVars
    <3>1. UNCHANGED <<texts, images, search>>
      BY <2>1 DEF docVars, stores
    <3> QED
      BY <3>1, SearchesStayFair DEF FairInv
  <2> QED
    BY <2>1, UploadIsFair, SearchIsFair DEF Next, DocNext, vars
<1> QED
  BY <1>1, <1>2, Invariance, PTL DEF Spec

-----------------------------------------------------------------------------
(* The theorems.                                                           *)

(* Every variable keeps its type: among them, the lists of a search stay   *)
(* lists of points.                                                        *)
THEOREM DocumentsTypeCorrect == Spec => []TypeOK
<1>1. IInv => TypeOK
  BY DEF IInv
<1> QED
  BY <1>1, Invariance, PTL

(* An article that upload_multimodal lists has all its points stored.      *)
THEOREM ListedIsStored == Spec => []ListedMeansFound
<1>1. IInv => ListedMeansFound
  <2> SUFFICES ASSUME IInv, NEW r \in rows
               PROVE  /\ Cardinality({p \in texts : p.src = r.src}) = r.texts
                      /\ Cardinality({p \in images : p.src = r.src}) = r.images
    BY DEF ListedMeansFound
  <2>1. /\ r.src \in Uploads /\ up[r.src].pc = "done"
        /\ r.texts = Cardinality(up[r.src].texts) /\ r.images = Cardinality(up[r.src].images)
    BY DEF IInv, StoresInv
  <2>2. up[r.src].texts \in SUBSET Pages /\ up[r.src].images \in SUBSET Pages
    BY <2>1 DEF IInv, TypeOK, UploadState
  <2>3. /\ Texts(r.src) = PointsOf(r.src, "text", up[r.src].texts)
        /\ Images(r.src) = PointsOf(r.src, "image", up[r.src].images)
    BY <2>1 DEF IInv, StoresInv, UploadOK
  <2>4. /\ Cardinality(Texts(r.src)) = Cardinality(up[r.src].texts)
        /\ Cardinality(Images(r.src)) = Cardinality(up[r.src].images)
    BY <2>2, <2>3, PointsOfPages
  <2> QED
    BY <2>1, <2>4 DEF Texts, Images
<1> QED
  BY <1>1, Invariance, PTL

(* Whatever is listed or shown has its file in the object store, and a     *)
(* search shows its own tenant's points only.                              *)
THEOREM EverythingOpens == Spec => []CanBeOpened
<1>1. IInv => CanBeOpened
  <2>1. ASSUME IInv, NEW r \in rows PROVE r.src \in objects
    BY <2>1 DEF IInv, StoresInv, UploadOK
  <2>2. ASSUME IInv, NEW s \in Searches, NEW p \in ToSet(search[s].result)
        PROVE  p.tenant = search[s].tenant /\ (p.kind # "article" => p.src \in objects)
    BY <2>2 DEF IInv, SearchInv, SearchOK, Own, OwnPoint
  <2> QED
    BY <2>1, <2>2 DEF CanBeOpened
<1> QED
  BY <1>1, Invariance, PTL

(* RAGService.retrieve: the top_k hits of the merged answer are the best   *)
(* of all knowledge bases that answered, although each gave top_k only.    *)
THEOREM BestHits == Spec => []BestOfAll
<1>1. IInv => BestOfAll
  <2> SUFFICES ASSUME IInv, NEW s \in Searches, search[s].pc = "merged"
               PROVE  MergedOK(search[s])
    BY DEF BestOfAll, MergedOK, Best, BestOf
  <2> QED
    BY DEF IInv, SearchInv, SearchOK
<1> QED
  BY <1>1, Invariance, PTL

(* _rrf_fuse: neither the text nor the screenshots crowd the other out of  *)
(* what the model reads, however far it reads and whatever the two lists   *)
(* hold, and nothing is left empty while a hit is left over.               *)
THEOREM BothAreShown == Spec => []FairShares
<1>1. FairInv => FairShares
  BY DEF FairInv, FairShares, FairOK, Shares
<1> QED
  BY <1>1, FairInvariance, PTL
=============================================================================
