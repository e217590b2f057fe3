----------------------------- MODULE Documents ------------------------------
(***************************************************************************)
(* Documents on their way into the vector collections and the searches     *)
(* that read them: a chunking job (module Chunking), uploads of images and *)
(* PDF files (upload_multimodal), and the three searches of the agent:     *)
(* search_internal_kb, search_multimodal_kb and the context of a turn.     *)
(*                                                                         *)
(* A point is a record that stands for its vector and payload; its score   *)
(* stands for its similarity to the question.  How the points of an        *)
(* article come and go is module Knowledge; here they are given.           *)
(***************************************************************************)
EXTENDS Chunking, FiniteSets, SequencesExt

CONSTANTS
    Uploads, Searches, Tenants, Slugs,
    Kbs,         \* the knowledge bases: pairs of a tenant and a slug
    Articles,    \* the points of indexed articles
    Pages,       \* the pages of a PDF file
    Score,       \* the score of an upload's page, as a function
    TopK,        \* top_k
    Threshold,   \* score_threshold
    MaxShown,    \* the hits search_multimodal_kb formats
    RRF_K,
    MaxFaults,   \* calls of a store or an embedder that fail (a bound)
    NULL

ASSUME DocumentsAssumption ==
    /\ {TopK, Threshold, MaxShown, RRF_K, MaxFaults} \subseteq Nat /\ TopK > 0
    /\ Kbs \subseteq Tenants \X Slugs /\ NULL \notin Tenants \cup Slugs
    /\ Articles \subseteq [kind : {"article"}, tenant : Tenants, slug : Slugs,
                          src : {NULL}, page : Nat, score : Nat]
    /\ IsFiniteSet(Articles) /\ IsFiniteSet(Pages)
    /\ Score \in [Uploads \X Pages -> Nat]

VARIABLES
    objects,  \* uploads whose file is in the object store
    texts,    \* the uploads' points in the collection of article chunks
    images,   \* the points in the image collection
    rows,     \* kb_multimodal_articles
    up,       \* the local state of each upload
    search,   \* the local state of each search
    faults

stores == <<objects, texts, images, rows>>
docVars == <<stores, up, search, faults>>
vars == <<chunkVars, docVars>>

Init ==
    /\ ChunkInit
    /\ objects = {} /\ texts = {} /\ images = {} /\ rows = {} /\ faults = 0
    /\ up = [u \in Uploads |-> [pc |-> "idle", tenant |-> NULL, slug |-> NULL,
                                texts |-> {}, images |-> {}]]
    /\ search = [s \in Searches |->
           [pc |-> "idle", tenant |-> NULL, slug |-> NULL, todo |-> {},
            asked |-> {}, hits |-> {}, text |-> <<>>, image |-> <<>>, result |-> <<>>]]

Fault == faults < MaxFaults /\ faults' = faults + 1

-----------------------------------------------------------------------------
(* upload_multimodal.  Whatever a failed step has left behind stays.       *)

Go(u, pc) == up' = [up EXCEPT ![u].pc = pc]

(* A file of an accepted type that is not too large.  The slug is not      *)
(* looked up.                                                              *)
Upload(u) ==
    /\ up[u].pc = "idle"
    /\ \E t \in Tenants, g \in Slugs :
           up' = [up EXCEPT ![u].pc = "put", ![u].tenant = t, ![u].slug = g]
    /\ UNCHANGED <<stores, search, faults>>

(* Mutant: a failing object store is only logged.                          *)
Put_GoesOn(u) ==
    /\ up[u].pc = "put"
    /\ \/ objects' = objects \cup {u} /\ UNCHANGED faults
       \/ Fault /\ UNCHANGED objects
    /\ Go(u, "extract")
    /\ UNCHANGED <<texts, images, rows, search>>

(* S3ObjectStore.put; one that failed may have stored the file.            *)
Put(u) ==
    /\ up[u].pc = "put"
    /\ \/ objects' = objects \cup {u} /\ Go(u, "extract") /\ UNCHANGED faults
       \/ objects' \in {objects, objects \cup {u}} /\ Go(u, "failed") /\ Fault
    /\ UNCHANGED <<texts, images, rows, search>>

(* PdfProcessor.extract: a page that cannot be read has no text, one that  *)
(* cannot be rendered no screenshot.  An image is its own screenshot.      *)
Extract(u) ==
    /\ up[u].pc = "extract"
    /\ \E ts, is \in SUBSET Pages :
           up' = [up EXCEPT ![u].pc = "encode", ![u].texts = ts, ![u].images = is]
    /\ UNCHANGED <<stores, search, faults>>

(* The embeddings of the screenshots; the exception of one leaves the      *)
(* handler.                                                                *)
Encode(u) ==
    /\ up[u].pc = "encode"
    /\ \/ Go(u, "text") /\ UNCHANGED faults
       \/ up[u].images # {} /\ Go(u, "failed") /\ Fault
    /\ UNCHANGED <<stores, search>>

PointsOf(u, kind, pages) ==
    {[kind |-> kind, tenant |-> up[u].tenant, slug |-> up[u].slug, src |-> u,
      page |-> p, score |-> Score[u, p]] : p \in pages}

(* The text chunks are embedded and upserted in one call, which may fail   *)
(* after Qdrant has stored them.                                           *)
UpsertText(u) ==
    LET new == PointsOf(u, "text", up[u].texts) IN
    /\ up[u].pc = "text"
    /\ \/ texts' = texts \cup new /\ Go(u, "image") /\ UNCHANGED faults
       \/ new # {} /\ texts' \in {texts, texts \cup new} /\ Go(u, "failed") /\ Fault
    /\ UNCHANGED <<objects, images, rows, search>>

(* ensure_image_collection, also without a screenshot, and the upsert.     *)
UpsertImages(u) ==
    LET new == PointsOf(u, "image", up[u].images) IN
    /\ up[u].pc = "image"
    /\ \/ images' = images \cup new /\ Go(u, "row") /\ UNCHANGED faults
       \/ images' \in {images, images \cup new} /\ Go(u, "failed") /\ Fault
    /\ UNCHANGED <<objects, texts, rows, search>>

(* The row is the last thing that is written.                              *)
InsertRow(u) ==
    /\ up[u].pc = "row"
    /\ \/ /\ rows' = rows \cup {[src |-> u, texts |-> Cardinality(up[u].texts),
                                 images |-> Cardinality(up[u].images)]}
          /\ Go(u, "done") /\ UNCHANGED faults
       \/ Go(u, "failed") /\ Fault /\ UNCHANGED rows
    /\ UNCHANGED <<objects, texts, images, search>>

-----------------------------------------------------------------------------
(* Searches over article chunks: RAGService.                               *)

(* k points of a collection, or all it has, in any order.                  *)
Listed(k, points) ==
    LET count == IF k < Cardinality(points) THEN k ELSE Cardinality(points) IN
    {list \in [1..count -> points] : \A m, n \in 1..count : m < n => list[m] # list[n]}

(* The k points that are nearest to the question, the best first; points   *)
(* of one score come in any order.                                         *)
Nearest(k, points) ==
    {list \in Listed(k, points) :
        /\ \A m, n \in DOMAIN list : m < n => list[m].score >= list[n].score
        /\ \A p \in points \ ToSet(list) : \A n \in DOMAIN list : list[n].score >= p.score}

Asks(s, t, kbs) ==
    search' = [search EXCEPT ![s].pc = "ask", ![s].tenant = t, ![s].todo = kbs]

(* search_internal_kb: a slug that is unknown, or whose lookup fails, is   *)
(* dropped, and retrieve asks all knowledge bases of the tenant.           *)
SearchInternal(s) ==
    /\ search[s].pc = "idle"
    /\ \E t \in Tenants, g \in Slugs \cup {NULL} :
           LET all == {x \in Kbs : x[1] = t} IN
           \/ Asks(s, t, IF <<t, g>> \in Kbs THEN {<<t, g>>} ELSE all) /\ UNCHANGED faults
           \/ g # NULL /\ Asks(s, t, all) /\ Fault
    /\ UNCHANGED <<stores, up>>

(* build_context_for_query: the tenant's default knowledge base, or none.  *)
BuildContext(s) ==
    /\ search[s].pc = "idle"
    /\ \E t \in Tenants, kbs \in {{}} \cup {{x} : x \in Kbs} :
           /\ \A x \in kbs : x[1] = t
           /\ Asks(s, t, kbs)
    /\ UNCHANGED <<stores, up, faults>>

(* retrieve_chunks for one knowledge base; a failure skips it.             *)
AskKb(s) ==
    /\ search[s].pc = "ask"
    /\ \E x \in search[s].todo :
         \/ /\ \E list \in Nearest(TopK, {p \in Articles : <<p.tenant, p.slug>> = x}) :
                  search' = [search EXCEPT ![s].todo = @ \ {x}, ![s].asked = @ \cup {x},
                      ![s].hits = @ \cup {p \in ToSet(list) : p.score >= Threshold}]
            /\ UNCHANGED faults
         \/ Fault /\ search' = [search EXCEPT ![s].todo = @ \ {x}]
    /\ UNCHANGED <<stores, up>>

(* Mutant: the hits are cut to top_k in whatever order they came.          *)
Merge_Unsorted(s) ==
    /\ search[s].pc = "ask" /\ search[s].todo = {}
    /\ \E list \in SetToSeqs(search[s].hits) :
           search' = [search EXCEPT ![s].pc = "merged", ![s].result = SubSeq(list, 1,
               IF TopK < Len(list) THEN TopK ELSE Len(list))]
    /\ UNCHANGED <<stores, up, faults>>

(* All lists in one, the best first, cut to top_k.                         *)
Merge(s) ==
    /\ search[s].pc = "ask" /\ search[s].todo = {}
    /\ \E list \in Nearest(TopK, search[s].hits) :
           search' = [search EXCEPT ![s].pc = "merged", ![s].result = list]
    /\ UNCHANGED <<stores, up, faults>>

-----------------------------------------------------------------------------
(* search_multimodal_kb.                                                   *)

(* An unknown slug finds nothing, and neither does a failed lookup or      *)
(* embedding.                                                              *)
SearchMultimodal(s) ==
    /\ search[s].pc = "idle"
    /\ \E t \in Tenants, g \in Slugs \cup {NULL} :
         \/ /\ g = NULL \/ <<t, g>> \in Kbs
            /\ search' = [search EXCEPT ![s].pc = "text", ![s].tenant = t, ![s].slug = g]
            /\ UNCHANGED faults
         \/ /\ \/ g # NULL /\ <<t, g>> \notin Kbs /\ UNCHANGED faults
               \/ Fault
            /\ search' = [search EXCEPT ![s].pc = "fused", ![s].tenant = t, ![s].slug = g]
    /\ UNCHANGED <<stores, up>>

(* Only article points carry the id of a knowledge base: with a slug the   *)
(* text of an uploaded PDF is not among the candidates.                    *)
TextCandidates(t, g) ==
    {p \in Articles \cup texts :
        p.tenant = t /\ (g # NULL => p.kind = "article" /\ p.slug = g)}

(* _search_text: twice top_k; a failure is an empty list.                  *)
SearchText(s) ==
    /\ search[s].pc = "text"
    /\ \/ /\ \E list \in Nearest(2 * TopK,
                               TextCandidates(search[s].tenant, search[s].slug)) :
                 search' = [search EXCEPT ![s].pc = "image", ![s].text = list]
          /\ UNCHANGED faults
       \/ search' = [search EXCEPT ![s].pc = "image"] /\ Fault
    /\ UNCHANGED <<stores, up>>

(* _search_images: only with a slug, and where a vision model is set up.   *)
(* The tool asks with a zero vector, to which no image is nearer than      *)
(* another; a failure is an empty list.                                    *)
SearchImages(s) ==
    /\ search[s].pc = "image"
    /\ \E list \in {<<>>} \cup Listed(2 * TopK,
              {p \in images : p.tenant = search[s].tenant /\ p.slug = search[s].slug}) :
           search' = [search EXCEPT ![s].pc = "fuse", ![s].image = list]
    /\ UNCHANGED <<stores, up, faults>>

(* What a list adds to a hit's weight, as a fraction.                      *)
Rrf(p, list) == IF Contains(list, p)
                THEN <<1, RRF_K + (CHOOSE r \in DOMAIN list : list[r] = p)>> ELSE <<0, 1>>
Plus(x, y) == <<x[1] * y[2] + y[1] * x[2], x[2] * y[2]>>
Exceeds(x, y) == x[1] * y[2] > y[1] * x[2]

(* Mutant: the hits in the order of their similarity.                      *)
rrf_fuse_ByScore(text, image) ==
    LET hits == ToSet(text) \cup ToSet(image)
    IN {list \in [1..Cardinality(hits) -> hits] :
           \A m, n \in DOMAIN list :
               m < n => list[m] # list[n] /\ list[m].score >= list[n].score}

(* _rrf_fuse: the sum of 1 / (RRF_K + rank) over the lists; the sort is    *)
(* stable, and the text's hits were entered first.                         *)
rrf_fuse(text, image) ==
    LET hits == ToSet(text) \cup ToSet(image)
        weight(p) == Plus(Rrf(p, text), Rrf(p, image))
        entered(p) == CHOOSE r \in DOMAIN (text \o image) : (text \o image)[r] = p
    IN {list \in [1..Cardinality(hits) -> hits] :
           \A m, n \in DOMAIN list : m < n =>
               \/ Exceeds(weight(list[m]), weight(list[n]))
               \/ /\ ~Exceeds(weight(list[n]), weight(list[m]))
                  /\ entered(list[m]) < entered(list[n])}

(* The first hits are what the model reads.                                *)
Fuse(s) ==
    /\ search[s].pc = "fuse"
    /\ \E all \in rrf_fuse(search[s].text, search[s].image) :
       search' = [search EXCEPT ![s].pc = "fused", ![s].result =
                     SubSeq(all, 1, IF MaxShown < Len(all) THEN MaxShown ELSE Len(all))]
    /\ UNCHANGED <<stores, up, faults>>

-----------------------------------------------------------------------------
UploadStep(u) ==
    Put(u) \/ Extract(u) \/ Encode(u) \/ UpsertText(u) \/ UpsertImages(u) \/ InsertRow(u)
SearchStep(s) == AskKb(s) \/ Merge(s) \/ SearchText(s) \/ SearchImages(s) \/ Fuse(s)

DocNext ==
    \/ \E u \in Uploads : Upload(u) \/ UploadStep(u)
    \/ \E s \in Searches :
          SearchInternal(s) \/ BuildContext(s) \/ SearchMultimodal(s) \/ SearchStep(s)

Next ==
    \/ ChunkNext /\ UNCHANGED docVars
    \/ DocNext /\ UNCHANGED chunkVars

(* A job that has been started goes on.                                    *)
Spec == Init /\ [][Next]_vars /\ WF_chunkVars(ChunkNext /\ UNCHANGED docVars)

-----------------------------------------------------------------------------
(* Type correctness.                                                       *)
Point == [kind : {"article", "text", "image"}, tenant : Tenants, slug : Slugs,
          src : Uploads \cup {NULL}, page : Pages \cup Nat, score : Nat]
UploadState ==
    [pc : {"idle", "put", "extract", "encode", "text", "image", "row", "done", "failed"},
     tenant : Tenants \cup {NULL}, slug : Slugs \cup {NULL},
     texts : SUBSET Pages, images : SUBSET Pages]
SearchState ==
    [pc : {"idle", "ask", "merged", "text", "image", "fuse", "fused"},
     tenant : Tenants \cup {NULL}, slug : Slugs \cup {NULL},
     todo : SUBSET Kbs, asked : SUBSET Kbs, hits : SUBSET Articles,
     text : Seq(Point), image : Seq(Point), result : Seq(Point)]
TypeOK ==
    /\ objects \subseteq Uploads
    /\ texts \subseteq Point /\ images \subseteq Point
    /\ rows \subseteq [src : Uploads, texts : Nat, images : Nat]
    /\ up \in [Uploads -> UploadState]
    /\ search \in [Searches -> SearchState]
    /\ faults \in Nat

-----------------------------------------------------------------------------
(* Properties.                                                             *)

(* An article that is listed is found in full: as many text and image      *)
(* points as its row counts are stored, whatever failed on the way.        *)
ListedMeansFound ==
    \A r \in rows :
        /\ Cardinality({p \in texts : p.src = r.src}) = r.texts
        /\ Cardinality({p \in images : p.src = r.src}) = r.images

(* The file of an article that is listed, and of every hit a search shows, *)
(* is stored, also when the upload has failed since and is not listed; and *)
(* a search shows hits of its own tenant only.                             *)
CanBeOpened ==
    /\ \A r \in rows : r.src \in objects
    /\ \A s \in Searches : \A p \in ToSet(search[s].result) :
           p.tenant = search[s].tenant /\ (p.kind # "article" => p.src \in objects)

(* The answer over several knowledge bases is the best top_k of all points *)
(* above the threshold in the ones that answered, although each was asked  *)
(* for top_k only.                                                         *)
Best(s) == {p \in Articles : <<p.tenant, p.slug>> \in search[s].asked /\ p.score >= Threshold}
BestOfAll ==
    \A s \in Searches : search[s].pc = "merged" =>
        LET r == search[s].result IN
        /\ ToSet(r) \subseteq Best(s)
        /\ Len(r) = (IF TopK < Cardinality(Best(s)) THEN TopK ELSE Cardinality(Best(s)))
        /\ \A p \in Best(s) \ ToSet(r) : \A n \in DOMAIN r : r[n].score >= p.score
        /\ \A m, n \in DOMAIN r : m < n => r[m].score >= r[n].score

(* Neither texts nor images crowd the other out: however far the model     *)
(* reads, both were shown in turn, and what is left over by the shorter    *)
(* list goes to the longer one.  So the first image is among the first two *)
(* hits, whatever the text search found.                                   *)
FairShares ==
    \A s \in Searches : search[s].pc = "fused" =>
        LET r == search[s].result
            share(list, n, k) == Cardinality(ToSet(SubSeq(r, 1, n)) \cap ToSet(list))
                                     >= (IF Len(list) < k THEN Len(list) ELSE k)
        IN /\ \A n \in 1..Len(r) : /\ share(search[s].text, n, (n + 1) \div 2)
                                   /\ share(search[s].image, n, n \div 2)
           /\ Len(r) = (IF MaxShown < Len(search[s].text) + Len(search[s].image)
                        THEN MaxShown ELSE Len(search[s].text) + Len(search[s].image))

(* RRF_K "keeps the contribution of low-ranked hits non-trivial so a chunk *)
(* that's only in the text list at rank 8 can still boost past an          *)
(* image-only top-1" (multimodal/retriever.py:60-63).  No hit is in both   *)
(* lists, so no text from rank 2 on passes the first image, for any RRF_K. *)
LowRankedBoosts ==
    \A s \in Searches :
        search[s].pc = "fuse" /\ Len(search[s].text) > 1 /\ search[s].image # <<>> =>
            \E all \in rrf_fuse(search[s].text, search[s].image) : \E m, n \in DOMAIN all :
                m < n /\ all[m] = search[s].text[2] /\ all[n] = search[s].image[1]
=============================================================================
