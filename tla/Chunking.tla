------------------------------ MODULE Chunking ------------------------------
(***************************************************************************)
(* chunk_document: a parsed document, the structured blocks first and the  *)
(* linear text last, becomes the chunks that are embedded.                 *)
(*                                                                         *)
(* A section is its number of words, and a chunk is the words of a section *)
(* it holds, counted from 0.  The formats a document may have are left     *)
(* out: whatever the parser makes of them is one of the documents.         *)
(***************************************************************************)
EXTENDS Integers, Sequences

CONSTANTS
    Docs,      \* parsed documents
    Sizes,     \* values of chunk_size a knowledge base may carry
    Overlaps   \* values of chunk_overlap

(* A block of a type the chunker does not know.                            *)
Unknown == -1

ASSUME ChunkingAssumption ==
    /\ Docs \subseteq Seq(Int) /\ Sizes \subseteq Int /\ Overlaps \subseteq Int
    /\ \A d \in Docs : /\ d # <<>> /\ d[Len(d)] # Unknown
                       /\ \A s \in DOMAIN d : d[s] = Unknown \/ d[s] \in Nat

VARIABLES
    doc, size, overlap,  \* the arguments
    section,             \* the section being cut
    i,                   \* where its next window starts
    chunks,              \* the chunks so far
    cut                  \* "parse", "chunk", "done" or "refused"

chunkVars == <<doc, size, overlap, section, i, chunks, cut>>

ChunkInit ==
    /\ doc \in Docs /\ size \in Sizes /\ overlap \in Overlaps
    /\ section = 1 /\ i = 0 /\ chunks = {} /\ cut = "parse"

(* Mutant: an overlap of the whole window is accepted.                     *)
validate_config_Equal == size > 0 /\ overlap >= 0 /\ overlap <= size

(* _validate_config.                                                       *)
validate_config == size > 0 /\ overlap >= 0 /\ overlap < size

(* parse_document, which refuses a file that is too large or of no known   *)
(* format, and then the head of chunk_document.                            *)
ParseDocument ==
    /\ cut = "parse"
    /\ \/ cut' = "refused"
       \/ validate_config /\ cut' = "chunk"
    /\ UNCHANGED <<doc, size, overlap, section, i, chunks>>

NextSection ==
    /\ section' = IF section = Len(doc) THEN section ELSE section + 1
    /\ cut' = IF section = Len(doc) THEN "done" ELSE "chunk"
    /\ i' = 0

IsText == section = Len(doc)

(* _chunk_block: nothing for an unknown block, one chunk, which may be     *)
(* empty, for one that fits.                                               *)
WholeBlock ==
    /\ cut = "chunk" /\ ~IsText /\ doc[section] <= size
    /\ chunks' = IF doc[section] = Unknown THEN chunks
                 ELSE chunks \cup {[section |-> section, from |-> 0, to |-> doc[section]]}
    /\ NextSection
    /\ UNCHANGED <<doc, size, overlap>>

(* Mutant: the windows are laid end to end.                                *)
Window_EndToEnd ==
    /\ cut = "chunk" /\ (IsText \/ doc[section] > size) /\ i < doc[section]
    /\ LET to == IF i + size < doc[section] THEN i + size ELSE doc[section] IN
       /\ chunks' = chunks \cup {[section |-> section, from |-> i, to |-> to]}
       /\ IF to - i < size THEN NextSection
          ELSE i' = i + size /\ UNCHANGED <<section, cut>>
    /\ UNCHANGED <<doc, size, overlap>>

(* chunk_text: one round of the loop.  A window that is not full is the    *)
(* last; a full one is followed by another even when it reaches the end.   *)
Window ==
    /\ cut = "chunk" /\ (IsText \/ doc[section] > size) /\ i < doc[section]
    /\ LET to == IF i + size < doc[section] THEN i + size ELSE doc[section] IN
       /\ chunks' = chunks \cup {[section |-> section, from |-> i, to |-> to]}
       /\ IF to - i < size THEN NextSection
          ELSE i' = i + (size - overlap) /\ UNCHANGED <<section, cut>>
    /\ UNCHANGED <<doc, size, overlap>>

(* The loop's condition fails: no word, or none left.                      *)
EndOfSection ==
    /\ cut = "chunk" /\ (IsText \/ doc[section] > size) /\ i >= doc[section]
    /\ NextSection
    /\ UNCHANGED <<doc, size, overlap, chunks>>

ChunkNext == ParseDocument \/ WholeBlock \/ Window \/ EndOfSection

ChunkSpec == ChunkInit /\ [][ChunkNext]_chunkVars /\ WF_chunkVars(ChunkNext)

-----------------------------------------------------------------------------
(* Properties.                                                             *)

(* A section that has been cut.                                            *)
Cut(s) == cut \in {"chunk", "done"} /\ doc[s] # Unknown /\ (s < section \/ cut = "done")

(* What the overlap is for: overlap + 1 words or less that follow each     *)
(* other in a section are found together in one of its chunks, so that no  *)
(* phrase of that length is lost at a boundary; and no chunk is longer     *)
(* than the size, whatever the lengths, the size and the overlap.          *)
Holds(c, s, v, w) == c.section = s /\ c.from <= v /\ w < c.to
PhrasesKept ==
    /\ \A s \in DOMAIN doc : Cut(s) =>
          \A v, w \in 0..(doc[s] - 1) : v <= w /\ w - v <= overlap =>
              \E c \in chunks : Holds(c, s, v, w)
    /\ \A c \in chunks : c.to - c.from <= size

(* The loop ends for every document: each window makes progress.           *)
ChunkingEnds == <>(cut \in {"done", "refused"})
=============================================================================
