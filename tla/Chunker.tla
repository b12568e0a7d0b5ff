-------------------------------- MODULE Chunker --------------------------------
(***************************************************************************)
(* ChunkService.chunk (app/services/chunk.py): the windows cut out of a    *)
(* normalized text.  A text is told apart by its length and by the         *)
(* positions that hold white space; what _normalize strips is outside.     *)
(* One step is one turn of the loop.                                       *)
(***************************************************************************)
EXTENDS Integers, Sequences

CONSTANTS
    Lengths,    \* lengths of the normalized texts
    Sizes,      \* values of chunk_size, valid or not
    Overlaps    \* values of overlap, valid or not

VARIABLES
    length, size, overlap,
    blank,      \* the positions of white space
    start,
    chunks,     \* of each chunk its index and the positions [first, last)
    state       \* "cutting", "returned", or "refused" with ValueError

ASSUME ChunkerAssumption ==
    Lengths \subseteq Nat /\ Sizes \subseteq Int /\ Overlaps \subseteq Int

chunkVars == <<length, size, overlap, blank, start, chunks, state>>

(* A normalized text neither starts nor ends with white space *)
Texts(n) == SUBSET (1 .. n - 2)

ChunkInit ==
    /\ length \in Lengths /\ size \in Sizes /\ overlap \in Overlaps
    /\ blank \in Texts(length)
    /\ start = 0 /\ chunks = <<>> /\ state = "cutting"

(* Faulty forms of definitions below, for the mutation runs of the README *)
Following_Skips(end) == end + 1

Refuse ==
    /\ state = "cutting" /\ chunks = <<>>
    /\ size <= 0 \/ overlap < 0 \/ overlap >= size
    /\ state' = "refused"
    /\ UNCHANGED <<length, size, overlap, blank, start, chunks>>

End == IF start + size < length THEN start + size ELSE length

Following(end) == end - overlap

Written(first, last) == {i \in first .. last - 1 : i \notin blank}

(* A window of nothing but white space gives no chunk and takes no index *)
Cut ==
    /\ state = "cutting" /\ size > 0 /\ overlap >= 0 /\ overlap < size /\ start < length
    /\ chunks' = IF Written(start, End) # {}
                 THEN Append(chunks, [index |-> Len(chunks), first |-> start, last |-> End])
                 ELSE chunks
    /\ IF End >= length
       THEN state' = "returned" /\ UNCHANGED start
       ELSE start' = Following(End) /\ UNCHANGED state
    /\ UNCHANGED <<length, size, overlap, blank>>

(* The empty text *)
Nothing ==
    /\ state = "cutting" /\ size > 0 /\ overlap >= 0 /\ overlap < size /\ start >= length
    /\ state' = "returned"
    /\ UNCHANGED <<length, size, overlap, blank, start, chunks>>

ChunkNext == Refuse \/ Cut \/ Nothing

ChunkSpec == ChunkInit /\ [][ChunkNext]_chunkVars

-----------------------------------------------------------------------------
(* No character of the text is lost between two chunks: each one written    *)
(* before the window is in a chunk, when chunk() returns every one is; the  *)
(* window moves at every turn, so that the loop ends.                       *)
ChunksCover ==
    /\ \A i \in Written(0, IF state = "returned" THEN length ELSE start) :
            \E c \in DOMAIN chunks : chunks[c].first <= i /\ i < chunks[c].last
    /\ \A c \in DOMAIN chunks : \A d \in 1 .. c - 1 : chunks[d].first < chunks[c].first
    /\ state = "returned" => chunks # <<>> \/ length = 0
=============================================================================
