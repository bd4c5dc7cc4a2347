------------------------------ MODULE Chunker ------------------------------
(***************************************************************************)
(* chunk_blocks_with_meta (epsilon_rag/pipeline/chunker.py): one pass over *)
(* the blocks of a whole document that packs them into chunks.  A step     *)
(* takes the next block.  Text is abstracted to its length and to the      *)
(* positions of the blocks it comes from.                                  *)
(***************************************************************************)
EXTENDS Integers, Sequences, SequencesExt

CONSTANTS
    Sources,      \* the block sequences that ingest may pass
    ChunkChars,   \* DEFAULT_CHUNK_CHARS
    SectionChars, \* characters of a heading kept as section title (300)
    MaxPieces     \* bound on the pieces the splitter makes of one block

BlockTypes == {"text", "footer", "heading", "table", "figure", "formula"}
Atomic     == {"table", "figure", "formula"}

(* A block with text: its length, its page, and whether it has a bbox.     *)
Block == [type : BlockTypes, size : Nat \ {0}, page : Nat \ {0}, boxed : BOOLEAN]

(* Blocks come page by page.                                               *)
ASSUME SourcesAssumption ==
    \A s \in Sources :
        /\ s \in Seq(Block)
        /\ \A i, j \in 1 .. Len(s) : i <= j => s[i].page <= s[j].page

ASSUME BoundsAssumption == /\ ChunkChars \in Nat \ {0}
                           /\ SectionChars \in Nat \ {0}
                           /\ MaxPieces \in Nat

VARIABLES
    source,      \* sorted_blocks
    next,        \* position of the next block
    chunks,      \* the chunks emitted so far
    pending,     \* the chunk being packed: current_text, current_types, ...
    last_section \* the running section title

vars == <<source, next, chunks, pending, last_section>>

(* A chunk being packed: positions of its blocks, block_types, the         *)
(* positions cited by bboxes, length of content, page_number (0 is None)   *)
(* and the positions of the headings in section_title.                     *)
Packing == [blocks : Seq(Nat), types : Seq(BlockTypes), boxes : Seq(Nat),
            size : Nat, page : Nat, section : Seq(Nat)]

(* A chunk that is emitted has a page: ingest would cite page 1 otherwise. *)
Chunk == {c \in Packing : c.page # 0}

TypeOK ==
    /\ source \in Seq(Block)
    /\ next \in 1 .. Len(source) + 1
    /\ chunks \in Seq(Chunk)
    /\ pending \in Packing
    /\ last_section \in Seq(Nat)

-----------------------------------------------------------------------------
(* The flattening of run_ingest_from_path: blank blocks are dropped, a     *)
(* page without blocks stands for one block of its aggregate text, and a   *)
(* page without a number is skipped.                                       *)
PageBlocks(p) ==
    IF p.blocks # <<>>
    THEN LET kept == SelectSeq(p.blocks, LAMBDA b : b.size > 0)
         IN  [i \in DOMAIN kept |->
                [type |-> kept[i].type, size |-> kept[i].size,
                 page |-> p.number, boxed |-> kept[i].boxed]]
    ELSE IF p.size > 0
         THEN <<[type |-> "text", size |-> p.size, page |-> p.number,
                 boxed |-> FALSE]>>
         ELSE <<>>

Flatten(pages) ==
    LET numbered == SelectSeq(pages, LAMBDA p : p.number # 0)
    IN  FlattenSeq([i \in DOMAIN numbered |-> PageBlocks(numbered[i])])

-----------------------------------------------------------------------------
BoxOf(i) == IF source[i].boxed THEN <<i>> ELSE <<>>

(* A chunk of block i alone, of which n characters are used.               *)
Single(i, n, section) ==
    [blocks |-> <<i>>, types |-> <<source[i].type>>, boxes |-> BoxOf(i),
     size |-> n, page |-> source[i].page, section |-> section]

(* flush(): emit the pending chunk and reset it.  current_section stays.   *)
Flushed == IF pending.blocks = <<>> THEN chunks ELSE Append(chunks, pending)

Reset == [blocks |-> <<>>, types |-> <<>>, boxes |-> <<>>,
          size |-> 0, page |-> 0, section |-> pending.section]

(* The pending chunk with the next block appended.                         *)
Grown(types, size, page, section) ==
    [blocks |-> Append(pending.blocks, next), types |-> types,
     boxes |-> pending.boxes \o BoxOf(next),
     size |-> size, page |-> page, section |-> section]

Init ==
    /\ source \in Sources
    /\ next = 1
    /\ chunks = <<>>
    /\ pending = [blocks |-> <<>>, types |-> <<>>, boxes |-> <<>>,
                  size |-> 0, page |-> 0, section |-> <<>>]
    /\ last_section = <<>>

(* The next block, if any, is of one of these types.                       *)
Next_is(types) ==
    /\ next <= Len(source)
    /\ source[next].type \in types
    /\ next' = next + 1
    /\ UNCHANGED source

Text == BlockTypes \ (Atomic \cup {"heading"})

(* Mutated form of EmitAtomic: the pending chunk is not flushed first.     *)
EmitAtomicNoFlush ==
    /\ Next_is(Atomic)
    /\ chunks' = Append(chunks, Single(next, source[next].size, last_section))
    /\ UNCHANGED <<pending, last_section>>

EmitAtomic ==
    /\ Next_is(Atomic)
    /\ chunks' = Append(Flushed, Single(next, source[next].size, last_section))
    /\ pending' = Reset
    /\ UNCHANGED last_section

(* Mutated form of MergeHeading: the merged heading loses its bbox.        *)
MergeHeadingDropsBox ==
    /\ Next_is({"heading"})
    /\ pending.types = <<"heading">>
    /\ last_section' = IF pending.size + 3 < SectionChars
                       THEN Append(last_section, next)
                       ELSE last_section
    /\ pending' = [Grown(pending.types, pending.size + 3 + source[next].size,
                         pending.page, last_section') EXCEPT !.boxes = pending.boxes]
    /\ UNCHANGED chunks

(* A heading after headings only: joined with " - ", three characters.     *)
MergeHeading ==
    /\ Next_is({"heading"})
    /\ pending.types = <<"heading">>
    /\ last_section' = IF pending.size + 3 < SectionChars
                       THEN Append(last_section, next)
                       ELSE last_section
    /\ pending' = Grown(pending.types, pending.size + 3 + source[next].size,
                        pending.page, last_section')
    /\ UNCHANGED chunks

(* Mutated form of StartHeading: the section is renamed before the flush.  *)
StartHeadingTitleFirst ==
    /\ Next_is({"heading"})
    /\ pending.types # <<"heading">>
    /\ chunks' = IF pending.blocks = <<>> THEN chunks
                 ELSE Append(chunks, [pending EXCEPT !.section = <<next>>])
    /\ last_section' = <<next>>
    /\ pending' = Single(next, source[next].size, <<next>>)

StartHeading ==
    /\ Next_is({"heading"})
    /\ pending.types # <<"heading">>
    /\ chunks' = Flushed
    /\ last_section' = <<next>>
    /\ pending' = Single(next, source[next].size, <<next>>)

(* A text longer than a chunk: the splitter cuts it into pieces of at most *)
(* a chunk, each of them cites the whole block.                            *)
SplitLong ==
    /\ Next_is(Text)
    /\ source[next].size > ChunkChars
    /\ \E n \in 2 .. MaxPieces :
         chunks' = Flushed \o
                   [k \in 1 .. n |-> Single(next, ChunkChars, last_section)]
    /\ pending' = Reset
    /\ UNCHANGED last_section

(* Length of the pending chunk with the next block: a blank line between.  *)
Joined == IF pending.blocks = <<>>
          THEN source[next].size
          ELSE pending.size + 2 + source[next].size

(* The pending chunk with the next text appended, cited at page p.         *)
Packed(p) ==
    Grown(Append(pending.types, source[next].type), Joined, p,
          IF pending.section = <<>> THEN last_section ELSE pending.section)

(* Mutated form of Pack: the limit is tested without the next block.       *)
PackLate ==
    /\ Next_is(Text)
    /\ source[next].size <= ChunkChars
    /\ pending.size <= ChunkChars
    /\ pending' = Packed(IF pending.page = 0 THEN source[next].page ELSE pending.page)
    /\ UNCHANGED <<chunks, last_section>>

(* Mutated form of Pack: the page of the first block is not remembered.    *)
PackNoPage ==
    /\ Next_is(Text)
    /\ source[next].size <= ChunkChars
    /\ Joined <= ChunkChars
    /\ pending' = Packed(pending.page)
    /\ UNCHANGED <<chunks, last_section>>

(* Mutated form of Pack: the chunk moves to the page of its last block.    *)
PackMovesPage ==
    /\ Next_is(Text)
    /\ source[next].size <= ChunkChars
    /\ Joined <= ChunkChars
    /\ pending' = Packed(source[next].page)
    /\ UNCHANGED <<chunks, last_section>>

Pack ==
    /\ Next_is(Text)
    /\ source[next].size <= ChunkChars
    /\ Joined <= ChunkChars
    /\ pending' = Packed(IF pending.page = 0 THEN source[next].page ELSE pending.page)
    /\ UNCHANGED <<chunks, last_section>>

(* The next block does not fit: it opens a chunk of its own.               *)
Overflow ==
    /\ Next_is(Text)
    /\ source[next].size <= ChunkChars
    /\ Joined > ChunkChars
    /\ chunks' = Flushed
    /\ pending' = Single(next, source[next].size, last_section)
    /\ UNCHANGED last_section

(* The flush after the loop.                                               *)
Finish ==
    /\ next > Len(source)
    /\ pending.blocks # <<>>
    /\ chunks' = Flushed
    /\ pending' = Reset
    /\ UNCHANGED <<source, next, last_section>>

Next == EmitAtomic \/ MergeHeading \/ StartHeading \/ SplitLong
        \/ Pack \/ Overflow \/ Finish

Spec == Init /\ [][Next]_vars

-----------------------------------------------------------------------------
(* Properties                                                              *)

(* The chunks with the pending one, which flush() may still grow.          *)
Parts == Flushed

First(c) == c.blocks[1]
Final(c) == c.blocks[Len(c.blocks)]

(* Nothing is lost, repeated or moved: the chunks are consecutive runs of  *)
(* blocks that together cover every block taken, in order; only the pieces *)
(* of one oversized block share it.                                        *)
BlocksInOrder ==
    /\ \A k \in 1 .. Len(Parts) :
         /\ Parts[k].blocks # <<>>
         /\ \A j \in 1 .. Len(Parts[k].blocks) :
              Parts[k].blocks[j] = First(Parts[k]) + j - 1
    /\ \A k \in 1 .. Len(Parts) - 1 :
         \/ First(Parts[k + 1]) = Final(Parts[k]) + 1
         \/ /\ First(Parts[k + 1]) = Final(Parts[k])
            /\ Parts[k].blocks = Parts[k + 1].blocks
            /\ source[Final(Parts[k])].type \in Text
            /\ source[Final(Parts[k])].size > ChunkChars
    /\ IF Parts = <<>>
       THEN next = 1
       ELSE First(Parts[1]) = 1 /\ Final(Parts[Len(Parts)]) = next - 1

(* A chunk is longer than the limit only if it is one table, figure or     *)
(* formula, or headings and nothing else; and those three stand alone.     *)
ChunksAreBounded ==
    \A k \in 1 .. Len(Parts) :
        /\ \/ Parts[k].size <= ChunkChars
           \/ source[First(Parts[k])].type \in Atomic
           \/ Parts[k].types = <<"heading">>
        /\ \A j \in 1 .. Len(Parts[k].blocks) :
             source[Parts[k].blocks[j]].type \in Atomic => Len(Parts[k].blocks) = 1

(* (page_number, chunk_index), the order in which retrieval looks for      *)
(* neighbours, is document order: a chunk is cited at the page of its      *)
(* first block and page numbers do not decrease along the chunks.          *)
PagesFollowOrder ==
    /\ \A k \in 1 .. Len(Parts) : Parts[k].page = source[First(Parts[k])].page
    /\ \A k, l \in 1 .. Len(Parts) : k <= l => Parts[k].page <= Parts[l].page

Rising(s) == IsSorted(s, <)

(* Every block of a chunk that has a bounding box is cited by it, once and *)
(* in order.                                                               *)
EveryBoxIsCited ==
    \A k \in 1 .. Len(Parts) :
        /\ ToSet(Parts[k].boxes) = {i \in ToSet(Parts[k].blocks) : source[i].boxed}
        /\ Rising(Parts[k].boxes)

(* How many characters stand before heading h in the joined title of an    *)
(* unbroken run of headings of document s.                                 *)
TitleBefore(s) ==
    LET before[h \in 1 .. Len(s)] ==
          IF h > 1 /\ s[h - 1].type = "heading"
          THEN before[h - 1] + s[h - 1].size + 3
          ELSE 0
    IN  before

(* The headings in force at block i: those of the last unbroken run of     *)
(* headings up to i, as far as they begin within SectionChars.             *)
HeadingsAt(i) ==
    LET Heading(h) == source[h].type = "heading"
    IN  {h \in 1 .. i :
           /\ Heading(h)
           /\ \A g \in h .. i : Heading(g) => \A f \in h .. g : Heading(f)
           /\ TitleBefore(source)[h] < SectionChars}

(* The section title of a chunk is the heading its last block stands       *)
(* under, across page breaks, tables and oversized blocks, although flush  *)
(* leaves current_section as it was.                                       *)
SectionIsEnclosingHeading ==
    \A k \in 1 .. Len(Parts) :
        /\ ToSet(Parts[k].section) = HeadingsAt(Final(Parts[k]))
        /\ Rising(Parts[k].section)
=============================================================================
